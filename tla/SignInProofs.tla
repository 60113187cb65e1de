----------------------------- MODULE SignInProofs -----------------------------
(***************************************************************************)
(* Theorems about module SignIn, for any number of requests, addresses,    *)
(* clubs, links and invitations and any lifetimes.                         *)
(***************************************************************************)
EXTENDS SignIn, TLAPS

(* Where a request has used a link up and has not opened a session yet. *)
Spending == {"owner", "pending", "join", "accept", "session"}

(***************************************************************************)
(* A request only holds places of links and invitations that exist.        *)
(***************************************************************************)
Holds(r) ==
  /\ req[r].at \in Spending \cup {"mail", "consume"} => req[r].link \in DOMAIN links
  /\ req[r].at \in {"join", "accept"} => req[r].invite \in DOMAIN invites

TypeInv == TypeOK /\ \A r \in Requests : Holds(r)

-----------------------------------------------------------------------------
LEMMA IdleType == Idle \in RequestStates /\ Idle.at = "idle"
  BY SignInAssumption DEF Idle, RequestStates

(***************************************************************************)
(* What typing says of the rows, the way the steps below use it.           *)
(***************************************************************************)
LEMMA RowTypes ==
  ASSUME TypeOK
  PROVE  /\ DOMAIN links = 1..Len(links) /\ Len(links) \in Nat
         /\ \A l \in DOMAIN links : links[l] \in LinkRow
         /\ DOMAIN invites = 1..Len(invites) /\ Len(invites) \in Nat
         /\ \A i \in DOMAIN invites : invites[i] \in Invitation
         /\ DOMAIN links \subseteq Links
         /\ DOMAIN invites \subseteq 0..MaxInvites
         /\ time \in Nat /\ MaxLinks \in Nat /\ MaxInvites \in Nat
  BY SignInAssumption DEF TypeOK, Links

LEMMA ReqTypes ==
  ASSUME TypeOK, NEW r \in Requests
  PROVE  /\ req[r] \in RequestStates
         /\ req[r].at \in Stages \cup {"idle"} /\ req[r].now \in 0..MaxTime
         /\ req[r].email \subseteq Addresses
         /\ req[r].link \in 0..MaxLinks /\ req[r].invite \in 0..MaxInvites
<1>1. req[r] \in RequestStates
  BY DEF TypeOK
<1> QED
  BY <1>1 DEF RequestStates

(***************************************************************************)
(* A step that replaces the state of request r by one that is typed and    *)
(* holds places that exist, and deletes no row, keeps the typing of req.   *)
(***************************************************************************)
LEMMA ReqStep ==
  ASSUME TypeInv, NEW r \in Requests, NEW s \in RequestStates,
         req' = [req EXCEPT ![r] = s],
         DOMAIN links \subseteq DOMAIN links', DOMAIN invites \subseteq DOMAIN invites',
         s.at \in Spending \cup {"mail", "consume"} => s.link \in DOMAIN links',
         s.at \in {"join", "accept"} => s.invite \in DOMAIN invites'
  PROVE  req' \in [Requests -> RequestStates] /\ \A q \in Requests : Holds(q)'
<1>1. req' \in [Requests -> RequestStates]
  BY DEF TypeInv, TypeOK
<1>2. ASSUME NEW q \in Requests PROVE Holds(q)'
  <2>1. CASE q = r
    BY <2>1 DEF Holds, TypeInv, TypeOK
  <2>2. CASE q # r
    <3>1. req'[q] = req[q] /\ Holds(q)
      BY <2>2 DEF TypeInv, TypeOK
    <3> QED
      BY <3>1 DEF Holds
  <2> QED
    BY <2>1, <2>2
<1> QED
  BY <1>1, <1>2

(***************************************************************************)
(* Returning, and going to a stage that holds no more than the last one.   *)
(***************************************************************************)
LEMMA ReturnStep ==
  ASSUME TypeInv, NEW r \in Requests, Return(r),
         DOMAIN links \subseteq DOMAIN links', DOMAIN invites \subseteq DOMAIN invites'
  PROVE  req' \in [Requests -> RequestStates] /\ \A q \in Requests : Holds(q)'
<1>1. Idle.at \notin Spending \cup {"mail", "consume", "join", "accept"}
  BY DEF Idle, Spending
<1> QED
  BY <1>1, IdleType, ReqStep DEF Return

LEMMA GotoStep ==
  ASSUME TypeInv, NEW r \in Requests, NEW at \in Stages, Goto(r, at),
         DOMAIN links \subseteq DOMAIN links', DOMAIN invites \subseteq DOMAIN invites',
         at \in Spending \cup {"mail", "consume"}
           => req[r].at \in Spending \cup {"mail", "consume"},
         at \in {"join", "accept"} => req[r].at \in {"join", "accept"}
  PROVE  req' \in [Requests -> RequestStates] /\ \A q \in Requests : Holds(q)'
<1> DEFINE s == [req[r] EXCEPT !.at = at]
<1>1. req[r] \in RequestStates /\ Holds(r)
  BY DEF TypeInv, TypeOK
<1>2. s \in RequestStates
  BY <1>1 DEF RequestStates
<1>3. s.at = at /\ s.link = req[r].link /\ s.invite = req[r].invite
  BY <1>1 DEF RequestStates
<1>4. req' = [req EXCEPT ![r] = s]
  BY DEF Goto, TypeInv, TypeOK
<1>5. at \in Spending \cup {"mail", "consume"} => s.link \in DOMAIN links'
  BY <1>1, <1>3 DEF Holds
<1>6. at \in {"join", "accept"} => s.invite \in DOMAIN invites'
  BY <1>1, <1>3 DEF Holds
<1> HIDE DEF s
<1> QED
  BY <1>2, <1>3, <1>4, <1>5, <1>6, ReqStep

-----------------------------------------------------------------------------
LEMMA TypeInit == Init => TypeInv
<1> SUFFICES ASSUME Init PROVE TypeInv
  OBVIOUS
<1>1. users \subseteq Addresses /\ members \subseteq Clubs \X Addresses
  BY SignInAssumption DEF Init
<1>2. req \in [Requests -> RequestStates]
  BY IdleType DEF Init
<1>3. invites \in Seq(Invitation) /\ Len(invites) <= MaxInvites
      /\ links \in Seq(LinkRow) /\ Len(links) <= MaxLinks
  BY SignInAssumption DEF Init
<1>4. time \in 0..MaxTime /\ mailed \subseteq DOMAIN links
      /\ signIns \in [Links -> Nat]
  BY SignInAssumption DEF Init
<1>5. \A r \in Requests : Holds(r)
  <2>1. \A r \in Requests : req[r].at = "idle"
    BY IdleType DEF Init
  <2> QED
    BY <2>1 DEF Holds, Spending
<1> QED
  BY <1>1, <1>2, <1>3, <1>4, <1>5 DEF TypeInv, TypeOK

(***************************************************************************)
(* The steps that add or change rows.                                      *)
(***************************************************************************)
LEMMA TypeInvite ==
  ASSUME TypeInv, NEW a \in Addresses, NEW c \in Clubs, Invite(a, c)
  PROVE  TypeInv' /\ DOMAIN invites \subseteq DOMAIN invites'
<1> DEFINE new == [email |-> a, club |-> c,
                   expires |-> time + InviteLifetime, accepted |-> FALSE]
<1>1. new \in Invitation
  BY RowTypes, SignInAssumption DEF TypeInv, Invitation
<1>2. invites' = Append(invites, new) /\ Len(invites) < MaxInvites
  BY DEF Invite
<1> HIDE DEF new
<1>3. invites' \in Seq(Invitation) /\ Len(invites') = Len(invites) + 1
  BY <1>1, <1>2 DEF TypeInv, TypeOK
<1>4. DOMAIN invites' = 1..(Len(invites) + 1) /\ Len(invites') <= MaxInvites
  BY <1>2, <1>3, RowTypes DEF TypeInv
<1>5. DOMAIN invites \subseteq DOMAIN invites'
  BY <1>4, RowTypes DEF TypeInv
<1>6. \A r \in Requests : Holds(r)'
  BY <1>5 DEF TypeInv, Holds, Invite
<1>7. TypeOK'
  BY <1>3, <1>4 DEF TypeInv, TypeOK, Invite, traces
<1> QED
  BY <1>5, <1>6, <1>7 DEF TypeInv

LEMMA TypeCreateLoginToken ==
  ASSUME TypeInv, NEW r \in Requests, NEW a \in Addresses, CreateLoginToken(r, a)
  PROVE  TypeInv' /\ DOMAIN links \subseteq DOMAIN links'
<1> DEFINE new == [user |-> a, expires |-> req[r].now + LinkLifetime,
                   used |-> FALSE, kept |-> TRUE]
           s == [req[r] EXCEPT !.at = "mail", !.link = Len(links')]
<1>1. new \in LinkRow
  <2>1. req[r].now \in 0..MaxTime
    BY ReqTypes DEF TypeInv
  <2>2. req[r].now + LinkLifetime \in Nat
    BY <2>1, SignInAssumption
  <2> QED
    BY <2>2 DEF LinkRow
<1>2. links' = Append(links, new) /\ Len(links) < MaxLinks
      /\ req' = [req EXCEPT ![r].at = "mail", ![r].link = Len(links')]
  BY DEF CreateLoginToken
<1>3. req[r] \in RequestStates
  BY ReqTypes DEF TypeInv
<1>4. req' = [req EXCEPT ![r] = s]
  BY <1>2 DEF TypeInv, TypeOK
<1> HIDE DEF new
<1>5. links' \in Seq(LinkRow) /\ Len(links') = Len(links) + 1
  BY <1>1, <1>2 DEF TypeInv, TypeOK
<1>6. DOMAIN links' = 1..(Len(links) + 1) /\ Len(links') <= MaxLinks
  BY <1>2, <1>5, RowTypes DEF TypeInv
<1>7. DOMAIN links \subseteq DOMAIN links' /\ Len(links') \in DOMAIN links'
      /\ Len(links') \in 0..MaxLinks
  BY <1>5, <1>6, RowTypes DEF TypeInv
<1>8. s \in RequestStates /\ s.at = "mail" /\ s.link = Len(links')
  BY <1>3, <1>7 DEF RequestStates, Stages
<1>9. DOMAIN invites' = DOMAIN invites
  BY DEF CreateLoginToken
<1> HIDE DEF s
<1>10. req' \in [Requests -> RequestStates] /\ \A q \in Requests : Holds(q)'
  BY <1>4, <1>7, <1>8, <1>9, ReqStep
<1>11. mailed' \subseteq DOMAIN links'
  BY <1>7 DEF TypeInv, TypeOK, CreateLoginToken, traces
<1>12. TypeOK'
  BY <1>5, <1>6, <1>10, <1>11 DEF TypeInv, TypeOK, CreateLoginToken, traces
<1> QED
  BY <1>7, <1>10, <1>12 DEF TypeInv

LEMMA TypeConsumeLink ==
  ASSUME TypeInv, NEW r \in Requests, ConsumeLink(r)
  PROVE  TypeInv'
<1>1. req[r].at = "consume" /\ req[r].link \in DOMAIN links
  BY DEF ConsumeLink, TypeInv, Holds
<1>2. links' \in Seq(LinkRow) /\ Len(links') = Len(links) /\ DOMAIN links' = DOMAIN links
  <2>1. CASE UNCHANGED links
    BY <2>1 DEF TypeInv, TypeOK
  <2>2. CASE links' = [links EXCEPT ![req[r].link].used = TRUE]
    <3>1. [links[req[r].link] EXCEPT !.used = TRUE] \in LinkRow
      BY <1>1, RowTypes DEF TypeInv, LinkRow
    <3>2. links' = [links EXCEPT ![req[r].link] =
                      [links[req[r].link] EXCEPT !.used = TRUE]]
      BY <2>2, <1>1 DEF TypeInv, TypeOK
    <3> QED
      BY <1>1, <3>1, <3>2 DEF TypeInv, TypeOK
  <2> QED
    BY <2>1, <2>2 DEF ConsumeLink
<1>3. DOMAIN invites' = DOMAIN invites /\ (Goto(r, "owner") \/ Return(r))
  BY DEF ConsumeLink
<1>4. req' \in [Requests -> RequestStates] /\ \A q \in Requests : Holds(q)'
  <2>1. CASE Goto(r, "owner")
    BY <1>1, <1>2, <1>3, <2>1, GotoStep DEF Stages
  <2>2. CASE Return(r)
    BY <1>2, <1>3, <2>2, ReturnStep
  <2> QED
    BY <1>3, <2>1, <2>2
<1> QED
  BY <1>2, <1>4 DEF TypeInv, TypeOK, ConsumeLink, traces

LEMMA TypeReadOwner ==
  ASSUME TypeInv, NEW r \in Requests, ReadOwner(r)
  PROVE  TypeInv'
<1> DEFINE l == req[r].link
           s == [req[r] EXCEPT !.at = "pending", !.email = {links[l].user}]
<1>1. req[r].at = "owner" /\ l \in DOMAIN links /\ l \in Links /\ links[l] \in LinkRow
  BY RowTypes DEF ReadOwner, TypeInv, Holds, Spending
<1>2. UNCHANGED <<links, invites>>
  BY DEF ReadOwner, tables
<1>3. req' \in [Requests -> RequestStates] /\ \A q \in Requests : Holds(q)'
  <2>1. CASE Return(r)
    BY <1>2, <2>1, ReturnStep
  <2>2. CASE req' = [req EXCEPT ![r].at = "pending", ![r].email = {links[l].user}]
    <3>1. req' = [req EXCEPT ![r] = s] /\ req[r] \in RequestStates
      BY <2>2 DEF TypeInv, TypeOK
    <3>2. {links[l].user} \subseteq Addresses
      BY <1>1 DEF LinkRow
    <3>3. s \in RequestStates /\ s.at = "pending" /\ s.link = l
      BY <3>1, <3>2 DEF RequestStates, Stages
    <3> HIDE DEF s
    <3> QED
      BY <1>1, <1>2, <3>1, <3>3, ReqStep
  <2> QED
    BY <2>1, <2>2 DEF ReadOwner
<1> QED
  BY <1>2, <1>3 DEF TypeInv, TypeOK, ReadOwner, tables, traces

LEMMA TypeFindPending ==
  ASSUME TypeInv, NEW r \in Requests, NEW a \in Addresses, FindPending(r, a)
  PROVE  TypeInv'
<1>1. req[r].at = "pending" /\ req[r].link \in DOMAIN links /\ req[r] \in RequestStates
  BY DEF FindPending, TypeInv, TypeOK, Holds, Spending
<1>2. UNCHANGED <<links, invites>>
  BY DEF FindPending, tables
<1>3. req' \in [Requests -> RequestStates] /\ \A q \in Requests : Holds(q)'
  <2>1. CASE Goto(r, "session")
    BY <1>1, <1>2, <2>1, GotoStep DEF Stages, Spending
  <2>2. ASSUME NEW i \in Newest(Pending(a, req[r].now)),
               req' = [req EXCEPT ![r].at = "join", ![r].invite = i]
        PROVE  req' \in [Requests -> RequestStates] /\ \A q \in Requests : Holds(q)'
    <3> DEFINE s == [req[r] EXCEPT !.at = "join", !.invite = i]
    <3>1. i \in DOMAIN invites /\ i \in 0..MaxInvites
      BY RowTypes DEF Newest, Pending, TypeInv
    <3>2. req' = [req EXCEPT ![r] = s]
      BY <2>2 DEF TypeInv, TypeOK
    <3>3. s \in RequestStates /\ s.at = "join" /\ s.link = req[r].link /\ s.invite = i
      BY <1>1, <3>1 DEF RequestStates, Stages
    <3> HIDE DEF s
    <3> QED
      BY <1>1, <1>2, <3>1, <3>2, <3>3, ReqStep
  <2> QED
    BY <2>1, <2>2 DEF FindPending
<1> QED
  BY <1>2, <1>3 DEF TypeInv, TypeOK, FindPending, tables, traces

LEMMA TypeAcceptInvite ==
  ASSUME TypeInv, NEW r \in Requests, AcceptInvite(r)
  PROVE  TypeInv'
<1> DEFINE i == req[r].invite
<1>1. req[r].at = "accept" /\ i \in DOMAIN invites /\ invites[i] \in Invitation
      /\ req[r].link \in Links
  BY RowTypes DEF AcceptInvite, TypeInv, Holds, Spending
<1>2. invites' \in Seq(Invitation) /\ Len(invites') = Len(invites)
      /\ DOMAIN invites' = DOMAIN invites
  <2>1. [invites[i] EXCEPT !.accepted = TRUE] \in Invitation
    BY <1>1 DEF Invitation
  <2>2. invites' = [invites EXCEPT ![i] = [invites[i] EXCEPT !.accepted = TRUE]]
    BY <1>1 DEF AcceptInvite, TypeInv, TypeOK
  <2> QED
    BY <1>1, <2>1, <2>2 DEF TypeInv, TypeOK
<1>3. UNCHANGED links /\ (Goto(r, "session") \/ Return(r))
  BY DEF AcceptInvite
<1>4. req' \in [Requests -> RequestStates] /\ \A q \in Requests : Holds(q)'
  <2>1. CASE Goto(r, "session")
    BY <1>1, <1>2, <1>3, <2>1, GotoStep DEF Stages, Spending
  <2>2. CASE Return(r)
    BY <1>2, <1>3, <2>2, ReturnStep
  <2> QED
    BY <1>3, <2>1, <2>2
<1> QED
  BY <1>2, <1>3, <1>4 DEF TypeInv, TypeOK, AcceptInvite, traces

LEMMA TypeHousekeeping ==
  ASSUME TypeInv, Housekeeping
  PROVE  TypeInv'
<1> DEFINE cleared(l) == [links[l] EXCEPT !.kept = @ /\ ~links[l].used
                                                     /\ links[l].expires >= time]
<1>1. links' = [l \in 1..Len(links) |-> cleared(l)]
  BY RowTypes DEF Housekeeping, TypeInv
<1>2. \A l \in 1..Len(links) : cleared(l) \in LinkRow
  BY RowTypes DEF TypeInv, LinkRow
<1> HIDE DEF cleared
<1>3. links' \in Seq(LinkRow) /\ Len(links') = Len(links) /\ DOMAIN links' = DOMAIN links
  BY <1>1, <1>2, RowTypes DEF TypeInv
<1> QED
  BY <1>3 DEF TypeInv, TypeOK, Holds, Housekeeping, traces

(***************************************************************************)
(* The other steps of a request only move it on, or add to a set.          *)
(***************************************************************************)
LEMMA TypeArrive ==
  ASSUME TypeInv, NEW r \in Requests,
         \/ \E a \in Addresses : AskForLink(r, a)
         \/ \E l \in mailed : FollowLink(r, l)
  PROVE  TypeInv'
<1>1. req' \in [Requests -> RequestStates] /\ \A q \in Requests : Holds(q)'
  <2>1. ASSUME NEW a \in Addresses, AskForLink(r, a)
        PROVE  req' \in [Requests -> RequestStates] /\ \A q \in Requests : Holds(q)'
    <3> DEFINE s == [Idle EXCEPT !.at = "user", !.now = time, !.email = {a}]
    <3>1. {a} \in SUBSET Addresses /\ time \in 0..MaxTime
      BY DEF TypeInv, TypeOK
    <3>4. s \in RequestStates /\ s.at = "user"
      BY <3>1, IdleType DEF RequestStates, Stages
    <3>2. req' = [req EXCEPT ![r] = s] /\ UNCHANGED <<links, invites>>
      BY <2>1 DEF AskForLink, tables
    <3> HIDE DEF s
    <3> QED
      BY <3>2, <3>4, ReqStep DEF Spending
  <2>2. ASSUME NEW l \in mailed, FollowLink(r, l)
        PROVE  req' \in [Requests -> RequestStates] /\ \A q \in Requests : Holds(q)'
    <3> DEFINE s == [Idle EXCEPT !.at = "consume", !.now = time, !.link = l]
    <3>1. l \in DOMAIN links /\ l \in 0..MaxLinks
      BY RowTypes DEF TypeInv, TypeOK, Links
    <3>4. time \in 0..MaxTime
      BY DEF TypeInv, TypeOK
    <3>2. s \in RequestStates /\ s.at = "consume" /\ s.link = l
      BY <3>1, <3>4, IdleType DEF RequestStates, Stages
    <3>3. req' = [req EXCEPT ![r] = s] /\ UNCHANGED <<links, invites>>
      BY <2>2 DEF FollowLink, tables
    <3> HIDE DEF s
    <3> QED
      BY <3>1, <3>2, <3>3, ReqStep
  <2> QED
    BY <2>1, <2>2
<1>2. UNCHANGED <<time, tables, traces>>
  BY DEF AskForLink, FollowLink
<1> QED
  BY <1>1, <1>2 DEF TypeInv, TypeOK, tables, traces

LEMMA TypeAsk ==
  ASSUME TypeInv, NEW r \in Requests, NEW a \in Addresses,
         FindUser(r, a) \/ FindInvite(r, a) \/ CreateUser(r, a) \/ AddClubMember(r, a)
  PROVE  TypeInv'
<1>1. UNCHANGED <<links, invites>>
  BY DEF FindUser, FindInvite, CreateUser, AddClubMember, tables
<1>2. req' \in [Requests -> RequestStates] /\ \A q \in Requests : Holds(q)'
  <2>1. CASE Return(r)
    BY <1>1, <2>1, ReturnStep
  <2>2. ASSUME NEW at \in {"link", "invite", "create"}, Goto(r, at)
        PROVE  req' \in [Requests -> RequestStates] /\ \A q \in Requests : Holds(q)'
    BY <1>1, <2>2, GotoStep DEF Stages, Spending
  <2>3. CASE Goto(r, "accept") /\ req[r].at = "join"
    BY <1>1, <2>3, GotoStep DEF Stages, Spending
  <2> QED
    BY <2>1, <2>2, <2>3 DEF FindUser, FindInvite, CreateUser, AddClubMember
<1>3. users' \subseteq Addresses
  BY DEF TypeInv, TypeOK, FindUser, FindInvite, CreateUser, AddClubMember, tables
<1>4. members' \subseteq Clubs \X Addresses
  <2>1. CASE AddClubMember(r, a)
    <3>1. req[r].invite \in DOMAIN invites /\ invites[req[r].invite] \in Invitation
      BY <2>1, RowTypes DEF AddClubMember, TypeInv, Holds
    <3>2. invites[req[r].invite].club \in Clubs
      BY <3>1 DEF Invitation
    <3> QED
      BY <2>1, <3>2 DEF AddClubMember, TypeInv, TypeOK
  <2>2. CASE UNCHANGED members
    BY <2>2 DEF TypeInv, TypeOK
  <2> QED
    BY <2>1, <2>2 DEF FindUser, FindInvite, CreateUser, tables
<1>5. UNCHANGED <<time, traces>>
  BY DEF FindUser, FindInvite, CreateUser, AddClubMember
<1> QED
  BY <1>1, <1>2, <1>3, <1>4, <1>5 DEF TypeInv, TypeOK, traces

LEMMA TypeLast ==
  ASSUME TypeInv, NEW r \in Requests, SendMail(r) \/ CreateAuthSession(r) \/ Abort(r)
  PROVE  TypeInv'
<1>1. UNCHANGED <<time, tables>> /\ Return(r)
  BY DEF SendMail, CreateAuthSession, Abort
<1>2. req' \in [Requests -> RequestStates] /\ \A q \in Requests : Holds(q)'
  BY <1>1, ReturnStep DEF tables
<1>3. mailed' \subseteq DOMAIN links
  BY DEF TypeInv, TypeOK, Holds, SendMail, CreateAuthSession, Abort, traces
<1>4. signIns' \in [Links -> Nat]
  BY DEF TypeInv, TypeOK, SendMail, CreateAuthSession, Abort, traces
<1> QED
  BY <1>1, <1>2, <1>3, <1>4 DEF TypeInv, TypeOK, tables

LEMMA TypeNext == TypeInv /\ [Next]_vars => TypeInv'
<1> SUFFICES ASSUME TypeInv, [Next]_vars PROVE TypeInv'
  OBVIOUS
<1>1. CASE UNCHANGED vars
  BY <1>1 DEF TypeInv, TypeOK, Holds, vars, tables, traces
<1>2. CASE World
  <2>1. CASE Tick
    <3>1. time' \in 0..MaxTime
      BY <2>1, SignInAssumption DEF TypeInv, TypeOK, Tick
    <3>2. UNCHANGED <<users, invites, links, members, req, mailed, signIns>>
      BY <2>1 DEF Tick, tables, traces
    <3> QED
      BY <3>1, <3>2 DEF TypeInv, TypeOK, Holds
  <2> QED
    BY <1>2, <2>1, TypeInvite, TypeHousekeeping DEF World
<1>3. ASSUME NEW r \in Requests, Step(r) PROVE TypeInv'
  BY <1>3, TypeArrive, TypeAsk, TypeCreateLoginToken, TypeConsumeLink, TypeReadOwner,
     TypeFindPending, TypeAcceptInvite, TypeLast DEF Step
<1>4. ASSUME NEW r \in Requests, Abort(r) PROVE TypeInv'
  BY <1>4, TypeLast
<1> QED
  BY <1>1, <1>2, <1>3, <1>4 DEF Next

LEMMA TypeAlways == Spec => []TypeInv
  BY TypeInit, TypeNext, PTL DEF Spec

(***************************************************************************)
(* Type correctness of the tables and of every request in progress.        *)
(***************************************************************************)
THEOREM TypeCorrect == Spec => []TypeOK
<1>1. TypeInv => TypeOK
  BY DEF TypeInv
<1> QED
  BY <1>1, TypeAlways, PTL

-----------------------------------------------------------------------------
(***************************************************************************)
(* Why a link opens one session: a request that is spending a link has it  *)
(* to itself, the link is marked used and has opened no session yet; and   *)
(* every link that has opened one is marked used.                          *)
(***************************************************************************)
Used(l) == l \in DOMAIN links /\ links[l].used

Spends(r, l) == req[r].at \in Spending /\ req[r].link = l

SpendInv ==
  /\ \A r \in Requests, l \in Links : Spends(r, l) => Used(l) /\ signIns[l] = 0
  /\ \A r, q \in Requests, l \in Links : Spends(r, l) /\ Spends(q, l) => r = q
  /\ \A l \in Links : signIns[l] > 0 => Used(l)
  /\ LinkWorksOnce

LEMMA SpendInit == Init => SpendInv
<1> SUFFICES ASSUME Init PROVE SpendInv
  OBVIOUS
<1>1. \A r \in Requests : req[r].at = "idle"
  BY IdleType DEF Init
<1>2. \A l \in Links : signIns[l] = 0
  BY DEF Init
<1> QED
  BY <1>1, <1>2 DEF SpendInv, Spends, Spending, LinkWorksOnce

(***************************************************************************)
(* A step keeps SpendInv if it opens no session, unmarks no link, and lets *)
(* no request start spending a link.                                       *)
(***************************************************************************)
LEMMA SpendKept ==
  ASSUME SpendInv, UNCHANGED signIns, \A l \in Links : Used(l) => Used(l)',
         \A q \in Requests, l \in Links : Spends(q, l)' => Spends(q, l)
  PROVE  SpendInv'
  BY DEF SpendInv, LinkWorksOnce

LEMMA LinksKept ==
  UNCHANGED links => \A l \in Links : Used(l) => Used(l)'
  BY DEF Used

(***************************************************************************)
(* A step of request r that lets no request start spending a link: r ends  *)
(* up outside Spending, or was inside it and keeps its link.               *)
(***************************************************************************)
StartsNone(r) ==
  /\ \A q \in Requests : q # r => req'[q] = req[q]
  /\ \/ req'[r].at \notin Spending
     \/ req[r].at \in Spending /\ req'[r].link = req[r].link

LEMMA NobodyStarts ==
  ASSUME TypeInv, NEW r \in Requests, StartsNone(r)
  PROVE  \A q \in Requests, l \in Links : Spends(q, l)' => Spends(q, l)
  BY DEF Spends, StartsNone

LEMMA ReqReturn ==
  ASSUME TypeInv, NEW r \in Requests, Return(r)
  PROVE  req'[r] = Idle /\ \A q \in Requests : q # r => req'[q] = req[q]
  BY DEF Return, TypeInv, TypeOK

LEMMA ReqGoto ==
  ASSUME TypeInv, NEW r \in Requests, NEW at, Goto(r, at)
  PROVE  /\ req'[r].at = at /\ req'[r].link = req[r].link
         /\ req'[r].invite = req[r].invite /\ req'[r].email = req[r].email
         /\ \A q \in Requests : q # r => req'[q] = req[q]
<1>1. req[r] \in RequestStates
  BY ReqTypes DEF TypeInv
<1> QED
  BY <1>1 DEF Goto, TypeInv, TypeOK, RequestStates

LEMMA SpendConsumeLink ==
  ASSUME TypeInv, SpendInv, NEW r \in Requests, ConsumeLink(r)
  PROVE  SpendInv'
<1>0. PICK k \in Links : k = req[r].link
  BY RowTypes DEF ConsumeLink, TypeInv, Holds
<1>1. k \in DOMAIN links /\ UNCHANGED signIns
  BY <1>0, RowTypes DEF ConsumeLink, TypeInv, Holds, traces
<1>2. CASE Return(r) /\ UNCHANGED links
  BY <1>1, <1>2, IdleType, ReqReturn, NobodyStarts, LinksKept, SpendKept
     DEF Spending, StartsNone
<1>3. CASE /\ ~links[k].used /\ Goto(r, "owner")
           /\ links' = [links EXCEPT ![k].used = TRUE]
  <2>1. req'[r].at = "owner" /\ req'[r].link = k
        /\ \A q \in Requests : q # r => req'[q] = req[q]
    BY <1>0, <1>3, ReqGoto
  <2>2. links[k] \in LinkRow /\ DOMAIN links' = DOMAIN links
    BY <1>1, <1>3, RowTypes DEF TypeInv
  <2>3. \A l \in Links : Used(l) => Used(l)'
    BY <1>1, <1>3, <2>2, RowTypes DEF Used, TypeInv, LinkRow
  <2>4. Used(k)'
    <3>1. links'[k] = [links[k] EXCEPT !.used = TRUE]
      BY <1>1, <1>3
    <3>2. links'[k].used
      BY <2>2, <3>1 DEF LinkRow
    <3> QED
      BY <1>1, <2>2, <3>2 DEF Used
  <2>5. ~Used(k)
    BY <1>3 DEF Used
  <2>6. signIns[k] = 0 /\ \A q \in Requests : ~Spends(q, k)
    <3>1. signIns[k] \in Nat /\ ~(signIns[k] > 0)
      BY <1>1, <2>5 DEF SpendInv, TypeInv, TypeOK
    <3> QED
      BY <1>1, <2>5, <3>1 DEF SpendInv
  <2>7. \A q \in Requests, l \in Links : Spends(q, l)' => Spends(q, l) \/ (q = r /\ l = k)
    <3> SUFFICES ASSUME NEW q \in Requests, NEW l \in Links, Spends(q, l)'
                 PROVE  Spends(q, l) \/ (q = r /\ l = k)
      OBVIOUS
    <3>1. CASE q = r
      BY <2>1, <3>1 DEF Spends
    <3>2. CASE q # r
      BY <2>1, <3>2 DEF Spends
    <3> QED
      BY <3>1, <3>2
  <2>8. \A q \in Requests, l \in Links : Spends(q, l)' => Used(l)' /\ signIns'[l] = 0
    BY <1>1, <2>3, <2>4, <2>6, <2>7 DEF SpendInv
  <2>9. \A p, q \in Requests, l \in Links : Spends(p, l)' /\ Spends(q, l)' => p = q
    BY <2>6, <2>7 DEF SpendInv
  <2>10. \A l \in Links : signIns'[l] > 0 => Used(l)'
    BY <1>1, <2>3 DEF SpendInv
  <2>11. LinkWorksOnce'
    BY <1>1 DEF SpendInv, LinkWorksOnce
  <2> QED
    BY <2>8, <2>9, <2>10, <2>11 DEF SpendInv
<1> QED
  BY <1>0, <1>2, <1>3 DEF ConsumeLink

LEMMA SpendCreateAuthSession ==
  ASSUME TypeInv, SpendInv, NEW r \in Requests, CreateAuthSession(r)
  PROVE  SpendInv'
<1> DEFINE k == req[r].link
<1>1. k \in Links /\ Spends(r, k)
  BY RowTypes DEF CreateAuthSession, TypeInv, Holds, Spends, Spending
<1>2. signIns[k] = 0 /\ Used(k)
  BY <1>1 DEF SpendInv
<1>3. signIns'[k] = 1 /\ \A l \in Links : l # k => signIns'[l] = signIns[l]
  BY <1>1, <1>2 DEF CreateAuthSession, TypeInv, TypeOK
<1>4. UNCHANGED links /\ Return(r)
  BY DEF CreateAuthSession, tables
<1>5. \A q \in Requests, l \in Links : Spends(q, l)' => Spends(q, l) /\ q # r
  BY <1>4, IdleType, ReqReturn DEF Spends, Spending
<1>6. \A q \in Requests, l \in Links : Spends(q, l)' => l # k
  BY <1>1, <1>5 DEF SpendInv
<1>7. \A l \in Links : Used(l)' = Used(l)
  BY <1>4 DEF Used
<1>8. \A q \in Requests, l \in Links : Spends(q, l)' => Used(l)' /\ signIns'[l] = 0
  BY <1>3, <1>5, <1>6, <1>7 DEF SpendInv
<1>9. \A p, q \in Requests, l \in Links : Spends(p, l)' /\ Spends(q, l)' => p = q
  BY <1>5 DEF SpendInv
<1>10. \A l \in Links : signIns'[l] > 0 => Used(l)'
  BY <1>2, <1>3, <1>7 DEF SpendInv
<1>11. LinkWorksOnce'
  BY <1>3 DEF SpendInv, LinkWorksOnce
<1> QED
  BY <1>8, <1>9, <1>10, <1>11 DEF SpendInv

LEMMA SpendWorld ==
  ASSUME TypeInv, SpendInv, World
  PROVE  SpendInv'
<1>1. UNCHANGED <<req, signIns>>
  BY DEF World, Invite, Housekeeping, Tick, traces
<1>2. \A l \in Links : Used(l) => Used(l)'
  <2>1. CASE Housekeeping
    <3> SUFFICES ASSUME NEW l \in Links, Used(l) PROVE Used(l)'
      OBVIOUS
    <3>1. l \in DOMAIN links /\ links[l].used /\ links[l] \in LinkRow
      BY RowTypes DEF Used, TypeInv
    <3>2. l \in DOMAIN links' /\ links'[l].used
      BY <2>1, <3>1 DEF Housekeeping, LinkRow
    <3> QED
      BY <3>2 DEF Used
  <2>2. CASE UNCHANGED links
    BY <2>2, LinksKept
  <2> QED
    BY <2>1, <2>2 DEF World, Invite, Tick, tables
<1>3. \A q \in Requests, l \in Links : Spends(q, l)' => Spends(q, l)
  BY <1>1 DEF Spends
<1> QED
  BY <1>1, <1>2, <1>3, SpendKept

LEMMA SpendCreateLoginToken ==
  ASSUME TypeInv, SpendInv, NEW r \in Requests, NEW a \in Addresses,
         CreateLoginToken(r, a)
  PROVE  SpendInv'
<1> DEFINE new == [user |-> a, expires |-> req[r].now + LinkLifetime,
                   used |-> FALSE, kept |-> TRUE]
<1>1. links' = Append(links, new) /\ UNCHANGED signIns
      /\ req' = [req EXCEPT ![r].at = "mail", ![r].link = Len(links')]
  BY DEF CreateLoginToken, traces
<1>2. req[r] \in RequestStates /\ links \in Seq(LinkRow)
  BY DEF TypeInv, TypeOK
<1>3. req'[r].at = "mail" /\ \A q \in Requests : q # r => req'[q] = req[q]
  BY <1>1, <1>2 DEF TypeInv, TypeOK, RequestStates
<1> HIDE DEF new
<1>4. \A l \in 1..Len(links) : links'[l] = links[l]
  BY <1>1, <1>2
<1>5. DOMAIN links \subseteq DOMAIN links' /\ DOMAIN links = 1..Len(links)
  BY TypeCreateLoginToken, RowTypes DEF TypeInv
<1>6. \A l \in Links : Used(l) => Used(l)'
  BY <1>4, <1>5 DEF Used
<1> QED
  BY <1>1, <1>3, <1>6, NobodyStarts, SpendKept DEF Spending, StartsNone

(***************************************************************************)
(* The steps of a request that write no link and open no session.          *)
(***************************************************************************)
LEMMA SpendOthers ==
  ASSUME TypeInv, SpendInv, NEW r \in Requests,
         \/ \E a \in Addresses :
              \/ AskForLink(r, a) \/ FindUser(r, a) \/ FindInvite(r, a)
              \/ CreateUser(r, a) \/ FindPending(r, a) \/ AddClubMember(r, a)
         \/ SendMail(r) \/ \E l \in mailed : FollowLink(r, l)
         \/ ReadOwner(r) \/ AcceptInvite(r) \/ Abort(r)
  PROVE  SpendInv'
<1>1. UNCHANGED <<links, signIns>>
  BY DEF AskForLink, FindUser, FindInvite, CreateUser, FindPending, AddClubMember,
     SendMail, FollowLink, ReadOwner, AcceptInvite, Abort, tables, traces
<1>2. req[r] \in RequestStates
  BY DEF TypeInv, TypeOK
<1>3. StartsNone(r)
  <2>1. CASE Return(r)
    BY <2>1, IdleType, ReqReturn DEF StartsNone, Spending
  <2>2. ASSUME NEW at \in {"link", "invite", "create"}, Goto(r, at) PROVE StartsNone(r)
    BY <2>2, ReqGoto DEF StartsNone, Spending
  <2>3. ASSUME NEW at \in {"session", "accept"}, Goto(r, at), req[r].at \in Spending
        PROVE  StartsNone(r)
    BY <2>3, ReqGoto DEF StartsNone
  <2>4. ASSUME NEW a \in Addresses, AskForLink(r, a) PROVE StartsNone(r)
    BY <2>4, IdleType DEF AskForLink, TypeInv, TypeOK, RequestStates, Spending,
         StartsNone
  <2>5. ASSUME NEW l \in mailed, FollowLink(r, l) PROVE StartsNone(r)
    BY <2>5, IdleType DEF FollowLink, TypeInv, TypeOK, RequestStates, Spending,
         StartsNone
  <2>6. ASSUME NEW a \in Addresses, FindPending(r, a) PROVE StartsNone(r)
    <3>1. ASSUME NEW i \in Newest(Pending(a, req[r].now)),
                 req' = [req EXCEPT ![r].at = "join", ![r].invite = i]
          PROVE  StartsNone(r)
      BY <1>2, <2>6, <3>1 DEF FindPending, TypeInv, TypeOK, RequestStates, Spending,
         StartsNone
    <3>2. req[r].at \in Spending
      BY <2>6 DEF FindPending, Spending
    <3> QED
      BY <2>3, <2>6, <3>1, <3>2 DEF FindPending
  <2>7. CASE ReadOwner(r)
    <3>1. CASE req' = [req EXCEPT ![r].at = "pending",
                                ![r].email = {links[req[r].link].user}]
      BY <1>2, <2>7, <3>1 DEF ReadOwner, TypeInv, TypeOK, RequestStates, Spending,
         StartsNone
    <3> QED
      BY <2>1, <2>7, <3>1 DEF ReadOwner
  <2>8. CASE AcceptInvite(r)
    <3>1. req[r].at \in Spending /\ (Return(r) \/ Goto(r, "session"))
      BY <2>8 DEF AcceptInvite, Spending
    <3> QED
      BY <2>1, <2>3, <3>1
  <2>9. CASE SendMail(r) \/ Abort(r)
    BY <2>1, <2>9 DEF SendMail, Abort
  <2>10. ASSUME NEW a \in Addresses, AddClubMember(r, a) PROVE StartsNone(r)
    <3>1. req[r].at \in Spending /\ Goto(r, "accept")
      BY <2>10 DEF AddClubMember, Spending
    <3> QED
      BY <2>3, <3>1
  <2>11. ASSUME NEW a \in Addresses,
                FindUser(r, a) \/ FindInvite(r, a) \/ CreateUser(r, a)
         PROVE  StartsNone(r)
    <3>1. Return(r) \/ \E at \in {"link", "invite", "create"} : Goto(r, at)
      BY <2>11 DEF FindUser, FindInvite, CreateUser
    <3> QED
      BY <2>1, <2>2, <3>1
  <2> QED
    BY <2>4, <2>5, <2>6, <2>7, <2>8, <2>9, <2>10, <2>11
<1> QED
  BY <1>1, <1>3, LinksKept, NobodyStarts, SpendKept

LEMMA SpendNext == TypeInv /\ SpendInv /\ [Next]_vars => SpendInv'
<1> SUFFICES ASSUME TypeInv, SpendInv, [Next]_vars PROVE SpendInv'
  OBVIOUS
<1>1. CASE UNCHANGED vars
  BY <1>1, LinksKept, SpendKept DEF Spends, vars, tables, traces
<1>2. CASE World
  BY <1>2, SpendWorld
<1>3. ASSUME NEW r \in Requests, Step(r) PROVE SpendInv'
  BY <1>3, SpendOthers, SpendConsumeLink, SpendCreateLoginToken, SpendCreateAuthSession
     DEF Step
<1>4. ASSUME NEW r \in Requests, Abort(r) PROVE SpendInv'
  BY <1>4, SpendOthers
<1> QED
  BY <1>1, <1>2, <1>3, <1>4 DEF Next

(***************************************************************************)
(* A link opens at most one session, however often and however             *)
(* concurrently it is followed.                                            *)
(***************************************************************************)
THEOREM OneSessionPerLink == Spec => []LinkWorksOnce
<1>1. SpendInv => LinkWorksOnce
  BY DEF SpendInv
<1> QED
  BY <1>1, TypeAlways, SpendInit, SpendNext, PTL DEF Spec

-----------------------------------------------------------------------------
(***************************************************************************)
(* Why a spent invitation has made a member: a request spends it only      *)
(* after joining, the invitation is to the address it acts for, and no row *)
(* changes its address or its club.                                        *)
(***************************************************************************)
JoinInv ==
  /\ \A r \in Requests : req[r].at \in {"join", "accept"} =>
       req[r].email = {invites[req[r].invite].email}
  /\ \A r \in Requests : req[r].at = "accept" =>
       <<invites[req[r].invite].club, invites[req[r].invite].email>> \in members
  /\ AcceptedIsMember

LEMMA JoinInit == Init => JoinInv
<1> SUFFICES ASSUME Init PROVE JoinInv
  OBVIOUS
<1>1. \A r \in Requests : req[r].at = "idle"
  BY IdleType DEF Init
<1>2. AcceptedIsMember
  BY DEF Init, AcceptedIsMember
<1> QED
  BY <1>1, <1>2 DEF JoinInv

(***************************************************************************)
(* Invitations are only appended, and only their accepted field changes.   *)
(***************************************************************************)
InvitesStay ==
  /\ DOMAIN invites \subseteq DOMAIN invites'
  /\ \A i \in DOMAIN invites : /\ invites'[i].email = invites[i].email
                               /\ invites'[i].club = invites[i].club
                               /\ invites'[i].expires = invites[i].expires

LEMMA InvitesKept == UNCHANGED invites => InvitesStay
  BY DEF InvitesStay

(***************************************************************************)
(* A step keeps JoinInv if it removes no member, spends no invitation, and *)
(* no request starts to join or moves on to spending one.                  *)
(***************************************************************************)
LEMMA JoinKept ==
  ASSUME TypeInv, JoinInv, UNCHANGED members, InvitesStay,
         \A q \in Requests : req'[q].at \in {"join", "accept"} => req'[q] = req[q],
         \A i \in DOMAIN invites' : invites'[i].accepted =>
            i \in DOMAIN invites /\ invites[i].accepted
  PROVE  JoinInv'
<1>1. ASSUME NEW q \in Requests, req'[q].at \in {"join", "accept"}
      PROVE  /\ req'[q] = req[q] /\ Holds(q) /\ req[q].invite \in DOMAIN invites
             /\ invites'[req[q].invite].email = invites[req[q].invite].email
             /\ invites'[req[q].invite].club = invites[req[q].invite].club
  BY <1>1 DEF TypeInv, Holds, InvitesStay
<1>2. AcceptedIsMember'
  BY DEF JoinInv, AcceptedIsMember, InvitesStay
<1>3. \A q \in Requests : req'[q].at \in {"join", "accept"} =>
        req'[q].email = {invites'[req'[q].invite].email}
  BY <1>1 DEF JoinInv
<1>4. \A q \in Requests : req'[q].at = "accept" =>
        <<invites'[req'[q].invite].club, invites'[req'[q].invite].email>> \in members'
  BY <1>1 DEF JoinInv
<1> QED
  BY <1>2, <1>3, <1>4 DEF JoinInv

LEMMA JoinInvite ==
  ASSUME TypeInv, JoinInv, NEW a \in Addresses, NEW c \in Clubs, Invite(a, c)
  PROVE  JoinInv'
<1> DEFINE new == [email |-> a, club |-> c,
                   expires |-> time + InviteLifetime, accepted |-> FALSE]
<1>1. invites' = Append(invites, new) /\ invites \in Seq(Invitation)
      /\ UNCHANGED <<members, req>>
  BY DEF Invite, TypeInv, TypeOK
<1>2. new.accepted = FALSE
  OBVIOUS
<1> HIDE DEF new
<1>3. DOMAIN invites = 1..Len(invites) /\ DOMAIN invites' = 1..(Len(invites) + 1)
      /\ Len(invites) \in Nat
  BY <1>1
<1>4. /\ invites'[Len(invites) + 1] = new
      /\ \A i \in 1..Len(invites) : invites'[i] = invites[i]
  BY <1>1
<1>5. InvitesStay
  BY <1>3, <1>4 DEF InvitesStay
<1>6. \A i \in DOMAIN invites' : invites'[i].accepted =>
        i \in DOMAIN invites /\ invites[i].accepted
  <2> SUFFICES ASSUME NEW i \in DOMAIN invites', invites'[i].accepted
               PROVE  i \in DOMAIN invites /\ invites[i].accepted
    OBVIOUS
  <2>1. i \in 1..Len(invites) \/ i = Len(invites) + 1
    BY <1>3
  <2> QED
    BY <1>2, <1>3, <1>4, <2>1
<1> QED
  BY <1>1, <1>5, <1>6, JoinKept

LEMMA JoinFindPending ==
  ASSUME TypeInv, JoinInv, NEW r \in Requests, NEW a \in Addresses, FindPending(r, a)
  PROVE  JoinInv'
<1>1. UNCHANGED <<invites, members>> /\ req[r].email = {a} /\ req[r] \in RequestStates
  BY DEF FindPending, About, tables, TypeInv, TypeOK
<1>2. CASE Goto(r, "session")
  <2>1. \A q \in Requests : req'[q].at \in {"join", "accept"} => req'[q] = req[q]
    BY <1>2, ReqGoto
  <2> QED
    BY <1>1, <2>1, InvitesKept, JoinKept
<1>3. ASSUME NEW i \in Newest(Pending(a, req[r].now)),
             req' = [req EXCEPT ![r].at = "join", ![r].invite = i]
      PROVE  JoinInv'
  <2>1. invites[i].email = a
    BY DEF Newest, Pending
  <2>2. /\ req'[r].at = "join" /\ req'[r].invite = i /\ req'[r].email = {a}
        /\ \A q \in Requests : q # r => req'[q] = req[q]
    BY <1>1, <1>3 DEF TypeInv, TypeOK, RequestStates
  <2>3. \A q \in Requests : req'[q].at \in {"join", "accept"} =>
          req'[q].email = {invites'[req'[q].invite].email}
    BY <1>1, <2>1, <2>2 DEF JoinInv
  <2>4. \A q \in Requests : req'[q].at = "accept" => q # r
    BY <2>2
  <2>5. \A q \in Requests : req'[q].at = "accept" =>
          <<invites'[req'[q].invite].club, invites'[req'[q].invite].email>> \in members'
    BY <1>1, <2>2, <2>4 DEF JoinInv
  <2>6. AcceptedIsMember'
    BY <1>1 DEF JoinInv, AcceptedIsMember
  <2> QED
    BY <2>3, <2>5, <2>6 DEF JoinInv
<1> QED
  BY <1>2, <1>3 DEF FindPending

LEMMA JoinAddClubMember ==
  ASSUME TypeInv, JoinInv, NEW r \in Requests, NEW a \in Addresses, AddClubMember(r, a)
  PROVE  JoinInv'
<1>1. /\ UNCHANGED invites /\ req[r].at = "join" /\ req[r].email = {a}
      /\ members' = members \cup {<<invites[req[r].invite].club, a>>}
      /\ Goto(r, "accept")
  BY DEF AddClubMember, About
<1>2. /\ req'[r].at = "accept" /\ req'[r].invite = req[r].invite
      /\ req'[r].email = req[r].email
      /\ \A q \in Requests : q # r => req'[q] = req[q]
  BY <1>1, ReqGoto
<1>3. {a} = {invites[req[r].invite].email}
  BY <1>1 DEF JoinInv
<1>4. a = invites[req[r].invite].email
  BY <1>3
<1>5. \A q \in Requests : req'[q].at \in {"join", "accept"} =>
        req'[q].email = {invites'[req'[q].invite].email}
  BY <1>1, <1>2 DEF JoinInv
<1>6. \A q \in Requests : req'[q].at = "accept" =>
        <<invites'[req'[q].invite].club, invites'[req'[q].invite].email>> \in members'
  <2> SUFFICES ASSUME NEW q \in Requests, req'[q].at = "accept"
      PROVE <<invites'[req'[q].invite].club, invites'[req'[q].invite].email>> \in members'
    OBVIOUS
  <2>1. CASE q = r
    BY <1>1, <1>2, <1>4, <2>1
  <2>2. CASE q # r
    BY <1>1, <1>2, <2>2 DEF JoinInv
  <2> QED
    BY <2>1, <2>2
<1>7. AcceptedIsMember'
  BY <1>1 DEF JoinInv, AcceptedIsMember
<1> QED
  BY <1>5, <1>6, <1>7 DEF JoinInv

LEMMA JoinAcceptInvite ==
  ASSUME TypeInv, JoinInv, NEW r \in Requests, AcceptInvite(r)
  PROVE  JoinInv'
<1>0. PICK k \in DOMAIN invites : k = req[r].invite
  BY DEF AcceptInvite, TypeInv, Holds
<1>1. /\ invites' = [invites EXCEPT ![k].accepted = TRUE] /\ UNCHANGED members
      /\ req[r].at = "accept"
  BY <1>0 DEF AcceptInvite
<1>2. \A i \in DOMAIN invites : invites[i] \in Invitation
  BY RowTypes DEF TypeInv
<1>3. /\ DOMAIN invites' = DOMAIN invites
      /\ \A i \in DOMAIN invites : i # k => invites'[i] = invites[i]
      /\ invites'[k].email = invites[k].email /\ invites'[k].club = invites[k].club
      /\ invites'[k].expires = invites[k].expires
  BY <1>1, <1>2 DEF Invitation
<1>4. InvitesStay
  BY <1>3 DEF InvitesStay
<1>5. \A q \in Requests : req'[q].at \in {"join", "accept"} => req'[q] = req[q]
  <2>1. Return(r) \/ Goto(r, "session")
    BY DEF AcceptInvite
  <2> QED
    BY <2>1, ReqReturn, ReqGoto, IdleType
<1>6. <<invites[k].club, invites[k].email>> \in members
  BY <1>0, <1>1 DEF JoinInv
<1>7. AcceptedIsMember'
  BY <1>1, <1>3, <1>6 DEF JoinInv, AcceptedIsMember
<1>8. ASSUME NEW q \in Requests, req'[q].at \in {"join", "accept"}
      PROVE  /\ req'[q] = req[q] /\ req[q].invite \in DOMAIN invites
             /\ invites'[req[q].invite].email = invites[req[q].invite].email
             /\ invites'[req[q].invite].club = invites[req[q].invite].club
  BY <1>4, <1>5, <1>8 DEF TypeInv, Holds, InvitesStay
<1>9. \A q \in Requests : req'[q].at \in {"join", "accept"} =>
        req'[q].email = {invites'[req'[q].invite].email}
  BY <1>8 DEF JoinInv
<1>10. \A q \in Requests : req'[q].at = "accept" =>
        <<invites'[req'[q].invite].club, invites'[req'[q].invite].email>> \in members'
  BY <1>1, <1>8 DEF JoinInv
<1> QED
  BY <1>7, <1>9, <1>10 DEF JoinInv

LEMMA JoinOthers ==
  ASSUME TypeInv, JoinInv, NEW r \in Requests,
         \/ \E a \in Addresses :
              \/ AskForLink(r, a) \/ FindUser(r, a) \/ FindInvite(r, a)
              \/ CreateUser(r, a) \/ CreateLoginToken(r, a)
         \/ SendMail(r) \/ \E l \in mailed : FollowLink(r, l)
         \/ ConsumeLink(r) \/ ReadOwner(r) \/ CreateAuthSession(r) \/ Abort(r)
  PROVE  JoinInv'
<1>1. UNCHANGED <<invites, members>>
  BY DEF AskForLink, FindUser, FindInvite, CreateUser, CreateLoginToken, SendMail,
     FollowLink, ConsumeLink, ReadOwner, CreateAuthSession, Abort, tables
<1>2. /\ \A q \in Requests : q # r => req'[q] = req[q]
      /\ req'[r].at \notin {"join", "accept"}
  <2>1. CASE Return(r)
    BY <2>1, IdleType, ReqReturn
  <2>2. CASE \E at \in {"link", "invite", "create", "owner"} : Goto(r, at)
    BY <2>2, ReqGoto
  <2>3. CASE \E a \in Addresses : AskForLink(r, a)
    BY <2>3, IdleType DEF AskForLink, TypeInv, TypeOK, RequestStates
  <2>4. CASE \E l \in mailed : FollowLink(r, l)
    BY <2>4, IdleType DEF FollowLink, TypeInv, TypeOK, RequestStates
  <2>5. CASE \E a \in Addresses : CreateLoginToken(r, a)
    BY <2>5, ReqTypes DEF CreateLoginToken, TypeInv, TypeOK, RequestStates
  <2>6. CASE req' = [req EXCEPT ![r].at = "pending",
                                ![r].email = {links[req[r].link].user}]
    BY <2>6, ReqTypes DEF TypeInv, TypeOK, RequestStates
  <2> QED
    BY <2>1, <2>2, <2>3, <2>4, <2>5, <2>6
       DEF FindUser, FindInvite, CreateUser, SendMail, ConsumeLink, ReadOwner,
           CreateAuthSession, Abort
<1>3. \A q \in Requests : req'[q].at \in {"join", "accept"} => req'[q] = req[q]
  BY <1>2
<1> QED
  BY <1>1, <1>3, InvitesKept, JoinKept

LEMMA JoinNext == TypeInv /\ JoinInv /\ [Next]_vars => JoinInv'
<1> SUFFICES ASSUME TypeInv, JoinInv, [Next]_vars PROVE JoinInv'
  OBVIOUS
<1>1. CASE UNCHANGED <<invites, members, req>>
  BY <1>1, InvitesKept, JoinKept
<1>2. CASE UNCHANGED vars \/ Housekeeping \/ Tick
  BY <1>1, <1>2 DEF Housekeeping, Tick, vars, tables
<1>3. CASE World
  BY <1>2, <1>3, JoinInvite DEF World
<1>4. ASSUME NEW r \in Requests, Step(r) PROVE JoinInv'
  BY <1>4, JoinOthers, JoinFindPending, JoinAddClubMember, JoinAcceptInvite DEF Step
<1>5. ASSUME NEW r \in Requests, Abort(r) PROVE JoinInv'
  BY <1>5, JoinOthers
<1> QED
  BY <1>2, <1>3, <1>4, <1>5 DEF Next

(***************************************************************************)
(* A spent invitation has made a member, whatever fails.                   *)
(***************************************************************************)
THEOREM SpentInvitationJoins == Spec => []AcceptedIsMember
<1>1. JoinInv => AcceptedIsMember
  BY DEF JoinInv
<1> QED
  BY <1>1, TypeAlways, JoinInit, JoinNext, PTL DEF Spec

-----------------------------------------------------------------------------
(***************************************************************************)
(* Why only the invited are served: a request gets to create a user or a   *)
(* link only for an address that was invited, and nobody is uninvited.     *)
(***************************************************************************)
GuestInv ==
  /\ OnlyTheInvited
  /\ \A r \in Requests, a \in Addresses :
       About(r, a) /\ req[r].at \in {"create", "link"} => Invited(a, Clubs)

LEMMA GuestInit == Init => GuestInv
<1> SUFFICES ASSUME Init PROVE GuestInv
  OBVIOUS
<1>1. \A r \in Requests : req[r].at = "idle"
  BY IdleType DEF Init
<1>2. \A m \in Founders : m = <<m[1], m[2]>> /\ m[1] \in Clubs
  BY SignInAssumption
<1>3. \A m \in members : Invited(m[2], {m[1]})
  BY <1>2 DEF Init, Invited
<1>4. \A a \in users : Invited(a, Clubs)
  BY <1>2 DEF Init, Invited
<1>5. DOMAIN links = {}
  BY DEF Init
<1> QED
  BY <1>1, <1>3, <1>4, <1>5 DEF GuestInv, OnlyTheInvited

LEMMA InvitedStays ==
  ASSUME InvitesStay, NEW a, NEW C, Invited(a, C)
  PROVE  Invited(a, C)'
  BY DEF Invited, InvitesStay

(***************************************************************************)
(* In every step but Invite and AcceptInvite the invitations do not change *)
(* at all, and there they stay.                                            *)
(***************************************************************************)
LEMMA InvitesAlwaysStay ==
  ASSUME TypeInv, [Next]_vars
  PROVE  InvitesStay
<1>1. CASE UNCHANGED invites
  BY <1>1, InvitesKept
<1>2. ASSUME NEW a \in Addresses, NEW c \in Clubs, Invite(a, c) PROVE InvitesStay
  <2> DEFINE new == [email |-> a, club |-> c,
                     expires |-> time + InviteLifetime, accepted |-> FALSE]
  <2>1. invites' = Append(invites, new) /\ invites \in Seq(Invitation)
    BY <1>2 DEF Invite, TypeInv, TypeOK
  <2> HIDE DEF new
  <2>2. DOMAIN invites = 1..Len(invites) /\ DOMAIN invites' = 1..(Len(invites) + 1)
        /\ Len(invites) \in Nat /\ \A i \in 1..Len(invites) : invites'[i] = invites[i]
    BY <2>1
  <2> QED
    BY <2>2 DEF InvitesStay
<1>3. ASSUME NEW r \in Requests, AcceptInvite(r) PROVE InvitesStay
  <2>1. \A i \in DOMAIN invites : invites[i] \in Invitation
    BY RowTypes DEF TypeInv
  <2>2. invites' = [invites EXCEPT ![req[r].invite].accepted = TRUE]
    BY <1>3 DEF AcceptInvite
  <2> QED
    BY <2>1, <2>2 DEF InvitesStay, Invitation
<1>4. CASE UNCHANGED vars \/ Housekeeping \/ Tick
  BY <1>1, <1>4 DEF Housekeeping, Tick, vars, tables
<1>5. ASSUME NEW r \in Requests, Step(r) \/ Abort(r) PROVE InvitesStay
  BY <1>1, <1>3, <1>5
     DEF Step, AskForLink, FindUser, FindInvite, CreateUser, CreateLoginToken,
         FindPending, AddClubMember, SendMail, FollowLink, ConsumeLink, ReadOwner,
         CreateAuthSession, Abort, tables
<1> QED
  BY <1>2, <1>4, <1>5 DEF Next, World

LinksOwned == \A l \in DOMAIN links : Invited(links[l].user, Clubs)

(***************************************************************************)
(* A step that adds no row keeps GuestInv if no request comes to create a  *)
(* user or a link for an address that was not invited.                     *)
(***************************************************************************)
LEMMA GuestKept ==
  ASSUME GuestInv, InvitesStay, UNCHANGED <<users, members>>, LinksOwned',
         \A q \in Requests, a \in Addresses :
           About(q, a)' /\ req'[q].at \in {"create", "link"} => Invited(a, Clubs)
  PROVE  GuestInv'
<1>1. \A a \in users' : Invited(a, Clubs)'
  BY InvitedStays DEF GuestInv, OnlyTheInvited
<1>2. \A m \in members' : Invited(m[2], {m[1]})'
  BY InvitedStays DEF GuestInv, OnlyTheInvited
<1>3. \A q \in Requests, a \in Addresses :
        About(q, a)' /\ req'[q].at \in {"create", "link"} => Invited(a, Clubs)'
  BY InvitedStays
<1> QED
  BY <1>1, <1>2, <1>3 DEF GuestInv, OnlyTheInvited, LinksOwned

LEMMA OwnersKept ==
  ASSUME GuestInv, InvitesStay, DOMAIN links' = DOMAIN links,
         \A l \in DOMAIN links : links'[l].user = links[l].user
  PROVE  LinksOwned'
  BY InvitedStays DEF GuestInv, OnlyTheInvited, LinksOwned

(***************************************************************************)
(* Who a request is about in the new state, when it is about an address    *)
(* for which it may create a user or a link.                               *)
(***************************************************************************)
Serves(q, a) == About(q, a) /\ req[q].at \in {"create", "link"}

LEMMA ServesReturn ==
  ASSUME TypeInv, GuestInv, NEW r \in Requests, Return(r)
  PROVE  \A q \in Requests, b \in Addresses : Serves(q, b)' => Invited(b, Clubs)
  BY IdleType, ReqReturn DEF Serves, About, GuestInv

LEMMA ServesGoto ==
  ASSUME TypeInv, GuestInv, NEW r \in Requests, NEW at, Goto(r, at),
         \/ at \notin {"create", "link"}
         \/ \A b \in Addresses : About(r, b) => Invited(b, Clubs)
  PROVE  \A q \in Requests, b \in Addresses : Serves(q, b)' => Invited(b, Clubs)
<1> SUFFICES ASSUME NEW q \in Requests, NEW b \in Addresses, Serves(q, b)'
             PROVE  Invited(b, Clubs)
  OBVIOUS
<1>1. CASE q = r
  BY <1>1, ReqGoto DEF Serves, About
<1>2. CASE q # r
  BY <1>2, ReqGoto DEF Serves, About, GuestInv
<1> QED
  BY <1>1, <1>2

LEMMA ServesElse ==
  ASSUME TypeInv, GuestInv, NEW r \in Requests,
         \A q \in Requests : q # r => req'[q] = req[q],
         req'[r].at \notin {"create", "link"}
  PROVE  \A q \in Requests, b \in Addresses : Serves(q, b)' => Invited(b, Clubs)
  BY DEF Serves, About, GuestInv

LEMMA AboutOne ==
  ASSUME NEW r, NEW a, NEW b, About(r, a), About(r, b)
  PROVE  a = b
<1>1. {a} = {b}
  BY DEF About
<1> QED
  BY <1>1

LEMMA GuestAsk ==
  ASSUME TypeInv, GuestInv, InvitesStay, NEW r \in Requests, NEW a \in Addresses,
         FindUser(r, a) \/ FindInvite(r, a)
  PROVE  GuestInv'
<1>1. About(r, a) /\ UNCHANGED <<users, members, links>>
  BY DEF FindUser, FindInvite, tables
<1>2. \A q \in Requests, b \in Addresses : Serves(q, b)' => Invited(b, Clubs)
  <2>1. CASE Return(r)
    BY <2>1, ServesReturn
  <2>2. CASE Goto(r, "invite")
    BY <2>2, ServesGoto
  <2>3. CASE FindUser(r, a) /\ a \in users
    <3>1. Invited(a, Clubs) /\ Goto(r, "link")
      BY <2>3 DEF GuestInv, OnlyTheInvited, FindUser
    <3> QED
      BY <1>1, <3>1, AboutOne, ServesGoto
  <2>4. CASE FindInvite(r, a) /\ Pending(a, req[r].now) # {}
    <3>1. PICK i \in DOMAIN invites : invites[i].email = a
      BY <2>4 DEF Pending
    <3>2. invites[i].club \in Clubs
      BY RowTypes DEF TypeInv, Invitation
    <3>3. Invited(a, Clubs) /\ Goto(r, "create")
      BY <2>4, <3>1, <3>2 DEF Invited, FindInvite
    <3> QED
      BY <1>1, <3>3, AboutOne, ServesGoto
  <2> QED
    BY <2>1, <2>2, <2>3, <2>4 DEF FindUser, FindInvite
<1> QED
  BY <1>1, <1>2, OwnersKept, GuestKept DEF Serves

LEMMA GuestCreateUser ==
  ASSUME TypeInv, GuestInv, InvitesStay, NEW r \in Requests, NEW a \in Addresses,
         CreateUser(r, a)
  PROVE  GuestInv'
<1>1. Invited(a, Clubs) /\ About(r, a)
  BY DEF CreateUser, GuestInv
<1>2. \A q \in Requests, b \in Addresses : Serves(q, b)' => Invited(b, Clubs)
  <2>1. CASE Return(r)
    BY <2>1, ServesReturn
  <2>2. CASE Goto(r, "link")
    BY <1>1, <2>2, AboutOne, ServesGoto
  <2> QED
    BY <2>1, <2>2 DEF CreateUser
<1>3. \A b \in users' : Invited(b, Clubs)'
  BY <1>1, InvitedStays DEF CreateUser, GuestInv, OnlyTheInvited
<1>4. \A m \in members' : Invited(m[2], {m[1]})'
  BY InvitedStays DEF CreateUser, GuestInv, OnlyTheInvited
<1>5. LinksOwned'
  BY OwnersKept DEF CreateUser
<1>6. \A q \in Requests, b \in Addresses : Serves(q, b)' => Invited(b, Clubs)'
  BY <1>2, InvitedStays
<1> QED
  BY <1>3, <1>4, <1>5, <1>6 DEF GuestInv, OnlyTheInvited, LinksOwned, Serves

LEMMA GuestCreateLoginToken ==
  ASSUME TypeInv, GuestInv, InvitesStay, NEW r \in Requests, NEW a \in Addresses,
         CreateLoginToken(r, a)
  PROVE  GuestInv'
<1> DEFINE new == [user |-> a, expires |-> req[r].now + LinkLifetime,
                   used |-> FALSE, kept |-> TRUE]
<1>1. Invited(a, Clubs) /\ links' = Append(links, new) /\ links \in Seq(LinkRow)
  BY DEF CreateLoginToken, GuestInv, TypeInv, TypeOK
<1>2. new.user = a
  OBVIOUS
<1> HIDE DEF new
<1>3. DOMAIN links = 1..Len(links) /\ DOMAIN links' = 1..(Len(links) + 1)
      /\ Len(links) \in Nat /\ links'[Len(links) + 1] = new
      /\ \A l \in 1..Len(links) : links'[l] = links[l]
  BY <1>1
<1>4. \A l \in DOMAIN links' : Invited(links'[l].user, Clubs)
  <2> SUFFICES ASSUME NEW l \in DOMAIN links' PROVE Invited(links'[l].user, Clubs)
    OBVIOUS
  <2>1. l \in 1..Len(links) \/ l = Len(links) + 1
    BY <1>3
  <2>2. CASE l \in 1..Len(links)
    BY <1>3, <2>2 DEF GuestInv, OnlyTheInvited
  <2>3. CASE l = Len(links) + 1
    BY <1>1, <1>2, <1>3, <2>3
  <2> QED
    BY <2>1, <2>2, <2>3
<1>5. LinksOwned'
  BY <1>4, InvitedStays DEF LinksOwned
<1>6. /\ \A q \in Requests : q # r => req'[q] = req[q]
      /\ req'[r].at \notin {"create", "link"}
  BY ReqTypes DEF CreateLoginToken, TypeInv, TypeOK, RequestStates
<1>7. UNCHANGED <<users, members>>
  BY DEF CreateLoginToken
<1> QED
  BY <1>5, <1>6, <1>7, ServesElse, GuestKept DEF Serves

LEMMA GuestAddClubMember ==
  ASSUME TypeInv, JoinInv, GuestInv, InvitesStay, NEW r \in Requests,
         NEW a \in Addresses, AddClubMember(r, a)
  PROVE  GuestInv'
<1>1. PICK i \in DOMAIN invites : i = req[r].invite
  BY DEF AddClubMember, TypeInv, Holds
<1>2. PICK c : c = invites[i].club
  OBVIOUS
<1>3. invites[i].email = a
  <2>1. {a} = {invites[i].email}
    BY <1>1 DEF AddClubMember, About, JoinInv
  <2> QED
    BY <2>1
<1>4. Invited(a, {c}) /\ members' = members \cup {<<c, a>>}
  BY <1>1, <1>2, <1>3 DEF Invited, AddClubMember
<1>5. \A m \in members' : Invited(m[2], {m[1]})
  <2>1. ASSUME NEW m \in members PROVE Invited(m[2], {m[1]})
    BY DEF GuestInv, OnlyTheInvited
  <2>2. ASSUME NEW m, m = <<c, a>> PROVE Invited(m[2], {m[1]})
    <3>1. m[1] = c /\ m[2] = a
      BY <2>2
    <3> QED
      BY <1>4, <3>1
  <2> QED
    BY <1>4, <2>1, <2>2
<1>6. \A m \in members' : Invited(m[2], {m[1]})'
  BY <1>5, InvitedStays
<1>7. \A b \in users' : Invited(b, Clubs)'
  BY InvitedStays DEF AddClubMember, GuestInv, OnlyTheInvited
<1>8. LinksOwned'
  BY OwnersKept DEF AddClubMember
<1>9. \A q \in Requests, b \in Addresses : Serves(q, b)' => Invited(b, Clubs)'
  BY ServesGoto, InvitedStays DEF AddClubMember
<1> QED
  BY <1>6, <1>7, <1>8, <1>9 DEF GuestInv, OnlyTheInvited, LinksOwned, Serves

(***************************************************************************)
(* The other steps of a request create no user, no link and no member.     *)
(***************************************************************************)
LEMMA GuestOthers ==
  ASSUME TypeInv, GuestInv, InvitesStay, NEW r \in Requests,
         \/ \E a \in Addresses : AskForLink(r, a) \/ FindPending(r, a)
         \/ SendMail(r) \/ \E l \in mailed : FollowLink(r, l)
         \/ ConsumeLink(r) \/ ReadOwner(r) \/ AcceptInvite(r)
         \/ CreateAuthSession(r) \/ Abort(r)
  PROVE  GuestInv'
<1>1. UNCHANGED <<users, members>>
  BY DEF AskForLink, FindPending, SendMail, FollowLink, ConsumeLink, ReadOwner,
     AcceptInvite, CreateAuthSession, Abort, tables
<1>2. LinksOwned'
  <2>1. CASE ConsumeLink(r)
    <3>1. \A l \in DOMAIN links : links[l] \in LinkRow
      BY RowTypes DEF TypeInv
    <3>2. UNCHANGED links \/ links' = [links EXCEPT ![req[r].link].used = TRUE]
      BY <2>1 DEF ConsumeLink
    <3>3. DOMAIN links' = DOMAIN links
          /\ \A l \in DOMAIN links : links'[l].user = links[l].user
      BY <3>1, <3>2 DEF LinkRow
    <3> QED
      BY <3>3, OwnersKept
  <2>2. CASE UNCHANGED links
    BY <2>2, OwnersKept
  <2> QED
    BY <2>1, <2>2 DEF AskForLink, FindPending, SendMail, FollowLink, ReadOwner,
       AcceptInvite, CreateAuthSession, Abort, tables
<1>3. \A q \in Requests, b \in Addresses : Serves(q, b)' => Invited(b, Clubs)
  <2>1. CASE Return(r)
    BY <2>1, ServesReturn
  <2>2. CASE Goto(r, "owner") \/ Goto(r, "session")
    BY <2>2, ServesGoto
  <2>3. CASE \E a \in Addresses : AskForLink(r, a)
    <3>1. /\ \A q \in Requests : q # r => req'[q] = req[q]
          /\ req'[r].at \notin {"create", "link"}
      BY <2>3, IdleType DEF AskForLink, TypeInv, TypeOK, RequestStates
    <3> QED
      BY <3>1, ServesElse
  <2>4. CASE \E l \in mailed : FollowLink(r, l)
    <3>1. /\ \A q \in Requests : q # r => req'[q] = req[q]
          /\ req'[r].at \notin {"create", "link"}
      BY <2>4, IdleType DEF FollowLink, TypeInv, TypeOK, RequestStates
    <3> QED
      BY <3>1, ServesElse
  <2>5. CASE \E i : req' = [req EXCEPT ![r].at = "join", ![r].invite = i]
    <3>1. /\ \A q \in Requests : q # r => req'[q] = req[q]
          /\ req'[r].at \notin {"create", "link"}
      BY <2>5, ReqTypes DEF TypeInv, TypeOK, RequestStates
    <3> QED
      BY <3>1, ServesElse
  <2>6. CASE req' = [req EXCEPT ![r].at = "pending",
                                ![r].email = {links[req[r].link].user}]
    <3>1. /\ \A q \in Requests : q # r => req'[q] = req[q]
          /\ req'[r].at \notin {"create", "link"}
      BY <2>6, ReqTypes DEF TypeInv, TypeOK, RequestStates
    <3> QED
      BY <3>1, ServesElse
  <2> QED
    BY <2>1, <2>2, <2>3, <2>4, <2>5, <2>6
       DEF FindPending, SendMail, ConsumeLink, ReadOwner, AcceptInvite,
           CreateAuthSession, Abort
<1> QED
  BY <1>1, <1>2, <1>3, GuestKept DEF Serves

LEMMA GuestWorld ==
  ASSUME TypeInv, GuestInv, InvitesStay, World
  PROVE  GuestInv'
<1>1. UNCHANGED <<users, members, req>>
  BY DEF World, Invite, Housekeeping, Tick, tables
<1>2. LinksOwned'
  <2>1. CASE Housekeeping
    <3>1. \A l \in DOMAIN links : links[l] \in LinkRow
      BY RowTypes DEF TypeInv
    <3>2. DOMAIN links' = DOMAIN links
          /\ \A l \in DOMAIN links : links'[l].user = links[l].user
      BY <2>1, <3>1 DEF Housekeeping, LinkRow
    <3> QED
      BY <3>2, OwnersKept
  <2>2. CASE UNCHANGED links
    BY <2>2, OwnersKept
  <2> QED
    BY <2>1, <2>2 DEF World, Invite, Tick, tables
<1>3. \A q \in Requests, b \in Addresses : Serves(q, b)' => Invited(b, Clubs)
  BY <1>1 DEF Serves, About, GuestInv
<1> QED
  BY <1>1, <1>2, <1>3, GuestKept DEF Serves

LEMMA GuestNext == TypeInv /\ JoinInv /\ GuestInv /\ [Next]_vars => GuestInv'
<1> SUFFICES ASSUME TypeInv, JoinInv, GuestInv, [Next]_vars PROVE GuestInv'
  OBVIOUS
<1>0. InvitesStay
  BY InvitesAlwaysStay
<1>1. CASE UNCHANGED vars
  <2>1. UNCHANGED <<users, members, req, links>>
    BY <1>1 DEF vars, tables
  <2>2. LinksOwned'
    BY <1>0, <2>1, OwnersKept
  <2>3. \A q \in Requests, b \in Addresses : Serves(q, b)' => Invited(b, Clubs)
    BY <2>1 DEF Serves, About, GuestInv
  <2> QED
    BY <1>0, <2>1, <2>2, <2>3, GuestKept DEF Serves
<1>2. CASE World
  BY <1>0, <1>2, GuestWorld
<1>3. ASSUME NEW r \in Requests, Step(r) PROVE GuestInv'
  BY <1>0, <1>3, GuestAsk, GuestCreateUser, GuestCreateLoginToken, GuestAddClubMember,
     GuestOthers DEF Step
<1>4. ASSUME NEW r \in Requests, Abort(r) PROVE GuestInv'
  BY <1>0, <1>4, GuestOthers
<1> QED
  BY <1>1, <1>2, <1>3, <1>4 DEF Next

(***************************************************************************)
(* No address is made a user, sent a link or joined to a club that was not *)
(* invited (or seeded), however requests interleave and fail.              *)
(***************************************************************************)
THEOREM GuestsAreInvited == Spec => []OnlyTheInvited
<1>1. GuestInv => OnlyTheInvited
  BY DEF GuestInv
<1> QED
  BY <1>1, TypeAlways, JoinInit, JoinNext, GuestInit, GuestNext, PTL DEF Spec

-----------------------------------------------------------------------------
(***************************************************************************)
(* Who has signed in belongs to a club.  The argument follows a request    *)
(* from the link's owner on: at its last statement the owner is a member,  *)
(* or the invitation had expired when the link was followed.               *)
(***************************************************************************)
Settled(u) ==
  \/ \E c \in Clubs : <<c, u>> \in members
  \/ \E i \in DOMAIN invites :
       invites[i].email = u /\ ~ invites[i].accepted /\ invites[i].expires <= time

Sound(r) ==
  /\ req[r].now <= time
  /\ req[r].at \in {"pending", "join", "accept", "session"} =>
       req[r].email = {links[req[r].link].user}
  /\ req[r].at \in {"accept", "session"} => Settled(links[req[r].link].user)

SettledInv ==
  /\ Founders \subseteq members
  /\ \A r \in Requests : Sound(r)
  /\ SignedInIsMember

LEMMA SettledInit == Init => SettledInv
<1> SUFFICES ASSUME Init PROVE SettledInv
  OBVIOUS
<1>1. time = 0 /\ \A r \in Requests : req[r].at = "idle" /\ req[r].now = 0
  BY DEF Init, Idle
<1>2. ASSUME NEW r \in Requests PROVE Sound(r)
  <2>1. req[r].now <= time
    BY <1>1
  <2>2. req[r].at = "idle"
    BY <1>1
  <2> QED
    BY <2>1, <2>2 DEF Sound
<1>3. DOMAIN links = {}
  BY DEF Init
<1> QED
  BY <1>2, <1>3 DEF Init, SettledInv, SignedInIsMember

(***************************************************************************)
(* Rows are only added: members, links with their owners, and time.        *)
(***************************************************************************)
RowsStay ==
  /\ members \subseteq members' /\ time <= time'
  /\ DOMAIN links \subseteq DOMAIN links'
  /\ \A l \in DOMAIN links : links'[l].user = links[l].user

LEMMA RowsAlwaysStay ==
  ASSUME TypeInv, [Next]_vars
  PROVE  RowsStay
<1>1. /\ time \in Nat /\ \A l \in DOMAIN links : links[l] \in LinkRow
  BY RowTypes DEF TypeInv
<1>2. CASE UNCHANGED <<time, links, members>>
  BY <1>1, <1>2 DEF RowsStay
<1>3. CASE Housekeeping
  BY <1>1, <1>3 DEF Housekeeping, RowsStay, LinkRow
<1>4. CASE Tick
  BY <1>1, <1>4 DEF Tick, RowsStay, tables
<1>5. ASSUME NEW r \in Requests, ConsumeLink(r) PROVE RowsStay
  <2>1. UNCHANGED links \/ links' = [links EXCEPT ![req[r].link].used = TRUE]
    BY <1>5 DEF ConsumeLink
  <2>2. DOMAIN links' = DOMAIN links
          /\ \A l \in DOMAIN links : links'[l].user = links[l].user
    BY <1>1, <2>1 DEF LinkRow
  <2> QED
    BY <1>1, <1>5, <2>2 DEF ConsumeLink, RowsStay
<1>6. ASSUME NEW r \in Requests, NEW a \in Addresses, CreateLoginToken(r, a)
      PROVE  RowsStay
  <2> DEFINE new == [user |-> a, expires |-> req[r].now + LinkLifetime,
                     used |-> FALSE, kept |-> TRUE]
  <2>1. links' = Append(links, new) /\ links \in Seq(LinkRow)
          /\ UNCHANGED <<time, members>>
    BY <1>6 DEF CreateLoginToken, TypeInv, TypeOK
  <2> HIDE DEF new
  <2>2. DOMAIN links = 1..Len(links) /\ DOMAIN links' = 1..(Len(links) + 1)
        /\ Len(links) \in Nat /\ \A l \in 1..Len(links) : links'[l] = links[l]
    BY <2>1
  <2> QED
    BY <1>1, <2>1, <2>2 DEF RowsStay
<1>7. ASSUME NEW r \in Requests, NEW a \in Addresses, AddClubMember(r, a)
      PROVE  RowsStay
  BY <1>1, <1>7 DEF AddClubMember, RowsStay
<1>8. ASSUME NEW r \in Requests, Step(r) \/ Abort(r) PROVE RowsStay
  BY <1>2, <1>5, <1>6, <1>7, <1>8
     DEF Step, AskForLink, FindUser, FindInvite, CreateUser, FindPending, SendMail,
         FollowLink, ReadOwner, AcceptInvite, CreateAuthSession, Abort, tables
<1>9. CASE UNCHANGED vars \/ \E a \in Addresses, c \in Clubs : Invite(a, c)
  BY <1>2, <1>9 DEF Invite, vars, tables
<1> QED
  BY <1>3, <1>4, <1>8, <1>9 DEF Next, World

(* An expired invitation that is accepted all the same makes a member.     *)
LEMMA SettledStays ==
  ASSUME TypeInv, TypeInv', JoinInv', InvitesStay, RowsStay, NEW u, Settled(u)
  PROVE  Settled(u)'
<1>1. CASE \E c \in Clubs : <<c, u>> \in members
  BY <1>1 DEF RowsStay, Settled
<1>2. CASE \E i \in DOMAIN invites :
             invites[i].email = u /\ ~ invites[i].accepted /\ invites[i].expires <= time
  <2>1. PICK i \in DOMAIN invites :
          invites[i].email = u /\ ~ invites[i].accepted /\ invites[i].expires <= time
    BY <1>2
  <2>2. /\ i \in DOMAIN invites' /\ invites'[i].email = u
        /\ invites'[i].expires = invites[i].expires
    BY <2>1 DEF InvitesStay
  <2>3. invites'[i].expires <= time'
    <3>1. invites[i].expires \in Nat /\ time \in Nat
      BY RowTypes DEF TypeInv, Invitation
    <3>2. time' \in Nat
      BY SignInAssumption DEF TypeInv, TypeOK
    <3> QED
      BY <2>1, <2>2, <3>1, <3>2 DEF RowsStay
  <2>4. CASE ~ invites'[i].accepted
    BY <2>2, <2>3, <2>4 DEF Settled
  <2>5. CASE invites'[i].accepted
    <3>1. <<invites'[i].club, u>> \in members'
      BY <2>2, <2>5 DEF JoinInv, AcceptedIsMember
    <3>2. invites' \in Seq(Invitation)
      BY DEF TypeInv, TypeOK
    <3>3. invites'[i] \in Invitation
      BY <2>2, <3>2
    <3>4. invites'[i].club \in Clubs
      BY <3>3 DEF Invitation
    <3> QED
      BY <3>1, <3>4 DEF Settled
  <2> QED
    BY <2>4, <2>5
<1> QED
  BY <1>1, <1>2 DEF Settled

Steady == TypeInv /\ TypeInv' /\ JoinInv' /\ InvitesStay /\ RowsStay

(* A request that a step leaves alone stays sound. *)
LEMMA SoundStays ==
  ASSUME Steady, NEW q \in Requests, Sound(q), req'[q] = req[q]
  PROVE  Sound(q)'
<1>1. req[q].now \in Nat /\ time \in Nat /\ time' \in Nat
  BY ReqTypes, SignInAssumption DEF Steady, TypeInv, TypeOK
<1>2. req'[q].now <= time'
  BY <1>1 DEF Sound, Steady, RowsStay
<1>3. ASSUME req[q].at \in {"pending", "join", "accept", "session"}
      PROVE  links'[req[q].link].user = links[req[q].link].user
  BY <1>3 DEF Steady, TypeInv, Holds, Spending, RowsStay
<1>4. \A u : Settled(u) => Settled(u)'
  BY SettledStays DEF Steady
<1> QED
  BY <1>2, <1>3, <1>4 DEF Sound

LEMMA SettledKept ==
  ASSUME Steady, SpendInv, SettledInv,
         \A q \in Requests : req'[q] = req[q] \/ Sound(q)',
         \A l \in Links : signIns'[l] > 0 =>
           signIns[l] > 0 \/ (l \in DOMAIN links /\ Settled(links[l].user))
  PROVE  SettledInv'
<1>1. \A q \in Requests : Sound(q)'
  BY SoundStays DEF SettledInv
<1>2. ASSUME NEW l \in DOMAIN links', signIns'[l] > 0
      PROVE  Settled(links[l].user)'
  <2>1. l \in Links
    <3>1. links' \in Seq(LinkRow) /\ Len(links') <= MaxLinks /\ MaxLinks \in Nat
      BY SignInAssumption DEF Steady, TypeInv, TypeOK
    <3> QED
      BY <3>1 DEF Links
  <2>2. l \in DOMAIN links /\ Settled(links[l].user)
    <3>1. CASE signIns[l] > 0
      <4>1. l \in DOMAIN links
        BY <2>1, <3>1 DEF SpendInv, Used
      <4> QED
        BY <3>1, <4>1 DEF SettledInv, SignedInIsMember, Settled
    <3> QED
      BY <1>2, <2>1, <3>1
  <2>3. links'[l].user = links[l].user
    BY <2>2 DEF Steady, RowsStay
  <2> QED
    BY <2>2, <2>3, SettledStays DEF Steady
<1>3. SignedInIsMember'
  BY <1>2 DEF SignedInIsMember, Settled
<1>4. Founders \subseteq members'
  BY DEF SettledInv, Steady, RowsStay
<1> QED
  BY <1>1, <1>3, <1>4 DEF SettledInv

(* Sound at a place where nothing is asked of the link's owner. *)
LEMMA SoundElsewhere ==
  ASSUME Steady, NEW r \in Requests, req'[r].now <= time,
         req'[r].at \notin {"pending", "join", "accept", "session"}
  PROVE  Sound(r)'
<1>1. req'[r].now \in Nat /\ time \in Nat /\ time' \in Nat
  <2>1. req' \in [Requests -> RequestStates] /\ time' \in 0..MaxTime /\ time \in 0..MaxTime
    BY DEF Steady, TypeInv, TypeOK
  <2> QED
    BY <2>1, SignInAssumption DEF RequestStates
<1>2. req'[r].now <= time'
  BY <1>1 DEF Steady, RowsStay
<1> QED
  BY <1>2 DEF Sound

LEMMA SoundReturn ==
  ASSUME Steady, NEW r \in Requests, Return(r)
  PROVE  \A q \in Requests : req'[q] = req[q] \/ Sound(q)'
<1>1. req'[r] = Idle /\ \A q \in Requests : q # r => req'[q] = req[q]
  BY ReqReturn DEF Steady
<1>2. Idle.now = 0 /\ Idle.at = "idle" /\ time \in Nat
  BY RowTypes DEF Idle, Steady, TypeInv
<1> QED
  BY <1>1, <1>2, SoundElsewhere

LEMMA NowKept ==
  ASSUME TypeInv, NEW r \in Requests, NEW at, Goto(r, at)
  PROVE  req'[r].now = req[r].now
  BY ReqTypes DEF Goto, TypeInv, TypeOK, RequestStates

LEMMA SoundGoto ==
  ASSUME Steady, SettledInv, NEW r \in Requests, NEW at, Goto(r, at),
         at \notin {"pending", "join", "accept", "session"}
  PROVE  \A q \in Requests : req'[q] = req[q] \/ Sound(q)'
<1>1. /\ req'[r].at = at /\ req'[r].now = req[r].now
      /\ \A q \in Requests : q # r => req'[q] = req[q]
  BY ReqGoto, NowKept DEF Steady
<1>2. req'[r].now <= time
  BY <1>1 DEF SettledInv, Sound
<1> QED
  BY <1>1, <1>2, SoundElsewhere

(* The request's owner is settled when it comes to its last two statements.*)
LEMMA SoundLast ==
  ASSUME Steady, SettledInv, NEW r \in Requests, NEW at \in {"accept", "session"},
         Goto(r, at), req[r].at \in {"pending", "join", "accept"},
         NEW u, u = links[req[r].link].user, Settled(u) \/ Settled(u)'
  PROVE  \A q \in Requests : req'[q] = req[q] \/ Sound(q)'
<1>1. /\ req'[r].at = at /\ req'[r].now = req[r].now /\ req'[r].link = req[r].link
      /\ req'[r].email = req[r].email
      /\ \A q \in Requests : q # r => req'[q] = req[q]
  BY ReqGoto, NowKept DEF Steady
<1>2. req[r].now \in Nat /\ time \in Nat /\ time' \in Nat
  BY ReqTypes, SignInAssumption DEF Steady, TypeInv, TypeOK
<1>3. req'[r].now <= time'
  BY <1>1, <1>2 DEF SettledInv, Sound, Steady, RowsStay
<1>4. links'[req[r].link].user = links[req[r].link].user
  BY DEF Steady, TypeInv, Holds, Spending, RowsStay
<1>5. req'[r].email = {links'[req'[r].link].user}
  BY <1>1, <1>4 DEF SettledInv, Sound
<1>6. Settled(u)'
  BY SettledStays DEF Steady
<1>7. Settled(links[req[r].link].user)'
  BY <1>1, <1>4, <1>6 DEF Settled
<1>8. Sound(r)'
  BY <1>1, <1>3, <1>5, <1>7 DEF Sound
<1> QED
  BY <1>1, <1>8

(***************************************************************************)
(* The steps of a request, each with the place it leads to.                *)
(***************************************************************************)
Onward == \A q \in Requests : req'[q] = req[q] \/ Sound(q)'

LEMMA OnwardArrive ==
  ASSUME Steady, NEW r \in Requests,
         \/ \E a \in Addresses : AskForLink(r, a) \/ CreateLoginToken(r, a)
         \/ \E l \in mailed : FollowLink(r, l),
         req[r].now <= time
  PROVE  Onward
<1>1. req[r] \in RequestStates /\ req \in [Requests -> RequestStates] /\ time \in Nat
  BY ReqTypes, RowTypes DEF Steady, TypeInv, TypeOK
<1> DEFINE Arrived ==
      /\ req'[r].at \in {"user", "mail", "consume"} /\ req'[r].now <= time
      /\ \A q \in Requests : q # r => req'[q] = req[q]
<1>2. ASSUME NEW a \in Addresses, AskForLink(r, a) PROVE Arrived
  <2>1. PICK s : s = [Idle EXCEPT !.at = "user", !.now = time, !.email = {a}]
    OBVIOUS
  <2>2. s.at = "user" /\ s.now = time
    BY <2>1 DEF Idle
  <2>3. req' = [req EXCEPT ![r] = s]
    BY <1>2, <2>1 DEF AskForLink
  <2> QED
    BY <1>1, <2>2, <2>3
<1>3. ASSUME NEW l \in mailed, FollowLink(r, l) PROVE Arrived
  <2>1. PICK s : s = [Idle EXCEPT !.at = "consume", !.now = time, !.link = l]
    OBVIOUS
  <2>2. s.at = "consume" /\ s.now = time
    BY <2>1 DEF Idle
  <2>3. req' = [req EXCEPT ![r] = s]
    BY <1>3, <2>1 DEF FollowLink
  <2> QED
    BY <1>1, <2>2, <2>3
<1>4. ASSUME NEW a \in Addresses, CreateLoginToken(r, a) PROVE Arrived
  BY <1>1, <1>4 DEF CreateLoginToken, RequestStates
<1>5. Arrived
  BY <1>2, <1>3, <1>4
<1> QED
  BY <1>5, SoundElsewhere DEF Onward

LEMMA OnwardPlain ==
  ASSUME Steady, SettledInv, NEW r \in Requests,
         \/ \E a \in Addresses :
              FindUser(r, a) \/ FindInvite(r, a) \/ CreateUser(r, a)
         \/ SendMail(r) \/ ConsumeLink(r) \/ CreateAuthSession(r) \/ Abort(r)
  PROVE  Onward
<1>1. Return(r) \/ \E at \in {"link", "invite", "create", "owner"} : Goto(r, at)
  BY DEF FindUser, FindInvite, CreateUser, SendMail, ConsumeLink, CreateAuthSession,
     Abort
<1> QED
  BY <1>1, SoundReturn, SoundGoto DEF Onward

LEMMA OnwardReadOwner ==
  ASSUME Steady, SettledInv, NEW r \in Requests, ReadOwner(r)
  PROVE  Onward
<1>1. CASE Return(r)
  BY <1>1, SoundReturn DEF Onward
<1>2. CASE req' = [req EXCEPT ![r].at = "pending", ![r].email = {links[req[r].link].user}]
  <2>1. /\ req[r] \in RequestStates /\ req \in [Requests -> RequestStates]
        /\ time \in Nat /\ time' \in Nat /\ req[r].now \in Nat
    BY ReqTypes, SignInAssumption DEF Steady, TypeInv, TypeOK
  <2>2. /\ req'[r].at = "pending" /\ req'[r].now = req[r].now
        /\ req'[r].email = {links[req[r].link].user} /\ req'[r].link = req[r].link
        /\ \A q \in Requests : q # r => req'[q] = req[q]
    BY <1>2, <2>1 DEF RequestStates
  <2>3. req'[r].now <= time'
    BY <2>1, <2>2 DEF SettledInv, Sound, Steady, RowsStay
  <2>4. UNCHANGED links
    BY DEF ReadOwner, tables
  <2>5. Sound(r)'
    BY <2>2, <2>3, <2>4 DEF Sound
  <2> QED
    BY <2>2, <2>5 DEF Onward
<1> QED
  BY <1>1, <1>2 DEF ReadOwner

(***************************************************************************)
(* Who was invited and has nothing pending belongs already, or is late.    *)
(***************************************************************************)
LEMMA NothingPending ==
  ASSUME TypeInv, JoinInv, SettledInv, NEW r \in Requests, NEW a,
         Invited(a, Clubs), Pending(a, req[r].now) = {}
  PROVE  Settled(a)
<1>1. CASE \E c \in Clubs : <<c, a>> \in Founders
  BY <1>1 DEF SettledInv, Settled
<1>2. CASE \E i \in DOMAIN invites : invites[i].email = a /\ invites[i].club \in Clubs
  <2>1. PICK i \in DOMAIN invites : invites[i].email = a /\ invites[i].club \in Clubs
    BY <1>2
  <2>2. CASE invites[i].accepted
    BY <2>1, <2>2 DEF JoinInv, AcceptedIsMember, Settled
  <2>3. CASE ~ invites[i].accepted
    <3>1. ~ (invites[i].expires > req[r].now)
      BY <2>1, <2>3 DEF Pending
    <3>2. invites[i].expires \in Nat /\ req[r].now \in Nat /\ time \in Nat
      BY RowTypes, ReqTypes DEF TypeInv, Invitation
    <3>3. invites[i].expires <= time
      BY <3>1, <3>2 DEF SettledInv, Sound
    <3> QED
      BY <2>1, <2>3, <3>3 DEF Settled
  <2> QED
    BY <2>2, <2>3
<1> QED
  BY <1>1, <1>2 DEF Invited

LEMMA OnwardFindPending ==
  ASSUME Steady, JoinInv, GuestInv, SettledInv, NEW r \in Requests,
         NEW a \in Addresses, FindPending(r, a)
  PROVE  Onward
<1>1. /\ req[r].at = "pending" /\ req[r].email = {a}
      /\ links[req[r].link].user = a /\ req[r].link \in DOMAIN links
  BY DEF FindPending, About, SettledInv, Sound, Steady, TypeInv, Holds, Spending
<1>2. CASE Pending(a, req[r].now) = {} /\ Goto(r, "session")
  <2>1. Invited(a, Clubs)
    BY <1>1 DEF GuestInv, OnlyTheInvited
  <2>2. Settled(a)
    BY <1>2, <2>1, NothingPending DEF Steady
  <2> QED
    BY <1>1, <1>2, <2>2, SoundLast DEF Onward
<1>3. ASSUME NEW i, req' = [req EXCEPT ![r].at = "join", ![r].invite = i]
      PROVE  Onward
  <2>1. /\ req[r] \in RequestStates /\ req \in [Requests -> RequestStates]
        /\ time \in Nat /\ req[r].now \in Nat
    BY ReqTypes, RowTypes DEF Steady, TypeInv, TypeOK
  <2>2. /\ req'[r].at = "join" /\ req'[r].now = req[r].now
        /\ req'[r].email = req[r].email /\ req'[r].link = req[r].link
        /\ \A q \in Requests : q # r => req'[q] = req[q]
    BY <1>3, <2>1 DEF RequestStates
  <2>3. UNCHANGED <<links, time>>
    BY DEF FindPending, tables
  <2>4. Sound(r)'
    BY <1>1, <2>2, <2>3 DEF Sound, SettledInv
  <2> QED
    BY <2>2, <2>4 DEF Onward
<1> QED
  BY <1>2, <1>3 DEF FindPending

LEMMA OnwardJoin ==
  ASSUME Steady, SettledInv, NEW r \in Requests,
         AcceptInvite(r) \/ \E a \in Addresses : AddClubMember(r, a)
  PROVE  Onward
<1>1. PICK u : u = links[req[r].link].user
  OBVIOUS
<1>2. CASE AcceptInvite(r)
  <2>1. req[r].at = "accept" /\ (Return(r) \/ Goto(r, "session"))
    BY <1>2 DEF AcceptInvite
  <2>2. Settled(u)
    BY <1>1, <2>1 DEF SettledInv, Sound, Settled
  <2> QED
    BY <1>1, <2>1, <2>2, SoundReturn, SoundLast DEF Onward
<1>3. ASSUME NEW a \in Addresses, AddClubMember(r, a) PROVE Onward
  <2>1. /\ req[r].at = "join" /\ req[r].email = {a} /\ Goto(r, "accept")
        /\ <<invites[req[r].invite].club, a>> \in members'
    BY <1>3 DEF AddClubMember, About
  <2>2. u = a
    BY <1>1, <2>1 DEF SettledInv, Sound
  <2>3. invites[req[r].invite].club \in Clubs
    BY <2>1, RowTypes DEF Steady, TypeInv, Holds, Invitation
  <2>4. Settled(u)'
    BY <2>1, <2>2, <2>3 DEF Settled
  <2> QED
    BY <1>1, <2>1, <2>4, SoundLast DEF Onward
<1> QED
  BY <1>2, <1>3

(* Only a settled owner's link opens a session. *)
LEMMA SessionsSettled ==
  ASSUME TypeInv, SettledInv, [Next]_vars, NEW l \in Links, signIns'[l] > 0
  PROVE  signIns[l] > 0 \/ (l \in DOMAIN links /\ Settled(links[l].user))
<1>1. CASE UNCHANGED signIns
  BY <1>1
<1>2. ASSUME NEW r \in Requests, CreateAuthSession(r)
      PROVE  signIns[l] > 0 \/ (l \in DOMAIN links /\ Settled(links[l].user))
  <2>1. CASE l = req[r].link
    <3>1. l \in DOMAIN links
      BY <1>2, <2>1 DEF CreateAuthSession, TypeInv, Holds, Spending
    <3>2. Settled(links[l].user)
      BY <1>2, <2>1 DEF CreateAuthSession, SettledInv, Sound, Settled
    <3> QED
      BY <3>1, <3>2
  <2>2. CASE l # req[r].link
    BY <1>2, <2>2 DEF CreateAuthSession, TypeInv, TypeOK
  <2> QED
    BY <2>1, <2>2
<1>3. CASE World \/ UNCHANGED vars
  BY <1>1, <1>3 DEF World, Invite, Housekeeping, Tick, traces, vars
<1>4. ASSUME NEW r \in Requests, Step(r) \/ Abort(r)
      PROVE  UNCHANGED signIns \/ CreateAuthSession(r)
  BY <1>4 DEF Step, Abort, AskForLink, FindUser, FindInvite, CreateUser,
     CreateLoginToken, FindPending, AddClubMember, SendMail, FollowLink, ConsumeLink,
     ReadOwner, AcceptInvite, traces
<1> QED
  BY <1>1, <1>2, <1>3, <1>4 DEF Next

LEMMA SettledNext ==
  TypeInv /\ JoinInv /\ SpendInv /\ GuestInv /\ SettledInv /\ [Next]_vars => SettledInv'
<1> SUFFICES ASSUME TypeInv, JoinInv, SpendInv, GuestInv, SettledInv, [Next]_vars
             PROVE  SettledInv'
  OBVIOUS
<1>1. Steady
  BY TypeNext, JoinNext, InvitesAlwaysStay, RowsAlwaysStay DEF Steady
<1>2. CASE World \/ UNCHANGED vars
  <2>1. UNCHANGED req
    BY <1>2 DEF World, Invite, Housekeeping, Tick, vars
  <2> QED
    BY <2>1, <1>1, SettledKept, SessionsSettled
<1>3. ASSUME NEW r \in Requests, Step(r) \/ Abort(r) PROVE SettledInv'
  <2>1. req[r].now <= time
    BY DEF SettledInv, Sound
  <2>2. Onward
    BY <1>1, <1>3, <2>1, OnwardArrive, OnwardPlain, OnwardReadOwner,
       OnwardFindPending, OnwardJoin DEF Step
  <2> QED
    BY <1>1, <2>2, SettledKept, SessionsSettled DEF Onward
<1> QED
  BY <1>2, <1>3 DEF Next

(***************************************************************************)
(* Who has signed in belongs to a club, or the invitation expired before   *)
(* the link was used: no interleaving of sign-ins and no failure between   *)
(* their statements lets an invited guest in without the club.             *)
(***************************************************************************)
THEOREM SignedInBelongs == Spec => []SignedInIsMember
<1>1. SettledInv => SignedInIsMember
  BY DEF SettledInv
<1> QED
  BY <1>1, TypeAlways, JoinInit, JoinNext, SpendInit, SpendNext, GuestInit, GuestNext,
     SettledInit, SettledNext, PTL DEF Spec
===============================================================================
