-------------------------------- MODULE SignIn --------------------------------
(***************************************************************************)
(* Invitations, one-time links and sign-in: package auth over the tables   *)
(* users, invites, login_tokens and club_members.                          *)
(*                                                                         *)
(* As in module RoundStore a request is a process and each of its          *)
(* statements an action, because it gives the only connection back between *)
(* two statements.  A request reads the clock once, when it arrives.       *)
(*                                                                         *)
(* A user is its address (users.email is unique); an invitation and a link *)
(* are their places in the order they were made.  Left out: roles, and     *)
(* what a session is good for once it exists (Authenticate, Logout).       *)
(* UserByID is folded into the read before it: users are never deleted.    *)
(***************************************************************************)
EXTENDS Naturals, Sequences

CONSTANTS
  Requests,        (* requests that can be in progress at once             *)
  Addresses,
  Clubs,
  Founders,        (* members the seed command created, without invitation *)
  LinkLifetime, InviteLifetime,
  MaxTime,         (* bound on the clock                                   *)
  MaxInvites,      (* bound on the invitations                             *)
  MaxLinks         (* bound on the links                                   *)

ASSUME SignInAssumption ==
  /\ Founders \subseteq Clubs \X Addresses
  /\ LinkLifetime \in Nat /\ InviteLifetime \in Nat
  /\ MaxTime \in Nat /\ MaxInvites \in Nat /\ MaxLinks \in Nat

VARIABLES
  time,      (* the clock                                                  *)
  users,     (* table users                                                *)
  invites,   (* table invites, oldest first                                *)
  links,     (* table login_tokens, oldest first, with the deleted ones    *)
  members,   (* table club_members                                         *)
  req,       (* per request: where it is and what it holds                 *)
  mailed,    (* the links that have reached an inbox                       *)
  signIns    (* history: how many sessions each link has opened            *)

tables == <<users, invites, links, members>>
traces == <<mailed, signIns>>
vars   == <<time, tables, req, traces>>

Links == 1..MaxLinks

Invitation == [email : Addresses, club : Clubs, expires : Nat, accepted : BOOLEAN]

LinkRow == [user : Addresses, expires : Nat, used : BOOLEAN, kept : BOOLEAN]

Stages ==
  {"user", "invite", "create", "link", "mail",          (* RequestLink *)
   "consume", "owner", "pending", "join", "accept", "session"} (* Verify *)

Idle == [at |-> "idle", now |-> 0, email |-> {}, link |-> 0, invite |-> 0]

RequestStates ==
  [at : Stages \cup {"idle"}, now : 0..MaxTime, email : SUBSET Addresses,
   link : 0..MaxLinks, invite : 0..MaxInvites]

TypeOK ==
  /\ time \in 0..MaxTime
  /\ users \subseteq Addresses
  /\ invites \in Seq(Invitation) /\ Len(invites) <= MaxInvites
  /\ links \in Seq(LinkRow) /\ Len(links) <= MaxLinks
  /\ members \subseteq Clubs \X Addresses
  /\ req \in [Requests -> RequestStates]
  /\ mailed \subseteq DOMAIN links
  /\ signIns \in [Links -> Nat]

Init ==
  /\ time = 0
  /\ users = {member[2] : member \in Founders}
  /\ invites = <<>> /\ links = <<>>
  /\ members = Founders
  /\ req = [r \in Requests |-> Idle]
  /\ mailed = {} /\ signIns = [l \in Links |-> 0]

-----------------------------------------------------------------------------
Goto(r, at) == req' = [req EXCEPT ![r].at = at]

Return(r) == req' = [req EXCEPT ![r] = Idle]

(* The address a request is about: the caller's, or the link's owner's. *)
About(r, a) == req[r].email = {a}

(* Mutant: the invitation of any address will do. *)
PendingOfAnyone(a, now) ==
  {i \in DOMAIN invites : ~invites[i].accepted /\ invites[i].expires > now}

(* PendingInvite: not accepted, not expired. *)
Pending(a, now) ==
  {i \in DOMAIN invites :
     invites[i].email = a /\ ~invites[i].accepted /\ invites[i].expires > now}

Newest(S) == {i \in S : \A j \in S : j <= i}

(* A captain invites an address. *)
Invite(a, c) ==
  /\ Len(invites) < MaxInvites
  /\ invites' = Append(invites, [email |-> a, club |-> c,
                  expires |-> time + InviteLifetime, accepted |-> FALSE])
  /\ UNCHANGED <<time, users, links, members, req, traces>>

-----------------------------------------------------------------------------
(* RequestLink. *)

AskForLink(r, a) ==
  /\ req[r].at = "idle"
  /\ req' = [req EXCEPT ![r] =
       [Idle EXCEPT !.at = "user", !.now = time, !.email = {a}]]
  /\ UNCHANGED <<time, tables, traces>>

(* UserByEmail: an existing user needs no invitation. *)
FindUser(r, a) ==
  /\ req[r].at = "user" /\ About(r, a)
  /\ Goto(r, IF a \in users THEN "link" ELSE "invite")
  /\ UNCHANGED <<time, tables, traces>>

(* PendingInvite: nobody else is sent anything, and is not told. *)
FindInvite(r, a) ==
  /\ req[r].at = "invite" /\ About(r, a)
  /\ IF Pending(a, req[r].now) = {} THEN Return(r) ELSE Goto(r, "create")
  /\ UNCHANGED <<time, tables, traces>>

(* CreateUser fails if another request has just created the user. *)
CreateUser(r, a) ==
  /\ req[r].at = "create" /\ About(r, a)
  /\ IF a \in users THEN Return(r) ELSE Goto(r, "link")
  /\ users' = users \cup {a}
  /\ UNCHANGED <<time, invites, links, members, traces>>

CreateLoginToken(r, a) ==
  /\ req[r].at = "link" /\ About(r, a)
  /\ Len(links) < MaxLinks
  /\ links' = Append(links, [user |-> a, expires |-> req[r].now + LinkLifetime,
                             used |-> FALSE, kept |-> TRUE])
  /\ req' = [req EXCEPT ![r].at = "mail", ![r].link = Len(links')]
  /\ UNCHANGED <<time, users, invites, members, traces>>

SendMail(r) ==
  /\ req[r].at = "mail"
  /\ mailed' = mailed \cup {req[r].link}
  /\ Return(r)
  /\ UNCHANGED <<time, tables, signIns>>

-----------------------------------------------------------------------------
(* Verify. *)

(* Somebody follows a link out of an inbox, perhaps not for the first time.*)
FollowLink(r, l) ==
  /\ req[r].at = "idle" /\ l \in mailed
  /\ req' = [req EXCEPT ![r] =
       [Idle EXCEPT !.at = "consume", !.now = time, !.link = l]]
  /\ UNCHANGED <<time, tables, traces>>

(* Mutant: the UPDATE does not ask for an unused link. *)
ConsumeAnyLink(r) ==
  /\ req[r].at = "consume"
  /\ LET l == req[r].link
     IN  IF links[l].kept /\ links[l].expires > req[r].now
           THEN Goto(r, "owner") /\ links' = [links EXCEPT ![l].used = TRUE]
           ELSE Return(r) /\ UNCHANGED links
  /\ UNCHANGED <<time, users, invites, members, traces>>

(* ConsumeLoginToken, the UPDATE: one request can mark a link used. *)
ConsumeLink(r) ==
  /\ req[r].at = "consume"
  /\ LET l == req[r].link
     IN  IF links[l].kept /\ ~links[l].used /\ links[l].expires > req[r].now
           THEN Goto(r, "owner") /\ links' = [links EXCEPT ![l].used = TRUE]
           ELSE Return(r) /\ UNCHANGED links
  /\ UNCHANGED <<time, users, invites, members, traces>>

(* ConsumeLoginToken, the SELECT, which fails on a link cleared meanwhile. *)
ReadOwner(r) ==
  /\ req[r].at = "owner"
  /\ LET l == req[r].link
     IN  IF links[l].kept
           THEN req' = [req EXCEPT ![r].at = "pending", ![r].email = {links[l].user}]
           ELSE Return(r)
  /\ UNCHANGED <<time, tables, traces>>

(* Mutant: an invitation only counts in RequestLink. *)
FindPendingNever(r, a) ==
  /\ req[r].at = "pending" /\ About(r, a)
  /\ Goto(r, "session")
  /\ UNCHANGED <<time, tables, traces>>

(* Mutant: the invitation is accepted before the membership exists. *)
FindPendingAccepts(r, a) ==
  /\ req[r].at = "pending" /\ About(r, a)
  /\ LET pending == Pending(a, req[r].now)
     IN  \/ pending = {} /\ Goto(r, "session") /\ UNCHANGED invites
         \/ \E i \in Newest(pending) :
              /\ req' = [req EXCEPT ![r].at = "join", ![r].invite = i]
              /\ invites' = [invites EXCEPT ![i].accepted = TRUE]
  /\ UNCHANGED <<time, users, links, members, traces>>

(* acceptPendingInvite looks for the newest pending invitation. *)
FindPending(r, a) ==
  /\ req[r].at = "pending" /\ About(r, a)
  /\ LET pending == Pending(a, req[r].now)
     IN  \/ pending = {} /\ Goto(r, "session")
         \/ \E i \in Newest(pending) :
              req' = [req EXCEPT ![r].at = "join", ![r].invite = i]
  /\ UNCHANGED <<time, tables, traces>>

(* AddClubMember, an upsert. *)
AddClubMember(r, a) ==
  /\ req[r].at = "join" /\ About(r, a)
  /\ members' = members \cup {<<invites[req[r].invite].club, a>>}
  /\ Goto(r, "accept")
  /\ UNCHANGED <<time, users, invites, links, traces>>

(* AcceptInvite fails if another sign-in has spent the invitation. *)
AcceptInvite(r) ==
  /\ req[r].at = "accept"
  /\ LET i == req[r].invite
     IN  IF invites[i].accepted
           THEN Return(r)
           ELSE Goto(r, "session")
  /\ invites' = [invites EXCEPT ![req[r].invite].accepted = TRUE]
  /\ UNCHANGED <<time, users, links, members, traces>>

CreateAuthSession(r) ==
  /\ req[r].at = "session"
  /\ signIns' = [signIns EXCEPT ![req[r].link] = @ + 1]
  /\ Return(r)
  /\ UNCHANGED <<time, tables, mailed>>

-----------------------------------------------------------------------------
(* The request is cancelled, its statement or its mail fails, or the       *)
(* process stops, before what it would have done next.                     *)
Abort(r) ==
  /\ req[r].at # "idle"
  /\ Return(r)
  /\ UNCHANGED <<time, tables, traces>>

(* Mutant: the places of cleared links are given out again. *)
HousekeepingCloses ==
  /\ links' = SelectSeq(links, LAMBDA l : ~l.used /\ l.expires >= time)
  /\ UNCHANGED <<time, users, invites, members, req, traces>>

(* DeleteExpiredAuth clears used and expired links. *)
Housekeeping ==
  /\ links' = [l \in DOMAIN links |->
       [links[l] EXCEPT !.kept = @ /\ ~links[l].used /\ links[l].expires >= time]]
  /\ UNCHANGED <<time, users, invites, members, req, traces>>

Tick ==
  /\ time < MaxTime
  /\ time' = time + 1
  /\ UNCHANGED <<tables, req, traces>>

Step(r) ==
  \/ \E a \in Addresses :
       \/ AskForLink(r, a) \/ FindUser(r, a) \/ FindInvite(r, a)
       \/ CreateUser(r, a) \/ CreateLoginToken(r, a)
       \/ FindPending(r, a) \/ AddClubMember(r, a)
  \/ SendMail(r) \/ \E l \in mailed : FollowLink(r, l)
  \/ ConsumeLink(r) \/ ReadOwner(r) \/ AcceptInvite(r) \/ CreateAuthSession(r)

World ==
  (\E a \in Addresses, c \in Clubs : Invite(a, c)) \/ Housekeeping \/ Tick

Next == World \/ (\E r \in Requests : Step(r)) \/ (\E r \in Requests : Abort(r))

Spec == Init /\ [][Next]_vars

-----------------------------------------------------------------------------
(***************************************************************************)
(* A link opens at most one session, however often and however             *)
(* concurrently it is followed.                                            *)
(***************************************************************************)
LinkWorksOnce == \A l \in Links : signIns[l] <= 1

(***************************************************************************)
(* A spent invitation has made a member: no failure between the statements *)
(* that join the club and spend the invitation costs the guest the club.   *)
(***************************************************************************)
AcceptedIsMember ==
  \A i \in DOMAIN invites :
    invites[i].accepted => <<invites[i].club, invites[i].email>> \in members

Invited(a, C) ==
  \/ \E c \in C : <<c, a>> \in Founders
  \/ \E i \in DOMAIN invites : invites[i].email = a /\ invites[i].club \in C

(***************************************************************************)
(* Only addresses somebody invited are ever made users or sent a link, and *)
(* only to clubs that invited them do they belong.                         *)
(***************************************************************************)
OnlyTheInvited ==
  /\ \A a \in users : Invited(a, Clubs)
  /\ \A l \in DOMAIN links : Invited(links[l].user, Clubs)
  /\ \A member \in members : Invited(member[2], {member[1]})

(***************************************************************************)
(* Whoever has signed in belongs to a club, unless an invitation of theirs *)
(* has expired unaccepted: as it may between the request for the link and  *)
(* its use.                                                                *)
(***************************************************************************)
SignedInIsMember ==
  \A l \in DOMAIN links : signIns[l] > 0 =>
    \/ \E c \in Clubs : <<c, links[l].user>> \in members
    \/ \E i \in DOMAIN invites :
         /\ invites[i].email = links[l].user
         /\ ~invites[i].accepted /\ invites[i].expires <= time
===============================================================================
