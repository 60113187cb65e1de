----------------------------- MODULE AccessProofs -----------------------------
(***************************************************************************)
(* Theorems about module Access, for any number of requests, users and     *)
(* cookies, any roles that invitations give, and any limits.               *)
(***************************************************************************)
EXTENDS Access, FiniteSetTheorems, WellFoundedInduction, TLAPS

(* The types that the argument about requests needs.                       *)
Types ==
  /\ time \in Nat
  /\ sessions \subseteq [token : Tokens, expires : Nat]
  /\ role \in [Users -> SUBSET Roles]
  /\ confirmed \in BOOLEAN
  /\ req \in [Requests -> RequestStates]
  /\ signedIn \subseteq Tokens
  /\ late \subseteq Requests
  /\ held \in [Requests -> SUBSET (Roles \cup {"session", "public"})]

(***************************************************************************)
(* What is known of a request with cookie k under way.  Its caller's role  *)
(* is one of those the caller has had.  A session that is found was there  *)
(* when the request arrived, since a cookie is given one session, once,    *)
(* and never a later end.                                                  *)
(***************************************************************************)
Carries(r, k) ==
  /\ req[r].token = {k}
  /\ role[Owner[k]] \subseteq held[r]
  /\ req[r].at # "select" \/ Valid(k) # {} => "session" \in held[r]
  /\ r \in late => k \in signedOut /\ req[r].at = "select"

RequestInv(r) ==
  /\ req[r].op = "public" => req[r].at \in {"load", "act"} /\ r \notin late
  /\ req[r].op # "public" => \E k \in signedIn : Carries(r, k)
  /\ confirmed \/ (req[r].shows /\ req[r].op # "session") => "public" \in held[r]
  /\ req[r].at = "act" /\ req[r].op \notin {"public", "dashboard"} =>
       \E x \in held[r] \cap Roles : AtLeast(x, Required(req[r].op))

(* A cookie that has been signed out has no session. *)
SignedOutInv ==
  /\ signedOut \subseteq signedIn
  /\ \A s \in sessions : s.token \notin signedOut

AccessInv ==
  /\ Types
  /\ SignedOutInv
  /\ \A r \in Requests : req[r].at # "idle" => RequestInv(r)

LEMMA InitInv == Init => AccessInv
<1> SUFFICES ASSUME Init PROVE AccessInv
  OBVIOUS
<1>1. Idle \in RequestStates
  BY DEF Idle, RequestStates, Operations
<1>2. Types
  BY <1>1 DEF Init, LimiterInit, Types
<1>3. \A r \in Requests : req[r].at = "idle"
  BY DEF Init, Idle
<1> QED
  BY <1>2, <1>3 DEF Init, AccessInv, SignedOutInv

(***************************************************************************)
(* The steps of a request: no other request is affected.                   *)
(***************************************************************************)
LEMMA OthersKept ==
  ASSUME AccessInv, NEW r \in Requests,
         NEW q \in RequestStates, req' = [req EXCEPT ![r] = q],
         UNCHANGED <<time, tables, signedIn, signedOut>>,
         held' \in [Requests -> SUBSET (Roles \cup {"session", "public"})],
         late' \subseteq Requests,
         \A o \in Requests \ {r} : held'[o] = held[o] /\ (o \in late <=> o \in late'),
         q.at # "idle" => RequestInv(r)'
  PROVE  AccessInv'
<1>1. Types'
  BY DEF AccessInv, Types, tables
<1>2. SignedOutInv'
  BY DEF AccessInv, SignedOutInv, tables
<1>3. ASSUME NEW o \in Requests \ {r}, req'[o].at # "idle" PROVE RequestInv(o)'
  <2>1. req'[o] = req[o] /\ held'[o] = held[o] /\ (o \in late <=> o \in late')
    BY DEF AccessInv, Types
  <2>2. RequestInv(o)
    BY <1>3, <2>1 DEF AccessInv
  <2>3. \A k : Valid(k)' = Valid(k)
    BY DEF Valid, tables
  <2>4. \A k \in signedIn : Carries(o, k) => Carries(o, k)'
    BY <2>1, <2>3 DEF Carries, tables
  <2> QED
    BY <2>1, <2>2, <2>4 DEF RequestInv, tables
<1>4. req'[r] = q
  BY DEF AccessInv, Types
<1> QED
  BY <1>1, <1>2, <1>3, <1>4 DEF AccessInv

LEMMA IdleType == Idle \in RequestStates /\ Idle.at = "idle"
  BY DEF Idle, RequestStates, Operations

LEMMA ReturnKeeps ==
  ASSUME AccessInv, NEW r \in Requests, Return(r),
         UNCHANGED <<time, limiter, tables, history>>
  PROVE  AccessInv'
<1>1. /\ req' = [req EXCEPT ![r] = Idle]
      /\ UNCHANGED <<time, tables, signedIn, signedOut, held, late>>
  BY DEF Return, history
<1>2. /\ held' \in [Requests -> SUBSET (Roles \cup {"session", "public"})]
      /\ late' \subseteq Requests
  BY <1>1 DEF AccessInv, Types
<1> QED
  BY <1>1, <1>2, IdleType, OthersKept

(* A step that moves a request and may change what it has read. *)
Moved(r, place, shows) ==
  [req[r] EXCEPT !.at = place, !.shows = shows]

LEMMA MovedFields ==
  ASSUME NEW r, req[r] \in RequestStates, NEW place, NEW v
  PROVE  /\ Moved(r, place, v).at = place /\ Moved(r, place, v).op = req[r].op
         /\ Moved(r, place, v).token = req[r].token
         /\ Moved(r, place, v).shows = v
         /\ v \in BOOLEAN /\ place \in {"touch", "load", "role", "act"}
              => Moved(r, place, v) \in RequestStates
         /\ [req[r] EXCEPT !.at = place] = Moved(r, place, req[r].shows)
BY DEF Moved, RequestStates

LEMMA MoveKeeps ==
  ASSUME AccessInv, NEW r \in Requests, NEW place, NEW shows \in BOOLEAN,
         place \in {"touch", "load", "role", "act"},
         req[r].at # "idle",
         req' = [req EXCEPT ![r] = Moved(r, place, shows)],
         UNCHANGED <<time, limiter, tables, history>>,
         req[r].op = "public" => place = "act",
         req[r].op # "public" =>
           \A k \in signedIn : Carries(r, k) => "session" \in held[r] /\ r \notin late,
         shows /\ req[r].op # "session" => confirmed \/ req[r].shows,
         place = "act" /\ req[r].op \notin {"public", "dashboard"} =>
           \E x \in held[r] \cap Roles : AtLeast(x, Required(req[r].op))
  PROVE  AccessInv'
<1>1. req[r] \in RequestStates
  BY DEF AccessInv, Types
<1>2. Moved(r, place, shows) \in RequestStates
  BY <1>1, MovedFields
<1>3. req'[r] = Moved(r, place, shows)
  BY DEF AccessInv, Types
<1>4. /\ req'[r].at = place /\ req'[r].op = req[r].op
      /\ req'[r].token = req[r].token /\ req'[r].shows = shows
  <2>1. /\ Moved(r, place, shows).at = place /\ Moved(r, place, shows).op = req[r].op
        /\ Moved(r, place, shows).token = req[r].token
        /\ Moved(r, place, shows).shows = shows
    BY <1>1 DEF Moved, RequestStates
  <2> QED
    BY <1>3, <2>1
<1>5. UNCHANGED <<time, tables, signedIn, signedOut, held, late>>
  BY DEF history
<1>6. RequestInv(r)
  BY DEF AccessInv
<1>7. \A k \in signedIn : req[r].op # "public" /\ Carries(r, k) => Carries(r, k)'
  BY <1>4, <1>5 DEF Carries, tables
<1>8. RequestInv(r)'
  BY <1>4, <1>5, <1>6, <1>7 DEF RequestInv, tables
<1>9. /\ held' \in [Requests -> SUBSET (Roles \cup {"session", "public"})]
      /\ late' \subseteq Requests
  BY <1>5 DEF AccessInv, Types
<1> QED
  BY <1>2, <1>5, <1>8, <1>9, OthersKept

(* The places of a request are the fields that Goto changes. *)
LEMMA GotoMoves ==
  ASSUME Types, NEW r \in Requests, NEW place, Goto(r, place)
  PROVE  /\ req' = [req EXCEPT ![r] = Moved(r, place, req[r].shows)]
         /\ req[r].shows \in BOOLEAN
<1>1. req[r] \in RequestStates
  BY DEF Types
<1>2. [req[r] EXCEPT !.at = place] = Moved(r, place, req[r].shows)
  BY <1>1, MovedFields
<1> QED
  BY <1>1, <1>2 DEF Goto, RequestStates, Types

(* Past the session's SELECT, what a request carries says it was let in. *)
LEMMA LetIn ==
  ASSUME NEW r, NEW k, Carries(r, k), req[r].at # "select"
  PROVE  "session" \in held[r] /\ r \notin late
  BY DEF Carries

LEMMA ArriveKeeps ==
  ASSUME AccessInv, NEW r \in Requests, NEW op \in Operations, Arrive(r, op)
  PROVE  AccessInv'
<1>1. UNCHANGED <<time, tables, signedIn, signedOut>> /\ UNCHANGED <<sessions, role, confirmed>>
  BY DEF Arrive, tables
<1>2. \A k : Valid(k)' = Valid(k)
  BY <1>1 DEF Valid
<1>3. CASE op = "public"
  <2> DEFINE q == [Idle EXCEPT !.at = "load"]
  <2>1. /\ q.at = "load" /\ q.op = "public" /\ q.shows = FALSE
        /\ q \in RequestStates
    BY DEF Idle, RequestStates, Operations
  <2>2. /\ req' = [req EXCEPT ![r] = q]
        /\ held' = [held EXCEPT ![r] = Public]
        /\ late' = late \ {r}
    BY <1>3 DEF Arrive
  <2> HIDE DEF q
  <2>3. req'[r] = q /\ held'[r] = Public
    BY <2>2 DEF AccessInv, Types
  <2>4. /\ held' \in [Requests -> SUBSET (Roles \cup {"session", "public"})]
        /\ late' \subseteq Requests
    BY <2>2 DEF AccessInv, Types, Public
  <2>5. RequestInv(r)'
    BY <1>1, <2>1, <2>2, <2>3 DEF RequestInv, Public
  <2>6. \A o \in Requests \ {r} : held'[o] = held[o] /\ (o \in late <=> o \in late')
    BY <2>2 DEF AccessInv, Types
  <2> QED
    BY <1>1, <2>1, <2>2, <2>4, <2>5, <2>6, OthersKept
<1>4. CASE op # "public"
  <2>1. PICK k \in signedIn :
          /\ req' = [req EXCEPT ![r] =
               [Idle EXCEPT !.at = "select", !.op = op, !.token = {k}]]
          /\ held' = [held EXCEPT ![r] =
               Public \cup role[Owner[k]]
                 \cup IF Valid(k) = {} THEN {} ELSE {"session"}]
          /\ late' = IF k \in signedOut THEN late \cup {r} ELSE late \ {r}
    BY <1>4 DEF Arrive
  <2> DEFINE q == [Idle EXCEPT !.at = "select", !.op = op, !.token = {k}]
             h == Public \cup role[Owner[k]]
                    \cup IF Valid(k) = {} THEN {} ELSE {"session"}
  <2>2. k \in Tokens /\ Owner[k] \in Users
    BY AccessAssumption DEF AccessInv, Types
  <2>3. /\ q.at = "select" /\ q.op = op /\ q.shows = FALSE /\ q.token = {k}
        /\ q \in RequestStates
    BY <2>2 DEF Idle, RequestStates, Operations
  <2>4. role[Owner[k]] \subseteq Roles
    BY <2>2 DEF AccessInv, Types
  <2>5. /\ h \in SUBSET (Roles \cup {"session", "public"})
        /\ role[Owner[k]] \subseteq h
        /\ Valid(k) # {} => "session" \in h
        /\ confirmed => "public" \in h
    BY <2>4 DEF Public
  <2>6. req' = [req EXCEPT ![r] = q] /\ held' = [held EXCEPT ![r] = h]
    BY <2>1
  <2> HIDE DEF q, h
  <2>7. req'[r] = q /\ held'[r] = h
    BY <2>6 DEF AccessInv, Types
  <2>8. /\ held' \in [Requests -> SUBSET (Roles \cup {"session", "public"})]
        /\ late' \subseteq Requests
    BY <2>1, <2>5, <2>6 DEF AccessInv, Types
  <2>9. Carries(r, k)'
    BY <1>1, <1>2, <2>1, <2>3, <2>5, <2>7 DEF Carries
  <2>10. RequestInv(r)'
    BY <1>1, <1>4, <2>3, <2>5, <2>7, <2>9 DEF RequestInv
  <2>11. \A o \in Requests \ {r} : held'[o] = held[o] /\ (o \in late <=> o \in late')
    BY <2>1, <2>6 DEF AccessInv, Types
  <2> QED
    BY <1>1, <2>3, <2>6, <2>8, <2>10, <2>11, OthersKept
<1> QED
  BY <1>3, <1>4

LEMMA StepKeeps ==
  ASSUME AccessInv, NEW r \in Requests, Step(r)
  PROVE  AccessInv'
<1>1. req[r].at # "idle" /\ req[r] \in RequestStates /\ Types
  BY DEF Step, SelectSession, TouchSession, Load, requireRole, Act, AccessInv, Types
<1>2. RequestInv(r)
  BY <1>1 DEF AccessInv
<1>3. CASE SelectSession(r)
  <2>1. CASE Return(r)
    BY <1>3, <2>1, ReturnKeeps DEF SelectSession
  <2>2. CASE ~Return(r)
    <3>1. /\ req[r].at = "select" /\ Goto(r, "touch")
          /\ \A k \in req[r].token : Valid(k) # {}
          /\ UNCHANGED <<time, limiter, tables, history>>
      BY <1>3, <2>2 DEF SelectSession
    <3>2. req[r].op # "public"
      BY <1>2, <3>1 DEF RequestInv
    <3>3. ASSUME NEW k \in signedIn, Carries(r, k)
          PROVE  "session" \in held[r] /\ r \notin late
      <4>1. Valid(k) # {}
        BY <3>1, <3>3 DEF Carries
      <4>2. k \notin signedOut
        BY <4>1 DEF Valid, AccessInv, SignedOutInv
      <4> QED
        BY <3>3, <4>1, <4>2 DEF Carries
    <3>4. req' = [req EXCEPT ![r] = Moved(r, "touch", req[r].shows)]
          /\ req[r].shows \in BOOLEAN
      BY <1>1, <3>1, GotoMoves
    <3> QED
      BY <1>1, <3>1, <3>2, <3>3, <3>4, MoveKeeps
  <2> QED
    BY <2>1, <2>2
<1>4. CASE TouchSession(r)
  <2>1. /\ req[r].at = "touch" /\ Goto(r, First(req[r].op))
        /\ UNCHANGED <<time, limiter, tables, history>>
    BY <1>4 DEF TouchSession
  <2>2. req[r].op # "public"
    BY <1>2, <2>1 DEF RequestInv
  <2>3. /\ First(req[r].op) \in {"touch", "load", "role", "act"}
        /\ First(req[r].op) = "act" => req[r].op = "dashboard"
    BY DEF First
  <2>4. req' = [req EXCEPT ![r] = Moved(r, First(req[r].op), req[r].shows)]
        /\ req[r].shows \in BOOLEAN
    BY <1>1, <2>1, GotoMoves
  <2>5. \A k \in signedIn : Carries(r, k) => "session" \in held[r] /\ r \notin late
    BY <2>1, LetIn
  <2> QED
    BY <1>1, <2>1, <2>2, <2>3, <2>4, <2>5, MoveKeeps
<1>5. CASE Load(r)
  <2> DEFINE place == IF req[r].op = "public" THEN "act" ELSE "role"
             shows == req[r].op = "session" \/ confirmed
  <2>1. /\ req[r].at = "load" /\ UNCHANGED <<time, limiter, tables, history>>
        /\ req' = [req EXCEPT ![r].at = place, ![r].shows = shows]
    BY <1>5 DEF Load
  <2>2. /\ shows \in BOOLEAN /\ place \in {"touch", "load", "role", "act"}
        /\ req[r].op = "public" <=> place = "act"
        /\ shows /\ req[r].op # "session" => confirmed
    BY DEF AccessInv, Types
  <2> HIDE DEF place, shows
  <2>4. req' = [req EXCEPT ![r] = Moved(r, place, shows)]
    BY <2>1 DEF Moved, Types
  <2>5. \A k \in signedIn : Carries(r, k) => "session" \in held[r] /\ r \notin late
    BY <2>1, LetIn
  <2> QED
    BY <1>1, <2>1, <2>2, <2>4, <2>5, MoveKeeps
<1>6. CASE requireRole(r)
  <2>1. PICK k \in req[r].token :
          IF \E x \in role[Owner[k]] : AtLeast(x, Required(req[r].op))
            THEN Goto(r, "act") ELSE Return(r)
    BY <1>6 DEF requireRole
  <2>2. req[r].at = "role" /\ UNCHANGED <<time, limiter, tables, history>>
    BY <1>6 DEF requireRole
  <2>3. CASE Return(r)
    BY <2>2, <2>3, ReturnKeeps
  <2>4. CASE ~Return(r)
    <3>1. /\ Goto(r, "act")
          /\ \E x \in role[Owner[k]] : AtLeast(x, Required(req[r].op))
      BY <2>1, <2>4
    <3>2. req[r].op # "public"
      BY <1>2, <2>2 DEF RequestInv
    <3>3. PICK c \in signedIn : Carries(r, c)
      BY <1>2, <3>2 DEF RequestInv
    <3>4. c = k /\ Owner[k] \in Users
      BY <2>1, <3>3, AccessAssumption DEF Carries, AccessInv, Types
    <3>5. role[Owner[k]] \subseteq held[r] \cap Roles
      BY <3>3, <3>4 DEF Carries, AccessInv, Types
    <3>6. \E x \in held[r] \cap Roles : AtLeast(x, Required(req[r].op))
      BY <3>1, <3>5
    <3>7. req' = [req EXCEPT ![r] = Moved(r, "act", req[r].shows)]
          /\ req[r].shows \in BOOLEAN
      BY <1>1, <3>1, GotoMoves
    <3>8. \A o \in signedIn : Carries(r, o) => "session" \in held[r] /\ r \notin late
      BY <2>2, LetIn
    <3> QED
      BY <1>1, <2>2, <3>2, <3>6, <3>7, <3>8, MoveKeeps
  <2> QED
    BY <2>3, <2>4
<1>7. CASE Act(r)
  BY <1>7, ReturnKeeps DEF Act
<1> QED
  BY <1>3, <1>4, <1>5, <1>6, <1>7 DEF Step

(***************************************************************************)
(* What goes on around the requests: the caller of each keeps up with its  *)
(* role in "held", and no cookie of one that has arrived gets a session.   *)
(***************************************************************************)
LEMMA AroundKeeps ==
  ASSUME AccessInv, Types', SignedOutInv', UNCHANGED <<req, late>>,
         signedIn \subseteq signedIn', signedOut \subseteq signedOut',
         \A r \in Requests : held[r] \subseteq held'[r],
         \A k \in signedIn : Valid(k) = {} => Valid(k)' = {},
         \A r \in Requests, k \in signedIn :
           req[r].at # "idle" /\ Carries(r, k) => role'[Owner[k]] \subseteq held'[r],
         confirmed' => confirmed \/ \A r \in Requests :
                                      req[r].at # "idle" => "public" \in held'[r]
  PROVE  AccessInv'
<1>1. ASSUME NEW r \in Requests, req'[r].at # "idle" PROVE RequestInv(r)'
  <2>1. RequestInv(r) /\ req'[r] = req[r] /\ (r \in late <=> r \in late')
    BY <1>1 DEF AccessInv
  <2>2. \A k \in signedIn : Carries(r, k) => Carries(r, k)'
    BY <1>1, <2>1 DEF Carries
  <2>3. req[r].op # "public" => \E k \in signedIn' : Carries(r, k)'
    BY <2>1, <2>2 DEF RequestInv
  <2>4. held[r] \subseteq held'[r]
    OBVIOUS
  <2>5. confirmed' \/ (req[r].shows /\ req[r].op # "session") => "public" \in held'[r]
    BY <1>1, <2>1, <2>4 DEF RequestInv
  <2> QED
    BY <2>1, <2>3, <2>4, <2>5 DEF RequestInv
<1> QED
  BY <1>1 DEF AccessInv

(* Nothing but the sessions and who has signed in or out. *)
LEMMA SessionsKeep ==
  ASSUME AccessInv, Types', SignedOutInv',
         UNCHANGED <<role, confirmed, req, held, late>>,
         signedIn \subseteq signedIn', signedOut \subseteq signedOut',
         \A k \in signedIn : Valid(k) = {} => Valid(k)' = {}
  PROVE  AccessInv'
BY AroundKeeps DEF Carries

LEMMA SignInKeeps ==
  ASSUME AccessInv, NEW k \in Tokens, SignIn(k)
  PROVE  AccessInv'
<1> DEFINE new == [token |-> k, expires |-> time + SessionLifetime]
<1>1. /\ k \notin signedIn /\ sessions' = sessions \cup {new}
      /\ signedIn' = signedIn \cup {k}
      /\ UNCHANGED <<time, role, confirmed, req, signedOut, held, late>>
  BY DEF SignIn
<1>2. new \in [token : Tokens, expires : Nat] /\ new.token = k
  BY AccessAssumption DEF AccessInv, Types
<1> HIDE DEF new
<1>3. Types'
  BY <1>1, <1>2 DEF AccessInv, Types
<1>4. SignedOutInv'
  BY <1>1, <1>2 DEF AccessInv, SignedOutInv
<1>5. \A c \in signedIn : Valid(c)' = Valid(c)
  BY <1>1, <1>2 DEF Valid
<1> QED
  BY <1>1, <1>3, <1>4, <1>5, SessionsKeep

LEMMA LogoutKeeps ==
  ASSUME AccessInv, NEW k \in Tokens, Logout(k)
  PROVE  AccessInv'
<1>1. /\ k \in signedIn /\ sessions' = {s \in sessions : s.token # k}
      /\ signedOut' = signedOut \cup {k}
      /\ UNCHANGED <<time, role, confirmed, req, signedIn, held, late>>
  BY DEF Logout
<1>2. Types'
  BY <1>1 DEF AccessInv, Types
<1>3. SignedOutInv'
  BY <1>1 DEF AccessInv, SignedOutInv
<1>4. \A c : Valid(c)' \subseteq Valid(c)
  BY <1>1 DEF Valid
<1> QED
  BY <1>1, <1>2, <1>3, <1>4, SessionsKeep

LEMMA AddClubMemberKeeps ==
  ASSUME AccessInv, NEW u \in Users, NEW x \in Granted, AddClubMember(u, x)
  PROVE  AccessInv'
<1>1. /\ role' = [role EXCEPT ![u] = {x}]
      /\ held' = [r \in Requests |->
           IF \E k \in req[r].token : Owner[k] = u
             THEN held[r] \cup {x} ELSE held[r]]
      /\ UNCHANGED <<time, sessions, confirmed, req, signedIn, signedOut, late>>
  BY DEF AddClubMember
<1>2. x \in Roles
  BY AccessAssumption
<1>3. \A r \in Requests : held'[r] =
        IF \E k \in req[r].token : Owner[k] = u THEN held[r] \cup {x} ELSE held[r]
  BY <1>1
<1>4. held' \in [Requests -> SUBSET (Roles \cup {"session", "public"})]
  <2>1. \A r \in Requests : held'[r] \in SUBSET (Roles \cup {"session", "public"})
    BY <1>2, <1>3 DEF AccessInv, Types
  <2> QED
    BY <1>1, <2>1
<1>5. Types' /\ SignedOutInv'
  BY <1>1, <1>2, <1>4 DEF AccessInv, Types, SignedOutInv
<1>6. \A k : Valid(k)' = Valid(k)
  BY <1>1 DEF Valid
<1>7. ASSUME NEW r \in Requests, NEW k \in signedIn, Carries(r, k)
      PROVE  role'[Owner[k]] \subseteq held'[r]
  <2>1. Owner[k] \in Users /\ k \in req[r].token /\ role[Owner[k]] \subseteq held[r]
    BY <1>7, AccessAssumption DEF Carries, AccessInv, Types
  <2>2. role'[Owner[k]] = IF Owner[k] = u THEN {x} ELSE role[Owner[k]]
    BY <1>1, <2>1 DEF AccessInv, Types
  <2> QED
    BY <1>3, <2>1, <2>2
<1> QED
  BY <1>1, <1>3, <1>5, <1>6, <1>7, AroundKeeps

LEMMA ChangeRoundKeeps ==
  ASSUME AccessInv, ChangeRound
  PROVE  AccessInv'
<1>1. /\ held' = [r \in Requests |->
           IF confirmed' /\ req[r] # Idle THEN held[r] \cup {"public"} ELSE held[r]]
      /\ UNCHANGED <<time, sessions, role, req, signedIn, signedOut, late>>
      /\ confirmed' \in BOOLEAN
  BY DEF ChangeRound
<1>2. \A r \in Requests : held'[r] =
        IF confirmed' /\ req[r] # Idle THEN held[r] \cup {"public"} ELSE held[r]
  BY <1>1
<1>3. held' \in [Requests -> SUBSET (Roles \cup {"session", "public"})]
  <2>1. \A r \in Requests : held'[r] \in SUBSET (Roles \cup {"session", "public"})
    BY <1>2 DEF AccessInv, Types
  <2> QED
    BY <1>1, <2>1
<1>4. Types' /\ SignedOutInv'
  BY <1>1, <1>3 DEF AccessInv, Types, SignedOutInv
<1>5. \A k : Valid(k)' = Valid(k)
  BY <1>1 DEF Valid
<1>6. \A r \in Requests : req[r].at # "idle" => req[r] # Idle
  BY IdleType
<1>7. \A r \in Requests : held[r] \subseteq held'[r]
  BY <1>2
<1> QED
  BY <1>1, <1>2, <1>4, <1>5, <1>6, <1>7, AroundKeeps DEF Carries

LEMMA HousekeepingKeeps ==
  ASSUME AccessInv, Housekeeping
  PROVE  AccessInv'
<1>1. /\ sessions' = {s \in sessions : s.expires >= time}
      /\ UNCHANGED <<time, role, confirmed, req, signedIn, signedOut, held, late>>
  BY DEF Housekeeping, history
<1>2. Types' /\ SignedOutInv'
  BY <1>1 DEF AccessInv, Types, SignedOutInv
<1>3. \A k : Valid(k)' \subseteq Valid(k)
  BY <1>1 DEF Valid
<1> QED
  BY <1>1, <1>2, <1>3, SessionsKeep

LEMMA TickKeeps ==
  ASSUME AccessInv, Tick
  PROVE  AccessInv'
<1>1. /\ time' = time + 1
      /\ UNCHANGED <<sessions, role, confirmed, req, signedIn, signedOut, held, late>>
  BY DEF Tick, tables, history
<1>2. Types' /\ SignedOutInv'
  BY <1>1 DEF AccessInv, Types, SignedOutInv
<1>3. \A k : Valid(k)' \subseteq Valid(k)
  BY <1>1 DEF Valid, AccessInv, Types
<1> QED
  BY <1>1, <1>2, <1>3, SessionsKeep

LEMMA NextKeeps == AccessInv /\ [Next]_vars => AccessInv'
<1> SUFFICES ASSUME AccessInv, [Next]_vars PROVE AccessInv'
  OBVIOUS
<1>1. CASE UNCHANGED <<time, tables, req, history>>
  BY <1>1, SessionsKeep
    DEF tables, history, Valid, AccessInv, Types, SignedOutInv
<1>2. CASE UNCHANGED vars
  BY <1>1, <1>2 DEF vars
<1>3. ASSUME NEW caller, NEW address, AskForLink(caller, address) PROVE AccessInv'
  BY <1>1, <1>3 DEF AskForLink
<1> QED
  BY <1>2, <1>3, StepKeeps, ArriveKeeps, SignInKeeps, LogoutKeeps,
     AddClubMemberKeeps, ChangeRoundKeeps, HousekeepingKeeps, TickKeeps DEF Next

LEMMA Inductive == Spec => []AccessInv
  BY InitInv, NextKeeps, PTL DEF Spec

(***************************************************************************)
(* Whatever a handler does or shows, its caller was entitled to at some    *)
(* moment since the request arrived, whoever signs in or out and whatever  *)
(* changes between two of its statements.                                  *)
(***************************************************************************)
THEOREM AccessIsEntitled == Spec => []Entitled
<1>1. AccessInv => Entitled
  <2> SUFFICES ASSUME AccessInv, NEW r \in Requests, req[r].at = "act"
               PROVE  IF req[r].op = "public"
                        THEN req[r].shows => "public" \in held[r]
                        ELSE /\ "session" \in held[r]
                             /\ req[r].op # "dashboard" =>
                                  \E x \in held[r] \cap Roles :
                                    AtLeast(x, Required(req[r].op))
    BY DEF Entitled
  <2>1. RequestInv(r)
    BY DEF AccessInv
  <2>2. CASE req[r].op = "public"
    BY <2>1, <2>2 DEF RequestInv
  <2>3. CASE req[r].op # "public"
    BY <2>1, <2>3 DEF RequestInv, Carries
  <2> QED
    BY <2>2, <2>3
<1> QED
  BY <1>1, Inductive, PTL

(***************************************************************************)
(* After the answer to a logout its cookie lets nobody in again, for all   *)
(* the requests that were still under way and could touch the session.     *)
(***************************************************************************)
THEOREM SignedOutStaysOut == Spec => []LogoutIsFinal
<1>1. AccessInv => LogoutIsFinal
  <2> SUFFICES ASSUME AccessInv, NEW r \in late, req[r].at # "idle"
               PROVE  req[r].at = "select"
    BY DEF LogoutIsFinal
  <2>1. RequestInv(r)
    BY DEF AccessInv, Types
  <2> QED
    BY <2>1 DEF RequestInv, Carries
<1> QED
  BY <1>1, Inductive, PTL

-----------------------------------------------------------------------------
(***************************************************************************)
(* The types, with the windows of the rate limiter: a key has at most one, *)
(* a user one role, a cookie one session.                                  *)
(***************************************************************************)
AtMostOne(S) == \A x, y \in S : x = y

LimiterInv ==
  /\ time \in Times
  /\ counts \in [Keys -> SUBSET [count : 1..MaxCount, start : Times]]
  /\ \A k \in Keys : AtMostOne(counts[k])
  /\ allowed \in [Keys -> Seq(Times)]
  /\ refused \in [Keys -> SUBSET Times]

OneEach ==
  /\ \A s \in sessions : s.token \in signedIn
  /\ \A s, t \in sessions : s.token = t.token => s = t
  /\ \A u \in Users : AtMostOne(role[u])

RowsInv == AccessInv /\ LimiterInv /\ OneEach

LEMMA OneCounts ==
  ASSUME NEW S, AtMostOne(S)
  PROVE  Cardinality(S) <= 1
<1>1. CASE S = {}
  BY <1>1, FS_EmptySet
<1>2. CASE S # {}
  <2>1. PICK x \in S : TRUE
    BY <1>2
  <2>2. S = {x}
    BY <2>1 DEF AtMostOne
  <2>3. Cardinality({x}) = 1
    BY FS_Singleton, Zenon
  <2>4. Cardinality(S) = 1
    BY <2>2, <2>3, Zenon
  <2> QED
    BY <2>4
<1> QED
  BY <1>1, <1>2

LEMMA RowsTyped == RowsInv => TypeOK
<1> SUFFICES ASSUME RowsInv PROVE TypeOK
  OBVIOUS
<1>1. \A k \in Keys : Cardinality(counts[k]) <= 1
  BY OneCounts DEF RowsInv, LimiterInv
<1>2. \A u \in Users : Cardinality(role[u]) <= 1
  BY OneCounts DEF RowsInv, OneEach
<1>3. LimiterTypeOK
  BY <1>1 DEF LimiterTypeOK, RowsInv, LimiterInv
<1> QED
  BY <1>2, <1>3 DEF TypeOK, RowsInv, OneEach, AccessInv, Types, SignedOutInv

LEMMA RowsInit == Init => RowsInv
<1> SUFFICES ASSUME Init PROVE RowsInv
  OBVIOUS
<1>1. time \in Times
  BY RateLimiterAssumption DEF Init, LimiterInit, Times
<1>2. LimiterInv
  BY <1>1 DEF Init, LimiterInit, LimiterInv, AtMostOne
<1>3. OneEach
  BY DEF Init, OneEach, AtMostOne
<1> QED
  BY <1>2, <1>3, InitInv DEF RowsInv

(* Counting an attempt makes one window of none or one, in the present.    *)
LEMMA CountedType ==
  ASSUME LimiterInv, NEW k \in Keys, \A w \in Counted(k) : w.count <= MaxCount
  PROVE  /\ Counted(k) \in SUBSET [count : 1..MaxCount, start : Times]
         /\ AtMostOne(Counted(k))
<1>1. MaxCount \in Nat /\ 1 <= MaxCount
  BY RateLimiterAssumption
<1>2. CASE Live(k) = {}
  <2>1. Counted(k) = {[count |-> 1, start |-> time]}
    BY <1>2 DEF Counted
  <2> QED
    BY <1>1, <2>1 DEF LimiterInv, AtMostOne
<1>3. CASE Live(k) # {}
  <2>1. Counted(k) = {[w EXCEPT !.count = @ + 1] : w \in Live(k)}
    BY <1>3 DEF Counted
  <2>2. /\ Live(k) \in SUBSET [count : 1..MaxCount, start : Times]
        /\ AtMostOne(Live(k))
    BY DEF LimiterInv, Live, AtMostOne
  <2>3. ASSUME NEW w \in Live(k), NEW n, n = [w EXCEPT !.count = @ + 1], n.count <= MaxCount
        PROVE  n \in [count : 1..MaxCount, start : Times]
    <3>1. w \in [count : 1..MaxCount, start : Times]
      BY <2>2
    <3>2. n = [count |-> w.count + 1, start |-> w.start]
      BY <2>3, <3>1
    <3>3. n.count = w.count + 1 /\ w.count \in 1..MaxCount /\ w.start \in Times
      BY <3>1, <3>2
    <3>4. w.count + 1 \in 1..MaxCount
      BY <1>1, <2>3, <3>3
    <3> QED
      BY <3>2, <3>3, <3>4
  <2>4. Counted(k) \in SUBSET [count : 1..MaxCount, start : Times]
    BY <2>1, <2>3
  <2>5. AtMostOne(Counted(k))
    BY <2>1, <2>2 DEF AtMostOne
  <2> QED
    BY <2>4, <2>5
<1> QED
  BY <1>2, <1>3

LEMMA LimiterAttempt ==
  ASSUME LimiterInv, NEW first \in Keys, NEW second \in Keys, Attempt(first, second),
         UNCHANGED time
  PROVE  LimiterInv'
<1> PICK tried \in SUBSET Keys :
      /\ \A k \in tried : \A w \in Counted(k) : w.count <= MaxCount
      /\ counts'  = [k \in Keys |-> IF k \in tried THEN Counted(k) ELSE counts[k]]
      /\ allowed' = [k \in Keys |->
           IF k \in tried /\ allow(k) THEN Append(allowed[k], time) ELSE allowed[k]]
      /\ refused' = [k \in Keys |->
           IF k \in tried /\ ~allow(k) THEN refused[k] \cup {time} ELSE refused[k]]
  BY DEF Attempt
<1>1. \A k \in Keys : /\ counts'[k] \in SUBSET [count : 1..MaxCount, start : Times]
                      /\ AtMostOne(counts'[k])
  <2> SUFFICES ASSUME NEW k \in Keys
               PROVE  /\ counts'[k] \in SUBSET [count : 1..MaxCount, start : Times]
                      /\ AtMostOne(counts'[k])
    OBVIOUS
  <2>1. CASE k \in tried
    <3>1. counts'[k] = Counted(k)
      BY <2>1
    <3> QED
      BY <2>1, <3>1, CountedType
  <2>2. CASE k \notin tried
    <3>1. counts'[k] = counts[k]
      BY <2>2
    <3> QED
      BY <3>1 DEF LimiterInv
  <2> QED
    BY <2>1, <2>2
<1>2. allowed' \in [Keys -> Seq(Times)]
  <2>1. \A k \in Keys : Append(allowed[k], time) \in Seq(Times)
    BY DEF LimiterInv
  <2> QED
    BY <2>1 DEF LimiterInv
<1>3. refused' \in [Keys -> SUBSET Times]
  BY DEF LimiterInv
<1>4. counts' \in [Keys -> SUBSET [count : 1..MaxCount, start : Times]]
  BY <1>1
<1> QED
  BY <1>1, <1>2, <1>3, <1>4 DEF LimiterInv

LEMMA LimiterNext ==
  ASSUME LimiterInv, [Next]_vars
  PROVE  LimiterInv'
<1>1. CASE UNCHANGED <<time, limiter>>
  BY <1>1 DEF LimiterInv, limiter
<1>2. ASSUME NEW caller \in Callers, NEW address \in Keys \ Callers,
             AskForLink(caller, address)
      PROVE  LimiterInv'
  BY <1>2, AccessAssumption, LimiterAttempt DEF AskForLink
<1>3. CASE Housekeeping
  <2>1. UNCHANGED <<time, allowed, refused>> /\ counts' = [k \in Keys |-> Live(k)]
    BY <1>3 DEF Housekeeping, sweep
  <2>2. \A k \in Keys : Live(k) \subseteq counts[k]
    BY DEF Live
  <2>3. \A k \in Keys : AtMostOne(Live(k))
    BY <2>2 DEF LimiterInv, AtMostOne
  <2>4. counts' \in [Keys -> SUBSET [count : 1..MaxCount, start : Times]]
    BY <2>1, <2>2 DEF LimiterInv
  <2> QED
    BY <2>1, <2>3, <2>4 DEF LimiterInv
<1>4. CASE Tick
  BY <1>4, RateLimiterAssumption DEF Tick, LimiterInv, limiter, Times
<1>5. ASSUME NEW r \in Requests, Step(r) \/ \E op \in Operations : Arrive(r, op)
      PROVE  UNCHANGED <<time, limiter>>
  BY <1>5 DEF Step, SelectSession, TouchSession, Load, requireRole, Act, Arrive
<1>6. ASSUME NEW k, SignIn(k) \/ Logout(k) PROVE UNCHANGED <<time, limiter>>
  BY <1>6 DEF SignIn, Logout
<1>7. ASSUME NEW u, NEW x, AddClubMember(u, x) PROVE UNCHANGED <<time, limiter>>
  BY <1>7 DEF AddClubMember
<1>8. CASE ChangeRound \/ UNCHANGED vars
  BY <1>1, <1>8 DEF ChangeRound, vars
<1> QED
  BY <1>1, <1>2, <1>3, <1>4, <1>5, <1>6, <1>7, <1>8 DEF Next

(* A session is added for a new cookie only, and a role replaces another.  *)
LEMMA OneNext ==
  ASSUME AccessInv, OneEach, [Next]_vars
  PROVE  OneEach'
<1>1. CASE UNCHANGED <<sessions, role, signedIn>>
  BY <1>1 DEF OneEach
<1>2. ASSUME NEW k \in Tokens, SignIn(k) PROVE OneEach'
  <2> DEFINE new == [token |-> k, expires |-> time + SessionLifetime]
  <2>1. /\ k \notin signedIn /\ sessions' = sessions \cup {new}
        /\ signedIn' = signedIn \cup {k} /\ UNCHANGED role
    BY <1>2 DEF SignIn
  <2>2. new.token = k
    OBVIOUS
  <2> HIDE DEF new
  <2> QED
    BY <2>1, <2>2 DEF OneEach
<1>3. ASSUME NEW k \in Tokens, Logout(k) PROVE OneEach'
  BY <1>3 DEF Logout, OneEach
<1>4. ASSUME NEW u \in Users, NEW x \in Granted, AddClubMember(u, x) PROVE OneEach'
  <2>1. /\ role' = [role EXCEPT ![u] = {x}] /\ UNCHANGED <<sessions, signedIn>>
        /\ role \in [Users -> SUBSET Roles]
    BY <1>4 DEF AddClubMember, AccessInv, Types
  <2>2. \A v \in Users : AtMostOne(role'[v])
    BY <2>1 DEF OneEach, AtMostOne
  <2> QED
    BY <2>1, <2>2 DEF OneEach
<1>5. CASE Housekeeping
  BY <1>5 DEF Housekeeping, history, OneEach
<1>6. ASSUME NEW r \in Requests, Step(r) \/ \E op \in Operations : Arrive(r, op)
      PROVE  UNCHANGED <<sessions, role, signedIn>>
  BY <1>6 DEF Step, SelectSession, TouchSession, Load, requireRole, Act, Arrive,
     tables, history
<1>7. ASSUME NEW caller, NEW address, AskForLink(caller, address)
      PROVE  UNCHANGED <<sessions, role, signedIn>>
  BY <1>7 DEF AskForLink, tables, history
<1>8. CASE ChangeRound \/ Tick \/ UNCHANGED vars
  BY <1>1, <1>8 DEF ChangeRound, Tick, vars, tables, history
<1> QED
  BY <1>1, <1>2, <1>3, <1>4, <1>5, <1>6, <1>7, <1>8 DEF Next

(***************************************************************************)
(* All tables, requests and windows keep their types, a cookie never has   *)
(* two sessions, a user never two roles and a key never two windows.       *)
(***************************************************************************)
THEOREM AccessTypes == Spec => []TypeOK
<1>1. RowsInv /\ [Next]_vars => RowsInv'
  BY NextKeeps, LimiterNext, OneNext DEF RowsInv
<1> QED
  BY <1>1, RowsInit, RowsTyped, PTL DEF Spec

-----------------------------------------------------------------------------
(***************************************************************************)
(* The rate limit.  T is when a key's attempts were allowed, C its window  *)
(* (none or one), S the attempts that opened one.  Windows open at least a *)
(* period apart and hold at most the limit each, so a period cannot see    *)
(* two full ones: the earlier would have opened before it began.           *)
(***************************************************************************)
InOrder(T, now) ==
  \A i \in 1..Len(T) : T[i] <= now /\ \A j \in i..Len(T) : T[i] <= T[j]

Apart(T, S) == \A i, j \in S : i < j => T[i] + period <= T[j]

Covered(T, S) == \A i \in 1..Len(T) : \E s \in S : s <= i /\ i < s + limit

(* The last window opened at attempt s, and has counted the ones since.    *)
LastOpened(T, S, s, w) ==
  /\ T[s] = w.start /\ \A j \in S : j <= s
  /\ Len(T) + 1 = s + (IF w.count <= limit THEN w.count ELSE limit)

Over(T, S, now) == \A s \in S : T[s] + period <= now

Windows(T, S, C, now) ==
  /\ S \subseteq 1..Len(T)
  /\ Apart(T, S) /\ Covered(T, S)
  /\ \A w \in C : \E s \in S : LastOpened(T, S, s, w)
  /\ C = {} => Over(T, S, now)

(* At t the limit had been reached within the period. *)
Full(T, t) ==
  \E s \in 1..Len(T) :
    /\ s + limit <= Len(T) + 1
    /\ \A i \in s..(s + limit - 1) : T[i] <= t /\ t < T[i] + period

LEMMA Bounds == limit \in Nat /\ limit >= 1 /\ period \in Nat /\ period >= 1
  BY RateLimiterAssumption

LEMMA Longer ==
  ASSUME NEW T \in Seq(Nat), NEW now \in Nat, InOrder(T, now), NEW U, U = Append(T, now)
  PROVE  /\ Len(U) = Len(T) + 1 /\ Len(T) \in Nat /\ U \in Seq(Nat)
         /\ \A i \in 1..Len(T) : U[i] = T[i] /\ T[i] \in Nat
         /\ U[Len(T) + 1] = now
         /\ InOrder(U, now)
<1>1. /\ Len(U) = Len(T) + 1 /\ Len(T) \in Nat /\ U \in Seq(Nat)
      /\ U[Len(T) + 1] = now
  OBVIOUS
<1>2. \A i \in 1..Len(T) : U[i] = T[i] /\ T[i] \in Nat
  OBVIOUS
<1>3. ASSUME NEW i \in 1..Len(U), NEW j \in i..Len(U) PROVE U[i] <= now /\ U[i] <= U[j]
  <2>1. i \in 1..Len(T) \/ (i = Len(T) + 1 /\ j = i)
    BY <1>1
  <2>2. j \in 1..Len(T) \/ j = Len(T) + 1
    BY <1>1
  <2> QED
    BY <1>1, <1>2, <2>1, <2>2 DEF InOrder
<1>4. \A i \in 1..Len(U) : i \in i..Len(U)
  BY <1>1
<1> QED
  BY <1>1, <1>2, <1>3, <1>4 DEF InOrder

(* A window that is over leaves every window opened so far over.           *)
LEMMA AllOver ==
  ASSUME NEW T \in Seq(Nat), NEW now \in Nat, InOrder(T, now), NEW S, NEW C,
         Windows(T, S, C, now),
         \A w \in C : w.start \in Nat /\ now - w.start >= period
  PROVE  Over(T, S, now)
<1>1. CASE C = {}
  BY <1>1 DEF Windows
<1>2. ASSUME NEW w \in C PROVE Over(T, S, now)
  <2>1. PICK s \in S : LastOpened(T, S, s, w)
    BY <1>2 DEF Windows
  <2>2. ASSUME NEW i \in S PROVE T[i] + period <= now
    <3>1. i \in 1..Len(T) /\ s \in i..Len(T) /\ T[i] \in Nat /\ Len(T) \in Nat
      BY <2>1, <2>2 DEF Windows, LastOpened
    <3>2. T[i] <= T[s] /\ T[s] = w.start
      BY <2>1, <3>1 DEF InOrder, LastOpened
    <3> QED
      BY <1>2, <3>1, <3>2, Bounds
  <2> QED
    BY <2>2 DEF Over
<1> QED
  BY <1>1, <1>2

LEMMA OnePlaceMore ==
  /\ \A n \in Nat : \A S : S \subseteq 1..n => S \cup {n + 1} \subseteq 1..(n + 1)
  /\ \A n, s, m \in Nat : n + 1 = s + m => (n + 1) + 1 = s + (m + 1)
  OBVIOUS

(***************************************************************************)
(* An attempt with no live window opens one.                               *)
(***************************************************************************)
LEMMA Opened ==
  ASSUME NEW T \in Seq(Nat), NEW now \in Nat, InOrder(T, now), NEW S, NEW C,
         Windows(T, S, C, now), Over(T, S, now), NEW U, U = Append(T, now),
         NEW D, D = {[count |-> 1, start |-> now]}
  PROVE  \E R \in SUBSET (1..Len(U)) : Windows(U, R, D, now)
<1> PICK n \in Nat : n = Len(T)
  OBVIOUS
<1> DEFINE R == S \cup {n + 1}
<1>1. /\ Len(U) = n + 1
      /\ \A i \in 1..n : U[i] = T[i] /\ T[i] \in Nat
      /\ U[n + 1] = now
  BY Longer
<1>2. S \subseteq 1..n /\ Apart(T, S) /\ Covered(T, S)
  BY DEF Windows
<1>3. R \subseteq 1..Len(U) /\ n + 1 \in R
  <2>1. R \subseteq 1..(n + 1)
    BY <1>2, OnePlaceMore
  <2> QED
    BY <1>1, <2>1
<1>4. Apart(U, R)
  <2> SUFFICES ASSUME NEW i \in R, NEW j \in R, i < j PROVE U[i] + period <= U[j]
    BY DEF Apart
  <2>1. i \in S
    BY <1>2
  <2>2. U[i] = T[i]
    BY <1>1, <1>2, <2>1
  <2>3. CASE j \in S
    BY <1>1, <1>2, <2>1, <2>2, <2>3 DEF Apart
  <2>4. CASE j = n + 1
    BY <1>1, <2>1, <2>2, <2>4 DEF Over
  <2> QED
    BY <2>3, <2>4
<1>5. Covered(U, R)
  <2> SUFFICES ASSUME NEW i \in 1..(n + 1) PROVE \E s \in R : s <= i /\ i < s + limit
    BY <1>1 DEF Covered
  <2>1. CASE i \in 1..n
    BY <1>2, <2>1 DEF Covered
  <2>2. CASE i = n + 1
    <3>1. i <= i /\ i < i + limit
      BY Bounds
    <3> QED
      BY <1>3, <2>2, <3>1
  <2> QED
    BY <2>1, <2>2
<1>6. ASSUME NEW w \in D PROVE LastOpened(U, R, n + 1, w)
  <2>1. w.start = now /\ w.count = 1
    BY <1>6
  <2>2. \A j \in R : j <= n + 1
    BY <1>2
  <2> QED
    BY <1>1, <2>1, <2>2, Bounds DEF LastOpened
<1> HIDE DEF R
<1>7. D # {}
  OBVIOUS
<1> QED
  BY <1>3, <1>4, <1>5, <1>6, <1>7 DEF Windows

(***************************************************************************)
(* An attempt within the limit is counted in the live window w.            *)
(***************************************************************************)
LEMMA CountedMore ==
  ASSUME NEW T \in Seq(Nat), NEW now \in Nat, InOrder(T, now), NEW S, NEW C,
         Windows(T, S, C, now), NEW U, U = Append(T, now),
         NEW w \in C, w.count \in Nat, w.count + 1 <= limit,
         NEW D, NEW v, D = {v}, v.count = w.count + 1, v.start = w.start
  PROVE  \E R \in SUBSET (1..Len(U)) : Windows(U, R, D, now)
<1> PICK n \in Nat : n = Len(T)
  OBVIOUS
<1>1. /\ Len(U) = n + 1
      /\ \A i \in 1..n : U[i] = T[i] /\ T[i] \in Nat
  BY Longer
<1>2. S \subseteq 1..n /\ Apart(T, S) /\ Covered(T, S)
  BY DEF Windows
<1>3. S \subseteq 1..Len(U)
  BY <1>1, <1>2
<1>4. Apart(U, S)
  BY <1>1, <1>2 DEF Apart
<1>5. PICK s \in S : LastOpened(T, S, s, w)
  BY DEF Windows
<1>6. s \in 1..n /\ n + 1 = s + w.count /\ T[s] = w.start /\ \A j \in S : j <= s
  BY <1>2, <1>5, Bounds DEF LastOpened
<1>7. Covered(U, S)
  <2> SUFFICES ASSUME NEW i \in 1..(n + 1) PROVE \E o \in S : o <= i /\ i < o + limit
    BY <1>1 DEF Covered
  <2>1. CASE i \in 1..n
    BY <1>2, <2>1 DEF Covered
  <2>2. CASE i = n + 1
    <3>1. s <= i /\ i < s + limit
      BY <1>6, <2>2, Bounds
    <3> QED
      BY <3>1
  <2> QED
    BY <2>1, <2>2
<1>8. LastOpened(U, S, s, v)
  <2>1. U[s] = v.start
    BY <1>1, <1>6
  <2>2. PICK m \in Nat : m = w.count /\ v.count = m + 1
    OBVIOUS
  <2>3. n + 1 = s + m /\ m + 1 <= limit
    BY <1>6, <2>2
  <2>4. (n + 1) + 1 = s + (m + 1)
    <3>1. s \in Nat
      BY <1>6
    <3>2. n + 1 = s + m
      BY <2>3
    <3> QED
      BY <3>1, <3>2, OnePlaceMore, Zenon
  <2>5. Len(U) + 1 = s + (m + 1)
    BY <1>1, <2>4
  <2> QED
    BY <1>6, <2>1, <2>2, <2>3, <2>5 DEF LastOpened
<1> QED
  BY <1>3, <1>4, <1>7, <1>8 DEF Windows

(***************************************************************************)
(* An attempt is refused where the live window w has allowed the limit.    *)
(***************************************************************************)
LEMMA Refused ==
  ASSUME NEW T \in Seq(Nat), NEW now \in Nat, InOrder(T, now), NEW S, NEW C,
         Windows(T, S, C, now),
         NEW w \in C, w.count \in Nat, w.start \in Nat, limit < w.count + 1,
         now - w.start < period,
         NEW D, NEW v, D = {v}, v.count = w.count + 1, v.start = w.start
  PROVE  Windows(T, S, D, now) /\ Full(T, now)
<1> PICK n \in Nat : n = Len(T)
  OBVIOUS
<1>1. S \subseteq 1..n /\ Apart(T, S) /\ Covered(T, S)
  BY DEF Windows
<1>2. PICK s \in S : LastOpened(T, S, s, w)
  BY DEF Windows
<1>3. s \in 1..n /\ n + 1 = s + limit /\ T[s] = w.start /\ \A j \in S : j <= s
  BY <1>1, <1>2, Bounds DEF LastOpened
<1>4. LastOpened(T, S, s, v)
  BY <1>3, Bounds DEF LastOpened
<1>5. Windows(T, S, D, now)
  BY <1>1, <1>4 DEF Windows
<1>6. ASSUME NEW i \in s..(s + limit - 1) PROVE T[i] <= now /\ now < T[i] + period
  <2>1. i \in 1..n /\ i \in s..n
    BY <1>3, Bounds
  <2>2. T[i] <= now /\ T[s] <= T[i] /\ T[i] \in Nat
    BY <1>3, <2>1 DEF InOrder
  <2> QED
    BY <1>3, <2>2, Bounds
<1>7. s \in 1..Len(T) /\ s + limit <= Len(T) + 1
  BY <1>3, Bounds
<1> QED
  BY <1>5, <1>6, <1>7 DEF Full

(* An attempt allowed later takes nothing from a full window.              *)
LEMMA FullStays ==
  ASSUME NEW T \in Seq(Nat), NEW now \in Nat, InOrder(T, now), NEW U, U = Append(T, now),
         NEW t, Full(T, t)
  PROVE  Full(U, t)
<1>1. PICK s \in 1..Len(T) :
        /\ s + limit <= Len(T) + 1
        /\ \A i \in s..(s + limit - 1) : T[i] <= t /\ t < T[i] + period
  BY DEF Full
<1>2. /\ Len(U) = Len(T) + 1 /\ Len(T) \in Nat
      /\ \A i \in 1..Len(T) : U[i] = T[i]
  BY Longer
<1>3. \A i \in s..(s + limit - 1) : i \in 1..Len(T)
  BY <1>1, <1>2, Bounds
<1>4. s \in 1..Len(U) /\ s + limit <= Len(U) + 1
  BY <1>1, <1>2, Bounds
<1> QED
  BY <1>1, <1>2, <1>3, <1>4 DEF Full

(***************************************************************************)
(* No period sees twice the limit.  Past the first attempt it sees, at     *)
(* most a limit further on a window opens, and at most a limit after that  *)
(* the next one, which is a period later.                                  *)
(***************************************************************************)
LEMMA LeastNumber ==
  ASSUME NEW X \in SUBSET Nat, X # {}
  PROVE  \E a \in X : \A i \in X : a <= i
<1>1. PICK a \in X : \A i \in X : ~ (<<i, a>> \in OpToRel(<, Nat))
  BY NatLessThanWellFounded, WFMin
<1>2. \A i \in X : ~ (i < a)
  BY <1>1 DEF OpToRel
<1> QED
  BY <1>2

InPeriod(T, t) == {i \in DOMAIN T : T[i] <= t /\ t - T[i] < period}

LEMMA FewInPeriod ==
  ASSUME NEW T \in Seq(Nat), NEW now \in Nat, InOrder(T, now),
         NEW S \in SUBSET (1..Len(T)), Apart(T, S), Covered(T, S), NEW t \in Nat
  PROVE  Cardinality(InPeriod(T, t)) < 2 * limit
<1> PICK n \in Nat : n = Len(T)
  OBVIOUS
<1> PICK X : X = InPeriod(T, t)
  OBVIOUS
<1>1. X = {i \in 1..n : T[i] <= t /\ t - T[i] < period}
  BY DEF InPeriod
<1>2. CASE X = {}
  <2>1. Cardinality(X) = 0
    BY <1>2, FS_EmptySet, Zenon
  <2> QED
    BY <2>1, Bounds
<1>3. CASE X # {}
  <2>0. X \in SUBSET Nat
    BY <1>1
  <2>1. PICK a \in X : \A i \in X : a <= i
    BY <1>3, <2>0, LeastNumber, Zenon
  <2>2. a \in 1..n /\ T[a] <= t /\ t < T[a] + period /\ T[a] \in Nat
    BY <1>1, <2>1, Bounds
  <2>3. PICK b \in Nat : b = a + 2 * limit - 2 /\ a <= b
    BY <2>2, Bounds
  <2>4. ASSUME NEW i \in X PROVE i \in a..b
    <3>1. i \in 1..n /\ a <= i /\ T[i] <= t
      BY <1>1, <2>1, <2>4
    <3> SUFFICES ASSUME i > b PROVE FALSE
      BY <3>1, <2>2, <2>3
    <3>2. a + limit - 1 \in 1..n
      BY <2>2, <2>3, <3>1, Bounds
    <3>3. PICK s \in S : s <= a + limit - 1 /\ a + limit - 1 < s + limit
      BY <3>2 DEF Covered
    <3>4. s \in 1..n /\ a <= s /\ s + limit \in 1..n /\ s + limit <= i
      BY <2>2, <2>3, <3>1, <3>3, Bounds
    <3>5. PICK o \in S : o <= s + limit /\ s + limit < o + limit
      BY <3>4 DEF Covered
    <3>6. o \in 1..n /\ s < o /\ o <= i
      BY <3>1, <3>4, <3>5, Bounds
    <3>7. T[s] + period <= T[o]
      BY <3>6 DEF Apart
    <3>8. s \in a..n /\ i \in o..n
      BY <3>1, <3>4, <3>6, <2>2
    <3>9. T[a] <= T[s] /\ T[o] <= T[i]
      BY <2>2, <3>6, <3>8 DEF InOrder
    <3>10. T[s] \in Nat /\ T[o] \in Nat /\ T[i] \in Nat
      BY <3>1, <3>4, <3>6
    <3> QED
      BY <2>2, <3>1, <3>7, <3>9, <3>10, Bounds
  <2>5. /\ IsFiniteSet(a..b)
        /\ Cardinality(a..b) = IF a > b THEN 0 ELSE b - a + 1
    <3>1. a \in Int /\ b \in Int
      BY <2>2, <2>3
    <3> QED
      BY <3>1, FS_Interval, Zenon
  <2>6. X \in SUBSET (a..b)
    BY <2>4
  <2>7. Cardinality(X) <= Cardinality(a..b) /\ IsFiniteSet(X)
    BY <2>5, <2>6, FS_Subset
  <2>8. Cardinality(X) \in Nat
    BY <2>7, FS_CardinalityType
  <2>9. Cardinality(a..b) = 2 * limit - 1
    BY <2>2, <2>3, <2>5, Bounds
  <2> QED
    BY <2>7, <2>8, <2>9, Bounds
<1> QED
  BY <1>2, <1>3

LEMMA FullPeriod ==
  ASSUME NEW T \in Seq(Nat), NEW t \in Nat, Full(T, t)
  PROVE  Cardinality(InPeriod(T, t)) >= limit
<1> PICK n \in Nat : n = Len(T)
  OBVIOUS
<1>1. PICK s \in 1..n :
        /\ s + limit <= n + 1
        /\ \A i \in s..(s + limit - 1) : T[i] <= t /\ t < T[i] + period
  BY DEF Full
<1>2. PICK X : X = InPeriod(T, t)
  OBVIOUS
<1>3. X = {i \in 1..n : T[i] <= t /\ t - T[i] < period}
  BY <1>2 DEF InPeriod
<1>4. PICK b \in Nat : b = s + limit - 1
  BY Bounds
<1>5. s..b \in SUBSET X
  <2> SUFFICES ASSUME NEW i \in s..b PROVE i \in X
    OBVIOUS
  <2>1. i \in 1..n /\ T[i] \in Nat
    BY <1>1, <1>4, Bounds
  <2> QED
    BY <1>1, <1>3, <1>4, <2>1, Bounds
<1>6. IsFiniteSet(1..n)
  BY FS_Interval
<1>7. IsFiniteSet(X)
  BY <1>3, <1>6, FS_Subset
<1>8. Cardinality(s..b) <= Cardinality(X)
  BY <1>5, <1>7, FS_Subset
<1>9. Cardinality(s..b) = IF s > b THEN 0 ELSE b - s + 1
  BY FS_Interval
<1>10. Cardinality(s..b) = limit
  BY <1>4, <1>9, Bounds
<1>11. Cardinality(X) \in Nat
  BY <1>7, FS_CardinalityType
<1> QED
  BY <1>2, <1>8, <1>10, <1>11, Bounds

(***************************************************************************)
(* What the limiter remembers of a key is enough to know it for all steps. *)
(***************************************************************************)
Kept(k) ==
  /\ InOrder(allowed[k], time)
  /\ \E S \in SUBSET (1..Len(allowed[k])) : Windows(allowed[k], S, counts[k], time)
  /\ \A t \in refused[k] : Full(allowed[k], t)

HistoryInv == \A k \in Keys : Kept(k)

LEMMA HistoryInit == Init => HistoryInv
<1> SUFFICES ASSUME Init, NEW k \in Keys PROVE Kept(k)
  BY DEF HistoryInv
<1>1. allowed[k] = <<>> /\ counts[k] = {} /\ refused[k] = {}
  BY DEF Init, LimiterInit
<1>2. PICK T : T = <<>>
  OBVIOUS
<1>3. Len(T) = 0 /\ 1..Len(T) = {}
  BY <1>2
<1>4. InOrder(T, time) /\ Windows(T, {}, {}, time)
  BY <1>3 DEF InOrder, Windows, Apart, Covered, Over
<1> QED
  BY <1>1, <1>2, <1>3, <1>4 DEF Kept

LEMMA SeqOfMore ==
  ASSUME NEW A, NEW B, A \subseteq B, NEW T \in Seq(A)
  PROVE  T \in Seq(B)
<1>1. Len(T) \in Nat /\ DOMAIN T = 1..Len(T) /\ \A i \in 1..Len(T) : T[i] \in A
  OBVIOUS
<1>2. \A i \in 1..Len(T) : T[i] \in B
  BY <1>1
<1>3. T = [i \in 1..Len(T) |-> T[i]]
  OBVIOUS
<1>4. T \in [1..Len(T) -> B]
  BY <1>2, <1>3, Zenon
<1> QED
  BY <1>1, <1>4

LEMMA KeyTypes ==
  ASSUME LimiterInv, NEW k \in Keys
  PROVE  /\ allowed[k] \in Seq(Nat) /\ time \in Nat
         /\ \A w \in counts[k] : w.count \in Nat /\ w.start \in Nat
                                 /\ w \in [count : 1..MaxCount, start : Times]
<1>1. allowed[k] \in Seq(Times) /\ time \in Times /\ Times \subseteq Nat
  BY RateLimiterAssumption DEF LimiterInv, Times
<1>2. allowed[k] \in Seq(Nat)
  BY <1>1, SeqOfMore, Zenon
<1>3. ASSUME NEW w \in counts[k]
      PROVE  /\ w.count \in Nat /\ w.start \in Nat
             /\ w \in [count : 1..MaxCount, start : Times]
  <2>1. w \in [count : 1..MaxCount, start : Times]
    BY <1>3 DEF LimiterInv
  <2>2. w.count \in 1..MaxCount /\ w.start \in Times
    BY <2>1
  <2>3. w.count \in Nat
    BY <2>2, RateLimiterAssumption
  <2>4. w.start \in Nat
    BY <1>1, <2>2, Zenon
  <2> QED
    BY <2>1, <2>3, <2>4
<1> QED
  BY <1>1, <1>2, <1>3, Zenon

LEMMA TriedKept ==
  ASSUME LimiterInv, NEW k \in Keys, Kept(k), UNCHANGED time, counts'[k] = Counted(k),
         allowed'[k] = IF allow(k) THEN Append(allowed[k], time) ELSE allowed[k],
         refused'[k] = IF ~allow(k) THEN refused[k] \cup {time} ELSE refused[k]
  PROVE  Kept(k)'
<1> PICK C : C = counts[k]
  OBVIOUS
<1>1. PICK T \in Seq(Nat), now \in Nat : T = allowed[k] /\ now = time /\ C = counts[k]
  BY KeyTypes
<1>2. PICK S \in SUBSET (1..Len(T)) : Windows(T, S, C, now)
  BY <1>1 DEF Kept
<1>3. InOrder(T, now) /\ \A t \in refused[k] : Full(T, t)
  BY <1>1 DEF Kept
<1>4. PICK U : U = Append(T, now)
  OBVIOUS
<1>5. InOrder(U, now) /\ \A t \in refused[k] : Full(U, t)
  BY <1>3, <1>4, Longer, FullStays
<1>6. PICK D : D = Counted(k)
  OBVIOUS
<1>7. ASSUME allow(k), \E R \in SUBSET (1..Len(U)) : Windows(U, R, D, now)
      PROVE  Kept(k)'
  <2>1. /\ allowed'[k] = U /\ refused'[k] = refused[k] /\ counts'[k] = D
        /\ time' = now
    BY <1>1, <1>4, <1>6, <1>7
  <2> QED
    BY <1>5, <1>7, <2>1 DEF Kept
<1>8. CASE Live(k) = {}
  <2>1. D = {[count |-> 1, start |-> now]}
    BY <1>1, <1>6, <1>8 DEF Counted
  <2>2. \A w \in C : w.start \in Nat /\ now - w.start >= period
    BY <1>1, <1>8, KeyTypes DEF Live, Expired
  <2>3. Over(T, S, now)
    BY <1>2, <1>3, <2>2, AllOver
  <2>4. allow(k)
    BY <1>6, <2>1, Bounds DEF allow
  <2> QED
    BY <1>2, <1>3, <1>4, <1>7, <2>1, <2>3, <2>4, Opened
<1>9. ASSUME NEW w \in Live(k) PROVE Kept(k)'
  <2>1. /\ w \in C /\ w.count \in Nat /\ w.start \in Nat /\ now - w.start < period
        /\ w \in [count : 1..MaxCount, start : Times]
    <3>1. w \in counts[k] /\ ~ (time - w.start >= period)
      BY <1>9 DEF Live, Expired
    <3> QED
      BY <1>1, <3>1, KeyTypes, Bounds
  <2>2. Live(k) = {w}
    BY <1>9 DEF Live, LimiterInv, AtMostOne
  <2>3. PICK v : v = [w EXCEPT !.count = @ + 1]
    OBVIOUS
  <2>4. D = {v} /\ v.count = w.count + 1 /\ v.start = w.start
    <3>1. D = {[o EXCEPT !.count = @ + 1] : o \in Live(k)}
      BY <1>6, <1>9 DEF Counted
    <3> QED
      BY <2>1, <2>2, <2>3, <3>1
  <2>5. allow(k) <=> v.count <= limit
    BY <1>6, <2>4 DEF allow
  <2>6. CASE w.count + 1 <= limit
    BY <1>2, <1>3, <1>4, <1>7, <2>1, <2>4, <2>5, <2>6, CountedMore
  <2>7. CASE limit < w.count + 1
    <3>1. Windows(T, S, D, now) /\ Full(T, now)
      BY <1>2, <1>3, <2>1, <2>4, <2>7, Refused
    <3>2. ~ allow(k)
      BY <2>1, <2>4, <2>5, <2>7, Bounds
    <3>3. /\ allowed'[k] = T /\ refused'[k] = refused[k] \cup {now} /\ counts'[k] = D
          /\ time' = now
      BY <1>1, <1>6, <3>2
    <3> QED
      BY <1>2, <1>3, <3>1, <3>3 DEF Kept
  <2>8. w.count + 1 <= limit \/ limit < w.count + 1
    BY <2>1, Bounds
  <2> QED
    BY <2>6, <2>7, <2>8
<1> QED
  BY <1>8, <1>9

(* A sweep and the clock leave the history alone.                          *)
LEMMA IdleKept ==
  ASSUME LimiterInv, NEW k \in Keys, Kept(k), time' \in Nat, time <= time',
         UNCHANGED allowed, UNCHANGED refused,
         counts'[k] = counts[k] \/ counts'[k] = Live(k)
  PROVE  Kept(k)'
<1> PICK C : C = counts[k]
  OBVIOUS
<1>1. PICK T \in Seq(Nat), now \in Nat : T = allowed[k] /\ now = time /\ C = counts[k]
  BY KeyTypes
<1>2. PICK S \in SUBSET (1..Len(T)) : Windows(T, S, C, now)
  BY <1>1 DEF Kept
<1>3. InOrder(T, now) /\ \A t \in refused[k] : Full(T, t)
  BY <1>1 DEF Kept
<1> PICK D : D = counts'[k]
  OBVIOUS
<1>4. PICK new \in Nat : new = time' /\ D = counts'[k]
  OBVIOUS
<1>5. now <= new /\ \A i \in 1..Len(T) : T[i] \in Nat
  BY <1>1, <1>4
<1>6. InOrder(T, new)
  BY <1>3, <1>5 DEF InOrder
<1>7. D \subseteq C
  BY <1>1, <1>4 DEF Live
<1>8. ASSUME D = {} PROVE Over(T, S, new)
  <2>1. Over(T, S, now)
    <3>1. CASE C = {}
      BY <1>2, <3>1 DEF Windows
    <3>2. CASE C # {}
      <4>1. Live(k) = {}
        BY <1>1, <1>4, <1>8, <3>2
      <4>2. \A w \in C : w.start \in Nat /\ now - w.start >= period
        BY <1>1, <4>1, KeyTypes DEF Live, Expired
      <4> QED
        BY <1>2, <1>3, <4>2, AllOver
    <3> QED
      BY <3>1, <3>2
  <2>2. \A s \in S : T[s] \in Nat
    BY <1>2, <1>5
  <2> QED
    BY <1>5, <2>1, <2>2, Bounds DEF Over
<1>9. Windows(T, S, D, new)
  BY <1>2, <1>7, <1>8 DEF Windows
<1> QED
  BY <1>1, <1>2, <1>3, <1>4, <1>6, <1>9 DEF Kept

LEMMA HistoryNext ==
  ASSUME LimiterInv, LimiterInv', HistoryInv, [Next]_vars
  PROVE  HistoryInv'
<1> SUFFICES ASSUME NEW k \in Keys PROVE Kept(k)'
  BY DEF HistoryInv
<1>0. Kept(k) /\ time \in Nat /\ time' \in Nat
  BY RateLimiterAssumption DEF HistoryInv, LimiterInv, Times
<1>1. CASE UNCHANGED <<time, limiter>>
  BY <1>0, <1>1, IdleKept DEF limiter
<1>2. ASSUME NEW caller \in Callers, NEW address \in Keys \ Callers,
             AskForLink(caller, address)
      PROVE  Kept(k)'
  <2>1. PICK tried \in SUBSET Keys :
          /\ counts'  = [o \in Keys |-> IF o \in tried THEN Counted(o) ELSE counts[o]]
          /\ allowed' = [o \in Keys |->
               IF o \in tried /\ allow(o) THEN Append(allowed[o], time) ELSE allowed[o]]
          /\ refused' = [o \in Keys |->
               IF o \in tried /\ ~allow(o) THEN refused[o] \cup {time} ELSE refused[o]]
    BY <1>2, AccessAssumption DEF AskForLink, Attempt
  <2>2. UNCHANGED time
    BY <1>2 DEF AskForLink
  <2>3. CASE k \in tried
    <3>1. /\ counts'[k] = Counted(k)
          /\ allowed'[k] = IF allow(k) THEN Append(allowed[k], time) ELSE allowed[k]
          /\ refused'[k] = IF ~allow(k) THEN refused[k] \cup {time} ELSE refused[k]
      BY <2>1, <2>3
    <3> QED
      BY <1>0, <2>2, <3>1, TriedKept
  <2>4. CASE k \notin tried
    <3>1. UNCHANGED <<counts[k], allowed[k], refused[k]>>
      BY <2>1, <2>4
    <3> QED
      BY <1>0, <2>2, <3>1 DEF Kept
  <2> QED
    BY <2>3, <2>4
<1>3. CASE Housekeeping
  BY <1>0, <1>3, IdleKept DEF Housekeeping, sweep
<1>4. CASE Tick
  BY <1>0, <1>4, IdleKept DEF Tick, limiter
<1>5. ASSUME NEW r \in Requests, Step(r) \/ \E op \in Operations : Arrive(r, op)
      PROVE  UNCHANGED <<time, limiter>>
  BY <1>5 DEF Step, SelectSession, TouchSession, Load, requireRole, Act, Arrive
<1>6. ASSUME NEW o, SignIn(o) \/ Logout(o) PROVE UNCHANGED <<time, limiter>>
  BY <1>6 DEF SignIn, Logout
<1>7. ASSUME NEW u, NEW x, AddClubMember(u, x) PROVE UNCHANGED <<time, limiter>>
  BY <1>7 DEF AddClubMember
<1>8. CASE ChangeRound \/ UNCHANGED vars
  BY <1>1, <1>8 DEF ChangeRound, vars
<1> QED
  BY <1>1, <1>2, <1>3, <1>4, <1>5, <1>6, <1>7, <1>8 DEF Next

(***************************************************************************)
(* However attempts, refusals and sweeps fall, no period of any length     *)
(* sees twice the limit or more, and nobody is turned away who has not had *)
(* the full limit within the last period.                                  *)
(***************************************************************************)
THEOREM RateIsLimited == Spec => []LimitHolds
<1>1. LimiterInv /\ HistoryInv => LimitHolds
  <2> SUFFICES ASSUME LimiterInv, HistoryInv, NEW k \in Keys, NEW t \in Times
               PROVE  /\ Allowed(k, t) < 2 * limit
                      /\ t \in refused[k] => Allowed(k, t) >= limit
    BY DEF LimitHolds
  <2>1. PICK T \in Seq(Nat), now \in Nat : T = allowed[k] /\ now = time
    BY KeyTypes
  <2>2. t \in Nat
    BY RateLimiterAssumption DEF Times
  <2>3. PICK S \in SUBSET (1..Len(T)) : Apart(T, S) /\ Covered(T, S)
    BY <2>1 DEF HistoryInv, Kept, Windows
  <2>4. InOrder(T, now) /\ (t \in refused[k] => Full(T, t))
    BY <2>1 DEF HistoryInv, Kept
  <2>5. Allowed(k, t) = Cardinality(InPeriod(T, t))
    BY <2>1 DEF Allowed, InPeriod
  <2> QED
    BY <2>2, <2>3, <2>4, <2>5, FewInPeriod, FullPeriod
<1>2. LimiterInv /\ HistoryInv /\ [Next]_vars => LimiterInv' /\ HistoryInv'
  BY LimiterNext, HistoryNext
<1>3. Init => LimiterInv
  BY RowsInit DEF RowsInv
<1> QED
  BY <1>1, <1>2, <1>3, HistoryInit, PTL DEF Spec
===============================================================================
