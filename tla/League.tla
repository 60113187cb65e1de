-------------------------------- MODULE League --------------------------------
(***************************************************************************)
(* Setting a league up and reading it: the rows that fnsctl seed inserts,  *)
(* one statement at a time, and the dashboard and session views that join  *)
(* them.                                                                   *)
(*                                                                         *)
(* A row is its table and what identifies it: the demo's handler (one dog, *)
(* one team and one entry each), the play session, or the number of the    *)
(* round.  A foreign key or a uniqueness constraint that is not met makes  *)
(* the INSERT fail; there is no transaction around the seed, which may     *)
(* also be stopped anywhere, or be run twice.                              *)
(*                                                                         *)
(* A view is read here in one step, though SessionView makes five          *)
(* statements: rows are only ever added.  The roles and rounds that        *)
(* requests change are in modules Access and RoundStore.                   *)
(***************************************************************************)
EXTENDS Integers, Sequences, FiniteSets, SequencesExt

CONSTANTS
  Demo,            (* the addresses of the demo's handlers, in order       *)
  RoundsPerWeek,
  Seeds,           (* the runs of fnsctl seed                              *)
  Nights,          (* further play sessions                                *)
  StartsAt,        (* their times, in hours, and                           *)
  Status,          (* their status, which is only ever set by hand         *)
  activeWindow,
  MaxTime          (* bound on the clock                                   *)

ASSUME LeagueAssumption ==
  /\ Demo \in Seq(STRING) /\ RoundsPerWeek \in Nat /\ MaxTime \in Nat
  /\ StartsAt \in [Nights -> Int]
  /\ Status \in [Nights -> {"scheduled", "active", "complete", "cancelled"}]
  /\ activeWindow \in Nat \ {0}

VARIABLES
  rows,   (* the tables                                                    *)
  seed,   (* per run of fnsctl seed: how many rows it has made, or failed  *)
  time

vars == <<rows, seed, time>>

Failed == -1

Row(table, of, n) == [table |-> table, of |-> of, n |-> n]

CreateClub           == Row("clubs", "demo", 0)
CreateSeason         == Row("seasons", "demo", 0)
CreatePlaySession    == Row("play_sessions", "demo", 0)
CreateUser(a)        == Row("users", a, 0)
AddClubMember(a)     == Row("club_members", a, 0)
CreateDog(a)         == Row("dogs", a, 0)
CreateTeam(a)        == Row("teams", a, 0)
CreateSeasonEntry(a) == Row("season_entries", a, 0)
AddSessionTeam(a)    == Row("play_session_teams", a, 0)
CreateRound(a, n)    == Row("rounds", a, n)

Rounds(a) == [n \in 1..RoundsPerWeek |-> CreateRound(a, n)]

(* Mutant: the rounds are made before the team joins the running order. *)
SeedTeamRoundsFirst(a) ==
  <<CreateUser(a), AddClubMember(a), CreateDog(a), CreateTeam(a),
    CreateSeasonEntry(a)>> \o Rounds(a) \o <<AddSessionTeam(a)>>

(* What cmdSeed inserts for a handler, in its order. *)
SeedTeam(a) ==
  <<CreateUser(a), AddClubMember(a), CreateDog(a), CreateTeam(a),
    CreateSeasonEntry(a), AddSessionTeam(a)>> \o Rounds(a)

cmdSeed ==
  <<CreateClub, CreateSeason, CreatePlaySession>>
    \o FlattenSeq([i \in DOMAIN Demo |-> SeedTeam(Demo[i])])

(* The rows a row refers to. *)
References(row) ==
  LET a == row.of
  IN  CASE row.table \in {"seasons", "play_sessions"} -> {CreateClub}
        [] row.table = "club_members"   -> {CreateClub, CreateUser(a)}
        [] row.table = "dogs"           -> {CreateUser(a)}
        [] row.table = "teams"          -> {CreateClub, CreateUser(a), CreateDog(a)}
        [] row.table = "season_entries" -> {CreateSeason, CreateTeam(a)}
        [] row.table \in {"play_session_teams", "rounds"} ->
             {CreatePlaySession, CreateSeasonEntry(a)}
        [] OTHER -> {}

(* Members and running orders are upserts. *)
Refused(row) ==
  \/ row \in rows /\ row.table \notin {"club_members", "play_session_teams"}
  \/ ~(References(row) \subseteq rows)

Init ==
  /\ rows = {} /\ seed = [s \in Seeds |-> 0] /\ time = 0

-----------------------------------------------------------------------------
(* The next row; the first one that is refused ends the seed. *)
SeedStep(s) ==
  /\ seed[s] \in 0..Len(cmdSeed) - 1
  /\ LET row == cmdSeed[seed[s] + 1]
     IN  IF Refused(row)
           THEN seed' = [seed EXCEPT ![s] = Failed] /\ UNCHANGED rows
           ELSE seed' = [seed EXCEPT ![s] = @ + 1] /\ rows' = rows \cup {row}
  /\ UNCHANGED time

(* The seed is stopped, or a statement fails. *)
Stop(s) ==
  /\ seed[s] \in 1..Len(cmdSeed) - 1
  /\ seed' = [seed EXCEPT ![s] = Failed]
  /\ UNCHANGED <<rows, time>>

(* One of the addresses becomes a user by an invitation (module SignIn). *)
Newcomer(a) ==
  /\ rows' = rows \cup {CreateUser(a)}
  /\ UNCHANGED <<seed, time>>

(* Another play session of the demo's club. *)
Plan(night) ==
  /\ CreateClub \in rows
  /\ rows' = rows \cup {Row("play_sessions", night, 0)}
  /\ UNCHANGED <<seed, time>>

Tick ==
  /\ time < MaxTime
  /\ time' = time + 1
  /\ UNCHANGED <<rows, seed>>

People == {Demo[i] : i \in DOMAIN Demo}

Next ==
  \/ \E s \in Seeds : SeedStep(s) \/ Stop(s)
  \/ \E a \in People : Newcomer(a)
  \/ (\E night \in Nights : Plan(night)) \/ Tick

Spec == Init /\ [][Next]_vars

-----------------------------------------------------------------------------
(* SessionView and SessionRounds: inner joins, so a row whose partner is   *)
(* missing is not shown.                                                   *)
Listed ==
  {a \in People : {AddSessionTeam(a), CreateSeasonEntry(a), CreateTeam(a),
                   CreateUser(a), CreateDog(a)} \subseteq rows}

RoundsShown(a) ==
  {n \in 1..RoundsPerWeek : a \in Listed /\ CreateRound(a, n) \in rows}

(* The season, and with it the clock's length, is that of a team shown. *)
Format == IF Listed = {} THEN {} ELSE {CreateSeason} \cap rows

TeamCount == Cardinality({row \in rows : row.table = "play_session_teams"})

(* Mutant: the start is compared the wrong way round. *)
GroupSwapped(night) ==
  CASE Status[night] = "complete"              -> "past"
    [] Status[night] = "active"                -> "active"
    [] OTHER -> IF StartsAt[night] < time THEN "upcoming"
                ELSE IF time - StartsAt[night] < activeWindow THEN "active" ELSE "past"

(* Where the dashboard puts a session. *)
Group(night) ==
  CASE Status[night] = "complete"              -> "past"
    [] Status[night] = "active"                -> "active"
    [] OTHER -> IF StartsAt[night] > time THEN "upcoming"
                ELSE IF time - StartsAt[night] < activeWindow THEN "active" ELSE "past"

(* Of the sessions of the member's clubs, cancelled ones are left out. *)
Dashboard(a) ==
  [group \in {"active", "upcoming", "past"} |->
     {night \in Nights :
        /\ {AddClubMember(a), Row("play_sessions", night, 0)} \subseteq rows
        /\ Status[night] # "cancelled"
        /\ Group(night) = group}]

-----------------------------------------------------------------------------
(***************************************************************************)
(* Wherever a seed was stopped or refused, the joins of the views hide     *)
(* nothing: every team in the running order is listed, with the season     *)
(* that its clock needs, every round is shown under a team, and the        *)
(* dashboard counts the teams that the session lists.  A seed that says it *)
(* has finished has made all of it.                                        *)
(***************************************************************************)
NothingHidden ==
  /\ \A a \in People :
       /\ AddSessionTeam(a) \in rows => a \in Listed
       /\ \A n \in 1..RoundsPerWeek :
            CreateRound(a, n) \in rows => n \in RoundsShown(a)
  /\ Listed # {} => Format # {}
  /\ TeamCount = Cardinality(Listed)
  /\ \A s \in Seeds : seed[s] = Len(cmdSeed) =>
       \A a \in People : RoundsShown(a) = 1..RoundsPerWeek

MovesForward(a) ==
  LET before == Dashboard(a)
      after  == Dashboard(a)'
  IN  /\ before.past \subseteq after.past
      /\ before.active \subseteq after.active \cup after.past
      /\ before.upcoming \subseteq after.upcoming \cup after.active

AllMoveForward == \A a \in People : MovesForward(a)

(***************************************************************************)
(* A session only moves on the dashboard from what is coming to what is    *)
(* happening to what is past, one group at a time, and never off it.       *)
(***************************************************************************)
DashboardMovesForward == [][AllMoveForward]_vars
===============================================================================
