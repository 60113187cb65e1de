-------------------------------- MODULE Server --------------------------------
(***************************************************************************)
(* The processes around one database file: the server, and fnsctl, which   *)
(* the container's health check runs every minute.  Both open the file and *)
(* migrate it before they do anything else.  The server then serves until  *)
(* it is told to stop, crashes, or is killed; a new container may have     *)
(* more migrations than the last one, or fewer.                            *)
(*                                                                         *)
(* A request is a program over the server's one connection: a statement    *)
(* takes it and gives it back, while open rows and transactions keep it.   *)
(* What the statements do is in the modules of the components.             *)
(*                                                                         *)
(* A migration is a transaction, and fails if its tables are there.  Left  *)
(* out: a power failure that undoes the last commits (synchronous=NORMAL), *)
(* housekeeping, and a configuration that can never work.                  *)
(***************************************************************************)
EXTENDS Naturals, Sequences, FiniteSets

CONSTANTS
  Requests,        (* requests that can be in progress at once             *)
  MaxMigrations,   (* bound on the migrations any build embeds             *)
  MaxTroubles      (* bound on failed statements and killed processes      *)

ASSUME ServerAssumption ==
  MaxMigrations \in Nat \ {0} /\ MaxTroubles \in Nat

VARIABLES
  embedded,    (* the migrations of the present build are 1..embedded      *)
  ran,         (* per migration, how often its statements were committed   *)
  recorded,    (* table schema_migrations                                  *)
  at, seen,    (* per process: where it is, what it takes for applied      *)
  req,         (* per request: what is left of its program                 *)
  holder,      (* the request that keeps the server's connection           *)
  troubles

file    == <<embedded, ran, recorded>>
process == <<at, seen>>
serving == <<req, holder>>
vars    == <<file, process, serving, troubles>>

Processes  == {"server", "fnsctl"}
Migrations == 1..MaxMigrations

(* authenticate or look something up, then single statements *)
Plain == <<"stmt", "stmt">>

(* Mutant: the season of each team is read while the teams are. *)
ViewNested == <<"stmt", "open", "stmt", "close", "open", "close">>

(* SessionView: the session, the teams' rows, their season, the rounds' rows *)
View == <<"stmt", "open", "close", "stmt", "open", "close">>

(* ResetRound's transaction, between the role check and the event *)
Reset == <<"stmt", "open", "close", "stmt">>

Stream == <<"stmt", "watch">>

Programs == {Plain, View, Reset, Stream}

Idle == <<>>

TypeOK ==
  /\ embedded \in Migrations
  /\ ran \in [Migrations -> Nat]
  /\ recorded \subseteq Migrations
  /\ at \in [Processes -> {"down", "open", "migrate", "run", "stop"}]
  /\ seen \in [Processes -> SUBSET Migrations]
  /\ req \in [Requests -> Seq({"stmt", "open", "close", "watch"})]
  /\ holder \in {{}} \cup {{r} : r \in Requests}
  /\ troubles \in 0..MaxTroubles

Init ==
  /\ embedded = 1
  /\ ran = [m \in Migrations |-> 0] /\ recorded = {}
  /\ at = [p \in Processes |-> "down"]
  /\ seen = [p \in Processes |-> {}]
  /\ req = [r \in Requests |-> Idle] /\ holder = {}
  /\ troubles = 0

-----------------------------------------------------------------------------
(* store.Open *)

Goto(p, place) == at' = [at EXCEPT ![p] = place]

Launch(p) ==
  /\ at[p] = "down"
  /\ Goto(p, "open")
  /\ UNCHANGED <<file, seen, serving, troubles>>

(* Mutant: a database that has been migrated at all is taken for current. *)
ReadAppliedAny(p) ==
  /\ at[p] = "open"
  /\ seen' = [seen EXCEPT ![p] = IF recorded = {} THEN {} ELSE 1..embedded]
  /\ Goto(p, "migrate")
  /\ UNCHANGED <<file, serving, troubles>>

(* appliedMigrations *)
ReadApplied(p) ==
  /\ at[p] = "open"
  /\ seen' = [seen EXCEPT ![p] = recorded]
  /\ Goto(p, "migrate")
  /\ UNCHANGED <<file, serving, troubles>>

Due(p) == (1..embedded) \ seen[p]

(* Mutant: the statements and the record are committed separately. *)
ApplyMigrationInTwo(p) ==
  /\ at[p] = "migrate"
  /\ \E m \in Due(p) :
       /\ \A n \in Due(p) : m <= n
       /\ IF ran[m] > 0
            THEN Goto(p, "down") /\ UNCHANGED <<ran, recorded, seen>>
            ELSE /\ ran' = [ran EXCEPT ![m] = @ + 1]
                 /\ \/ /\ recorded' = recorded \cup {m}
                       /\ seen' = [seen EXCEPT ![p] = @ \cup {m}]
                       /\ UNCHANGED at
                    \/ Goto(p, "down") /\ UNCHANGED <<recorded, seen>>
  /\ UNCHANGED <<embedded, serving, troubles>>

(* The next file, in order; it fails if the other process was faster. *)
ApplyMigration(p) ==
  /\ at[p] = "migrate"
  /\ \E m \in Due(p) :
       /\ \A n \in Due(p) : m <= n
       /\ IF ran[m] > 0
            THEN Goto(p, "down") /\ UNCHANGED <<ran, recorded, seen>>
            ELSE /\ ran' = [ran EXCEPT ![m] = @ + 1]
                 /\ recorded' = recorded \cup {m}
                 /\ seen' = [seen EXCEPT ![p] = @ \cup {m}]
                 /\ UNCHANGED at
  /\ UNCHANGED <<embedded, serving, troubles>>

Ready(p) ==
  /\ at[p] = "migrate" /\ Due(p) = {}
  /\ Goto(p, "run")
  /\ UNCHANGED <<file, seen, serving, troubles>>

(* fnsctl does what it was called for. *)
Finish ==
  /\ at["fnsctl"] = "run"
  /\ Goto("fnsctl", "down")
  /\ UNCHANGED <<file, seen, serving, troubles>>

-----------------------------------------------------------------------------
(* The requests of the server. *)

InFlight == {r \in Requests : req[r] # Idle}

Arrive(r) ==
  /\ at["server"] = "run" /\ req[r] = Idle
  /\ \E program \in Programs : req' = [req EXCEPT ![r] = program]
  /\ UNCHANGED <<file, process, holder, troubles>>

(* Mutant: each operation gets a connection of its own. *)
StepUnpooled(r) ==
  /\ req[r] # Idle
  /\ \/ Head(req[r]) = "stmt" /\ UNCHANGED holder
     \/ Head(req[r]) = "open" /\ holder' = holder \cup {r}
     \/ Head(req[r]) = "close" /\ holder' = holder \ {r}
  /\ req' = [req EXCEPT ![r] = Tail(@)]
  /\ UNCHANGED <<file, process, troubles>>

(* The next operation; after the last one the request is answered. *)
Step(r) ==
  /\ req[r] # Idle
  /\ \/ Head(req[r]) = "stmt" /\ holder = {} /\ UNCHANGED holder
     \/ Head(req[r]) = "open" /\ holder = {} /\ holder' = {r}
     \/ Head(req[r]) = "close" /\ holder' = {}
  /\ req' = [req EXCEPT ![r] = Tail(@)]
  /\ UNCHANGED <<file, process, troubles>>

(* The client goes away: its statement is cancelled, its rows are closed   *)
(* or its transaction rolled back, its stream ends.                        *)
Leave(r) ==
  /\ req[r] # Idle
  /\ req' = [req EXCEPT ![r] = Idle]
  /\ holder' = holder \ {r}
  /\ UNCHANGED <<file, process, troubles>>

-----------------------------------------------------------------------------
(* run: SIGTERM closes the listener. *)
Terminate ==
  /\ at["server"] = "run"
  /\ Goto("server", "stop")
  /\ UNCHANGED <<file, seen, serving, troubles>>

(* Whatever is in progress ends with the process. *)
Dies(p) ==
  /\ Goto(p, "down")
  /\ IF p = "server"
       THEN req' = [r \in Requests |-> Idle] /\ holder' = {}
       ELSE UNCHANGED serving

(* Shutdown waits for the requests in flight, streams included, or for its *)
(* deadline.                                                               *)
Shutdown ==
  /\ at["server"] = "stop"
  /\ Dies("server")
  /\ UNCHANGED <<file, seen, troubles>>

(* A statement of Open fails, or the process is killed. *)
Trouble(p) ==
  /\ at[p] # "down" /\ troubles < MaxTroubles
  /\ troubles' = troubles + 1
  /\ Dies(p)
  /\ UNCHANGED <<file, seen>>

(* Another image (FNS_IMAGE_TAG): a newer one, with more migrations, or an *)
(* older one.                                                              *)
Release ==
  /\ at = [p \in Processes |-> "down"]
  /\ embedded' \in Migrations \ {embedded}
  /\ UNCHANGED <<ran, recorded, process, serving, troubles>>

Opening(p) == Launch(p) \/ ReadApplied(p) \/ ApplyMigration(p) \/ Ready(p)

Next ==
  \/ \E p \in Processes : Opening(p) \/ Trouble(p)
  \/ Finish \/ Terminate \/ Shutdown \/ Release
  \/ \E r \in Requests : Arrive(r) \/ Step(r) \/ Leave(r)

Spec == Init /\ [][Next]_vars

(***************************************************************************)
(* Docker restarts the server ("unless-stopped"), a process runs on, and   *)
(* Shutdown has a deadline.  The connection is handed to one of those who  *)
(* wait for it, chosen at random, so none of them waits for ever while     *)
(* others are served.                                                      *)
(***************************************************************************)
Fairness ==
  /\ WF_vars(Opening("server"))
  /\ WF_vars(Shutdown)
  /\ \A r \in Requests : SF_vars(Step(r))

FairSpec == Spec /\ Fairness

-----------------------------------------------------------------------------
(***************************************************************************)
(* However starts are interrupted and whoever migrates at the same time, a *)
(* migration's statements are in the file exactly if it is recorded, once, *)
(* the recorded ones are the first ones, and nothing is served or run on a *)
(* schema older than the build's, whatever builds ran before.  (That an    *)
(* older build runs on a newer schema is not detected.)                    *)
(***************************************************************************)
MigratedOnce ==
  /\ \A m \in Migrations : ran[m] = IF m \in recorded THEN 1 ELSE 0
  /\ \A m \in recorded : 1..m \subseteq recorded
  /\ \A p \in Processes : at[p] \in {"run", "stop"} => 1..embedded \subseteq recorded

(***************************************************************************)
(* Every request gets as far as its answer, or as its stream: with one     *)
(* connection for all, nobody waits for it while holding it.  And once     *)
(* told to, the server stops, whoever watches a stream for ever.           *)
(***************************************************************************)
RequestsEnd ==
  /\ \A r \in Requests : r \in InFlight ~> (req[r] = Idle \/ Head(req[r]) = "watch")
  /\ at["server"] = "stop" ~> at["server"] = "down"

(***************************************************************************)
(* The server comes up after any failed start or lost race for a migration *)
(* (its tables are not left in the way of the next attempt).               *)
(***************************************************************************)
ComesUp == at["server"] = "down" ~> at["server"] = "run"
===============================================================================
