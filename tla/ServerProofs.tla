----------------------------- MODULE ServerProofs -----------------------------
(***************************************************************************)
(* Theorems about module Server, for any number of requests, migrations    *)
(* and failures.                                                           *)
(***************************************************************************)
EXTENDS Server, TLAPS

Operations == {"stmt", "open", "close", "watch"}

LEMMA ProgramType == \A program \in Programs : program \in Seq(Operations)
<1>1. /\ "stmt" \in Operations /\ "open" \in Operations
      /\ "close" \in Operations /\ "watch" \in Operations
  BY DEF Operations
<1>2. Plain \in Seq(Operations)
  BY <1>1 DEF Plain
<1>3. View \in Seq(Operations)
  BY <1>1 DEF View
<1>4. Reset \in Seq(Operations)
  BY <1>1 DEF Reset
<1>5. Stream \in Seq(Operations)
  BY <1>1 DEF Stream
<1> QED
  BY <1>2, <1>3, <1>4, <1>5 DEF Programs

LEMMA TypeInit == Init => TypeOK
  BY ServerAssumption DEF Init, TypeOK, Migrations, Idle

(* The steps of a process that is coming up, and of the other tools. *)
LEMMA TypeOpening ==
  ASSUME TypeOK, NEW p \in Processes, Opening(p)
  PROVE  TypeOK'
<1> USE DEF TypeOK, Goto, file, serving
<1>1. CASE Launch(p)
  BY <1>1 DEF Launch
<1>2. CASE ReadApplied(p)
  BY <1>2 DEF ReadApplied
<1>3. CASE ApplyMigration(p)
  <2>1. PICK m \in Due(p) :
          IF ran[m] > 0
            THEN Goto(p, "down") /\ UNCHANGED <<ran, recorded, seen>>
            ELSE /\ ran' = [ran EXCEPT ![m] = @ + 1]
                 /\ recorded' = recorded \cup {m}
                 /\ seen' = [seen EXCEPT ![p] = @ \cup {m}]
                 /\ UNCHANGED at
    BY <1>3 DEF ApplyMigration
  <2>2. m \in Migrations
    BY <2>1, ServerAssumption DEF Due, Migrations
  <2>3. UNCHANGED <<embedded, req, holder, troubles>>
    BY <1>3 DEF ApplyMigration
  <2>4. ran' \in [Migrations -> Nat] /\ recorded' \subseteq Migrations
    <3>1. ran[m] + 1 \in Nat
      BY <2>2
    <3>2. ran' = ran \/ ran' = [ran EXCEPT ![m] = ran[m] + 1]
      BY <2>1
    <3>3. recorded' = recorded \/ recorded' = recorded \cup {m}
      BY <2>1
    <3> QED
      BY <2>2, <3>1, <3>2, <3>3
  <2>5. at' \in [Processes -> {"down", "open", "migrate", "run", "stop"}]
    BY <2>1
  <2>6. seen' \in [Processes -> SUBSET Migrations]
    BY <2>1, <2>2
  <2> QED
    BY <2>3, <2>4, <2>5, <2>6
<1>4. CASE Ready(p)
  BY <1>4 DEF Ready
<1> QED
  BY <1>1, <1>2, <1>3, <1>4 DEF Opening

(* The steps of a request. *)
LEMMA TypeRequest ==
  ASSUME TypeOK, NEW r \in Requests, Arrive(r) \/ Step(r) \/ Leave(r)
  PROVE  TypeOK'
<1>1. UNCHANGED <<embedded, ran, recorded, at, seen, troubles>>
  BY DEF Arrive, Step, Leave, file, process
<1>2. holder' \in {{}} \cup {{q} : q \in Requests}
  BY DEF TypeOK, Arrive, Step, Leave
<1>3. req' \in [Requests -> Seq(Operations)]
  <2>1. req \in [Requests -> Seq(Operations)]
    BY DEF TypeOK, Operations
  <2>2. CASE Arrive(r)
    BY <2>1, <2>2, ProgramType DEF Arrive
  <2>3. CASE Step(r)
    <3>1. req[r] \in Seq(Operations) /\ req[r] # <<>>
      BY <2>1, <2>3 DEF Step, Idle
    <3>2. Tail(req[r]) \in Seq(Operations)
      BY <3>1
    <3> QED
      BY <2>1, <2>3, <3>2 DEF Step
  <2>4. CASE Leave(r)
    <3>1. Idle \in Seq(Operations)
      BY DEF Idle
    <3> QED
      BY <2>1, <2>4, <3>1 DEF Leave
  <2> QED
    BY <2>2, <2>3, <2>4
<1> QED
  BY <1>1, <1>2, <1>3 DEF TypeOK, Operations

(* The ends of a process. *)
LEMMA DiesType ==
  ASSUME TypeOK, NEW p \in Processes, Dies(p)
  PROVE  /\ at' \in [Processes -> {"down", "open", "migrate", "run", "stop"}]
         /\ req' \in [Requests -> Seq({"stmt", "open", "close", "watch"})]
         /\ holder' \in {{}} \cup {{q} : q \in Requests}
<1>1. Idle \in Seq({"stmt", "open", "close", "watch"})
  BY DEF Idle
<1> QED
  BY <1>1 DEF TypeOK, Dies, Goto, serving

LEMMA TypeEnd ==
  ASSUME TypeOK,
         Finish \/ Terminate \/ Shutdown \/ \E p \in Processes : Trouble(p)
  PROVE  TypeOK'
<1>1. CASE Finish \/ Terminate
  BY <1>1 DEF TypeOK, Finish, Terminate, Goto, file, serving
<1>2. CASE Shutdown
  BY <1>2, DiesType DEF TypeOK, Shutdown, file, Processes
<1>3. ASSUME NEW p \in Processes, Trouble(p) PROVE TypeOK'
  <2>1. troubles' \in 0..MaxTroubles
    BY <1>3, ServerAssumption DEF TypeOK, Trouble
  <2>2. UNCHANGED <<embedded, ran, recorded, seen>>
    BY <1>3 DEF Trouble, file
  <2> QED
    BY <1>3, <2>1, <2>2, DiesType DEF TypeOK, Trouble
<1> QED
  BY <1>1, <1>2, <1>3

LEMMA TypeRelease ==
  ASSUME TypeOK, Release
  PROVE  TypeOK'
<1>1. embedded' \in Migrations
  BY DEF Release
<1> QED
  BY <1>1 DEF TypeOK, Release, process, serving

LEMMA TypeNext == TypeOK /\ [Next]_vars => TypeOK'
<1> SUFFICES ASSUME TypeOK, [Next]_vars PROVE TypeOK'
  OBVIOUS
<1>1. CASE UNCHANGED vars
  BY <1>1 DEF TypeOK, vars, file, process, serving
<1>2. CASE Next
  BY <1>2, TypeOpening, TypeRequest, TypeEnd, TypeRelease DEF Next
<1> QED
  BY <1>1, <1>2

(***************************************************************************)
(* Every variable keeps its type; in particular at most one request keeps  *)
(* the connection.                                                         *)
(***************************************************************************)
THEOREM TypeCorrect == Spec => []TypeOK
  BY TypeInit, TypeNext, PTL DEF Spec

-----------------------------------------------------------------------------
(***************************************************************************)
(* What MigratedOnce leaves open: nobody takes a migration for applied     *)
(* that is not.                                                            *)
(***************************************************************************)
MigrationInv == \A p \in Processes : seen[p] \subseteq recorded

LEMMA MigrationInit == Init => MigrationInv /\ MigratedOnce
  BY DEF Init, MigrationInv, MigratedOnce, Processes

(* A migration is applied if nobody has applied it, as the next one of all *)
(* that are recorded, while nothing runs; else the process gives up.       *)
LEMMA MigrationApplied ==
  ASSUME TypeOK, MigrationInv, MigratedOnce,
         NEW p \in Processes, ApplyMigration(p)
  PROVE  MigrationInv' /\ MigratedOnce'
<1>1. PICK m \in Due(p) :
        /\ \A n \in Due(p) : m <= n
        /\ IF ran[m] > 0
             THEN Goto(p, "down") /\ UNCHANGED <<ran, recorded, seen>>
             ELSE /\ ran' = [ran EXCEPT ![m] = @ + 1]
                  /\ recorded' = recorded \cup {m}
                  /\ seen' = [seen EXCEPT ![p] = @ \cup {m}]
                  /\ UNCHANGED at
  BY DEF ApplyMigration
<1>2. m \in Migrations /\ m \in 1..embedded /\ embedded \in Nat /\ embedded' = embedded
  BY <1>1, ServerAssumption DEF Due, ApplyMigration, TypeOK, Migrations
<1>3. CASE ran[m] > 0
  <2>1. UNCHANGED <<ran, recorded, seen>> /\ Goto(p, "down")
    BY <1>1, <1>3
  <2>2. \A q \in Processes : at'[q] \in {"run", "stop"} => at[q] \in {"run", "stop"}
    BY <2>1 DEF Goto, TypeOK
  <2> QED
    BY <1>2, <2>1, <2>2 DEF MigrationInv, MigratedOnce
<1>4. CASE ~(ran[m] > 0)
  <2>1. m \notin recorded
    BY <1>2, <1>4 DEF MigratedOnce
  <2>2. /\ ran' = [ran EXCEPT ![m] = @ + 1]
        /\ recorded' = recorded \cup {m}
        /\ seen' = [seen EXCEPT ![p] = @ \cup {m}]
        /\ at' = at
    BY <1>1, <1>4
  <2>3. \A q \in Processes : at[q] \notin {"run", "stop"}
    BY <1>2, <2>1 DEF MigratedOnce
  <2>4. 1..m \subseteq recorded \cup {m}
    <3>1. \A n \in 1..m : n # m => n \in 1..embedded /\ ~(m <= n)
      BY <1>2 DEF Migrations
    <3>2. \A n \in 1..m : n # m => n \in seen[p]
      BY <1>1, <3>1 DEF Due
    <3> QED
      BY <3>2 DEF MigrationInv
  <2>5. \A k \in recorded' : 1..k \subseteq recorded'
    BY <2>2, <2>4 DEF MigratedOnce
  <2>6. \A k \in Migrations : ran'[k] = IF k \in recorded' THEN 1 ELSE 0
    <3>1. ran[m] = 0
      BY <1>2, <2>1 DEF MigratedOnce
    <3>2. ran'[m] = 1
      BY <1>2, <2>2, <3>1 DEF TypeOK
    <3>3. \A k \in Migrations : k # m => ran'[k] = ran[k]
      BY <2>2 DEF TypeOK
    <3> QED
      BY <2>2, <3>2, <3>3 DEF MigratedOnce
  <2>7. MigrationInv'
    BY <1>2, <2>2 DEF MigrationInv, TypeOK
  <2> QED
    BY <2>2, <2>3, <2>5, <2>6, <2>7 DEF MigratedOnce
<1> QED
  BY <1>3, <1>4

(* No other step changes what is recorded; a process only starts to run,   *)
(* and a build to know more, when MigratedOnce allows it.                  *)
LEMMA MigrationKept ==
  ASSUME TypeOK, MigrationInv, MigratedOnce,
         UNCHANGED <<embedded, ran, recorded>>,
         \A p \in Processes : seen'[p] \subseteq recorded,
         \A p \in Processes : at'[p] \in {"run", "stop"} =>
           at[p] \in {"run", "stop"} \/ (at[p] = "migrate" /\ Due(p) = {})
  PROVE  MigrationInv' /\ MigratedOnce'
<1>1. \A p \in Processes : at'[p] \in {"run", "stop"} => 1..embedded \subseteq recorded
  BY DEF MigrationInv, MigratedOnce, Due
<1> QED
  BY <1>1 DEF MigrationInv, MigratedOnce

LEMMA MigrationNext ==
  TypeOK /\ MigrationInv /\ MigratedOnce /\ [Next]_vars => MigrationInv' /\ MigratedOnce'
<1> SUFFICES ASSUME TypeOK, MigrationInv, MigratedOnce, [Next]_vars
             PROVE  MigrationInv' /\ MigratedOnce'
  OBVIOUS
<1> USE MigrationKept
<1>1. CASE UNCHANGED vars
  BY <1>1 DEF vars, file, process, MigrationInv
<1>2. ASSUME NEW p \in Processes, Opening(p) PROVE MigrationInv' /\ MigratedOnce'
  <2>1. CASE Launch(p) \/ Ready(p)
    BY <2>1 DEF Launch, Ready, Goto, file, TypeOK, MigrationInv
  <2>2. CASE ReadApplied(p)
    BY <2>2 DEF ReadApplied, Goto, file, TypeOK, MigrationInv
  <2> QED
    BY <1>2, <2>1, <2>2, MigrationApplied DEF Opening
<1>3. ASSUME NEW p \in Processes, Trouble(p) PROVE MigrationInv' /\ MigratedOnce'
  BY <1>3 DEF Trouble, Dies, Goto, file, TypeOK, MigrationInv
<1>4. CASE Finish \/ Terminate \/ Shutdown
  BY <1>4 DEF Finish, Terminate, Shutdown, Dies, Goto, file, TypeOK, MigrationInv
<1>5. CASE Release
  <2>1. \A p \in Processes : at'[p] \notin {"run", "stop"}
    BY <1>5 DEF Release, process
  <2>2. UNCHANGED <<ran, recorded, seen>>
    BY <1>5 DEF Release, process
  <2> QED
    BY <2>1, <2>2 DEF MigrationInv, MigratedOnce
<1>6. ASSUME NEW r \in Requests, Arrive(r) \/ Step(r) \/ Leave(r)
      PROVE  MigrationInv' /\ MigratedOnce'
  BY <1>6 DEF Arrive, Step, Leave, file, process, MigrationInv
<1> QED
  BY <1>1, <1>2, <1>3, <1>4, <1>5, <1>6 DEF Next

(***************************************************************************)
(* Each migration is in the file once, in order, exactly if it is          *)
(* recorded, and nothing runs on an older schema than its build's: however *)
(* many starts fail, and whoever migrates at the same time.                *)
(***************************************************************************)
THEOREM MigrationsRunOnce == Spec => []MigratedOnce
<1>1. MigrationInv /\ MigratedOnce /\ TypeOK /\ [Next]_vars
        => (MigrationInv /\ MigratedOnce)'
  BY MigrationNext
<1> QED
  BY <1>1, MigrationInit, TypeCorrect, PTL DEF Spec
===============================================================================
