---------------------------- MODULE LeagueProofs ----------------------------
(***************************************************************************)
(* Theorems about modules League and Season: a demo of any handlers, any   *)
(* number of seeds and rounds and any play sessions; and the scoring of    *)
(* rounds, weeks and seasons of any length.                                *)
(***************************************************************************)
EXTENDS League, Season, SequenceTheorems, FiniteSetTheorems, WellFoundedInduction,
        TLAPS

(***************************************************************************)
(* The dashboard needs nothing but a clock that only ticks, by less than   *)
(* the window in which a session that has begun is active.                 *)
(***************************************************************************)
Clock == time \in Nat

LEMMA TimeInit == Init => Clock
  BY DEF Init, Clock

LEMMA TimeNext == Clock /\ [Next]_vars => Clock'
  BY DEF Next, SeedStep, Stop, Newcomer, Plan, Tick, vars, Clock

LEMMA ClockAndRows ==
  ASSUME time \in Nat, [Next]_vars
  PROVE  /\ rows \subseteq rows' /\ time' \in Nat
         /\ time' = time \/ time' = time + 1
<1>1. CASE UNCHANGED vars
  BY <1>1 DEF vars
<1>2. ASSUME NEW s \in Seeds, SeedStep(s) \/ Stop(s)
      PROVE  rows \subseteq rows' /\ UNCHANGED time
  BY <1>2 DEF SeedStep, Stop
<1>3. ASSUME NEW a, Newcomer(a) PROVE rows \subseteq rows' /\ UNCHANGED time
  BY <1>3 DEF Newcomer
<1>4. ASSUME NEW night, Plan(night) PROVE rows \subseteq rows' /\ UNCHANGED time
  BY <1>4 DEF Plan
<1>5. CASE Tick
  BY <1>5 DEF Tick
<1> QED
  BY <1>1, <1>2, <1>3, <1>4, <1>5 DEF Next

LEMMA GroupMoves ==
  ASSUME time \in Nat, time' = time \/ time' = time + 1, NEW night \in Nights
  PROVE  /\ Group(night) \in {"active", "upcoming", "past"}
         /\ Group(night) = "past" => Group(night)' = "past"
         /\ Group(night) = "active" => Group(night)' \in {"active", "past"}
         /\ Group(night) = "upcoming" => Group(night)' \in {"upcoming", "active"}
<1>1. PICK start \in Int : start = StartsAt[night]
  BY LeagueAssumption
<1>2. activeWindow \in Nat /\ activeWindow > 0
  BY LeagueAssumption
<1>3. CASE Status[night] = "complete"
  BY <1>3 DEF Group
<1>4. CASE Status[night] = "active"
  BY <1>4 DEF Group
<1>5. CASE Status[night] # "complete" /\ Status[night] # "active"
  <2>1. Group(night) = IF start > time THEN "upcoming"
                       ELSE IF time - start < activeWindow THEN "active" ELSE "past"
    BY <1>1, <1>5 DEF Group
  <2>2. Group(night)' = IF start > time' THEN "upcoming"
                        ELSE IF time' - start < activeWindow THEN "active" ELSE "past"
    BY <1>1, <1>5 DEF Group
  <2> QED
    BY <1>2, <2>1, <2>2
<1> QED
  BY <1>3, <1>4, <1>5

LEMMA SessionMoves ==
  ASSUME time \in Nat, [Next]_vars, NEW a \in People
  PROVE  MovesForward(a)
<1> DEFINE In(night, group) ==
      /\ {AddClubMember(a), Row("play_sessions", night, 0)} \subseteq rows
      /\ Status[night] # "cancelled"
      /\ Group(night) = group
<1>1. \A g \in {"active", "upcoming", "past"} : \A night :
        /\ night \in Dashboard(a)[g] <=> night \in Nights /\ In(night, g)
        /\ night \in Dashboard(a)'[g] <=> night \in Nights /\ In(night, g)'
  BY DEF Dashboard
<1>2. ASSUME NEW night \in Nights
      PROVE  /\ In(night, "past") => In(night, "past")'
             /\ In(night, "active") => In(night, "active")' \/ In(night, "past")'
             /\ In(night, "upcoming") => In(night, "upcoming")' \/ In(night, "active")'
  <2>1. rows \subseteq rows' /\ (time' = time \/ time' = time + 1)
    BY ClockAndRows
  <2>2. /\ AddClubMember(a)' = AddClubMember(a)
        /\ Row("play_sessions", night, 0)' = Row("play_sessions", night, 0)
    BY DEF AddClubMember, Row
  <2>3. /\ Group(night) = "past" => Group(night)' = "past"
        /\ Group(night) = "active" => Group(night)' \in {"active", "past"}
        /\ Group(night) = "upcoming" => Group(night)' \in {"upcoming", "active"}
    BY <2>1, GroupMoves
  <2> QED
    BY <2>1, <2>2, <2>3
<1> HIDE DEF In
<1> QED
  BY <1>1, <1>2 DEF MovesForward

(***************************************************************************)
(* On the dashboard a session moves forward only, and is never dropped,    *)
(* whatever rows are added and however its status is set.                  *)
(***************************************************************************)
THEOREM SessionsMoveForward == Spec => DashboardMovesForward
<1>1. Clock /\ [Next]_vars => [AllMoveForward]_vars
  BY SessionMoves DEF AllMoveForward, Clock
<1> QED
  BY <1>1, TimeInit, TimeNext, PTL DEF Spec, DashboardMovesForward

-----------------------------------------------------------------------------
(***************************************************************************)
(* What FlattenSeq makes of a sequence of blocks: each of them stands in   *)
(* the result in one piece, and nothing else does.                         *)
(***************************************************************************)
LEMMA LeastNumber ==
  ASSUME NEW X \in SUBSET Nat, X # {}
  PROVE  \E a \in X : \A i \in X : a <= i
<1>1. PICK a \in X : \A i \in X : ~ (<<i, a>> \in OpToRel(<, Nat))
  BY NatLessThanWellFounded, WFMin
<1>2. \A i \in X : ~ (i < a)
  BY <1>1 DEF OpToRel
<1> QED
  BY <1>2

Flattens(f, ss, n) ==
  f = [i \in 1..n |-> IF i = 1 THEN ss[i] ELSE f[i-1] \o ss[i]]

LEMMA FlattenExists ==
  ASSUME NEW ss, NEW m \in Nat
  PROVE  \E f : Flattens(f, ss, m)
<1> DEFINE Bad == {n \in Nat : ~ \E f : Flattens(f, ss, n)}
<1> SUFFICES ASSUME Bad # {} PROVE FALSE
  OBVIOUS
<1>1. PICK n \in Bad : \A i \in Bad : n <= i
  BY LeastNumber
<1>2. CASE n = 0
  <2> DEFINE f == [i \in 1..n |-> ss[i]]
  <2>1. 1..n = {}
    BY <1>2
  <2>2. Flattens(f, ss, n)
    BY <2>1 DEF Flattens
  <2> QED
    BY <2>2
<1>3. CASE n # 0
  <2>1. n \in Nat /\ n - 1 \in Nat /\ n - 1 \notin Bad
    BY <1>1, <1>3
  <2>2. PICK g : Flattens(g, ss, n - 1)
    BY <2>1
  <2> DEFINE f == [i \in 1..n |-> IF i < n THEN g[i]
                                  ELSE IF i = 1 THEN ss[i] ELSE g[i-1] \o ss[i]]
  <2>3. ASSUME NEW i \in 1..n
        PROVE  f[i] = IF i = 1 THEN ss[i] ELSE f[i-1] \o ss[i]
    <3>1. CASE i < n
      <4>1. i \in 1..(n - 1) /\ f[i] = g[i]
        BY <2>1, <3>1
      <4>2. i # 1 => f[i-1] = g[i-1]
        BY <2>1, <3>1
      <4>3. g[i] = IF i = 1 THEN ss[i] ELSE g[i-1] \o ss[i]
        BY <2>2, <4>1 DEF Flattens
      <4> QED
        BY <4>1, <4>2, <4>3
    <3>2. CASE i = n
      <4>1. i # 1 => f[i-1] = g[i-1]
        BY <2>1, <3>2
      <4> QED
        BY <3>2, <4>1
    <3> QED
      BY <2>1, <3>1, <3>2
  <2>4. f = [i \in 1..n |-> f[i]]
    OBVIOUS
  <2> HIDE DEF f
  <2>5. Flattens(f, ss, n)
    BY <2>3, <2>4 DEF Flattens
  <2> QED
    BY <2>5
<1> QED
  BY <1>2, <1>3

LEMMA FlattenIs ==
  ASSUME NEW ss, Len(ss) \in Nat, Len(ss) # 0
  PROVE  \E f : Flattens(f, ss, Len(ss)) /\ FlattenSeq(ss) = f[Len(ss)]
<1> DEFINE f == CHOOSE f : f = [i \in 1..Len(ss) |->
                                 IF i = 1 THEN ss[i] ELSE f[i-1] \o ss[i]]
<1>1. \E g : Flattens(g, ss, Len(ss))
  BY FlattenExists
<1>2. Flattens(f, ss, Len(ss))
  BY <1>1 DEF Flattens
<1>3. FlattenSeq(ss) = f[Len(ss)]
  BY DEF FlattenSeq
<1> QED
  BY <1>2, <1>3

(* Block s stands in F after the first b elements. *)
At(F, b, s) ==
  /\ b + Len(s) <= Len(F)
  /\ \A m \in 1..Len(s) : F[b + m] = s[m]

(* F is made of the first n blocks. *)
Blocks(F, ss, n) ==
  /\ \A k \in 1..n : \E b \in Nat : At(F, b, ss[k])
  /\ \A j \in 1..Len(F) : \E k \in 1..n, b \in Nat :
       At(F, b, ss[k]) /\ b < j /\ j <= b + Len(ss[k])

LEMMA Concatenation ==
  ASSUME NEW A, NEW F \in Seq(A), NEW t \in Seq(A)
  PROVE  /\ F \o t \in Seq(A) /\ Len(F \o t) = Len(F) + Len(t)
         /\ Len(F) \in Nat /\ Len(t) \in Nat
         /\ \A i \in 1..Len(F) : (F \o t)[i] = F[i]
         /\ \A i \in 1..Len(t) : (F \o t)[Len(F) + i] = t[i]
  OBVIOUS

LEMMA Before ==
  ASSUME NEW A, NEW F \in Seq(A), NEW t \in Seq(A), NEW s \in Seq(A), NEW b \in Nat,
         At(F, b, s)
  PROVE  At(F \o t, b, s)
<1> PICK l \in Nat, k \in Nat : l = Len(F) /\ k = Len(s)
  OBVIOUS
<1> PICK G : G = F \o t
  OBVIOUS
<1>1. b + k <= l /\ \A m \in 1..k : F[b + m] = s[m]
  BY DEF At
<1>2. \A i \in 1..l : G[i] = F[i]
  BY Concatenation
<1>3. ASSUME NEW m \in 1..k PROVE G[b + m] = s[m]
  <2>1. b + m \in 1..l
    BY <1>1
  <2> QED
    BY <1>1, <1>2, <2>1
<1>4. Len(G) = l + Len(t) /\ Len(t) \in Nat
  BY Concatenation
<1>5. b + k <= Len(G)
  BY <1>1, <1>4
<1> QED
  BY <1>3, <1>5 DEF At

LEMMA AtEnd ==
  ASSUME NEW A, NEW F \in Seq(A), NEW t \in Seq(A)
  PROVE  At(F \o t, Len(F), t) /\ Len(F) \in Nat
  BY Concatenation DEF At

(* What stands in a block stands in what goes after h, that much later.    *)
LEMMA After ==
  ASSUME NEW A, NEW h \in Seq(A), NEW F \in Seq(A), NEW s \in Seq(A), NEW b \in Nat,
         At(F, b, s)
  PROVE  At(h \o F, Len(h) + b, s)
<1> PICK l \in Nat, k \in Nat, p \in Nat : l = Len(F) /\ k = Len(s) /\ p = Len(h)
  OBVIOUS
<1> PICK G : G = h \o F
  OBVIOUS
<1>1. b + k <= l /\ \A m \in 1..k : F[b + m] = s[m]
  BY DEF At
<1>2. Len(G) = p + l /\ \A i \in 1..l : G[p + i] = F[i]
  BY Concatenation
<1>3. ASSUME NEW m \in 1..k PROVE G[(p + b) + m] = s[m]
  <2>1. b + m \in 1..l /\ (p + b) + m = p + (b + m)
    BY <1>1
  <2> QED
    BY <1>1, <1>2, <2>1
<1>4. (p + b) + k <= p + l
  BY <1>1
<1> QED
  BY <1>2, <1>3, <1>4 DEF At

LEMMA BlocksMore ==
  ASSUME NEW A, NEW F \in Seq(A), NEW ss, NEW n \in Nat, Blocks(F, ss, n),
         \A k \in 1..(n + 1) : ss[k] \in Seq(A)
  PROVE  Blocks(F \o ss[n + 1], ss, n + 1)
<1>1. PICK t \in Seq(A) : t = ss[n + 1]
  OBVIOUS
<1> PICK l \in Nat, k \in Nat : l = Len(F) /\ k = Len(t)
  OBVIOUS
<1> PICK G : G = F \o t
  OBVIOUS
<1>2. Len(G) = l + k
  BY Concatenation
<1>3. At(G, l, t)
  BY AtEnd
<1>4. ASSUME NEW i \in 1..n, NEW b \in Nat, At(F, b, ss[i]) PROVE At(G, b, ss[i])
  <2>1. ss[i] \in Seq(A)
    OBVIOUS
  <2> QED
    BY <1>4, <2>1, Before
<1>5. ASSUME NEW i \in 1..(n + 1) PROVE \E b \in Nat : At(G, b, ss[i])
  <2>1. CASE i \in 1..n
    BY <1>4, <2>1 DEF Blocks
  <2>2. CASE i = n + 1
    BY <1>1, <1>3, <2>2
  <2> QED
    BY <2>1, <2>2
<1>6. ASSUME NEW j \in 1..Len(G)
      PROVE  \E i \in 1..(n + 1), b \in Nat :
               At(G, b, ss[i]) /\ b < j /\ j <= b + Len(ss[i])
  <2>1. CASE j <= l
    <3>1. PICK i \in 1..n, b \in Nat : At(F, b, ss[i]) /\ b < j /\ j <= b + Len(ss[i])
      BY <2>1 DEF Blocks
    <3>2. i \in 1..(n + 1)
      OBVIOUS
    <3> QED
      BY <1>4, <3>1, <3>2
  <2>2. CASE j > l
    <3>1. l < j /\ j <= l + Len(t)
      BY <1>2, <2>2
    <3>2. n + 1 \in 1..(n + 1)
      OBVIOUS
    <3> QED
      BY <1>1, <1>3, <3>1, <3>2
  <2> QED
    BY <2>1, <2>2
<1> QED
  BY <1>1, <1>5, <1>6 DEF Blocks

LEMMA FlattenBlocks ==
  ASSUME NEW A, NEW ss, Len(ss) \in Nat, Len(ss) # 0,
         \A k \in 1..Len(ss) : ss[k] \in Seq(A)
  PROVE  FlattenSeq(ss) \in Seq(A) /\ Blocks(FlattenSeq(ss), ss, Len(ss))
<1> PICK l \in Nat : l = Len(ss)
  OBVIOUS
<1>1. PICK f : Flattens(f, ss, l) /\ FlattenSeq(ss) = f[l]
  BY FlattenIs
<1> DEFINE Good(n) == f[n] \in Seq(A) /\ Blocks(f[n], ss, n)
           Bad == {n \in 1..l : ~ Good(n)}
<1>2. Bad = {}
  <2> SUFFICES ASSUME Bad # {} PROVE FALSE
    OBVIOUS
  <2>1. Bad \in SUBSET Nat
    OBVIOUS
  <2>2. PICK n \in Bad : \A i \in Bad : n <= i
    BY <2>1, LeastNumber
  <2>3. n \in 1..l /\ ~ Good(n) /\ ss[n] \in Seq(A)
    BY <2>2
  <2>4. CASE n = 1
    <3>1. f[n] = ss[n]
      BY <1>1, <2>3, <2>4 DEF Flattens
    <3>2. Blocks(ss[1], ss, 1)
      <4>1. PICK t \in Seq(A) : t = ss[1]
        BY <2>3, <2>4
      <4>2. At(t, 0, t)
        BY DEF At
      <4>3. \A j \in 1..Len(t) : 0 < j /\ j <= 0 + Len(t)
        OBVIOUS
      <4> QED
        BY <4>1, <4>2, <4>3 DEF Blocks
    <3> QED
      BY <2>3, <2>4, <3>1, <3>2
  <2>5. CASE n # 1
    <3>1. PICK p \in 1..l : n = p + 1
      BY <2>3, <2>5
    <3>2. Good(p)
      BY <2>2, <3>1
    <3>3. f[n] = f[p] \o ss[p + 1]
      <4>1. n - 1 = p
        BY <3>1
      <4> QED
        BY <1>1, <2>3, <2>5, <3>1, <4>1 DEF Flattens
    <3>4. \A k \in 1..(p + 1) : ss[k] \in Seq(A)
      BY <2>3, <3>1
    <3>5. Blocks(f[n], ss, n)
      <4>1. PICK g \in Seq(A) : g = f[p] /\ Blocks(g, ss, p)
        BY <3>2
      <4>2. p \in Nat
        OBVIOUS
      <4>3. Blocks(g \o ss[p + 1], ss, p + 1)
        BY <3>4, <4>1, <4>2, BlocksMore, Zenon
      <4> QED
        BY <3>1, <3>3, <4>1, <4>3
    <3>6. f[n] \in Seq(A)
      BY <2>3, <3>1, <3>2, <3>3, Concatenation
    <3> QED
      BY <2>3, <3>5, <3>6
  <2> QED
    BY <2>4, <2>5
<1>3. l \in 1..l
  OBVIOUS
<1> QED
  BY <1>1, <1>2, <1>3

-----------------------------------------------------------------------------
(***************************************************************************)
(* The seed: three rows, and a block of rows for every handler.            *)
(***************************************************************************)
SeedRows(a) ==
  {CreateUser(a), AddClubMember(a), CreateDog(a), CreateTeam(a),
   CreateSeasonEntry(a), AddSessionTeam(a)}
    \cup {CreateRound(a, n) : n \in 1..RoundsPerWeek}

AllRows ==
  {CreateClub, CreateSeason, CreatePlaySession} \cup UNION {SeedRows(a) : a \in People}

Head3 == <<CreateClub, CreateSeason, CreatePlaySession>>

LEMMA NoRows ==
  ASSUME NEW A PROVE <<>> \in Seq(A) /\ Len(<<>>) = 0
  OBVIOUS

LEMMA ThreeInARow ==
  ASSUME NEW A, NEW c1 \in A, NEW c2 \in A, NEW c3 \in A
  PROVE  /\ <<c1, c2, c3>> \in Seq(A) /\ Len(<<c1, c2, c3>>) = 3
         /\ \A j \in 1..3 : <<c1, c2, c3>>[j] \in {c1, c2, c3}
         /\ <<c1, c2, c3>>[1] = c1 /\ <<c1, c2, c3>>[2] = c2 /\ <<c1, c2, c3>>[3] = c3
  OBVIOUS

LEMMA SixInARow ==
  ASSUME NEW A, NEW c1 \in A, NEW c2 \in A, NEW c3 \in A, NEW c4 \in A,
         NEW c5 \in A, NEW c6 \in A, NEW s, s = <<c1, c2, c3, c4, c5, c6>>
  PROVE  /\ s \in Seq(A) /\ Len(s) = 6
         /\ s[1] = c1 /\ s[2] = c2 /\ s[3] = c3 /\ s[4] = c4 /\ s[5] = c5 /\ s[6] = c6
  OBVIOUS

LEMMA TeamBlock ==
  ASSUME NEW a \in People
  PROVE  /\ SeedTeam(a) \in Seq(AllRows) /\ Len(SeedTeam(a)) = 6 + RoundsPerWeek
         /\ SeedTeam(a)[1] = CreateUser(a) /\ SeedTeam(a)[2] = AddClubMember(a)
         /\ SeedTeam(a)[3] = CreateDog(a) /\ SeedTeam(a)[4] = CreateTeam(a)
         /\ SeedTeam(a)[5] = CreateSeasonEntry(a) /\ SeedTeam(a)[6] = AddSessionTeam(a)
         /\ \A n \in 1..RoundsPerWeek : SeedTeam(a)[6 + n] = CreateRound(a, n)
<1> PICK s : s = <<CreateUser(a), AddClubMember(a), CreateDog(a), CreateTeam(a),
                   CreateSeasonEntry(a), AddSessionTeam(a)>>
  OBVIOUS
<1> PICK t : t = Rounds(a)
  OBVIOUS
<1>1. SeedRows(a) \subseteq AllRows
  BY DEF AllRows
<1>2. /\ CreateUser(a) \in AllRows /\ AddClubMember(a) \in AllRows
      /\ CreateDog(a) \in AllRows /\ CreateTeam(a) \in AllRows
      /\ CreateSeasonEntry(a) \in AllRows /\ AddSessionTeam(a) \in AllRows
  BY <1>1 DEF SeedRows
<1>3. \A n \in 1..RoundsPerWeek : CreateRound(a, n) \in AllRows
  BY <1>1 DEF SeedRows
<1>4. /\ s \in Seq(AllRows) /\ Len(s) = 6
      /\ s[1] = CreateUser(a) /\ s[2] = AddClubMember(a) /\ s[3] = CreateDog(a)
      /\ s[4] = CreateTeam(a) /\ s[5] = CreateSeasonEntry(a) /\ s[6] = AddSessionTeam(a)
  <2> PICK c1 \in AllRows, c2 \in AllRows, c3 \in AllRows, c4 \in AllRows,
           c5 \in AllRows, c6 \in AllRows :
             /\ c1 = CreateUser(a) /\ c2 = AddClubMember(a) /\ c3 = CreateDog(a)
             /\ c4 = CreateTeam(a) /\ c5 = CreateSeasonEntry(a) /\ c6 = AddSessionTeam(a)
    BY <1>2
  <2>1. s = <<c1, c2, c3, c4, c5, c6>>
    OBVIOUS
  <2> QED
    BY <2>1, SixInARow
<1>5. t \in Seq(AllRows) /\ Len(t) = RoundsPerWeek
      /\ \A n \in 1..RoundsPerWeek : t[n] = CreateRound(a, n)
  BY <1>3, LeagueAssumption DEF Rounds
<1>6. SeedTeam(a) = s \o t
  BY DEF SeedTeam
<1>7. /\ s \o t \in Seq(AllRows) /\ Len(s \o t) = Len(s) + Len(t)
      /\ \A i \in 1..Len(s) : (s \o t)[i] = s[i]
      /\ \A i \in 1..Len(t) : (s \o t)[Len(s) + i] = t[i]
  <2>1. s \in Seq(AllRows) /\ t \in Seq(AllRows)
    BY <1>4, <1>5
  <2> QED
    BY <2>1, Concatenation
<1> PICK b : b = s \o t
  OBVIOUS
<1>8. /\ b \in Seq(AllRows) /\ Len(b) = 6 + RoundsPerWeek
      /\ \A i \in 1..6 : b[i] = s[i]
      /\ \A i \in 1..RoundsPerWeek : b[6 + i] = CreateRound(a, i)
  BY <1>4, <1>5, <1>7
<1>9. b[1] = s[1] /\ b[2] = s[2] /\ b[3] = s[3] /\ b[4] = s[4] /\ b[5] = s[5] /\ b[6] = s[6]
  BY <1>8
<1> QED
  BY <1>4, <1>6, <1>8, <1>9, Zenon

LEMMA HeadRows ==
  /\ Head3 \in Seq(AllRows) /\ Len(Head3) = 3
  /\ \A j \in 1..3 : Head3[j] \in {CreateClub, CreateSeason, CreatePlaySession}
<1>1. CreateClub \in AllRows /\ CreateSeason \in AllRows /\ CreatePlaySession \in AllRows
  BY DEF AllRows
<1> QED
  BY <1>1, ThreeInARow, Zenon DEF Head3

(* Where the rows of the seed stand. *)
InBlock(j, i, b, m) ==
  At(cmdSeed, b, SeedTeam(Demo[i])) /\ j = b + m /\ cmdSeed[j] = SeedTeam(Demo[i])[m]

LEMMA SeedBlocks ==
  /\ cmdSeed \in Seq(AllRows)
  /\ \A i \in DOMAIN Demo : \E b \in Nat : At(cmdSeed, b, SeedTeam(Demo[i]))
  /\ \A j \in 1..Len(cmdSeed) :
       \/ cmdSeed[j] \in {CreateClub, CreateSeason, CreatePlaySession}
       \/ \E i \in DOMAIN Demo, b \in Nat, m \in 1..(6 + RoundsPerWeek) :
            InBlock(j, i, b, m)
<1> PICK ss : ss = [i \in DOMAIN Demo |-> SeedTeam(Demo[i])]
  OBVIOUS
<1> PICK F : F = FlattenSeq(ss)
  OBVIOUS
<1> PICK n \in Nat : n = Len(Demo) /\ DOMAIN Demo = 1..n
  BY LeagueAssumption
<1>1. \A i \in 1..n : Demo[i] \in People
  BY DEF People
<1>2. \A i \in 1..n : ss[i] = SeedTeam(Demo[i]) /\ ss[i] \in Seq(AllRows)
  BY <1>1, TeamBlock
<1>3. ss \in Seq(Seq(AllRows)) /\ Len(ss) = n
  BY <1>2
<1>4. F \in Seq(AllRows) /\ Blocks(F, ss, n)
  <2>1. CASE n = 0
    <3>1. ss = <<>>
      BY <1>3, <2>1
    <3>2. F = <<>>
      BY <3>1 DEF FlattenSeq
    <3>3. F \in Seq(AllRows) /\ Len(F) = 0
      BY <3>2, NoRows
    <3>4. 1..n = {} /\ 1..Len(F) = {}
      BY <2>1, <3>3
    <3> QED
      BY <3>3, <3>4 DEF Blocks
  <2>2. CASE n # 0
    BY <1>2, <1>3, <2>2, FlattenBlocks
  <2> QED
    BY <2>1, <2>2
<1>5. cmdSeed = Head3 \o F
  BY DEF cmdSeed, Head3
<1>6. /\ cmdSeed \in Seq(AllRows) /\ Len(cmdSeed) = 3 + Len(F) /\ Len(F) \in Nat
      /\ \A j \in 1..3 : cmdSeed[j] = Head3[j]
      /\ \A j \in 1..Len(F) : cmdSeed[3 + j] = F[j]
  <2>1. /\ Head3 \o F \in Seq(AllRows) /\ Len(Head3 \o F) = Len(Head3) + Len(F)
        /\ Len(F) \in Nat
        /\ \A j \in 1..Len(Head3) : (Head3 \o F)[j] = Head3[j]
        /\ \A j \in 1..Len(F) : (Head3 \o F)[Len(Head3) + j] = F[j]
    <3>1. Head3 \in Seq(AllRows) /\ F \in Seq(AllRows)
      BY <1>4, HeadRows
    <3> QED
      BY <3>1, Concatenation
  <2>2. Len(Head3) = 3
    BY HeadRows
  <2> QED
    BY <1>5, <2>1, <2>2, Zenon
<1>7. ASSUME NEW i \in 1..n, NEW b \in Nat, At(F, b, ss[i])
      PROVE  At(cmdSeed, 3 + b, SeedTeam(Demo[i]))
  <2>1. At(Head3 \o F, Len(Head3) + b, ss[i])
    BY <1>2, <1>4, <1>7, HeadRows, After, Zenon
  <2> QED
    BY <1>2, <1>5, <2>1, HeadRows, Zenon
<1>8. ASSUME NEW i \in DOMAIN Demo
      PROVE  \E b \in Nat : At(cmdSeed, b, SeedTeam(Demo[i]))
  <2>1. PICK b \in Nat : At(F, b, ss[i])
    BY <1>4 DEF Blocks
  <2> QED
    BY <1>7, <2>1
<1>9. ASSUME NEW j \in 1..Len(cmdSeed)
      PROVE  \/ cmdSeed[j] \in {CreateClub, CreateSeason, CreatePlaySession}
             \/ \E i \in DOMAIN Demo, b \in Nat, m \in 1..(6 + RoundsPerWeek) :
                  InBlock(j, i, b, m)
  <2>1. CASE j \in 1..3
    BY <1>6, <2>1, HeadRows
  <2>2. CASE j \notin 1..3
    <3> PICK l \in Nat : l = Len(F) /\ Len(cmdSeed) = 3 + l
      BY <1>6
    <3>1. PICK k \in 1..Len(F) : j = 3 + k
      <4>1. j \in 1..(3 + l)
        OBVIOUS
      <4>2. j - 3 \in 1..l /\ j = 3 + (j - 3)
        BY <2>2, <4>1
      <4> QED
        BY <4>2
    <3>2. PICK i \in 1..n, b \in Nat :
            At(F, b, ss[i]) /\ b < k /\ k <= b + Len(ss[i])
      BY <1>4 DEF Blocks
    <3>3. Len(ss[i]) = 6 + RoundsPerWeek
      BY <1>1, <1>2, TeamBlock
    <3>4. PICK m \in 1..(6 + RoundsPerWeek) : k = b + m
      BY <3>2, <3>3, LeagueAssumption
    <3>5. At(cmdSeed, 3 + b, SeedTeam(Demo[i])) /\ j = (3 + b) + m
      BY <1>7, <3>1, <3>2, <3>4
    <3>6. cmdSeed[j] = SeedTeam(Demo[i])[m]
      BY <1>2, <3>3, <3>5 DEF At
    <3>7. InBlock(j, i, 3 + b, m) /\ 3 + b \in Nat /\ i \in DOMAIN Demo
      BY <3>5, <3>6 DEF InBlock
    <3> QED
      BY <3>7, Zenon
  <2> QED
    BY <2>1, <2>2
<1> QED
  BY <1>6, <1>8, <1>9

-----------------------------------------------------------------------------
(***************************************************************************)
(* Tables that are in order: a row has the rows it refers to, the running  *)
(* order has teams of the demo's handlers, and a round one of these.       *)
(***************************************************************************)
Closed(R) == \A row \in R : References(row) \subseteq R

RunningOrder(R) ==
  \A row \in R : row.table = "play_session_teams" =>
    row.of \in People /\ row = AddSessionTeam(row.of)

RoundsOfTeams(R) ==
  \A row \in R : row.table = "rounds" => AddSessionTeam(row.of) \in R

Orderly(R) == Closed(R) /\ RunningOrder(R) /\ RoundsOfTeams(R)

(* A seed has made the rows it has counted. *)
Made == \A s \in Seeds : \A j \in 1..Len(cmdSeed) : j <= seed[s] => cmdSeed[j] \in rows

LeagueInv ==
  /\ seed \in [Seeds -> {Failed} \cup 0..Len(cmdSeed)]
  /\ Made
  /\ Orderly(rows)

Plain(row) == row.table \notin {"play_session_teams", "rounds"}

LEMMA Insertion ==
  ASSUME NEW R, NEW row, Orderly(R), References(row) \subseteq R,
         row.table = "play_session_teams" =>
           row.of \in People /\ row = AddSessionTeam(row.of),
         row.table = "rounds" => AddSessionTeam(row.of) \in R
  PROVE  Orderly(R \cup {row})
<1>1. Closed(R \cup {row})
  BY DEF Orderly, Closed
<1>2. RunningOrder(R \cup {row})
  BY DEF Orderly, RunningOrder
<1>3. RoundsOfTeams(R \cup {row})
  BY DEF Orderly, RoundsOfTeams
<1> QED
  BY <1>1, <1>2, <1>3 DEF Orderly

LEMMA RowFields ==
  ASSUME NEW a, NEW n
  PROVE  /\ AddSessionTeam(a).table = "play_session_teams" /\ AddSessionTeam(a).of = a
         /\ CreateRound(a, n).table = "rounds" /\ CreateRound(a, n).of = a
         /\ CreateUser(a).table = "users" /\ Plain(CreateUser(a))
         /\ Plain(CreateClub) /\ Plain(CreateSeason) /\ Plain(CreatePlaySession)
         /\ Plain(AddClubMember(a)) /\ Plain(CreateDog(a)) /\ Plain(CreateTeam(a))
         /\ Plain(CreateSeasonEntry(a))
  BY DEF Row, Plain, AddSessionTeam, CreateRound, CreateUser, CreateClub, CreateSeason,
         CreatePlaySession, AddClubMember, CreateDog, CreateTeam, CreateSeasonEntry

LEMMA RefersTo ==
  ASSUME NEW a
  PROVE  /\ CreateSeasonEntry(a) \in References(AddSessionTeam(a))
         /\ {CreateSeason, CreateTeam(a)} \subseteq References(CreateSeasonEntry(a))
         /\ {CreateUser(a), CreateDog(a)} \subseteq References(CreateTeam(a))
         /\ References(CreateUser(a)) = {}
<1>1. CreateSeasonEntry(a) \in References(AddSessionTeam(a))
  BY DEF References, Row, AddSessionTeam
<1>2. {CreateSeason, CreateTeam(a)} \subseteq References(CreateSeasonEntry(a))
  BY DEF References, Row, CreateSeasonEntry
<1>3. {CreateUser(a), CreateDog(a)} \subseteq References(CreateTeam(a))
  BY DEF References, Row, CreateTeam
<1>4. References(CreateUser(a)) = {}
  BY DEF References, Row, CreateUser
<1> QED
  BY <1>1, <1>2, <1>3, <1>4

(* A round comes after its team's place in the running order. *)
LEMMA SeedOrder ==
  ASSUME NEW j \in 1..Len(cmdSeed)
  PROVE  \/ Plain(cmdSeed[j])
         \/ \E a \in People : cmdSeed[j] = AddSessionTeam(a)
         \/ \E a \in People : \E n \in 1..RoundsPerWeek : \E i \in 1..Len(cmdSeed) :
              /\ cmdSeed[j] = CreateRound(a, n)
              /\ i < j /\ cmdSeed[i] = AddSessionTeam(a)
<1> PICK N \in Nat : N = RoundsPerWeek
  BY LeagueAssumption
<1> PICK L \in Nat : L = Len(cmdSeed)
  BY SeedBlocks
<1>1. CASE cmdSeed[j] \in {CreateClub, CreateSeason, CreatePlaySession}
  BY <1>1, RowFields
<1>2. ASSUME NEW i \in DOMAIN Demo, NEW b \in Nat, NEW m \in 1..(6 + N),
             InBlock(j, i, b, m)
      PROVE  \/ Plain(cmdSeed[j])
             \/ \E a \in People : cmdSeed[j] = AddSessionTeam(a)
             \/ \E a \in People : \E n \in 1..RoundsPerWeek : \E h \in 1..Len(cmdSeed) :
                  /\ cmdSeed[j] = CreateRound(a, n)
                  /\ h < j /\ cmdSeed[h] = AddSessionTeam(a)
  <2> PICK a \in People : a = Demo[i]
    BY DEF People
  <2> PICK t : t = SeedTeam(a)
    OBVIOUS
  <2>1. /\ Len(t) = 6 + N
        /\ t[1] = CreateUser(a) /\ t[2] = AddClubMember(a)
        /\ t[3] = CreateDog(a) /\ t[4] = CreateTeam(a)
        /\ t[5] = CreateSeasonEntry(a) /\ t[6] = AddSessionTeam(a)
        /\ \A n \in 1..N : t[6 + n] = CreateRound(a, n)
    BY TeamBlock
  <2>2. /\ b + (6 + N) <= L /\ j = b + m /\ cmdSeed[j] = t[m]
        /\ \A k \in 1..(6 + N) : cmdSeed[b + k] = t[k]
    BY <1>2, <2>1 DEF InBlock, At
  <2>3. CASE m \in 1..5
    <3>1. m = 1 \/ m = 2 \/ m = 3 \/ m = 4 \/ m = 5
      BY <2>3
    <3>2. Plain(t[1]) /\ Plain(t[2]) /\ Plain(t[3]) /\ Plain(t[4]) /\ Plain(t[5])
      <4>1. /\ Plain(CreateUser(a)) /\ Plain(AddClubMember(a)) /\ Plain(CreateDog(a))
            /\ Plain(CreateTeam(a)) /\ Plain(CreateSeasonEntry(a))
        BY RowFields
      <4> QED
        BY <2>1, <4>1, Zenon
    <3>3. Plain(t[m])
      BY <3>1, <3>2, Zenon
    <3> QED
      BY <2>2, <3>3, Zenon
  <2>4. CASE m = 6
    BY <2>1, <2>2, <2>4
  <2>5. CASE m \in 7..(6 + N)
    <3>1. PICK n \in 1..N : m = 6 + n
      BY <2>5
    <3>2. cmdSeed[j] = CreateRound(a, n)
      BY <2>1, <2>2, <3>1
    <3>3. b + 6 \in 1..L /\ b + 6 < j /\ 6 \in 1..(6 + N)
      BY <2>2, <3>1
    <3>4. cmdSeed[b + 6] = AddSessionTeam(a)
      BY <2>1, <2>2, <3>3
    <3> QED
      BY <3>2, <3>3, <3>4
  <2>6. m \in 1..5 \/ m = 6 \/ m \in 7..(6 + N)
    OBVIOUS
  <2> QED
    BY <2>3, <2>4, <2>5, <2>6
<1> QED
  BY <1>1, <1>2, SeedBlocks

LEMMA LeagueInit == Init => LeagueInv
<1> SUFFICES ASSUME Init PROVE LeagueInv
  OBVIOUS
<1> PICK L \in Nat : L = Len(cmdSeed)
  BY SeedBlocks
<1>1. seed = [s \in Seeds |-> 0] /\ rows = {}
  BY DEF Init
<1>2. seed \in [Seeds -> {Failed} \cup 0..Len(cmdSeed)]
  BY <1>1
<1>3. Made
  BY <1>1 DEF Made
<1>4. Orderly(rows)
  BY <1>1 DEF Orderly, Closed, RunningOrder, RoundsOfTeams
<1> QED
  BY <1>2, <1>3, <1>4 DEF LeagueInv

(* A row that is not a seed's. *)
LEMMA PlainRow ==
  ASSUME LeagueInv, NEW row, Plain(row), References(row) \subseteq rows,
         rows' = rows \cup {row}, UNCHANGED seed
  PROVE  LeagueInv'
<1>1. Orderly(rows \cup {row})
  BY Insertion DEF LeagueInv, Plain
<1>2. Orderly(rows)'
  BY <1>1 DEF Orderly, Closed, RunningOrder, RoundsOfTeams
<1>3. Made'
  BY DEF LeagueInv, Made
<1> QED
  BY <1>2, <1>3 DEF LeagueInv

LEMMA SeedStepKeeps ==
  ASSUME LeagueInv, NEW s \in Seeds, SeedStep(s)
  PROVE  LeagueInv'
<1> PICK L \in Nat : L = Len(cmdSeed)
  BY SeedBlocks
<1> PICK k \in 0..(L - 1) : k = seed[s]
  BY DEF SeedStep
<1> PICK row : row = cmdSeed[k + 1]
  OBVIOUS
<1>1. k + 1 \in 1..L /\ seed \in [Seeds -> {Failed} \cup 0..L]
  BY DEF LeagueInv
<1>2. Made
  BY DEF LeagueInv
<1>3. CASE seed' = [seed EXCEPT ![s] = Failed] /\ UNCHANGED rows
  <2>1. seed' \in [Seeds -> {Failed} \cup 0..L]
    BY <1>1, <1>3
  <2>2. ASSUME NEW q \in Seeds, NEW j \in 1..L, j <= seed'[q]
        PROVE  cmdSeed[j] \in rows
    <3>1. q # s => seed'[q] = seed[q]
      BY <1>1, <1>3
    <3>2. q = s => seed'[q] = Failed
      BY <1>1, <1>3
    <3>3. q # s
      BY <2>2, <3>2 DEF Failed
    <3> QED
      BY <1>2, <2>2, <3>1, <3>3 DEF Made
  <2>3. Orderly(rows)'
    BY <1>3 DEF LeagueInv, Orderly, Closed, RunningOrder, RoundsOfTeams
  <2> QED
    BY <1>3, <2>1, <2>2, <2>3 DEF LeagueInv, Made
<1>4. CASE /\ ~ Refused(row)
           /\ seed' = [seed EXCEPT ![s] = @ + 1] /\ rows' = rows \cup {row}
  <2>1. seed' = [seed EXCEPT ![s] = k + 1]
    BY <1>4
  <2>2. seed' \in [Seeds -> {Failed} \cup 0..L]
    BY <1>1, <2>1
  <2>3. ASSUME NEW q \in Seeds, NEW j \in 1..L, j <= seed'[q]
        PROVE  cmdSeed[j] \in rows'
    <3>1. CASE q # s
      <4>1. seed'[q] = seed[q]
        BY <1>1, <2>1, <3>1
      <4> QED
        BY <1>2, <1>4, <2>3, <4>1 DEF Made
    <3>2. CASE q = s
      <4>1. seed'[q] = k + 1
        BY <1>1, <2>1, <3>2
      <4>2. j <= k \/ j = k + 1
        BY <2>3, <4>1
      <4>3. j <= seed[s] => cmdSeed[j] \in rows
        BY <1>2 DEF Made
      <4> QED
        BY <1>4, <4>2, <4>3
    <3> QED
      BY <3>1, <3>2
  <2>4. References(row) \subseteq rows
    BY <1>4 DEF Refused
  <2>5. \/ Plain(row)
        \/ \E a \in People : row = AddSessionTeam(a)
        \/ \E a \in People : \E n \in 1..RoundsPerWeek : \E h \in 1..L :
             row = CreateRound(a, n) /\ h < k + 1 /\ cmdSeed[h] = AddSessionTeam(a)
    BY <1>1, SeedOrder
  <2>6. \A h \in 1..L : h < k + 1 => cmdSeed[h] \in rows
    <3>1. \A h \in 1..L : h <= k => cmdSeed[h] \in rows
      BY <1>2 DEF Made
    <3> QED
      BY <3>1
  <2>7. /\ row.table = "play_session_teams" =>
             row.of \in People /\ row = AddSessionTeam(row.of)
        /\ row.table = "rounds" => AddSessionTeam(row.of) \in rows
    <3>1. CASE Plain(row)
      BY <3>1 DEF Plain
    <3>2. ASSUME NEW a \in People, row = AddSessionTeam(a)
          PROVE  /\ row.table = "play_session_teams"
                 /\ row.of \in People /\ row = AddSessionTeam(row.of)
      BY <3>2, RowFields
    <3>3. ASSUME NEW a \in People, NEW n \in 1..RoundsPerWeek, NEW h \in 1..L,
                 row = CreateRound(a, n), h < k + 1, cmdSeed[h] = AddSessionTeam(a)
          PROVE  row.table = "rounds" /\ AddSessionTeam(row.of) \in rows
      BY <2>6, <3>3, RowFields
    <3> QED
      BY <2>5, <3>1, <3>2, <3>3
  <2>8. Orderly(rows)'
    <3>1. Orderly(rows \cup {row})
      BY <2>4, <2>7, Insertion DEF LeagueInv
    <3> QED
      BY <1>4, <3>1 DEF Orderly, Closed, RunningOrder, RoundsOfTeams
  <2> QED
    BY <2>2, <2>3, <2>8 DEF LeagueInv, Made
<1> QED
  BY <1>3, <1>4 DEF SeedStep

LEMMA LeagueNext == LeagueInv /\ [Next]_vars => LeagueInv'
<1> SUFFICES ASSUME LeagueInv, [Next]_vars PROVE LeagueInv'
  OBVIOUS
<1>1. CASE UNCHANGED vars
  BY <1>1 DEF LeagueInv, Made, Orderly, Closed, RunningOrder, RoundsOfTeams, vars
<1>2. ASSUME NEW s \in Seeds, SeedStep(s) PROVE LeagueInv'
  BY <1>2, SeedStepKeeps
<1>3. ASSUME NEW s \in Seeds, Stop(s) PROVE LeagueInv'
  <2> PICK L \in Nat : L = Len(cmdSeed)
    BY SeedBlocks
  <2>1. /\ seed \in [Seeds -> {Failed} \cup 0..L] /\ rows' = rows
        /\ seed' = [seed EXCEPT ![s] = Failed]
    BY <1>3 DEF Stop, LeagueInv
  <2>2. seed' \in [Seeds -> {Failed} \cup 0..L]
    BY <2>1
  <2>3. ASSUME NEW q \in Seeds, NEW j \in 1..L, j <= seed'[q]
        PROVE  cmdSeed[j] \in rows
    <3>1. q # s => seed'[q] = seed[q]
      BY <2>1
    <3>2. q = s => seed'[q] = Failed
      BY <2>1
    <3>3. q # s
      BY <2>3, <3>2 DEF Failed
    <3> QED
      BY <2>3, <3>1, <3>3 DEF LeagueInv, Made
  <2>4. Orderly(rows)'
    BY <2>1 DEF LeagueInv, Orderly, Closed, RunningOrder, RoundsOfTeams
  <2> QED
    BY <2>1, <2>2, <2>3, <2>4 DEF LeagueInv, Made
<1>4. ASSUME NEW a \in People, Newcomer(a) PROVE LeagueInv'
  <2>1. Plain(CreateUser(a)) /\ References(CreateUser(a)) \subseteq rows
    BY RefersTo, RowFields
  <2> QED
    BY <1>4, <2>1, PlainRow DEF Newcomer
<1>5. ASSUME NEW night \in Nights, Plan(night) PROVE LeagueInv'
  <2> PICK row : row = Row("play_sessions", night, 0)
    OBVIOUS
  <2>1. Plain(row) /\ References(row) = {CreateClub}
    BY DEF Plain, References, Row
  <2>2. References(row) \subseteq rows /\ rows' = rows \cup {row} /\ UNCHANGED seed
    BY <1>5, <2>1 DEF Plan
  <2> QED
    BY <2>1, <2>2, PlainRow
<1>6. CASE Tick
  BY <1>6 DEF Tick, LeagueInv, Made, Orderly, Closed, RunningOrder, RoundsOfTeams
<1> QED
  BY <1>1, <1>2, <1>3, <1>4, <1>5, <1>6 DEF Next

(* The running order and the list the views make of it are the same teams. *)
LEMMA EveryTeamIsListed ==
  ASSUME Orderly(rows)
  PROVE  \A a \in People : AddSessionTeam(a) \in rows <=> a \in Listed
<1>1. ASSUME NEW a \in People, AddSessionTeam(a) \in rows
      PROVE  a \in Listed /\ CreateSeason \in rows
  <2>1. CreateSeasonEntry(a) \in rows
    BY <1>1, RefersTo DEF Orderly, Closed
  <2>2. CreateSeason \in rows /\ CreateTeam(a) \in rows
    BY <2>1, RefersTo DEF Orderly, Closed
  <2>3. CreateUser(a) \in rows /\ CreateDog(a) \in rows
    BY <2>2, RefersTo DEF Orderly, Closed
  <2> QED
    BY <1>1, <2>1, <2>2, <2>3 DEF Listed
<1> QED
  BY <1>1 DEF Listed

LEMMA EverySeasonIsKnown ==
  ASSUME Orderly(rows), NEW a \in Listed
  PROVE  CreateSeason \in rows
<1>1. CreateSeasonEntry(a) \in rows
  BY DEF Listed
<1> QED
  BY <1>1, RefersTo DEF Orderly, Closed

LEMMA FinitelyMany == IsFiniteSet(People)
<1> PICK n \in Nat : DOMAIN Demo = 1..n
  BY LeagueAssumption
<1>1. IsFiniteSet(1..n)
  BY FS_Interval
<1> DEFINE f == [i \in 1..n |-> Demo[i]]
<1>2. f \in Surjection(1..n, People)
  BY DEF Surjection, People
<1> HIDE DEF f
<1> QED
  BY <1>1, <1>2, FS_Surjection, Zenon

LEMMA TeamsAreCounted ==
  ASSUME Orderly(rows)
  PROVE  TeamCount = Cardinality(Listed)
<1> PICK S : S = Listed
  OBVIOUS
<1> PICK T : T = {row \in rows : row.table = "play_session_teams"}
  OBVIOUS
<1>1. IsFiniteSet(S)
  <2>1. S \subseteq People
    BY DEF Listed
  <2> QED
    BY <2>1, FinitelyMany, FS_Subset, Zenon
<1> DEFINE f == [a \in S |-> AddSessionTeam(a)]
<1>2. \A a \in S : a \in People /\ AddSessionTeam(a) \in T
  BY RowFields DEF Listed
<1>3. \A row \in T : row.of \in S /\ row = AddSessionTeam(row.of)
  BY EveryTeamIsListed DEF Orderly, RunningOrder
<1>4. \A a, b : AddSessionTeam(a) = AddSessionTeam(b) => a = b
  BY DEF AddSessionTeam, Row
<1>5. f \in Bijection(S, T)
  BY <1>2, <1>3, <1>4 DEF Bijection, Injection, Surjection, IsInjective
<1> HIDE DEF f
<1>6. Cardinality(S) = Cardinality(T)
  <2>1. ExistsBijection(S, T)
    BY <1>5 DEF ExistsBijection
  <2> QED
    BY <1>1, <2>1, FS_Bijection, Zenon
<1> QED
  BY <1>6 DEF TeamCount

LEMMA RoundsAreShown ==
  ASSUME Orderly(rows), NEW a \in People, NEW n \in 1..RoundsPerWeek,
         CreateRound(a, n) \in rows
  PROVE  n \in RoundsShown(a)
<1>1. AddSessionTeam(a) \in rows
  BY RowFields DEF Orderly, RoundsOfTeams
<1>2. a \in Listed
  BY <1>1, EveryTeamIsListed
<1> QED
  BY <1>2 DEF RoundsShown

(* A seed that has made all its rows has made the rounds of every handler. *)
LEMMA FinishedIsShown ==
  ASSUME LeagueInv, NEW s \in Seeds, seed[s] = Len(cmdSeed), NEW a \in People
  PROVE  RoundsShown(a) = 1..RoundsPerWeek
<1> PICK N \in Nat : N = RoundsPerWeek
  BY LeagueAssumption
<1> PICK L \in Nat : L = Len(cmdSeed)
  BY SeedBlocks
<1> PICK t : t = SeedTeam(a)
  OBVIOUS
<1>1. PICK b \in Nat : At(cmdSeed, b, t)
  BY SeedBlocks DEF People
<1>2. Len(t) = 6 + N /\ \A n \in 1..N : t[6 + n] = CreateRound(a, n)
  BY TeamBlock
<1>3. b + (6 + N) <= L /\ \A m \in 1..(6 + N) : cmdSeed[b + m] = t[m]
  BY <1>1, <1>2 DEF At
<1>4. \A j \in 1..L : cmdSeed[j] \in rows
  BY DEF LeagueInv, Made
<1>5. ASSUME NEW n \in 1..N PROVE CreateRound(a, n) \in rows
  <2>1. 6 + n \in 1..(6 + N) /\ b + (6 + n) \in 1..L
    BY <1>3
  <2> QED
    BY <1>2, <1>3, <1>4, <2>1
<1>6. \A n \in 1..N : n \in RoundsShown(a)
  BY <1>5, RoundsAreShown DEF LeagueInv
<1> QED
  BY <1>6 DEF RoundsShown

(***************************************************************************)
(* However many seeds ran and wherever they stopped or were refused, the   *)
(* joins of the views hide no team and no round, and the dashboard's count *)
(* of teams is the number of teams the session lists.                      *)
(***************************************************************************)
THEOREM ViewsHideNothing == Spec => []NothingHidden
<1>1. LeagueInv => NothingHidden
  <2> SUFFICES ASSUME LeagueInv PROVE NothingHidden
    OBVIOUS
  <2>1. Orderly(rows)
    BY DEF LeagueInv
  <2>2. \A a \in People : AddSessionTeam(a) \in rows => a \in Listed
    BY <2>1, EveryTeamIsListed
  <2>3. \A a \in People : \A n \in 1..RoundsPerWeek :
          CreateRound(a, n) \in rows => n \in RoundsShown(a)
    BY <2>1, RoundsAreShown
  <2>4. Listed # {} => Format # {}
    BY <2>1, EverySeasonIsKnown DEF Format
  <2>5. TeamCount = Cardinality(Listed)
    BY <2>1, TeamsAreCounted
  <2>6. \A s \in Seeds : seed[s] = Len(cmdSeed) =>
          \A a \in People : RoundsShown(a) = 1..RoundsPerWeek
    BY FinishedIsShown
  <2> QED
    BY <2>2, <2>3, <2>4, <2>5, <2>6 DEF NothingHidden
<1> QED
  BY <1>1, LeagueInit, LeagueNext, PTL DEF Spec

-----------------------------------------------------------------------------
(***************************************************************************)
(* Adding up.  W adds the values v over the subsets of 1..n if taking any     *)
(* element out of a subset takes its value off the sum.                    *)
(***************************************************************************)
Adds(W, v, n) ==
  /\ W \in [SUBSET (1..n) -> Int]
  /\ W[{}] = 0
  /\ \A I \in SUBSET (1..n) : \A x \in I : v[x] \in Int /\ W[I] = W[I \ {x}] + v[x]

(* G takes some element out of every set and adds its value. *)
Peels(G, v, J) ==
  /\ G[{}] = 0
  /\ \A I \in SUBSET J : I # {} =>
       \E x \in I : G[I] = G[I \ {x}] + v[x] \/ G[I] = v[x] + G[I \ {x}]

LEMMA SumExists ==
  ASSUME NEW n \in Nat, NEW v, \A i \in 1..n : v[i] \in Int
  PROVE  \E W : Adds(W, v, n)
<1> DEFINE Bad == {m \in 0..n : ~ \E W : Adds(W, v, m)}
<1> SUFFICES ASSUME Bad # {} PROVE FALSE
  OBVIOUS
<1>1. PICK m \in Bad : \A k \in Bad : m <= k
  <2>1. Bad \in SUBSET Nat
    OBVIOUS
  <2> QED
    BY <2>1, LeastNumber
<1>2. CASE m = 0
  <2> DEFINE W == [I \in SUBSET (1..m) |-> 0]
  <2>1. 1..m = {}
    BY <1>2
  <2>2. Adds(W, v, m)
    BY <2>1 DEF Adds
  <2> QED
    BY <2>2
<1>3. CASE m # 0
  <2>1. m - 1 \in 0..n /\ m - 1 \notin Bad /\ m \in 1..n
    BY <1>1, <1>3
  <2>2. PICK W : Adds(W, v, m - 1)
    BY <2>1
  <2>3. PICK b \in Int : b = v[m]
    BY <2>1
  <2> DEFINE V == [I \in SUBSET (1..m) |-> W[I \ {m}] + (IF m \in I THEN b ELSE 0)]
  <2>4. \A I \in SUBSET (1..m) : I \ {m} \in SUBSET (1..(m - 1)) /\ W[I \ {m}] \in Int
    <3>1. \A I \in SUBSET (1..m) : I \ {m} \in SUBSET (1..(m - 1))
      BY <2>1
    <3>2. \A I \in SUBSET (1..(m - 1)) : W[I] \in Int
      BY <2>2 DEF Adds
    <3> QED
      BY <3>1, <3>2
  <2>5. V \in [SUBSET (1..m) -> Int]
    BY <2>4
  <2>6. V[{}] = 0
    <3>1. {} \ {m} = {} /\ V[{}] = W[{} \ {m}] + 0 /\ W[{}] = 0
      BY <2>2 DEF Adds
    <3> QED
      BY <3>1
  <2>7. ASSUME NEW I \in SUBSET (1..m), NEW x \in I
        PROVE  v[x] \in Int /\ V[I] = V[I \ {x}] + v[x]
    <3>1. v[x] \in Int
      BY <2>1
    <3>2. I \ {x} \in SUBSET (1..m)
      OBVIOUS
    <3>3. /\ V[I] = W[I \ {m}] + (IF m \in I THEN b ELSE 0)
          /\ V[I \ {x}] = W[(I \ {x}) \ {m}] + (IF m \in I \ {x} THEN b ELSE 0)
      BY <3>2
    <3> HIDE DEF V
    <3>4. CASE x = m
      <4>1. (I \ {x}) \ {m} = I \ {m} /\ m \notin I \ {x} /\ m \in I
        BY <3>4
      <4>2. W[I \ {m}] \in Int
        BY <2>4
      <4>3. V[I] = W[I \ {m}] + b /\ V[I \ {x}] = W[I \ {m}] + 0
        BY <3>3, <4>1
      <4> QED
        BY <2>3, <3>1, <3>4, <4>2, <4>3
    <3>5. CASE x # m
      <4>1. x \in I \ {m} /\ (I \ {x}) \ {m} = (I \ {m}) \ {x}
        BY <3>5
      <4>2. W[I \ {m}] = W[(I \ {m}) \ {x}] + v[x]
        BY <2>2, <2>4, <4>1 DEF Adds
      <4>3. W[(I \ {m}) \ {x}] \in Int
        BY <2>4, <3>2, <4>1
      <4>4. PICK c \in Int : c = (IF m \in I THEN b ELSE 0)
        OBVIOUS
      <4>5. m \in I <=> m \in I \ {x}
        BY <3>5
      <4>6. V[I] = W[I \ {m}] + c /\ V[I \ {x}] = W[(I \ {m}) \ {x}] + c
        BY <3>3, <4>1, <4>4, <4>5
      <4> QED
        BY <3>1, <4>2, <4>3, <4>4, <4>6
    <3> QED
      BY <3>1, <3>4, <3>5
  <2> HIDE DEF V
  <2>8. Adds(V, v, m)
    BY <2>5, <2>6, <2>7 DEF Adds
  <2> QED
    BY <2>8
<1> QED
  BY <1>2, <1>3

LEMMA PlacesAreFinite ==
  ASSUME NEW n \in Nat, NEW I \in SUBSET (1..n)
  PROVE  IsFiniteSet(I) /\ Cardinality(I) \in Nat /\ Cardinality(I) <= n
<1>1. IsFiniteSet(1..n) /\ Cardinality(1..n) = n
  BY FS_Interval
<1>2. IsFiniteSet(I) /\ Cardinality(I) <= Cardinality(1..n)
  BY <1>1, FS_Subset
<1>3. Cardinality(I) \in Nat
  BY <1>2, FS_CardinalityType
<1> QED
  BY <1>1, <1>2, <1>3

(* Whichever element is taken out, the sum comes to the same. *)
LEMMA SameSum ==
  ASSUME NEW n \in Nat, NEW v, NEW W, Adds(W, v, n), NEW J \in SUBSET (1..n),
         NEW G, Peels(G, v, J)
  PROVE  G[J] = W[J]
<1> DEFINE Bad == {k \in Nat : \E K \in SUBSET J : Cardinality(K) = k /\ G[K] # W[K]}
<1>1. \A L \in SUBSET (1..n) : IsFiniteSet(L) /\ Cardinality(L) \in Nat
  BY PlacesAreFinite
<1> SUFFICES ASSUME Bad # {} PROVE FALSE
  BY <1>1
<1>2. PICK k \in Bad : \A j \in Bad : k <= j
  <2>1. Bad \in SUBSET Nat
    OBVIOUS
  <2> QED
    BY <2>1, LeastNumber
<1>3. PICK K \in SUBSET J : Cardinality(K) = k /\ G[K] # W[K]
  BY <1>2
<1>4. K # {} /\ K \in SUBSET (1..n)
  BY <1>3 DEF Adds, Peels
<1>5. PICK x \in K : G[K] = G[K \ {x}] + v[x] \/ G[K] = v[x] + G[K \ {x}]
  BY <1>4 DEF Peels
<1>6. Cardinality(K \ {x}) = Cardinality(K) - 1
  BY <1>1, <1>4, <1>5, FS_RemoveElement
<1>7. Cardinality(K \ {x}) \in Nat /\ Cardinality(K \ {x}) < k /\ K \ {x} \in SUBSET J
  BY <1>1, <1>3, <1>4, <1>6
<1>8. G[K \ {x}] = W[K \ {x}]
  BY <1>2, <1>7
<1>9. W[K] = W[K \ {x}] + v[x] /\ v[x] \in Int /\ W[K \ {x}] \in Int
  BY <1>4 DEF Adds
<1> QED
  BY <1>3, <1>5, <1>8, <1>9

LEMMA MaxOf ==
  ASSUME NEW n \in Nat, NEW I \in SUBSET (1..n), I # {}
  PROVE  Max(I) \in I
<1> DEFINE Above == {u \in Nat : \A y \in I : y <= u}
<1>1. n \in Above /\ Above \in SUBSET Nat
  OBVIOUS
<1>2. PICK m \in Above : \A u \in Above : m <= u
  BY <1>1, LeastNumber
<1>3. m \in I
  <2> SUFFICES ASSUME m \notin I PROVE FALSE
    OBVIOUS
  <2>1. m \in Nat /\ \A y \in I : y \in Nat /\ y >= 1 /\ y <= m - 1
    BY <1>2
  <2>2. m - 1 \in Nat
    <3>1. PICK y \in I : y >= 1 /\ y <= m - 1 /\ y \in Nat
      BY <2>1
    <3> QED
      BY <2>1, <3>1
  <2>3. m - 1 \in Above
    BY <2>1, <2>2
  <2> QED
    BY <1>2, <2>1, <2>3
<1>4. \E x \in I : \A y \in I : x >= y
  BY <1>2, <1>3
<1> QED
  BY <1>4 DEF Max

(* TotalOf takes the last one out. *)
LEMMA TotalAdds ==
  ASSUME NEW n \in Nat, NEW s, DOMAIN s = 1..n, NEW W, Adds(W, s, n)
  PROVE  TotalOf(s) = W[1..n]
<1> DEFINE Takes(f) == f = [I \in SUBSET (DOMAIN s) |->
                              IF I = {} THEN 0 ELSE f[I \ {Max(I)}] + s[Max(I)]]
           iter == CHOOSE f : Takes(f)
<1>1. TotalOf(s) = iter[DOMAIN s]
  BY DEF TotalOf, FoldLeft, MapThenFoldSet
<1>2. Takes(W)
  <2>1. \A I \in SUBSET (1..n) : I # {} => W[I] = W[I \ {Max(I)}] + s[Max(I)]
    BY MaxOf DEF Adds
  <2>2. W = [I \in SUBSET (1..n) |-> W[I]] /\ W[{}] = 0
    BY DEF Adds
  <2> QED
    BY <2>1, <2>2
<1>3. Takes(iter)
  BY <1>2
<1> HIDE DEF iter
<1>4. iter[{}] = 0
  BY <1>3
<1>5. ASSUME NEW I \in SUBSET (1..n), I # {}
      PROVE  \E x \in I : iter[I] = iter[I \ {x}] + s[x]
  <2>1. iter[I] = iter[I \ {Max(I)}] + s[Max(I)]
    BY <1>3, <1>5
  <2> QED
    BY <1>5, <2>1, MaxOf
<1>6. iter[1..n] = W[1..n]
  <2>1. PICK G : G = iter
    OBVIOUS
  <2>2. PICK J \in SUBSET (1..n) : J = 1..n
    OBVIOUS
  <2>3. Peels(G, s, J)
    BY <1>4, <1>5, <2>1, <2>2 DEF Peels
  <2>4. G[J] = W[J]
    BY <2>3, SameSum
  <2> QED
    BY <2>1, <2>2, <2>4
<1> QED
  BY <1>1, <1>6

(* A sum over integers is one; with no negative value, more places never   *)
(* come to less.                                                           *)
LEMMA SumIsInt ==
  ASSUME NEW n \in Nat, NEW v, NEW W, Adds(W, v, n), NEW I \in SUBSET (1..n)
  PROVE  W[I] \in Int
  BY DEF Adds

LEMMA MoreIsMore ==
  ASSUME NEW n \in Nat, NEW v, NEW W, Adds(W, v, n), \A i \in 1..n : v[i] >= 0,
         NEW J \in SUBSET (1..n), NEW I \in SUBSET J
  PROVE  W[I] <= W[J]
<1> DEFINE Bad == {k \in Nat : \E K \in SUBSET J :
                     I \subseteq K /\ Cardinality(K) = k /\ ~ (W[I] <= W[K])}
<1>1. \A L \in SUBSET (1..n) : IsFiniteSet(L) /\ Cardinality(L) \in Nat
  BY PlacesAreFinite
<1>2. \A L \in SUBSET (1..n) : W[L] \in Int
  BY SumIsInt
<1> SUFFICES ASSUME Bad # {} PROVE FALSE
  <2>1. J \in SUBSET J /\ Cardinality(J) \in Nat
    BY <1>1
  <2> QED
    BY <2>1
<1>3. PICK k \in Bad : \A j \in Bad : k <= j
  <2>1. Bad \in SUBSET Nat
    OBVIOUS
  <2> QED
    BY <2>1, LeastNumber
<1>4. PICK K \in SUBSET J : I \subseteq K /\ Cardinality(K) = k /\ ~ (W[I] <= W[K])
  BY <1>3
<1>5. K \in SUBSET (1..n) /\ W[I] \in Int /\ W[K] \in Int
  BY <1>2, <1>4
<1>6. PICK x \in K : x \notin I
  <2>1. K # I
    BY <1>4, <1>5
  <2> QED
    BY <1>4, <2>1
<1>7. Cardinality(K \ {x}) = Cardinality(K) - 1
  BY <1>1, <1>5, <1>6, FS_RemoveElement
<1>8. Cardinality(K \ {x}) \in Nat /\ Cardinality(K \ {x}) < k /\ K \ {x} \in SUBSET J
  BY <1>1, <1>4, <1>5, <1>7
<1>9. W[I] <= W[K \ {x}] /\ W[K \ {x}] \in Int
  <2>1. I \subseteq K \ {x}
    BY <1>4, <1>6
  <2>2. \A j \in Bad : k <= j /\ j \in Nat /\ k \in Nat
    BY <1>3
  <2> HIDE DEF Bad
  <2>3. Cardinality(K \ {x}) \notin Bad
    BY <1>8, <2>2
  <2>4. W[K \ {x}] \in Int
    BY <1>2, <1>5
  <2> USE DEF Bad
  <2> QED
    BY <1>8, <2>1, <2>3, <2>4
<1>10. v[x] \in Int /\ v[x] >= 0 /\ W[K] = W[K \ {x}] + v[x]
  BY <1>5, <1>6 DEF Adds
<1> QED
  BY <1>4, <1>5, <1>9, <1>10

(* q moves m of the n values of v to the places 1..m of s.                 *)
Moves(q, s, m, v, n) ==
  /\ q \in [1..m -> 1..n]
  /\ \A i, j \in 1..m : q[i] = q[j] => i = j
  /\ \A i \in 1..m : s[i] = v[q[i]]

(* The places they come from.                                              *)
Taken(q, J) == {q[i] : i \in J}

(* The same values in other places come to the same.                       *)
LEMMA Reindexed ==
  ASSUME NEW m \in Nat, NEW n \in Nat, NEW q, NEW s, NEW v, Moves(q, s, m, v, n),
         NEW W, Adds(W, v, n), NEW B, Adds(B, s, m), NEW J \in SUBSET (1..m)
  PROVE  B[J] = W[Taken(q, J)]
<1> DEFINE F == [K \in SUBSET (1..m) |-> W[Taken(q, K)]]
<1>1. PICK G : G = F
  OBVIOUS
<1>2. \A K \in SUBSET (1..m) : G[K] = W[Taken(q, K)]
  BY <1>1
<1> HIDE DEF F
<1>3. G[{}] = 0
  <2>1. Taken(q, {}) = {} /\ {} \in SUBSET (1..m)
    BY DEF Taken
  <2>2. G[{}] = W[{}]
    BY <1>2, <2>1
  <2> QED
    BY <2>2 DEF Adds
<1>4. ASSUME NEW K \in SUBSET (1..m), NEW x \in K
      PROVE  G[K] = G[K \ {x}] + s[x]
  <2> DEFINE Q == Taken(q, K)
  <2>1. q[x] \in Q /\ Q \in SUBSET (1..n)
    BY DEF Moves, Taken
  <2>2. Taken(q, K \ {x}) = Q \ {q[x]}
    BY <2>1 DEF Moves, Taken
  <2>3. G[K] = W[Q] /\ G[K \ {x}] = W[Q \ {q[x]}]
    BY <1>2, <2>2
  <2> HIDE DEF Q
  <2>4. W[Q] = W[Q \ {q[x]}] + v[q[x]]
    BY <2>1 DEF Adds
  <2> QED
    BY <2>3, <2>4 DEF Moves
<1>5. Peels(G, s, J)
  BY <1>3, <1>4 DEF Peels
<1>6. G[J] = B[J]
  BY <1>5, SameSum
<1> QED
  BY <1>2, <1>6

(* Sorted best first, no choice of c values is worth more than the first c. *)
LEMMA FirstAreBest ==
  ASSUME NEW n \in Nat, NEW c \in 0..n, NEW b, NEW B, Adds(B, b, n),
         \A i \in 1..n : b[i] >= 0, \A i, j \in 1..n : i < j => b[i] >= b[j],
         NEW J \in SUBSET (1..n), Cardinality(J) <= c
  PROVE  B[J] <= B[1..c]
<1> DEFINE Beyond(K) == K \cap ((c + 1)..n)
           Bad == {k \in Nat : \E K \in SUBSET (1..n) :
                     /\ Cardinality(Beyond(K)) = k /\ Cardinality(K) <= c
                     /\ ~ (B[K] <= B[1..c])}
<1>1. \A L \in SUBSET (1..n) : IsFiniteSet(L) /\ Cardinality(L) \in Nat
  BY PlacesAreFinite
<1>2. \A L \in SUBSET (1..n) : B[L] \in Int
  BY SumIsInt
<1> SUFFICES ASSUME Bad # {} PROVE FALSE
  <2>1. J \in SUBSET (1..n) /\ Cardinality(Beyond(J)) \in Nat
    BY <1>1
  <2> QED
    BY <2>1
<1>3. PICK k \in Bad : \A j \in Bad : k <= j
  <2>1. Bad \in SUBSET Nat
    OBVIOUS
  <2> QED
    BY <2>1, LeastNumber
<1>4. PICK K \in SUBSET (1..n) : /\ Cardinality(Beyond(K)) = k /\ Cardinality(K) <= c
                                 /\ ~ (B[K] <= B[1..c])
  BY <1>3
<1>5. (1..c) \in SUBSET (1..n)
  OBVIOUS
<1>6. PICK x \in Beyond(K) : TRUE
  <2>1. ~ (K \subseteq 1..c)
    BY <1>4, <1>5, MoreIsMore
  <2> QED
    BY <2>1
<1>7. x \in K /\ x \in 1..n /\ x \notin 1..c /\ x > c
  BY <1>6
<1>8. PICK y \in 1..c : y \notin K
  <2>1. Cardinality(1..c) = c
    BY FS_Interval
  <2>2. IsFiniteSet(K) /\ Cardinality(K) \in Nat
    BY <1>1
  <2> SUFFICES ASSUME 1..c \subseteq K PROVE FALSE
    OBVIOUS
  <2>3. Cardinality(1..c) <= Cardinality(K) /\ (Cardinality(1..c) = Cardinality(K) => K = 1..c)
    BY <2>2, FS_Subset
  <2> QED
    BY <1>4, <1>7, <2>1, <2>2, <2>3
<1>9. PICK L \in SUBSET (1..n) : L = (K \ {x}) \cup {y} /\ L \ {y} = K \ {x} /\ y \in L
  <2>1. (K \ {x}) \cup {y} \in SUBSET (1..n)
    BY <1>5
  <2> QED
    BY <1>8, <2>1
<1>10. Cardinality(L) = Cardinality(K)
  <2>1. Cardinality(K \ {x}) = Cardinality(K) - 1
    BY <1>1, <1>7, FS_RemoveElement
  <2>2. Cardinality(L \ {y}) = Cardinality(L) - 1
    BY <1>1, <1>9, FS_RemoveElement
  <2>3. Cardinality(L) \in Nat /\ Cardinality(K) \in Nat
    BY <1>1, <1>9
  <2>4. Cardinality(K) - 1 = Cardinality(L) - 1
    BY <1>9, <2>1, <2>2
  <2> QED
    BY <2>3, <2>4
<1>11. Cardinality(Beyond(L)) \in Nat /\ Cardinality(Beyond(L)) < k
  <2>1. Beyond(L) = Beyond(K) \ {x}
    BY <1>7, <1>8, <1>9
  <2>2. Beyond(K) \in SUBSET (1..n) /\ Beyond(L) \in SUBSET (1..n)
    BY <1>9
  <2>3. IsFiniteSet(Beyond(K)) /\ Cardinality(Beyond(K)) \in Nat /\ Cardinality(Beyond(L)) \in Nat
    BY <1>1, <2>2
  <2>4. Cardinality(Beyond(K) \ {x}) = Cardinality(Beyond(K)) - 1
    BY <1>6, <2>3, FS_RemoveElement
  <2> HIDE DEF Beyond, Bad
  <2> QED
    BY <1>4, <2>1, <2>3, <2>4
<1>12. B[K] <= B[L] /\ B[K] \in Int /\ B[L] \in Int
  <2>1. B[K] = B[K \ {x}] + b[x] /\ b[x] \in Int
    BY <1>7 DEF Adds
  <2>2. B[L] = B[K \ {x}] + b[y] /\ b[y] \in Int
    <3>1. B[L] = B[L \ {y}] + b[y] /\ b[y] \in Int
      BY <1>9 DEF Adds
    <3> QED
      BY <1>9, <3>1
  <2>3. b[y] >= b[x]
    BY <1>5, <1>7, <1>8
  <2>4. B[K \ {x}] \in Int /\ B[K] \in Int /\ B[L] \in Int
    BY <1>2, <1>9
  <2> QED
    BY <2>1, <2>2, <2>3, <2>4
<1>13. B[L] <= B[1..c]
  <2>1. Cardinality(Beyond(L)) \notin Bad
    <3>1. \A j \in Bad : k <= j /\ j \in Nat
      BY <1>3
    <3> HIDE DEF Beyond, Bad
    <3> QED
      BY <1>11, <3>1
  <2> QED
    BY <1>4, <1>9, <1>10, <1>11, <2>1
<1>14. B[1..c] \in Int
  BY <1>2, <1>5
<1> QED
  BY <1>4, <1>12, <1>13, <1>14

(* The sum of a sequence that takes its values from elsewhere.             *)
LEMMA TotalMoved ==
  ASSUME NEW m \in Nat, NEW n \in Nat, NEW q, NEW s, NEW v, Moves(q, s, m, v, n),
         DOMAIN s = 1..m, NEW W, Adds(W, v, n)
  PROVE  TotalOf(s) = W[Taken(q, 1..m)]
<1>1. \A i \in 1..m : s[i] \in Int
  <2>1. \A i \in 1..n : v[i] \in Int
    <3>1. (1..n) \in SUBSET (1..n)
      OBVIOUS
    <3> QED
      BY <3>1 DEF Adds
  <2> QED
    BY <2>1 DEF Moves
<1>2. PICK B : Adds(B, s, m)
  BY <1>1, SumExists
<1>3. PICK J \in SUBSET (1..m) : J = 1..m
  OBVIOUS
<1>4. TotalOf(s) = B[J]
  BY <1>2, <1>3, TotalAdds
<1>5. B[J] = W[Taken(q, J)]
  BY <1>2, Reindexed
<1> QED
  BY <1>3, <1>4, <1>5

LEMMA TotalIsInt ==
  ASSUME NEW n \in Nat, NEW s, DOMAIN s = 1..n, \A i \in 1..n : s[i] \in Int
  PROVE  TotalOf(s) \in Int
<1>1. PICK B : Adds(B, s, n)
  BY SumExists
<1>2. PICK J \in SUBSET (1..n) : J = 1..n
  OBVIOUS
<1> QED
  BY <1>1, <1>2, TotalAdds, SumIsInt

(***************************************************************************)
(* Sorting: the values have an order, best first, that leaves none out.    *)
(* One more value is put before the first of those it beats.               *)
(***************************************************************************)
Sorts(p, v, m) ==
  /\ p \in [1..m -> 1..m]
  /\ \A i, j \in 1..m : p[i] = p[j] => i = j
  /\ \A x \in 1..m : \E i \in 1..m : p[i] = x
  /\ \A i, j \in 1..m : i < j => v[p[i]] >= v[p[j]]

LEMMA OneMoreInOrder ==
  ASSUME NEW v, NEW m \in Nat, m # 0, \A i \in 1..m : v[i] \in Int,
         NEW q, Sorts(q, v, m - 1)
  PROVE  \E p : Sorts(p, v, m)
<1> DEFINE Spots == {i \in 1..m : i < m => v[q[i]] < v[m]}
<1>1. PICK k \in Spots : \A i \in Spots : k <= i
  <2>1. Spots \in SUBSET Nat /\ m \in Spots
    OBVIOUS
  <2> QED
    BY <2>1, LeastNumber
<1>2. k \in 1..m
  BY <1>1
<1>3. \A i \in 1..(m - 1) : q[i] \in 1..(m - 1) /\ v[q[i]] \in Int
  <2>1. \A i \in 1..(m - 1) : q[i] \in 1..(m - 1)
    BY DEF Sorts
  <2>2. \A x \in 1..(m - 1) : v[x] \in Int
    OBVIOUS
  <2> QED
    BY <2>1, <2>2
<1>4. \A i \in 1..(m - 1) : i < k => v[q[i]] >= v[m]
  <2> SUFFICES ASSUME NEW i \in 1..(m - 1), i < k, ~ (v[q[i]] >= v[m]) PROVE FALSE
    OBVIOUS
  <2>1. i \in 1..m /\ v[q[i]] < v[m]
    BY <1>3
  <2>2. i \in Spots
    BY <2>1
  <2> QED
    BY <1>1, <1>2, <2>2
<1>5. \A i \in 1..(m - 1) : i >= k => v[q[i]] <= v[m]
  <2> SUFFICES ASSUME NEW i \in 1..(m - 1), i >= k PROVE v[q[i]] <= v[m]
    OBVIOUS
  <2>1. k \in 1..(m - 1) /\ v[q[k]] < v[m]
    BY <1>1, <1>2
  <2>2. v[q[k]] >= v[q[i]]
    <3>1. CASE i = k
      BY <1>3, <3>1
    <3>2. CASE i > k
      BY <2>1, <3>2 DEF Sorts
    <3> QED
      BY <1>2, <3>1, <3>2
  <2>3. v[q[k]] \in Int /\ v[q[i]] \in Int /\ v[m] \in Int
    BY <1>3, <2>1
  <2> QED
    BY <2>1, <2>2, <2>3
<1> DEFINE Old(i) == IF i < k THEN i ELSE i - 1
           P == [i \in 1..m |-> IF i = k THEN m ELSE q[Old(i)]]
<1>6. \A i \in 1..m : i # k => Old(i) \in 1..(m - 1)
  BY <1>2
<1>7. PICK p : p = P
  OBVIOUS
<1>8. p \in [1..m -> 1..m]
  BY <1>3, <1>6, <1>7
<1>9. p[k] = m /\ \A i \in 1..m : i # k => p[i] = q[Old(i)] /\ p[i] \in 1..(m - 1)
  BY <1>2, <1>3, <1>6, <1>7
<1> HIDE DEF P
<1>10. \A i, j \in 1..m : p[i] = p[j] => i = j
  <2> SUFFICES ASSUME NEW i \in 1..m, NEW j \in 1..m, p[i] = p[j] PROVE i = j
    OBVIOUS
  <2>1. CASE i = k \/ j = k
    BY <1>9, <2>1
  <2>2. CASE i # k /\ j # k
    <3>1. q[Old(i)] = q[Old(j)]
      BY <1>9, <2>2
    <3>2. Old(i) = Old(j)
      BY <1>6, <2>2, <3>1 DEF Sorts
    <3> QED
      BY <1>2, <2>2, <3>2
  <2> QED
    BY <2>1, <2>2
<1>11. \A x \in 1..m : \E i \in 1..m : p[i] = x
  <2> SUFFICES ASSUME NEW x \in 1..m PROVE \E i \in 1..m : p[i] = x
    OBVIOUS
  <2>1. CASE x = m
    BY <1>2, <1>9, <2>1
  <2>2. CASE x # m
    <3>1. x \in 1..(m - 1)
      BY <2>2
    <3>2. PICK j \in 1..(m - 1) : q[j] = x
      BY <3>1 DEF Sorts
    <3>3. PICK i \in 1..m : i # k /\ Old(i) = j
      <4>1. CASE j < k
        BY <4>1
      <4>2. CASE j >= k
        BY <1>2, <4>2
      <4> QED
        BY <1>2, <4>1, <4>2
    <3> QED
      BY <1>9, <3>2, <3>3
  <2> QED
    BY <2>1, <2>2
<1>12. \A i, j \in 1..m : i < j => v[p[i]] >= v[p[j]]
  <2> SUFFICES ASSUME NEW i \in 1..m, NEW j \in 1..m, i < j PROVE v[p[i]] >= v[p[j]]
    OBVIOUS
  <2>1. CASE i = k
    <3>1. Old(j) = j - 1 /\ j - 1 >= k /\ j # k
      BY <1>2, <2>1
    <3>2. p[i] = m /\ p[j] = q[j - 1] /\ j - 1 \in 1..(m - 1)
      BY <1>2, <1>6, <1>9, <2>1, <3>1
    <3>3. v[q[j - 1]] <= v[m]
      BY <1>5, <3>1, <3>2
    <3>4. v[q[j - 1]] \in Int /\ v[m] \in Int
      BY <1>3, <3>2
    <3> QED
      BY <3>2, <3>3, <3>4
  <2>2. CASE j = k
    <3>1. p[j] = m /\ p[i] = q[i] /\ i \in 1..(m - 1) /\ i < k
      BY <1>2, <1>9, <2>2
    <3> QED
      BY <1>4, <3>1
  <2>3. CASE i # k /\ j # k
    <3>1. Old(i) < Old(j)
      BY <1>2, <2>3
    <3>2. Old(i) \in 1..(m - 1) /\ Old(j) \in 1..(m - 1)
      BY <1>6, <2>3
    <3> HIDE DEF Old
    <3>3. v[q[Old(i)]] >= v[q[Old(j)]]
      BY <3>1, <3>2 DEF Sorts
    <3> QED
      BY <1>9, <2>3, <3>3
  <2> QED
    BY <2>1, <2>2, <2>3
<1>13. Sorts(p, v, m)
  BY <1>8, <1>10, <1>11, <1>12 DEF Sorts
<1> QED
  BY <1>13

LEMMA SortingExists ==
  ASSUME NEW v, NEW n \in Nat, \A i \in 1..n : v[i] \in Int
  PROVE  \E p : Sorts(p, v, n)
<1> DEFINE Bad == {m \in 0..n : ~ \E p : Sorts(p, v, m)}
<1> SUFFICES ASSUME Bad # {} PROVE FALSE
  OBVIOUS
<1>1. PICK m \in Bad : \A k \in Bad : m <= k
  <2>1. Bad \in SUBSET Nat
    OBVIOUS
  <2> QED
    BY <2>1, LeastNumber
<1>2. CASE m = 0
  <2>1. 1..m = {}
    BY <1>2
  <2>2. Sorts([i \in 1..m |-> i], v, m)
    BY <2>1 DEF Sorts
  <2> QED
    BY <2>2
<1>3. CASE m # 0
  <2>1. m - 1 \in 0..n /\ m - 1 \notin Bad /\ m \in Nat /\ \A i \in 1..m : v[i] \in Int
    BY <1>1, <1>3
  <2>2. PICK q : Sorts(q, v, m - 1)
    BY <2>1
  <2>3. \E p : Sorts(p, v, m)
    BY <1>3, <2>1, <2>2, OneMoreInOrder
  <2> QED
    BY <2>3
<1> QED
  BY <1>2, <1>3

-----------------------------------------------------------------------------
(***************************************************************************)
(* One throw.                                                              *)
(***************************************************************************)
LEMMA ThrowsAreWorth ==
  ASSUME NEW t \in Throw, NEW f \in Flags
  PROVE  ScoreThrow(t, f) \in Nat
<1>1. zoneValue[t.zone] \in Nat
  BY DEF Throw, Zones, zoneValue
<1>2. Bonus(f.tiny, tinyBonus) \in Nat /\ Bonus(t.air, airBonus) \in Nat
  BY DEF Bonus, tinyBonus, airBonus
<1> QED
  BY <1>1, <1>2 DEF ScoreThrow, juniorShortCatch

LEMMA RollersScoreAlike ==
  ASSUME NEW t, NEW f \in Flags, NEW r \in BOOLEAN
  PROVE  ScoreThrow(t, [f EXCEPT !.roller = r]) = ScoreThrow(t, f)
  BY DEF ScoreThrow, Flags

(* The generated table holds the rules' value of every throw.              *)
LEMMA TableAgrees ==
  ASSUME NEW t \in Throw, NEW f \in Flags
  PROVE  pointsFor(t, f) = ScoreThrow(t, f)
<1> DEFINE row == (IF f.tiny THEN TABLE[f.division].tiny
                             ELSE TABLE[f.division].standard)[t.zone]
           short == f.division = "junior"
<1>1. t.zone \in Zones /\ f.division \in Divisions /\ t.air \in BOOLEAN /\ f.tiny \in BOOLEAN
  BY DEF Throw, Flags
<1>2. CASE f.tiny
  <2>1. row = TableRows(IF short THEN 4 ELSE 0, tinyCatches)[t.zone]
    BY <1>1, <1>2 DEF TABLE
  <2>2. CASE t.zone \in {"0-10", "out"}
    <3>1. row = [plain |-> IF short THEN 4 ELSE 0, air |-> IF short THEN 4 ELSE 0]
      BY <1>1, <2>1, <2>2 DEF TableRows
    <3>2. pointsFor(t, f) = IF short THEN 4 ELSE 0
      BY <1>1, <3>1 DEF pointsFor
    <3> QED
      BY <1>1, <1>2, <2>2, <3>2
      DEF ScoreThrow, isScoringCatch, zoneValue, Bonus, juniorShortCatch, tinyBonus
  <2>3. CASE t.zone = "miss"
    <3>1. row = [plain |-> 0, air |-> 0]
      BY <1>1, <2>1, <2>3 DEF TableRows
    <3>2. pointsFor(t, f) = 0
      BY <1>1, <3>1 DEF pointsFor
    <3> QED
      BY <1>1, <2>3, <3>2 DEF ScoreThrow, isScoringCatch, zoneValue
  <2>4. CASE t.zone \in {"10-20", "20-30", "30-40", "40-50"}
    <3>1. row = [plain |-> tinyCatches[t.zone], air |-> tinyCatches[t.zone] + 1]
      BY <1>1, <2>1, <2>4 DEF TableRows
    <3>2. pointsFor(t, f) = tinyCatches[t.zone] + (IF t.air THEN 1 ELSE 0)
      BY <1>1, <2>4, <3>1 DEF pointsFor, tinyCatches
    <3>3. tinyCatches[t.zone] = zoneValue[t.zone] + 2 /\ isScoringCatch(t)
      BY <1>1, <2>4 DEF tinyCatches, zoneValue, isScoringCatch
    <3>4. zoneValue[t.zone] \in Nat
      BY <1>1 DEF zoneValue
    <3> QED
      BY <1>1, <1>2, <2>4, <3>2, <3>3, <3>4 DEF ScoreThrow, Bonus, tinyBonus, airBonus
  <2> QED
    BY <1>1, <2>2, <2>3, <2>4 DEF Zones
<1>3. CASE ~ f.tiny
  <2>1. row = TableRows(IF short THEN 2 ELSE 0, standardCatches)[t.zone]
    BY <1>1, <1>3 DEF TABLE
  <2>2. CASE t.zone \in {"0-10", "out"}
    <3>1. row = [plain |-> IF short THEN 2 ELSE 0, air |-> IF short THEN 2 ELSE 0]
      BY <1>1, <2>1, <2>2 DEF TableRows
    <3>2. pointsFor(t, f) = IF short THEN 2 ELSE 0
      BY <1>1, <3>1 DEF pointsFor
    <3> QED
      BY <1>1, <1>3, <2>2, <3>2
      DEF ScoreThrow, isScoringCatch, zoneValue, Bonus, juniorShortCatch
  <2>3. CASE t.zone = "miss"
    <3>1. row = [plain |-> 0, air |-> 0]
      BY <1>1, <2>1, <2>3 DEF TableRows
    <3>2. pointsFor(t, f) = 0
      BY <1>1, <3>1 DEF pointsFor
    <3> QED
      BY <1>1, <2>3, <3>2 DEF ScoreThrow, isScoringCatch, zoneValue
  <2>4. CASE t.zone \in {"10-20", "20-30", "30-40", "40-50"}
    <3>1. row = [plain |-> standardCatches[t.zone], air |-> standardCatches[t.zone] + 1]
      BY <1>1, <2>1, <2>4 DEF TableRows
    <3>2. pointsFor(t, f) = standardCatches[t.zone] + (IF t.air THEN 1 ELSE 0)
      BY <1>1, <2>4, <3>1 DEF pointsFor, standardCatches
    <3>3. standardCatches[t.zone] = zoneValue[t.zone] /\ isScoringCatch(t)
      BY <1>1, <2>4 DEF standardCatches, zoneValue, isScoringCatch
    <3>4. zoneValue[t.zone] \in Nat
      BY <1>1 DEF zoneValue
    <3> QED
      BY <1>1, <1>3, <2>4, <3>2, <3>3, <3>4 DEF ScoreThrow, Bonus, airBonus
  <2> QED
    BY <1>1, <2>2, <2>3, <2>4 DEF Zones
<1> QED
  BY <1>1, <1>2, <1>3
-----------------------------------------------------------------------------
(***************************************************************************)
(* One round.                                                              *)
(***************************************************************************)
Values(ts, f) == [i \in DOMAIN ts |-> ScoreThrow(ts[i], f)]

LEMMA ValuesType ==
  ASSUME NEW ts \in Seq(Throw), NEW f \in Flags
  PROVE  /\ Len(ts) \in Nat /\ DOMAIN ts = 1..Len(ts)
         /\ DOMAIN Values(ts, f) = 1..Len(ts)
         /\ \A i \in 1..Len(ts) : Values(ts, f)[i] = ScoreThrow(ts[i], f)
         /\ \A i \in 1..Len(ts) : Values(ts, f)[i] \in Nat /\ ts[i] \in Throw
<1>1. Len(ts) \in Nat /\ DOMAIN ts = 1..Len(ts) /\ \A i \in 1..Len(ts) : ts[i] \in Throw
  OBVIOUS
<1> QED
  BY <1>1, ThrowsAreWorth DEF Values

LEMMA BestFirstSorts ==
  ASSUME NEW v, NEW n \in Nat, DOMAIN v = 1..n, \A i \in 1..n : v[i] \in Int
  PROVE  \E p : Sorts(p, v, n) /\ BestFirst(v) = [i \in 1..n |-> v[p[i]]]
<1> DEFINE Good(p) == /\ p \in Bijection(1..n, 1..n)
                      /\ \A i, j \in 1..n : i < j => v[p[i]] >= v[p[j]]
<1>1. \A p : Good(p) <=> Sorts(p, v, n)
  BY DEF Bijection, Injection, Surjection, IsInjective, Sorts
<1>2. \E p : Good(p)
  BY <1>1, SortingExists
<1> DEFINE order == CHOOSE p \in Bijection(1..n, 1..n) :
                      \A i, j \in 1..n : i < j => v[p[i]] >= v[p[j]]
<1>3. Good(order)
  BY <1>2
<1>4. BestFirst(v) = [i \in 1..n |-> v[order[i]]]
  BY DEF BestFirst
<1> HIDE DEF order, Good
<1> QED
  BY <1>1, <1>3, <1>4

(* ValueOf adds up the values of the throws it is asked for.               *)
LEMMA ValueOfAdds ==
  ASSUME NEW n \in Nat, NEW ts, DOMAIN ts = 1..n, NEW v, v = Values(ts, team),
         NEW W, Adds(W, v, n), NEW J \in SUBSET (1..n)
  PROVE  ValueOf(ts, J) = W[J]
<1>1. \A i \in 1..n : v[i] = ScoreThrow(ts[i], team)
  BY DEF Values
<1> DEFINE Takes(f) ==
             f = [I \in SUBSET J |->
                    IF I = {} THEN 0
                    ELSE ScoreThrow(ts[CHOOSE x \in I : TRUE], team)
                           + f[I \ {CHOOSE x \in I : TRUE}]]
           iter == CHOOSE f : Takes(f)
<1>2. ValueOf(ts, J) = iter[J]
  BY DEF ValueOf, MapThenSumSet, MapThenFoldSet
<1>3. \E f : Takes(f)
  <2> DEFINE F == [I \in SUBSET J |-> W[I]]
  <2>1. ASSUME NEW I \in SUBSET J, I # {}
        PROVE  F[I] = ScoreThrow(ts[CHOOSE x \in I : TRUE], team)
                        + F[I \ {CHOOSE x \in I : TRUE}]
    <3>1. PICK x \in I : x = CHOOSE y \in I : TRUE
      BY <2>1
    <3>2. W[I] = W[I \ {x}] + v[x] /\ v[x] \in Int /\ W[I \ {x}] \in Int
      BY SumIsInt DEF Adds
    <3>3. F[I] = W[I] /\ F[I \ {x}] = W[I \ {x}] /\ v[x] = ScoreThrow(ts[x], team)
      BY <1>1
    <3> HIDE DEF F
    <3>4. F[I] = ScoreThrow(ts[x], team) + F[I \ {x}]
      BY <3>2, <3>3
    <3> QED
      BY <3>1, <3>4
  <2>2. F[{}] = 0
    BY DEF Adds
  <2>3. F = [I \in SUBSET J |-> F[I]]
    OBVIOUS
  <2> HIDE DEF F
  <2>4. Takes(F)
    BY <2>1, <2>2, <2>3
  <2> QED
    BY <2>4
<1>4. Takes(iter)
  BY <1>3
<1>5. PICK G : G = iter
  OBVIOUS
<1> HIDE DEF iter
<1>6. G[{}] = 0
  BY <1>4, <1>5
<1>7. \A I \in SUBSET J : I # {} =>
        \E x \in I : G[I] = ScoreThrow(ts[x], team) + G[I \ {x}]
  <2> SUFFICES ASSUME NEW I \in SUBSET J, I # {}
               PROVE  \E x \in I : G[I] = ScoreThrow(ts[x], team) + G[I \ {x}]
    OBVIOUS
  <2>1. G[I] = ScoreThrow(ts[CHOOSE x \in I : TRUE], team)
                 + G[I \ {CHOOSE x \in I : TRUE}]
    BY <1>4, <1>5
  <2> QED
    BY <2>1
<1>8. Peels(G, v, J)
  BY <1>1, <1>6, <1>7 DEF Peels
<1>9. G[J] = W[J]
  BY <1>8, SameSum
<1> QED
  BY <1>2, <1>5, <1>9

(* A set of integers with a greatest or a least element.                   *)
LEMMA MaxIs ==
  ASSUME NEW X \in SUBSET Int, NEW m \in X, \A y \in X : m >= y
  PROVE  Max(X) = m
<1>1. PICK x \in X : x = Max(X) /\ \A y \in X : x >= y
  BY DEF Max
<1>2. x \in Int /\ m \in Int /\ x >= m /\ m >= x
  BY <1>1
<1> QED
  BY <1>1, <1>2

LEMMA MinIs ==
  ASSUME NEW X \in SUBSET Int, NEW m \in X, \A y \in X : m <= y
  PROVE  Min(X) = m
<1>1. PICK x \in X : x = Min(X) /\ \A y \in X : x <= y
  BY DEF Min
<1>2. x \in Int /\ m \in Int /\ x <= m /\ m <= x
  BY <1>1
<1> QED
  BY <1>1, <1>2

(***************************************************************************)
(* ScoreRound is worth some selection the cap allows, and none is worth    *)
(* more: a selection of the round's places is one of the sorted places,    *)
(* where the first are best.                                               *)
(***************************************************************************)
Allowed(I, cap) == cap > 0 => Cardinality(I) <= cap

LEMMA BestSelection ==
  ASSUME NEW ts \in Seq(Throw), NEW f \in Flags, NEW fm, fm.scoredThrowCap \in Int,
         NEW n \in Nat, n = Len(ts), NEW v, v = Values(ts, f), NEW W, Adds(W, v, n)
  PROVE  /\ ScoreRound(ts, f, fm) \in Int
         /\ \E I \in SUBSET (1..n) :
              Allowed(I, fm.scoredThrowCap) /\ ScoreRound(ts, f, fm) = W[I]
         /\ \A I \in SUBSET (1..n) :
              Allowed(I, fm.scoredThrowCap) => W[I] <= ScoreRound(ts, f, fm)
         /\ ScoreRound(ts, f, fm) <= TotalOf(v)
         /\ fm.scoredThrowCap <= 0 \/ n <= fm.scoredThrowCap
              => ScoreRound(ts, f, fm) = TotalOf(v)
<1>1. DOMAIN v = 1..n /\ DOMAIN ts = 1..n /\ \A i \in 1..n : v[i] \in Nat
  BY ValuesType
<1>2. \A i \in 1..n : v[i] \in Int /\ v[i] >= 0
  BY <1>1
<1>3. PICK All \in SUBSET (1..n) : All = 1..n
  OBVIOUS
<1>4. TotalOf(v) = W[All]
  BY <1>1, <1>3, TotalAdds
<1>5. PICK c \in Int : c = fm.scoredThrowCap
  OBVIOUS
<1>6. ScoreRound(ts, f, fm) = TotalOf(IF c > 0 /\ n > c THEN SubSeq(BestFirst(v), 1, c) ELSE v)
  BY <1>5 DEF ScoreRound, Values
<1>7. \A I \in SUBSET (1..n) : W[I] \in Int /\ W[I] <= W[All]
  BY <1>2, <1>3, SumIsInt, MoreIsMore
<1>8. CASE ~ (c > 0 /\ n > c)
  <2>1. ScoreRound(ts, f, fm) = W[All]
    BY <1>4, <1>6, <1>8
  <2>2. Allowed(All, c)
    <3>1. Cardinality(All) <= n /\ Cardinality(All) \in Nat
      BY PlacesAreFinite
    <3> QED
      BY <1>8, <3>1 DEF Allowed
  <2> QED
    BY <1>4, <1>5, <1>7, <2>1, <2>2
<1>9. CASE c > 0 /\ n > c
  <2>1. PICK p : Sorts(p, v, n) /\ BestFirst(v) = [i \in 1..n |-> v[p[i]]]
    BY <1>1, <1>2, BestFirstSorts
  <2>2. PICK b : b = BestFirst(v)
    OBVIOUS
  <2>3. c \in 0..n /\ c \in Nat /\ \A i \in 1..c : i \in 1..n
    BY <1>9
  <2>4. \A i \in 1..n : p[i] \in 1..n /\ b[i] = v[p[i]]
    BY <2>1, <2>2 DEF Sorts
  <2>5. PICK first : first = SubSeq(b, 1, c)
    OBVIOUS
  <2>6. DOMAIN first = 1..c /\ \A i \in 1..c : first[i] = v[p[i]]
    <3>1. b \in Seq(Int) /\ Len(b) = n
      BY <1>2, <2>1, <2>2, <2>4
    <3>2. first \in Seq(Int) /\ Len(first) = c /\ \A i \in 1..c : first[i] = b[i]
      BY <2>3, <2>5, <3>1
    <3> QED
      BY <2>3, <2>4, <3>2
  <2>7. PICK q : q = [i \in 1..c |-> p[i]]
    OBVIOUS
  <2>8. Moves(q, first, c, v, n)
    BY <2>1, <2>3, <2>4, <2>6, <2>7 DEF Moves, Sorts
  <2>9. PICK Top \in SUBSET (1..n) : Top = Taken(q, 1..c) /\ Top = Taken(p, 1..c)
    <3>1. \A i \in 1..c : p[i] \in 1..n /\ q[i] = p[i]
      BY <2>3, <2>4, <2>7
    <3>2. Taken(q, 1..c) = Taken(p, 1..c)
      BY <3>1 DEF Taken
    <3>3. Taken(p, 1..c) \in SUBSET (1..n)
      BY <3>1 DEF Taken
    <3> QED
      BY <3>2, <3>3
  <2>10. ScoreRound(ts, f, fm) = W[Top]
    <3>1. TotalOf(first) = W[Taken(q, 1..c)]
      BY <2>3, <2>6, <2>8, TotalMoved
    <3> QED
      BY <1>6, <1>9, <2>2, <2>5, <2>9, <3>1
  <2>11. Cardinality(Top) <= c
    <3>1. IsFiniteSet(1..c) /\ Cardinality(1..c) = c
      BY <2>3, FS_Interval
    <3>2. q \in Surjection(1..c, Top)
      BY <2>7, <2>9 DEF Surjection, Taken
    <3> QED
      BY <3>1, <3>2, FS_Surjection
  <2>12. PICK B : Adds(B, b, n)
    <3>1. \A i \in 1..n : b[i] \in Int
      BY <1>2, <2>4
    <3> QED
      BY <3>1, SumExists
  <2>13. Moves(p, b, n, v, n)
    BY <2>1, <2>4 DEF Moves, Sorts
  <2>14. \A J \in SUBSET (1..n) : B[J] = W[Taken(p, J)]
    BY <2>12, <2>13, Reindexed
  <2>15. ASSUME NEW I \in SUBSET (1..n), Cardinality(I) <= c
         PROVE  W[I] <= W[Top]
    <3> DEFINE J == {j \in 1..n : p[j] \in I}
    <3>1. I = Taken(p, J)
      <4>1. \A x \in I : \E j \in 1..n : p[j] = x
        BY <2>1 DEF Sorts
      <4> QED
        BY <4>1 DEF Taken
    <3>2. Cardinality(J) <= c /\ J \in SUBSET (1..n)
      <4>1. [j \in J |-> p[j]] \in Injection(J, I)
        BY <2>1, <2>4 DEF Injection, IsInjective, Sorts
      <4>2. IsFiniteSet(I) /\ Cardinality(I) \in Nat
        BY PlacesAreFinite
      <4>3. Cardinality(J) <= Cardinality(I)
        BY <4>1, <4>2, FS_Injection
      <4>4. Cardinality(J) \in Nat
        BY PlacesAreFinite
      <4> QED
        BY <2>3, <2>15, <4>2, <4>3, <4>4
    <3> HIDE DEF J
    <3>3. B[J] <= B[1..c]
      <4>1. \A i \in 1..n : b[i] >= 0
        BY <1>2, <2>4
      <4>2. \A i, j \in 1..n : i < j => b[i] >= b[j]
        BY <2>1, <2>4 DEF Sorts
      <4> QED
        BY <2>3, <2>12, <3>2, <4>1, <4>2, FirstAreBest
    <3>4. B[J] = W[I] /\ B[1..c] = W[Top]
      <4>1. (1..c) \in SUBSET (1..n)
        BY <2>3
      <4> QED
        BY <2>9, <2>14, <3>1, <3>2, <4>1
    <3> QED
      BY <3>3, <3>4
  <2>16. Allowed(Top, c)
    BY <2>11 DEF Allowed
  <2>17. \A I \in SUBSET (1..n) : Allowed(I, c) => W[I] <= W[Top]
    BY <1>9, <2>15 DEF Allowed
  <2>18. W[Top] \in Int /\ W[Top] <= W[All]
    BY <1>7, <2>9
  <2>19. ~ (c <= 0 \/ n <= c)
    BY <1>9
  <2> QED
    BY <1>4, <1>5, <2>9, <2>16, <2>17, <2>10, <2>18, <2>19
<1> QED
  BY <1>8, <1>9

LEMMA RoundsScoreAlike ==
  ASSUME NEW ts, NEW f \in Flags, NEW fm, NEW r \in BOOLEAN
  PROVE  ScoreRound(ts, [f EXCEPT !.roller = r], fm) = ScoreRound(ts, f, fm)
<1>1. \A i \in DOMAIN ts : ScoreThrow(ts[i], [f EXCEPT !.roller = r]) = ScoreThrow(ts[i], f)
  BY RollersScoreAlike
<1>2. Values(ts, [f EXCEPT !.roller = r]) = Values(ts, f)
  BY <1>1 DEF Values
<1> QED
  BY <1>2 DEF ScoreRound, Values
-----------------------------------------------------------------------------
(***************************************************************************)
(* One season.  What is played are throws, and what is added up are points.*)
(***************************************************************************)
SeasonTypes ==
  /\ team \in Flags
  /\ format \in Formats
  /\ rounds \in Seq(Seq(Throw)) /\ Len(rounds) # 0
  /\ weeks \in Seq(Nat)

LEMMA SeasonTypesInit == SeasonInit => SeasonTypes
  BY SeasonAssumption DEF SeasonInit, SeasonTypes

LEMMA SeasonTypesNext == SeasonTypes /\ [SeasonNext]_seasonVars => SeasonTypes'
<1> SUFFICES ASSUME SeasonTypes, [SeasonNext]_seasonVars PROVE SeasonTypes'
  OBVIOUS
<1>1. CASE MakeThrow
  <2>1. PICK t \in Throw : rounds' = [rounds EXCEPT ![Len(rounds)] = Append(@, t)]
    BY <1>1, SeasonAssumption DEF MakeThrow
  <2>2. Len(rounds) \in DOMAIN rounds /\ rounds[Len(rounds)] \in Seq(Throw)
    BY DEF SeasonTypes
  <2>3. Append(rounds[Len(rounds)], t) \in Seq(Throw)
    BY <2>2
  <2>4. rounds' \in Seq(Seq(Throw)) /\ Len(rounds') = Len(rounds)
    BY <2>1, <2>3 DEF SeasonTypes
  <2> QED
    BY <1>1, <2>4 DEF MakeThrow, SeasonTypes
<1>2. CASE NextRound
  <2>1. << >> \in Seq(Throw)
    OBVIOUS
  <2> QED
    BY <1>2, <2>1 DEF NextRound, SeasonTypes
<1>3. CASE EndWeek
  <2>1. PICK score \in Nat : weeks' = Append(weeks, score)
    BY <1>3, SeasonAssumption DEF EndWeek
  <2> QED
    BY <1>3, <2>1 DEF EndWeek, SeasonTypes
<1>4. CASE UNCHANGED seasonVars
  BY <1>4 DEF seasonVars, SeasonTypes
<1> QED
  BY <1>1, <1>2, <1>3, <1>4 DEF SeasonNext

(* The rules are only ever given throws by a team of the league, rounds of *)
(* such throws, and weeks of points.                                       *)
THEOREM SeasonIsPlayed == SeasonSpec => []SeasonTypes
<1> QED
  BY SeasonTypesInit, SeasonTypesNext, PTL DEF SeasonSpec

LEMMA RoundAt ==
  ASSUME SeasonTypes, NEW k \in DOMAIN rounds
  PROVE  /\ rounds[k] \in Seq(Throw) /\ team \in Flags
         /\ format.scoredThrowCap \in Int
  BY SeasonAssumption DEF SeasonTypes

(***************************************************************************)
(* A round is worth the best selection its format allows, whatever the     *)
(* throws and however many: sorting and truncating the values is enough.   *)
(***************************************************************************)
LEMMA SelectionHolds == SeasonTypes => RoundIsBestSelection
<1> SUFFICES ASSUME SeasonTypes, NEW k \in DOMAIN rounds
             PROVE  LET ts == rounds[k]
                        allowed == {I \in SUBSET DOMAIN ts :
                                      format.scoredThrowCap > 0 =>
                                        Cardinality(I) <= format.scoredThrowCap}
                    IN  ScoreRound(ts, team, format)
                          = Max({ValueOf(ts, I) : I \in allowed})
  BY DEF RoundIsBestSelection
<1>1. PICK ts \in Seq(Throw) : ts = rounds[k]
  BY RoundAt
<1>2. PICK n \in Nat : n = Len(ts)
  OBVIOUS
<1>3. PICK v : v = Values(ts, team)
  OBVIOUS
<1>4. /\ DOMAIN ts = 1..n /\ team \in Flags /\ format.scoredThrowCap \in Int
      /\ \A i \in 1..n : v[i] = ScoreThrow(ts[i], team) /\ v[i] \in Int
  BY <1>2, <1>3, RoundAt, ValuesType
<1>5. PICK W : Adds(W, v, n)
  BY <1>4, SumExists
<1> DEFINE allowed == {I \in SUBSET (1..n) : Allowed(I, format.scoredThrowCap)}
           worth == {ValueOf(ts, I) : I \in allowed}
           score == ScoreRound(ts, team, format)
<1>6. \A I \in SUBSET (1..n) : ValueOf(ts, I) = W[I] /\ W[I] \in Int
  <2>1. \A I \in SUBSET (1..n) : W[I] \in Int
    BY <1>5, SumIsInt
  <2>2. \A I \in SUBSET (1..n) : ValueOf(ts, I) = W[I]
    BY <1>3, <1>4, <1>5, ValueOfAdds
  <2> QED
    BY <2>1, <2>2
<1>7. /\ score \in Int
      /\ \E I \in SUBSET (1..n) : Allowed(I, format.scoredThrowCap) /\ score = W[I]
      /\ \A I \in SUBSET (1..n) : Allowed(I, format.scoredThrowCap) => W[I] <= score
  BY <1>2, <1>3, <1>4, <1>5, BestSelection
<1>8. worth \in SUBSET Int /\ score \in worth
  BY <1>6, <1>7
<1>9. \A y \in worth : score >= y
  BY <1>6, <1>7
<1>10. Max(worth) = score
  BY <1>8, <1>9, MaxIs
<1> QED
  BY <1>1, <1>4, <1>10 DEF Allowed

(* In every round, what ScoreRound awards is the most that any choice of   *)
(* as many throws as the format counts is worth.                           *)
THEOREM RoundsAreBest == SeasonSpec => []RoundIsBestSelection
<1> QED
  BY SeasonIsPlayed, SelectionHolds, PTL

(***************************************************************************)
(* What the client adds up is the sum of the rules' values, of which the   *)
(* server may award only a selection.                                      *)
(***************************************************************************)
LEMMA OptimismHolds == SeasonTypes => OptimisticTotalAgrees
<1> SUFFICES ASSUME SeasonTypes, NEW k \in DOMAIN rounds
             PROVE  LET ts      == rounds[k]
                        guess   == TotalOf([i \in DOMAIN ts |-> pointsFor(ts[i], team)])
                        awarded == ScoreRound(ts, team, format)
                    IN  /\ guess >= awarded
                        /\ (format.scoredThrowCap = 0 \/ Len(ts) <= format.scoredThrowCap)
                             => guess = awarded
  BY DEF OptimisticTotalAgrees
<1>1. PICK ts \in Seq(Throw) : ts = rounds[k]
  BY RoundAt
<1>2. PICK n \in Nat : n = Len(ts)
  OBVIOUS
<1>3. PICK v : v = Values(ts, team)
  OBVIOUS
<1>4. /\ DOMAIN ts = 1..n /\ DOMAIN v = 1..n
      /\ team \in Flags /\ format.scoredThrowCap \in Int
      /\ \A i \in 1..n : v[i] \in Int
  BY <1>2, <1>3, RoundAt, ValuesType
<1>5. PICK W : Adds(W, v, n)
  BY <1>4, SumExists
<1>6. [i \in DOMAIN ts |-> pointsFor(ts[i], team)] = v
  <2>1. \A i \in DOMAIN ts : pointsFor(ts[i], team) = ScoreThrow(ts[i], team)
    BY <1>4, TableAgrees
  <2> QED
    BY <1>3, <2>1 DEF Values
<1> DEFINE score == ScoreRound(ts, team, format)
<1>7. /\ score \in Int /\ score <= TotalOf(v)
      /\ format.scoredThrowCap <= 0 \/ n <= format.scoredThrowCap => score = TotalOf(v)
  BY <1>2, <1>3, <1>4, <1>5, BestSelection
<1>8. TotalOf(v) \in Int
  BY <1>4, TotalIsInt
<1> HIDE DEF score
<1>9. /\ TotalOf(v) >= score
      /\ (format.scoredThrowCap = 0 \/ n <= format.scoredThrowCap) => TotalOf(v) = score
  BY <1>4, <1>7, <1>8
<1> QED
  BY <1>1, <1>2, <1>6, <1>9 DEF score

(* In every round, the client's total from its generated table is never    *)
(* below the server's score, and equal to it until the cap is exceeded.    *)
THEOREM OptimismIsBounded == SeasonSpec => []OptimisticTotalAgrees
<1> QED
  BY SeasonIsPlayed, OptimismHolds, PTL

(***************************************************************************)
(* The cap clamps the same points whether the team competes with rollers   *)
(* or not, and the handicap comes on top.                                  *)
(***************************************************************************)
LEMMA HandicapHolds == SeasonTypes => HandicapOnTopOfCap
<1> SUFFICES ASSUME SeasonTypes PROVE HandicapOnTopOfCap
  OBVIOUS
<1> DEFINE f(r) == [team EXCEPT !.roller = r]
           points == [i \in DOMAIN rounds |-> ScoreRound(rounds[i], team, format)]
           played == TotalOf(points)
           cap == format.tinyWeeklyCap
           kept == IF team.tiny /\ cap > 0 /\ played > cap THEN cap ELSE played
           handicap == format.handicaps[team.division]
<1>1. /\ team \in Flags /\ cap \in Int /\ handicap \in Int
      /\ format.scoredThrowCap \in Int
  BY SeasonAssumption DEF SeasonTypes, Flags
<1>2. \A r \in BOOLEAN : f(r) \in Flags /\ f(r).roller = r /\ f(r).tiny = team.tiny
                         /\ f(r).division = team.division
  BY <1>1 DEF Flags
<1>3. \A r \in BOOLEAN : [i \in DOMAIN rounds |-> ScoreRound(rounds[i], f(r), format)] = points
  <2>1. \A r \in BOOLEAN : \A i \in DOMAIN rounds :
          ScoreRound(rounds[i], f(r), format) = ScoreRound(rounds[i], team, format)
    BY <1>1, RoundsScoreAlike
  <2> QED
    BY <2>1
<1>4. played \in Int
  <2>1. \A i \in DOMAIN rounds : ScoreRound(rounds[i], team, format) \in Int
    <3> SUFFICES ASSUME NEW i \in DOMAIN rounds
                 PROVE  ScoreRound(rounds[i], team, format) \in Int
      OBVIOUS
    <3>1. PICK ts \in Seq(Throw) : ts = rounds[i]
      BY RoundAt
    <3>2. PICK n \in Nat : n = Len(ts)
      OBVIOUS
    <3>3. PICK v : v = Values(ts, team)
      OBVIOUS
    <3>4. \A j \in 1..n : v[j] \in Int
      BY <1>1, <3>2, <3>3, ValuesType
    <3>5. PICK W : Adds(W, v, n)
      BY <3>4, SumExists
    <3>6. ScoreRound(ts, team, format) \in Int
      BY <1>1, <3>2, <3>3, <3>5, BestSelection
    <3> QED
      BY <3>1, <3>6
  <2>2. PICK n \in Nat : 1..n = DOMAIN rounds
    BY DEF SeasonTypes
  <2>3. PICK s : s = points
    OBVIOUS
  <2>4. DOMAIN s = 1..n /\ \A i \in 1..n : s[i] \in Int
    BY <2>1, <2>2, <2>3
  <2>5. TotalOf(s) \in Int
    BY <2>4, TotalIsInt
  <2> QED
    BY <2>3, <2>5
<1>5. \A r \in BOOLEAN : ScoreWeek(rounds, f(r), format) = kept + Bonus(~r, handicap)
  BY <1>2, <1>3 DEF ScoreWeek
<1> HIDE DEF played, handicap, cap
<1>6. kept \in Int /\ (team.tiny /\ cap > 0 => kept <= cap)
  BY <1>1, <1>4
<1> HIDE DEF kept
<1>7. /\ ScoreWeek(rounds, f(FALSE), format) = kept + handicap
      /\ ScoreWeek(rounds, f(TRUE), format) = kept + 0
  BY <1>5 DEF Bonus
<1>8. /\ ScoreWeek(rounds, f(FALSE), format)
           = ScoreWeek(rounds, f(TRUE), format) + handicap
      /\ team.tiny /\ cap > 0 => ScoreWeek(rounds, f(TRUE), format) <= cap
  BY <1>1, <1>6, <1>7
<1> QED
  BY <1>8 DEF HandicapOnTopOfCap, handicap, cap

(* In every week, the handicap is worth its points in full, and the tiny-  *)
(* dog cap holds what was earned in play.                                  *)
THEOREM HandicapIsNeverCapped == SeasonSpec => []HandicapOnTopOfCap
<1> QED
  BY SeasonIsPlayed, HandicapHolds, PTL

LEMMA RemovedAt ==
  ASSUME NEW w \in Seq(Nat), NEW n \in Nat, n = Len(w), NEW i \in 1..n
  PROVE  /\ DOMAIN RemoveAt(w, i) = 1..(n - 1)
         /\ \A j \in 1..(n - 1) :
              RemoveAt(w, i)[j] = w[IF j < i THEN j ELSE j + 1]
<1>1. PICK k \in Int : k = i - 1
  OBVIOUS
<1>2. PICK a : a = SubSeq(w, 1, k)
  OBVIOUS
<1>3. a \in Seq(Nat) /\ Len(a) = k /\ \A j \in 1..k : a[j] = w[j]
  <2>1. \A j \in 1..k : w[j] \in Nat
    BY <1>1
  <2>2. /\ a \in Seq(Nat) /\ Len(a) = IF 1 <= k THEN k - 1 + 1 ELSE 0
        /\ \A j \in 1..(k - 1 + 1) : a[j] = w[1 + j - 1]
    BY <1>2, <2>1, SubSeqProperties
  <2>3. \A j \in 1..k : j \in 1..(k - 1 + 1) /\ 1 + j - 1 = j
    OBVIOUS
  <2>4. \A j \in 1..k : a[j] = w[j]
    BY <2>2, <2>3
  <2> QED
    BY <1>1, <2>2, <2>4
<1>4. PICK l \in Int : l = i + 1
  OBVIOUS
<1>5. PICK b : b = SubSeq(w, l, n)
  OBVIOUS
<1>6. b \in Seq(Nat) /\ Len(b) = n - i /\ \A j \in 1..(n - i) : b[j] = w[i + j]
  <2>1. \A j \in l..n : w[j] \in Nat
    BY <1>4
  <2>2. /\ b \in Seq(Nat) /\ Len(b) = IF l <= n THEN n - l + 1 ELSE 0
        /\ \A j \in 1..(n - l + 1) : b[j] = w[l + j - 1]
    BY <1>5, <2>1, SubSeqProperties
  <2>3. \A j \in 1..(n - i) : j \in 1..(n - l + 1) /\ l + j - 1 = i + j
    BY <1>4
  <2>4. \A j \in 1..(n - i) : b[j] = w[i + j]
    BY <2>2, <2>3
  <2> QED
    BY <1>4, <2>2, <2>4
<1>7. PICK s : s = a \o b
  OBVIOUS
<1>8. /\ s \in Seq(Nat) /\ Len(s) = Len(a) + Len(b)
      /\ \A j \in 1..Len(s) : s[j] = IF j <= Len(a) THEN a[j] ELSE b[j - Len(a)]
  <2>1. a \in Seq(Nat) /\ b \in Seq(Nat)
    BY <1>3, <1>6
  <2>2. /\ a \o b \in Seq(Nat) /\ Len(a \o b) = Len(a) + Len(b)
        /\ \A j \in 1..(Len(a) + Len(b)) :
             (a \o b)[j] = IF j <= Len(a) THEN a[j] ELSE b[j - Len(a)]
    BY <2>1, ConcatProperties, Zenon
  <2> QED
    BY <1>7, <2>2
<1>9. Len(s) = n - 1
  BY <1>1, <1>3, <1>6, <1>8
<1>10. ASSUME NEW j \in 1..(n - 1)
       PROVE  s[j] = w[IF j < i THEN j ELSE j + 1]
  <2>1. s[j] = IF j <= k THEN a[j] ELSE b[j - k]
    BY <1>3, <1>8, <1>9
  <2>2. CASE j < i
    <3>1. j \in 1..k /\ j <= k
      BY <1>1, <2>2
    <3> QED
      BY <1>3, <2>1, <2>2, <3>1
  <2>3. CASE ~ (j < i)
    <3>1. ~ (j <= k) /\ j - k \in 1..(n - i) /\ i + (j - k) = j + 1
      BY <1>1, <2>3
    <3>2. b[j - k] = w[j + 1]
      BY <1>6, <3>1
    <3> QED
      BY <2>1, <2>3, <3>1, <3>2
  <2> QED
    BY <2>2, <2>3
<1>11. RemoveAt(w, i) = s
  BY <1>1, <1>2, <1>4, <1>5, <1>7 DEF RemoveAt
<1>12. DOMAIN s = 1..(n - 1)
  BY <1>8, <1>9
<1> QED
  BY <1>10, <1>11, <1>12

(***************************************************************************)
(* Leaving week i out of the season leaves the total without its points,   *)
(* so the lowest week is the one to leave out.                             *)
(***************************************************************************)
LEMMA LeftOut ==
  ASSUME NEW w \in Seq(Nat), NEW n \in Nat, n = Len(w), NEW i \in 1..n
  PROVE  TotalOf(RemoveAt(w, i)) = TotalOf(w) - w[i]
<1>1. PICK m \in Nat : m = n - 1
  OBVIOUS
<1>2. DOMAIN w = 1..n /\ \A j \in 1..n : w[j] \in Int
  OBVIOUS
<1>3. PICK W : Adds(W, w, n)
  BY <1>2, SumExists
<1>4. PICK All \in SUBSET (1..n) : All = 1..n
  OBVIOUS
<1>5. TotalOf(w) = W[All]
  BY <1>2, <1>3, <1>4, TotalAdds
<1> DEFINE Kept(j) == IF j < i THEN j ELSE j + 1
<1>6. PICK q : q = [j \in 1..m |-> Kept(j)]
  OBVIOUS
<1>7. PICK s : s = RemoveAt(w, i)
  OBVIOUS
<1>8. DOMAIN s = 1..m /\ \A j \in 1..m : s[j] = w[Kept(j)]
  BY <1>1, <1>7, RemovedAt
<1>9. Moves(q, s, m, w, n)
  BY <1>1, <1>6, <1>8 DEF Moves
<1>10. TotalOf(s) = W[Taken(q, 1..m)]
  BY <1>3, <1>8, <1>9, TotalMoved
<1>11. Taken(q, 1..m) = All \ {i}
  <2>1. \A x \in All \ {i} : \E j \in 1..m : q[j] = x
    <3> SUFFICES ASSUME NEW x \in All \ {i} PROVE \E j \in 1..m : q[j] = x
      OBVIOUS
    <3>1. CASE x < i
      BY <1>1, <1>4, <1>6, <3>1
    <3>2. CASE x > i
      <4>1. x - 1 \in 1..m /\ q[x - 1] = x
        BY <1>1, <1>4, <1>6, <3>2
      <4> QED
        BY <4>1
    <3> QED
      BY <1>4, <3>1, <3>2
  <2>2. \A j \in 1..m : q[j] \in All \ {i}
    BY <1>1, <1>4, <1>6
  <2> QED
    BY <2>1, <2>2 DEF Taken
<1>12. W[All] = W[All \ {i}] + w[i] /\ W[All \ {i}] \in Int /\ w[i] \in Int
  <2>1. W[All] = W[All \ {i}] + w[i]
    BY <1>3, <1>4 DEF Adds
  <2>2. All \ {i} \in SUBSET (1..n)
    OBVIOUS
  <2> QED
    BY <1>2, <1>3, <2>1, <2>2, SumIsInt
<1>13. TotalOf(s) = W[All \ {i}]
  BY <1>10, <1>11
<1>14. TotalOf(w) = TotalOf(s) + w[i] /\ TotalOf(s) \in Int /\ w[i] \in Int
  BY <1>5, <1>12, <1>13
<1>15. TotalOf(s) = TotalOf(w) - w[i]
  BY <1>14
<1> QED
  BY <1>7, <1>15

LEMMA OneWeek ==
  ASSUME SeasonTypes, Len(weeks) = 1
  PROVE  ScoreSeason(weeks) = weeks[1]
<1>1. PICK w \in Seq(Nat) : w = weeks
  BY DEF SeasonTypes
<1>2. DOMAIN w = 1..1 /\ w[1] \in Nat
  <2>1. PICK n \in Nat : n = Len(w)
    OBVIOUS
  <2>2. DOMAIN w = 1..n /\ \A i \in 1..n : w[i] \in Nat
    BY <2>1
  <2>3. n = 1
    BY <1>1, <2>1
  <2> QED
    BY <2>2, <2>3
<1>3. \A i \in 1..1 : w[i] \in Int
  BY <1>2
<1>4. PICK W : Adds(W, w, 1)
  BY <1>3, SumExists
<1>5. TotalOf(w) = W[1..1]
  BY <1>2, <1>4, TotalAdds
<1>6. W[1..1] = w[1]
  <2>1. 1..1 = {1} /\ {1} \ {1} = {}
    OBVIOUS
  <2>2. W[{}] = 0 /\ W[{1}] = W[{1} \ {1}] + w[1]
    BY <1>4, <2>1 DEF Adds
  <2>3. W[1..1] = 0 + w[1]
    BY <2>1, <2>2, Zenon
  <2> QED
    BY <1>2, <2>3
<1>7. ScoreSeason(w) = TotalOf(w)
  <2>1. PICK n \in Nat : n = Len(w) /\ n = 1
    BY <1>1
  <2>2. Len(w) < 2
    BY <2>1
  <2> QED
    BY <2>2, Zenon DEF ScoreSeason
<1> QED
  BY <1>1, <1>5, <1>6, <1>7

LEMMA BestOfTheRest ==
  ASSUME SeasonTypes, Len(weeks) >= 2
  PROVE  ScoreSeason(weeks) = Max({TotalOf(RemoveAt(weeks, i)) : i \in DOMAIN weeks})
<1>1. PICK w \in Seq(Nat) : w = weeks
  BY DEF SeasonTypes
<1>2. PICK n \in Nat : n = Len(w) /\ n >= 2
  BY <1>1
<1>3. DOMAIN w = 1..n /\ \A i \in 1..n : w[i] \in Nat
  BY <1>2
<1>4. PICK total \in Int : total = TotalOf(w)
  <2>1. \A i \in 1..n : w[i] \in Int
    BY <1>3
  <2> QED
    BY <1>3, <2>1, TotalIsInt
<1> DEFINE scores == {w[i] : i \in 1..n}
           totals == {TotalOf(RemoveAt(w, i)) : i \in 1..n}
<1>5. PICK low \in 1..n : \A i \in 1..n : w[low] <= w[i]
  <2>1. scores \in SUBSET Nat /\ scores # {}
    BY <1>2, <1>3
  <2>2. PICK a \in scores : \A b \in scores : a <= b
    BY <2>1, LeastNumber
  <2> QED
    BY <2>2
<1>6. Min(scores) = w[low]
  <2>1. scores \in SUBSET Int /\ w[low] \in scores /\ \A b \in scores : w[low] <= b
    BY <1>3, <1>5
  <2> QED
    BY <2>1, MinIs
<1>7. \A i \in 1..n : TotalOf(RemoveAt(w, i)) = total - w[i]
  BY <1>2, <1>4, LeftOut
<1>8. Max(totals) = total - w[low]
  <2>1. totals \in SUBSET Int /\ total - w[low] \in totals
    BY <1>3, <1>7
  <2>2. \A b \in totals : total - w[low] >= b
    BY <1>3, <1>5, <1>7
  <2> QED
    BY <2>1, <2>2, MaxIs
<1>9. ScoreSeason(w) = total - Min(scores)
  <2>1. scores = {w[i] : i \in DOMAIN w} /\ ~ (Len(w) < 2)
    BY <1>2, <1>3
  <2> HIDE DEF scores
  <2> QED
    BY <1>4, <2>1 DEF ScoreSeason
<1> QED
  BY <1>1, <1>3, <1>6, <1>8, <1>9

(* In every season of two weeks or more, ScoreSeason is the best total     *)
(* that leaves one week out; a single week counts.                         *)
THEOREM LowestWeekIsDropped == SeasonSpec => []SeasonDropsOneWeek
<1>1. SeasonTypes => SeasonDropsOneWeek
  BY OneWeek, BestOfTheRest DEF SeasonDropsOneWeek
<1> QED
  BY <1>1, SeasonIsPlayed, PTL
===============================================================================
