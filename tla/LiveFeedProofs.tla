---------------------------- MODULE LiveFeedProofs ----------------------------
(***************************************************************************)
(* Theorems about module LiveFeed, for every set of sessions and viewers,  *)
(* every buffer and window and every bound on events and faults.           *)
(***************************************************************************)
EXTENDS LiveFeed, SequenceTheorems, WellFoundedInduction, TLAPS

(***************************************************************************)
(* What the helpers on sequences return.                                   *)
(***************************************************************************)
LEMMA SubSeqOf ==
  ASSUME NEW S, NEW s \in Seq(S), NEW m \in Int, NEW n \in Int,
         1 <= m, n <= Len(s), m <= n + 1
  PROVE  /\ SubSeq(s, m, n) \in Seq(S)
         /\ Len(SubSeq(s, m, n)) = n - m + 1
         /\ \A i \in 1 .. n - m + 1 : SubSeq(s, m, n)[i] = s[m + i - 1]
<1>1. \A i \in m .. n : s[i] \in S
  BY ElementOfSeq, LenProperties
<1> QED
  BY <1>1, SubSeqProperties

LEMMA EarliestOf ==
  ASSUME NEW S, NEW s \in Seq(S), NEW most \in Nat
  PROVE  /\ Earliest(most, s) \in Seq(S)
         /\ Len(Earliest(most, s)) = IF Len(s) > most THEN most ELSE Len(s)
         /\ \A i \in 1 .. Len(Earliest(most, s)) : Earliest(most, s)[i] = s[i]
<1>1. Len(s) \in Nat
  BY LenProperties
<1>2. CASE Len(s) > most
  <2>1. /\ SubSeq(s, 1, most) \in Seq(S)
        /\ Len(SubSeq(s, 1, most)) = most
        /\ \A i \in 1 .. most : SubSeq(s, 1, most)[i] = s[i]
    BY <1>1, <1>2, SubSeqOf
  <2> QED
    BY <1>2, <2>1 DEF Earliest
<1>3. CASE ~(Len(s) > most)
  BY <1>3 DEF Earliest
<1> QED
  BY <1>2, <1>3

LEMMA LatestOf ==
  ASSUME NEW S, NEW s \in Seq(S), NEW most \in Nat
  PROVE  /\ Latest(most, s) \in Seq(S)
         /\ Len(Latest(most, s)) = IF Len(s) > most THEN most ELSE Len(s)
         /\ \A i \in 1 .. Len(Latest(most, s)) :
              Latest(most, s)[i] = s[Len(s) - Len(Latest(most, s)) + i]
<1>1. Len(s) \in Nat
  BY LenProperties
<1>2. CASE Len(s) > most
  <2>1. /\ SubSeq(s, Len(s) - most + 1, Len(s)) \in Seq(S)
        /\ Len(SubSeq(s, Len(s) - most + 1, Len(s))) = most
        /\ \A i \in 1 .. most :
             SubSeq(s, Len(s) - most + 1, Len(s))[i] = s[Len(s) - most + i]
    BY <1>1, <1>2, SubSeqOf
  <2> QED
    BY <1>2, <2>1 DEF Latest
<1>3. CASE ~(Len(s) > most)
  BY <1>1, <1>3 DEF Latest
<1> QED
  BY <1>2, <1>3

(* A set of naturals that is not empty has a least element.                *)
LEMMA LeastNatural ==
  ASSUME NEW T, T \subseteq Nat, T # {}
  PROVE  \E x \in T : \A y \in T : x <= y
<1>1. PICK x \in T : \A y \in T : ~(<<y, x>> \in OpToRel(<, Nat))
  BY NatLessThanWellFounded, WFMin
<1>2. \A y \in T : ~(y < x)
  BY <1>1 DEF OpToRel
<1> QED
  BY <1>2

(* In a history whose ids grow, After is the end of it that has the larger *)
(* ids.                                                                    *)
LEMMA AfterOf ==
  ASSUME NEW h \in Seq(Event), NEW id \in Nat,
         \A i, j \in DOMAIN h : i < j => h[i].ID < h[j].ID
  PROVE  /\ After(id, h) \in Seq(Event)
         /\ Len(After(id, h)) <= Len(h)
         /\ \A i \in 1 .. Len(After(id, h)) :
              After(id, h)[i] = h[Len(h) - Len(After(id, h)) + i]
         /\ \A i \in DOMAIN h :
              h[i].ID > id <=> Len(h) - Len(After(id, h)) < i
<1>1. Len(h) \in Nat /\ DOMAIN h = 1 .. Len(h)
  BY LenProperties
<1>2. \A i \in DOMAIN h : h[i].ID \in Nat
  <2>1. \A i \in DOMAIN h : h[i] \in Event
    BY <1>1, ElementOfSeq
  <2> QED
    BY <2>1 DEF Event
<1> DEFINE Splits(k) == \A i \in DOMAIN h : h[i].ID > id <=> k <= i
           larger == {i \in DOMAIN h : h[i].ID > id}
           first == CHOOSE k \in 1 .. Len(h) + 1 : Splits(k)
<1>3. \E k \in 1 .. Len(h) + 1 : Splits(k)
  <2>1. CASE larger = {}
    <3>1. Splits(Len(h) + 1)
      BY <1>1, <2>1
    <3> QED
      BY <1>1, <3>1
  <2>2. CASE larger # {}
    <3>1. larger \subseteq Nat
      BY <1>1
    <3> HIDE DEF larger
    <3>2. PICK k \in larger : \A y \in larger : k <= y
      BY <2>2, <3>1, LeastNatural
    <3> USE DEF larger
    <3>3. Splits(k)
      BY <1>1, <1>2, <3>2
    <3> QED
      BY <1>1, <3>2, <3>3
  <2> QED
    BY <2>1, <2>2
<1>4. first \in 1 .. Len(h) + 1 /\ Splits(first)
  BY <1>3
<1>5. After(id, h) = SubSeq(h, first, Len(h))
  BY DEF After
<1> HIDE DEF first
<1>6. /\ SubSeq(h, first, Len(h)) \in Seq(Event)
      /\ Len(SubSeq(h, first, Len(h))) = Len(h) - first + 1
      /\ \A i \in 1 .. Len(h) - first + 1 :
           SubSeq(h, first, Len(h))[i] = h[first + i - 1]
  BY <1>1, <1>4, SubSeqOf
<1>7. Len(After(id, h)) = Len(h) - first + 1
  BY <1>5, <1>6
<1>8. \A i \in 1 .. Len(After(id, h)) :
        After(id, h)[i] = h[Len(h) - Len(After(id, h)) + i]
  <2> TAKE i \in 1 .. Len(After(id, h))
  <2>1. Len(h) - Len(After(id, h)) + i = first + i - 1
    BY <1>1, <1>4, <1>7
  <2> QED
    BY <1>5, <1>6, <1>7, <2>1
<1>9. \A i \in DOMAIN h : h[i].ID > id <=> Len(h) - Len(After(id, h)) < i
  BY <1>1, <1>4, <1>7
<1> QED
  BY <1>1, <1>4, <1>5, <1>6, <1>7, <1>8, <1>9

LEMMA Bounds ==
  /\ subscriberBuffer \in Nat /\ subscriberBuffer > 0
  /\ replayWindow \in Nat /\ replayWindow > 0
  /\ Room \in Nat /\ Room > 0 /\ Room <= subscriberBuffer /\ Room <= replayWindow
  /\ MaxEvents \in Nat /\ MaxLosses \in Nat /\ MaxRefusals \in Nat
  /\ MaxRestarts \in Nat
  BY LiveFeedAssumption DEF Room

(* One event offered to a channel: it goes in while there is room.         *)
LEMMA SendOne ==
  ASSUME NEW c \in Seq(Event), Len(c) <= subscriberBuffer, NEW ev \in Event
  PROVE  /\ Send(c, <<ev>>) \in Seq(Event)
         /\ Len(Send(c, <<ev>>)) =
              IF Len(c) < subscriberBuffer THEN Len(c) + 1 ELSE Len(c)
         /\ \A i \in 1 .. Len(c) : Send(c, <<ev>>)[i] = c[i]
         /\ Len(c) < subscriberBuffer => Send(c, <<ev>>)[Len(c) + 1] = ev
<1>1. Len(c) \in Nat /\ <<ev>> \in Seq(Event) /\ Len(<<ev>>) = 1 /\ <<ev>>[1] = ev
  BY LenProperties
<1>2. /\ c \o <<ev>> \in Seq(Event)
      /\ Len(c \o <<ev>>) = Len(c) + 1
      /\ \A i \in 1 .. Len(c) + 1 :
           (c \o <<ev>>)[i] = IF i <= Len(c) THEN c[i] ELSE <<ev>>[i - Len(c)]
  BY <1>1, ConcatProperties
<1>3. /\ \A i \in 1 .. Len(c) : (c \o <<ev>>)[i] = c[i]
      /\ (c \o <<ev>>)[Len(c) + 1] = ev
  BY <1>1, <1>2
<1>4. /\ Send(c, <<ev>>) \in Seq(Event)
      /\ Len(Send(c, <<ev>>)) =
           IF Len(c) + 1 > subscriberBuffer THEN subscriberBuffer ELSE Len(c) + 1
      /\ \A i \in 1 .. Len(Send(c, <<ev>>)) : Send(c, <<ev>>)[i] = (c \o <<ev>>)[i]
  BY <1>2, Bounds, EarliestOf DEF Send
<1>5. Len(Send(c, <<ev>>)) =
        IF Len(c) < subscriberBuffer THEN Len(c) + 1 ELSE Len(c)
  BY <1>1, <1>4, Bounds
<1> QED
  BY <1>1, <1>3, <1>4, <1>5

(* A replay into an empty channel: its first events, as many as fit.       *)
LEMMA SendReplay ==
  ASSUME NEW more \in Seq(Event)
  PROVE  /\ Send(<<>>, more) \in Seq(Event)
         /\ Len(Send(<<>>, more)) =
              IF Len(more) > subscriberBuffer THEN subscriberBuffer ELSE Len(more)
         /\ \A i \in 1 .. Len(Send(<<>>, more)) : Send(<<>>, more)[i] = more[i]
<1>1. <<>> \o more = more
  BY ConcatEmptySeq
<1> QED
  BY <1>1, Bounds, EarliestOf DEF Send

(* An event kept for replay: the history ends in it.                       *)
Kept(h, ev) == Latest(replayWindow, Append(h, ev))

LEMMA KeepOne ==
  ASSUME NEW h \in Seq(Event), Len(h) <= replayWindow, NEW ev \in Event
  PROVE  /\ Kept(h, ev) \in Seq(Event)
         /\ Len(Kept(h, ev)) = IF Len(h) < replayWindow THEN Len(h) + 1 ELSE Len(h)
         /\ Kept(h, ev)[Len(Kept(h, ev))] = ev
         /\ \A i \in 1 .. Len(Kept(h, ev)) - 1 :
              /\ Len(h) + 1 - Len(Kept(h, ev)) + i \in 1 .. Len(h)
              /\ Kept(h, ev)[i] = h[Len(h) + 1 - Len(Kept(h, ev)) + i]
<1> DEFINE a == Append(h, ev)
           q == Kept(h, ev)
<1>1. Len(h) \in Nat
  BY LenProperties
<1>2. /\ a \in Seq(Event)
      /\ Len(a) = Len(h) + 1
      /\ \A i \in 1 .. Len(h) : a[i] = h[i]
      /\ a[Len(h) + 1] = ev
  BY AppendProperties
<1> HIDE DEF a
<1>3. /\ q \in Seq(Event)
      /\ Len(q) = IF Len(h) + 1 > replayWindow THEN replayWindow ELSE Len(h) + 1
      /\ \A i \in 1 .. Len(q) : q[i] = a[Len(h) + 1 - Len(q) + i]
  <2>1. /\ Latest(replayWindow, a) \in Seq(Event)
        /\ Len(Latest(replayWindow, a)) =
             IF Len(a) > replayWindow THEN replayWindow ELSE Len(a)
        /\ \A i \in 1 .. Len(Latest(replayWindow, a)) :
             Latest(replayWindow, a)[i] = a[Len(a) - Len(Latest(replayWindow, a)) + i]
    BY <1>2, Bounds, LatestOf
  <2>2. q = Latest(replayWindow, a)
    BY DEF a, Kept
  <2> HIDE DEF q
  <2> QED
    BY <1>2, <2>1, <2>2
<1> HIDE DEF q
<1>4. /\ Len(q) = IF Len(h) < replayWindow THEN Len(h) + 1 ELSE Len(h)
      /\ Len(q) \in 1 .. Len(h) + 1
  BY <1>1, <1>3, Bounds
<1>5. q[Len(q)] = ev
  <2>1. Len(q) \in 1 .. Len(q) /\ Len(h) + 1 - Len(q) + Len(q) = Len(h) + 1
    BY <1>1, <1>4
  <2>2. q[Len(q)] = a[Len(h) + 1]
    BY <1>3, <2>1
  <2> QED
    BY <1>2, <2>1, <2>2
<1>6. \A i \in 1 .. Len(q) - 1 : /\ Len(h) + 1 - Len(q) + i \in 1 .. Len(h)
                                 /\ q[i] = h[Len(h) + 1 - Len(q) + i]
  <2> TAKE i \in 1 .. Len(q) - 1
  <2>1. Len(h) + 1 - Len(q) + i \in 1 .. Len(h) /\ i \in 1 .. Len(q)
    BY <1>1, <1>4
  <2> QED
    BY <1>2, <1>3, <2>1
<1> QED
  BY <1>3, <1>4, <1>5, <1>6 DEF q

(* The events of a channel, one by one.                                    *)
LEMMA TailOf ==
  ASSUME NEW c \in Seq(Event), c # <<>>
  PROVE  /\ Len(c) \in Nat \ {0} /\ Len(Tail(c)) = Len(c) - 1
         /\ Tail(c) \in Seq(Event) /\ Head(c) \in Event /\ Head(c) = c[1]
         /\ \A i \in 1 .. Len(Tail(c)) : Tail(c)[i] = c[i + 1]
<1>1. Len(c) \in Nat \ {0}
  BY EmptySeq
<1> QED
  BY <1>1, HeadTailProperties

-----------------------------------------------------------------------------
(***************************************************************************)
(* Type correctness.                                                       *)
(***************************************************************************)
LEMMA TypeInit == Init => TypeOK
<1> SUFFICES ASSUME Init PROVE TypeOK
  OBVIOUS
<1>1. <<>> \in Seq(Event) /\ <<>> \in Seq(Nat) /\ Len(<<>>) = 0
  BY EmptySeq
<1> QED
  BY <1>1, Bounds DEF Init, TypeOK, StreamStates

LEMMA EventsOf ==
  ASSUME NEW c \in Seq(Event)
  PROVE  /\ Len(c) \in Nat
         /\ \A i \in 1 .. Len(c) : c[i].ID \in Nat /\ c[i].n \in Nat
<1>1. Len(c) \in Nat
  BY LenProperties
<1>2. \A i \in 1 .. Len(c) : c[i] \in Event
  BY ElementOfSeq
<1> QED
  BY <1>1, <1>2 DEF Event

LEMMA SessionTypes ==
  ASSUME TypeOK, NEW s \in Sessions
  PROVE  /\ history[s] \in Seq(Event) /\ Len(history[s]) \in Nat
         /\ Len(history[s]) <= replayWindow
         /\ published[s] \in 0 .. MaxEvents /\ published[s] \in Nat
         /\ nextID \in Nat
<1>1. history[s] \in Seq(Event) /\ Len(history[s]) <= replayWindow
  BY DEF TypeOK
<1>2. published[s] \in 0 .. MaxEvents /\ nextID \in Nat
  BY DEF TypeOK
<1> QED
  BY <1>1, <1>2, Bounds, EventsOf

LEMMA ViewerTypes ==
  ASSUME TypeOK, NEW v \in Viewers
  PROVE  /\ Watched[v] \in Sessions
         /\ events[v] \in Seq(Event) /\ Len(events[v]) \in Nat
         /\ Len(events[v]) <= subscriberBuffer
         /\ seen[v] \in Seq(Nat) /\ Len(seen[v]) \in Nat
         /\ \A i \in 1 .. Len(seen[v]) : seen[v][i] \in Nat
         /\ lastEventID[v] \in Nat
<1>1. Watched[v] \in Sessions
  BY LiveFeedAssumption
<1>2. /\ events[v] \in Seq(Event) /\ Len(events[v]) <= subscriberBuffer
      /\ seen[v] \in Seq(Nat) /\ lastEventID[v] \in Nat
  BY DEF TypeOK
<1>3. Len(seen[v]) \in Nat /\ \A i \in 1 .. Len(seen[v]) : seen[v][i] \in Nat
  BY <1>2, LenProperties, ElementOfSeq
<1> QED
  BY <1>1, <1>2, <1>3, EventsOf

(* The event Publish makes.                                                *)
NewEvent(s) == [ID |-> nextID + 1, n |-> published[s] + 1]

LEMMA PublishDoes ==
  ASSUME TypeOK, NEW s \in Sessions, Publish(s)
  PROVE  /\ NewEvent(s) \in Event /\ published[s] + 1 \in 0 .. MaxEvents
         /\ nextID' = nextID + 1 /\ nextID \in Nat
         /\ published' = [published EXCEPT ![s] = published[s] + 1]
         /\ history' = [history EXCEPT ![s] =
              Kept(history[s], NewEvent(s))]
         /\ events' = [v \in Viewers |->
              IF stream[v] = "open" /\ Watched[v] = s
                THEN Send(events[v], <<NewEvent(s)>>) ELSE events[v]]
         /\ near' = [v \in Viewers |-> near[v] /\ StaysNear(v, s)]
         /\ UNCHANGED <<stream, lastEventID, seen, losses, refusals, restarts>>
<1>1. published[s] \in 0 .. MaxEvents /\ published[s] < MaxEvents /\ MaxEvents \in Nat
  BY Bounds DEF TypeOK, Publish
<1>2. nextID' = nextID + 1 /\ nextID \in Nat
  BY DEF TypeOK, Publish
<1>3. published' = [published EXCEPT ![s] = published[s] + 1]
  BY DEF Publish
<1>4. published'[s] = published[s] + 1
  BY <1>3 DEF TypeOK
<1>5. [ID |-> nextID', n |-> published'[s]] = NewEvent(s)
  BY <1>2, <1>4 DEF NewEvent
<1>6. NewEvent(s) \in Event /\ published[s] + 1 \in 0 .. MaxEvents
  BY <1>1, <1>2 DEF NewEvent, Event
<1> QED
  BY <1>2, <1>3, <1>5, <1>6 DEF Publish, Kept

LEMMA TypePublish ==
  ASSUME TypeOK, NEW s \in Sessions, Publish(s)
  PROVE  TypeOK'
<1> DEFINE ev == NewEvent(s)
<1>1. ev \in Event
  BY PublishDoes
<1> HIDE DEF ev
<1>2. Kept(history[s], ev) \in Seq(Event) /\ Len(Kept(history[s], ev)) <= replayWindow
  BY <1>1, SessionTypes, KeepOne, Bounds
<1>3. ASSUME NEW v \in Viewers
      PROVE  /\ Send(events[v], <<ev>>) \in Seq(Event)
             /\ Len(Send(events[v], <<ev>>)) <= subscriberBuffer
  <2>1. events[v] \in Seq(Event) /\ Len(events[v]) <= subscriberBuffer
          /\ Len(events[v]) \in Nat
    BY ViewerTypes
  <2>2. /\ Send(events[v], <<ev>>) \in Seq(Event)
        /\ Len(Send(events[v], <<ev>>)) =
             IF Len(events[v]) < subscriberBuffer THEN Len(events[v]) + 1 ELSE Len(events[v])
    BY <1>1, <2>1, SendOne
  <2> QED
    BY <2>1, <2>2, Bounds
<1>4. /\ history' \in [Sessions -> Seq(Event)]
      /\ \A x \in Sessions : Len(history'[x]) <= replayWindow
  <2>1. history' = [history EXCEPT ![s] = Kept(history[s], ev)]
    BY PublishDoes DEF ev
  <2> QED
    BY <1>2, <2>1 DEF TypeOK
<1>5. /\ events' \in [Viewers -> Seq(Event)]
      /\ \A v \in Viewers : Len(events'[v]) <= subscriberBuffer
  <2>1. events' = [v \in Viewers |->
          IF stream[v] = "open" /\ Watched[v] = s THEN Send(events[v], <<ev>>) ELSE events[v]]
    BY PublishDoes DEF ev
  <2>2. \A v \in Viewers : events[v] \in Seq(Event) /\ Len(events[v]) <= subscriberBuffer
    BY ViewerTypes
  <2> QED
    BY <1>3, <2>1, <2>2
<1>6. near' \in [Viewers -> BOOLEAN]
  BY PublishDoes DEF StaysNear, TypeOK
<1>7. nextID' = nextID + 1 /\ nextID \in Nat
  BY PublishDoes
<1>8. published' \in [Sessions -> 0 .. MaxEvents]
  BY PublishDoes DEF TypeOK
<1>9. UNCHANGED <<stream, lastEventID, seen, losses, refusals, restarts>>
  BY PublishDoes
<1> QED
  BY <1>4, <1>5, <1>6, <1>7, <1>8, <1>9 DEF TypeOK

(* A history h of a session with p events, when top ids have been given:   *)
(* it holds the last events, and ids grow along it.                        *)
HistoryIs(h, p, top) ==
  /\ Len(h) <= p
  /\ \A i \in 1 .. Len(h) : h[i].ID \in 1 .. top /\ h[i].n = p - Len(h) + i
  /\ \A i, j \in 1 .. Len(h) : i < j => h[i].ID < h[j].ID

HistoryInv(s) == HistoryIs(history[s], published[s], nextID)

(* What one more event does to a history, whichever it drops.               *)
LEMMA HistoryGrows ==
  ASSUME NEW h \in Seq(Event), Len(h) <= replayWindow, NEW ev \in Event,
         NEW p \in Nat, NEW top \in Nat, HistoryIs(h, p, top),
         ev.ID = top + 1, ev.n = p + 1
  PROVE  HistoryIs(Kept(h, ev), p + 1, top + 1)
<1> DEFINE q == Kept(h, ev)
<1> USE DEF HistoryIs
<1>1. /\ q[Len(q)] = ev
      /\ Len(q) = IF Len(h) < replayWindow THEN Len(h) + 1 ELSE Len(h)
      /\ \A i \in 1 .. Len(q) - 1 : /\ Len(h) + 1 - Len(q) + i \in 1 .. Len(h)
                                    /\ q[i] = h[Len(h) + 1 - Len(q) + i]
  BY KeepOne
<1> HIDE DEF q
<1>2. Len(h) \in Nat /\ Len(q) \in Nat /\ Len(q) \in 1 .. Len(h) + 1
  BY <1>1, Bounds, EventsOf
<1>3. ASSUME NEW i \in 1 .. Len(q)
      PROVE  q[i].ID \in 1 .. top + 1 /\ q[i].n = p + 1 - Len(q) + i
  <2>1. CASE i = Len(q)
    BY <1>1, <1>2, <2>1
  <2>2. CASE i # Len(q)
    <3> DEFINE k == Len(h) + 1 - Len(q) + i
    <3>1. i \in 1 .. Len(q) - 1
      BY <1>2, <2>2
    <3>2. k \in 1 .. Len(h) /\ q[i] = h[k]
      BY <1>1, <3>1
    <3>3. h[k].ID \in 1 .. top /\ h[k].n = p - Len(h) + k
      BY <3>2
    <3>4. p - Len(h) + k = p + 1 - Len(q) + i
      BY <1>2
    <3> HIDE DEF k
    <3> QED
      BY <3>2, <3>3, <3>4
  <2> QED
    BY <2>1, <2>2
<1>4. ASSUME NEW i \in 1 .. Len(q), NEW j \in 1 .. Len(q), i < j
      PROVE  q[i].ID < q[j].ID
  <2> DEFINE ki == Len(h) + 1 - Len(q) + i
             kj == Len(h) + 1 - Len(q) + j
  <2>1. i \in 1 .. Len(q) - 1
    BY <1>2, <1>4
  <2>2. ki \in 1 .. Len(h) /\ q[i] = h[ki]
    BY <1>1, <2>1
  <2>3. CASE j = Len(q)
    <3>1. q[j].ID = top + 1
      BY <1>1, <2>3
    <3>2. q[i].ID \in 1 .. top
      BY <2>2
    <3> QED
      BY <3>1, <3>2
  <2>4. CASE j # Len(q)
    <3>1. j \in 1 .. Len(q) - 1
      BY <1>2, <2>4
    <3>2. kj \in 1 .. Len(h) /\ q[j] = h[kj]
      BY <1>1, <3>1
    <3>3. ki < kj
      BY <1>2, <1>4
    <3> HIDE DEF ki, kj
    <3> QED
      BY <2>2, <3>2, <3>3
  <2> QED
    BY <2>3, <2>4
<1>5. Len(q) <= p + 1
  BY <1>2
<1>6. HistoryIs(q, p + 1, top + 1)
  BY <1>3, <1>4, <1>5
<1> HIDE DEF HistoryIs
<1> QED
  BY <1>6 DEF q

LEMMA HistoryPublish ==
  ASSUME TypeOK, NEW p \in Sessions, Publish(p), NEW s \in Sessions, HistoryInv(s)
  PROVE  HistoryInv(s)'
<1>1. nextID \in Nat /\ nextID' = nextID + 1
  BY PublishDoes
<1>2. history[s] \in Seq(Event) /\ Len(history[s]) <= replayWindow
        /\ Len(history[s]) \in Nat /\ published[s] \in Nat
  BY SessionTypes
<1>3. CASE s # p
  <2>1. history'[s] = history[s] /\ published'[s] = published[s]
    BY <1>3, PublishDoes DEF TypeOK
  <2>2. HistoryIs(history[s], published[s], nextID + 1)
    BY <1>1 DEF HistoryInv, HistoryIs
  <2> QED
    BY <1>1, <2>1, <2>2 DEF HistoryInv
<1>4. CASE s = p
  <2>1. history'[s] = Kept(history[s], NewEvent(s)) /\ published'[s] = published[s] + 1
    BY <1>4, PublishDoes DEF TypeOK
  <2>2. NewEvent(s) \in Event
          /\ NewEvent(s).ID = nextID + 1 /\ NewEvent(s).n = published[s] + 1
    BY <1>4, PublishDoes DEF NewEvent
  <2>3. HistoryIs(Kept(history[s], NewEvent(s)), published[s] + 1, nextID + 1)
    BY <1>1, <1>2, <2>2, HistoryGrows DEF HistoryInv
  <2> QED
    BY <1>1, <2>1, <2>3 DEF HistoryInv
<1> QED
  BY <1>3, <1>4

-----------------------------------------------------------------------------
(***************************************************************************)
(* The other steps keep every type; a subscription needs histories whose   *)
(* ids grow, or After would not be defined.                                *)
(***************************************************************************)
(* What a subscription puts in the channel.                                *)
Replay(v) ==
  IF lastEventID[v] = 0 THEN <<>>
  ELSE Send(<<>>, After(lastEventID[v], history[Watched[v]]))

(* A client that resumes is sent what follows its last id, as far as it    *)
(* fits.                                                                   *)
LEMMA ReplayOf ==
  ASSUME TypeOK, NEW v \in Viewers, HistoryInv(Watched[v])
  PROVE  /\ Replay(v) \in Seq(Event) /\ Len(Replay(v)) <= subscriberBuffer
         /\ lastEventID[v] = 0 => Len(Replay(v)) = 0
         /\ lastEventID[v] # 0 =>
              \E k \in 0 .. Len(history[Watched[v]]) :
                /\ Len(Replay(v)) = IF Len(history[Watched[v]]) - k > subscriberBuffer
                                      THEN subscriberBuffer
                                      ELSE Len(history[Watched[v]]) - k
                /\ \A i \in 1 .. Len(Replay(v)) :
                     Replay(v)[i] = history[Watched[v]][k + i]
                /\ \A i \in 1 .. Len(history[Watched[v]]) :
                     history[Watched[v]][i].ID > lastEventID[v] <=> k < i
<1> DEFINE h == history[Watched[v]]
           id == lastEventID[v]
           more == After(id, h)
<1>1. h \in Seq(Event) /\ Len(h) \in Nat /\ id \in Nat
  BY ViewerTypes, SessionTypes
<1>2. CASE id = 0
  <2>1. Replay(v) = <<>>
    BY <1>2 DEF Replay
  <2> QED
    BY <1>2, <2>1, EmptySeq, Bounds
<1>3. CASE id # 0
  <2>1. \A i, j \in DOMAIN h : i < j => h[i].ID < h[j].ID
    <3>1. DOMAIN h = 1 .. Len(h)
      BY <1>1, LenProperties
    <3> QED
      BY <3>1 DEF HistoryInv, HistoryIs
  <2> HIDE DEF h, id
  <2>2. /\ more \in Seq(Event)
        /\ Len(more) <= Len(h)
        /\ \A i \in 1 .. Len(more) : more[i] = h[Len(h) - Len(more) + i]
        /\ \A i \in DOMAIN h : h[i].ID > id <=> Len(h) - Len(more) < i
    BY <1>1, <2>1, AfterOf
  <2> HIDE DEF more
  <2>3. Len(more) \in Nat
    BY <2>2, EventsOf
  <2>4. \A i \in 1 .. Len(h) : h[i].ID > id <=> Len(h) - Len(more) < i
    BY <1>1, <2>2, LenProperties
  <2>5. /\ Send(<<>>, more) \in Seq(Event)
        /\ Len(Send(<<>>, more)) =
             IF Len(more) > subscriberBuffer THEN subscriberBuffer ELSE Len(more)
        /\ \A i \in 1 .. Len(Send(<<>>, more)) : Send(<<>>, more)[i] = more[i]
    BY <2>2, SendReplay
  <2>6. Replay(v) = Send(<<>>, more)
    BY <1>3 DEF Replay, h, id, more
  <2> DEFINE k == Len(h) - Len(more)
  <2>7. k \in 0 .. Len(h) /\ Len(h) - k = Len(more)
    BY <1>1, <2>2, <2>3
  <2>8. \A i \in 1 .. Len(Replay(v)) : Replay(v)[i] = h[k + i]
    <3> TAKE i \in 1 .. Len(Replay(v))
    <3>1. i \in 1 .. Len(more)
      BY <2>3, <2>5, <2>6, Bounds
    <3> QED
      BY <2>2, <2>5, <2>6, <3>1
  <2>9. Len(Replay(v)) = IF Len(h) - k > subscriberBuffer THEN subscriberBuffer
                                                          ELSE Len(h) - k
    BY <2>5, <2>6, <2>7
  <2>10. Len(Replay(v)) <= subscriberBuffer
    BY <2>3, <2>5, <2>6, Bounds
  <2>11. \A i \in 1 .. Len(h) : h[i].ID > id <=> k < i
    BY <2>4
  <2> HIDE DEF k
  <2>12. \E m \in 0 .. Len(h) :
           /\ Len(Replay(v)) = IF Len(h) - m > subscriberBuffer THEN subscriberBuffer
                                                                ELSE Len(h) - m
           /\ \A i \in 1 .. Len(Replay(v)) : Replay(v)[i] = h[m + i]
           /\ \A i \in 1 .. Len(h) : h[i].ID > id <=> m < i
    BY <2>7, <2>8, <2>9, <2>11
  <2> QED
    BY <1>3, <2>5, <2>6, <2>10, <2>12 DEF h, id
<1> QED
  BY <1>2, <1>3

LEMMA SubscribeDoes ==
  ASSUME NEW v \in Viewers, Subscribe(v)
  PROVE  /\ stream[v] = "connecting"
         /\ stream' = [stream EXCEPT ![v] = "open"]
         /\ events' = [events EXCEPT ![v] = Replay(v)]
         /\ UNCHANGED <<hub, lastEventID, seen, published, faults>>
  BY DEF Subscribe, Connecting, Replay

LEMMA TypeNext ==
  TypeOK /\ (\A s \in Sessions : HistoryInv(s)) /\ [Next]_vars => TypeOK'
<1> SUFFICES ASSUME TypeOK, \A s \in Sessions : HistoryInv(s), [Next]_vars
             PROVE  TypeOK'
  OBVIOUS
<1>1. CASE UNCHANGED vars
  BY <1>1 DEF TypeOK, vars, hub, viewer, faults
<1>2. ASSUME NEW v \in Viewers, Subscribe(v)
      PROVE  TypeOK'
  <2>1. Replay(v) \in Seq(Event) /\ Len(Replay(v)) <= subscriberBuffer
    BY ViewerTypes, ReplayOf
  <2>2. stream' \in [Viewers -> StreamStates]
    BY <1>2, SubscribeDoes DEF TypeOK, StreamStates
  <2>3. /\ events' \in [Viewers -> Seq(Event)]
        /\ \A u \in Viewers : Len(events'[u]) <= subscriberBuffer
    BY <1>2, <2>1, SubscribeDoes DEF TypeOK
  <2>4. UNCHANGED <<hub, lastEventID, seen, published, faults>>
    BY <1>2, SubscribeDoes
  <2> QED
    BY <2>2, <2>3, <2>4 DEF TypeOK, hub, faults
<1>3. ASSUME NEW v \in Viewers, Refuse(v)
      PROVE  TypeOK'
  <2>1. stream' \in [Viewers -> StreamStates]
    BY <1>3 DEF TypeOK, Refuse, StreamStates
  <2>2. refusals' \in 0 .. MaxRefusals
    BY <1>3, Bounds DEF TypeOK, Refuse
  <2> QED
    BY <1>3, <2>1, <2>2 DEF TypeOK, Refuse, hub
<1>4. ASSUME NEW v \in Viewers, Deliver(v)
      PROVE  TypeOK'
  <2>1. events[v] \in Seq(Event) /\ events[v] # <<>> /\ seen[v] \in Seq(Nat)
          /\ Len(events[v]) <= subscriberBuffer
    BY <1>4, ViewerTypes DEF Deliver
  <2>2. /\ Tail(events[v]) \in Seq(Event)
        /\ Len(Tail(events[v])) <= subscriberBuffer
        /\ Head(events[v]).n \in Nat /\ Head(events[v]).ID \in Nat
    BY <2>1, TailOf, Bounds DEF Event
  <2>3. Append(seen[v], Head(events[v]).n) \in Seq(Nat)
    BY <2>1, <2>2, AppendProperties
  <2>4. /\ events' \in [Viewers -> Seq(Event)]
        /\ \A u \in Viewers : Len(events'[u]) <= subscriberBuffer
    BY <1>4, <2>2 DEF TypeOK, Deliver
  <2>5. seen' \in [Viewers -> Seq(Nat)] /\ lastEventID' \in [Viewers -> Nat]
    BY <1>4, <2>2, <2>3 DEF TypeOK, Deliver
  <2> QED
    BY <1>4, <2>4, <2>5 DEF TypeOK, Deliver, hub, faults
<1>5. ASSUME NEW v \in Viewers, Disconnect(v)
      PROVE  TypeOK'
  <2>1. <<>> \in Seq(Event) /\ Len(<<>>) <= subscriberBuffer
    BY EmptySeq, Bounds
  <2>2. /\ events' \in [Viewers -> Seq(Event)]
        /\ \A u \in Viewers : Len(events'[u]) <= subscriberBuffer
    BY <1>5, <2>1 DEF TypeOK, Disconnect
  <2>3. losses' \in 0 .. MaxLosses /\ stream' \in [Viewers -> StreamStates]
    BY <1>5, Bounds DEF TypeOK, Disconnect, StreamStates
  <2> QED
    BY <1>5, <2>2, <2>3 DEF TypeOK, Disconnect, hub
<1>6. CASE Restart
  <2>1. <<>> \in Seq(Event) /\ Len(<<>>) <= subscriberBuffer /\ Len(<<>>) <= replayWindow
    BY EmptySeq, Bounds
  <2>2. /\ events' \in [Viewers -> Seq(Event)] /\ history' \in [Sessions -> Seq(Event)]
        /\ \A u \in Viewers : Len(events'[u]) <= subscriberBuffer
        /\ \A s \in Sessions : Len(history'[s]) <= replayWindow
    BY <1>6, <2>1 DEF Restart
  <2>3. restarts' \in 0 .. MaxRestarts /\ nextID' \in Nat
    BY <1>6, Bounds DEF TypeOK, Restart
  <2>4. stream' \in [Viewers -> StreamStates] /\ near' \in [Viewers -> BOOLEAN]
    BY <1>6 DEF TypeOK, Restart, StreamStates
  <2> QED
    BY <1>6, <2>2, <2>3, <2>4 DEF TypeOK, Restart
<1> QED
  BY <1>1, <1>2, <1>3, <1>4, <1>5, <1>6, TypePublish DEF Next

LEMMA HistoryInit == Init => \A s \in Sessions : HistoryInv(s)
  BY EmptySeq DEF Init, HistoryInv, HistoryIs

LEMMA HistoryNext ==
  ASSUME TypeOK, NEW s \in Sessions, HistoryInv(s), [Next]_vars
  PROVE  HistoryInv(s)'
<1>1. CASE UNCHANGED <<hub, published>>
  BY <1>1 DEF HistoryInv, hub
<1>2. CASE Restart
  <2>1. history'[s] = <<>> /\ published'[s] \in Nat
    BY <1>2, SessionTypes DEF Restart
  <2> QED
    BY <2>1, EmptySeq DEF HistoryInv, HistoryIs
<1> QED
  BY <1>1, <1>2, HistoryPublish
     DEF Next, Subscribe, Refuse, Deliver, Disconnect, vars

LEMMA HubInvariant == Spec => [](TypeOK /\ \A s \in Sessions : HistoryInv(s))
<1>1. Init => TypeOK /\ \A s \in Sessions : HistoryInv(s)
  BY TypeInit, HistoryInit
<1>2. (TypeOK /\ \A s \in Sessions : HistoryInv(s)) /\ [Next]_vars
        => (TypeOK /\ \A s \in Sessions : HistoryInv(s))'
  BY TypeNext, HistoryNext
<1> QED
  BY <1>1, <1>2, PTL DEF Spec

(***************************************************************************)
(* Every variable keeps its type: above all no channel and no history ever *)
(* holds more than its bound.                                              *)
(***************************************************************************)
THEOREM TypeCorrect == Spec => []TypeOK
  BY HubInvariant, PTL

-----------------------------------------------------------------------------
(***************************************************************************)
(* A viewer: g is what it has been given, id its last id, e its channel; h *)
(* is its session's history, p that session's events, top the ids given.   *)
(*                                                                         *)
(* In the channel, and between channel and history, ids say what came      *)
(* first: all of it has been published since the last restart.             *)
(***************************************************************************)
ChannelIs(e, h, p, top) ==
  /\ \A i \in 1 .. Len(e) : e[i].ID \in 1 .. top /\ e[i].n \in 1 .. p
  /\ \A i, j \in 1 .. Len(e) : i < j => e[i].n < e[j].n
  /\ \A i \in 1 .. Len(e) : \A j \in 1 .. Len(h) : h[j].ID > e[i].ID <=> h[j].n > e[i].n

(* What the viewer has is older than what is on its way, and than what its *)
(* last id would have replayed.                                            *)
ResumeIs(g, id, e, h, p) ==
  /\ \A i \in 1 .. Len(g) : g[i] \in 1 .. p
  /\ \A i, j \in 1 .. Len(g) : i < j => g[i] < g[j]
  /\ \A i \in 1 .. Len(g) : \A j \in 1 .. Len(e) : g[i] < e[j].n
  /\ id = 0 <=> Len(g) = 0
  /\ \A j \in 1 .. Len(h) : h[j].ID > id => \A i \in 1 .. Len(g) : g[i] < h[j].n

LEMMA ChannelKeeps ==
  ASSUME NEW h \in Seq(Event), Len(h) <= replayWindow, NEW ev \in Event,
         NEW p \in Nat, NEW top \in Nat, ev.ID = top + 1, ev.n = p + 1,
         NEW e \in Seq(Event), ChannelIs(e, h, p, top)
  PROVE  ChannelIs(e, Kept(h, ev), p + 1, top + 1)
<1> DEFINE q == Kept(h, ev)
<1>1. /\ q[Len(q)] = ev
      /\ Len(q) = IF Len(h) < replayWindow THEN Len(h) + 1 ELSE Len(h)
      /\ \A i \in 1 .. Len(q) - 1 : /\ Len(h) + 1 - Len(q) + i \in 1 .. Len(h)
                                    /\ q[i] = h[Len(h) + 1 - Len(q) + i]
  BY KeepOne
<1> HIDE DEF q
<1>2. Len(h) \in Nat /\ Len(q) \in Nat /\ Len(e) \in Nat
        /\ \A i \in 1 .. Len(e) : e[i].ID \in Nat /\ e[i].n \in Nat
  BY <1>1, Bounds, EventsOf
<1>3. /\ \A i \in 1 .. Len(e) : e[i].ID \in 1 .. top + 1 /\ e[i].n \in 1 .. p + 1
      /\ \A i, j \in 1 .. Len(e) : i < j => e[i].n < e[j].n
  BY DEF ChannelIs
<1>4. ASSUME NEW i \in 1 .. Len(e), NEW j \in 1 .. Len(q)
      PROVE  q[j].ID > e[i].ID <=> q[j].n > e[i].n
  <2>1. CASE j = Len(q)
    <3>1. q[j].ID = top + 1 /\ q[j].n = p + 1
      BY <1>1, <2>1
    <3>2. e[i].ID \in 1 .. top /\ e[i].n \in 1 .. p
      BY DEF ChannelIs
    <3> QED
      BY <3>1, <3>2
  <2>2. CASE j # Len(q)
    <3>1. j \in 1 .. Len(q) - 1
      BY <1>2, <2>2
    <3>2. PICK k \in 1 .. Len(h) : q[j] = h[k]
      BY <1>1, <3>1
    <3> QED
      BY <3>2 DEF ChannelIs
  <2> QED
    BY <2>1, <2>2
<1>5. ChannelIs(e, q, p + 1, top + 1)
  BY <1>3, <1>4 DEF ChannelIs
<1> QED
  BY <1>5 DEF q

LEMMA ChannelTakes ==
  ASSUME NEW h \in Seq(Event), NEW ev \in Event,
         NEW p \in Nat, NEW top \in Nat, ev.ID = top + 1, ev.n = p + 1,
         HistoryIs(h, p + 1, top + 1),
         NEW e \in Seq(Event), Len(e) <= subscriberBuffer,
         \A i \in 1 .. Len(e) : e[i].n <= p,
         ChannelIs(e, h, p + 1, top + 1)
  PROVE  ChannelIs(Send(e, <<ev>>), h, p + 1, top + 1)
<1> DEFINE c == Send(e, <<ev>>)
<1>1. /\ Len(c) = IF Len(e) < subscriberBuffer THEN Len(e) + 1 ELSE Len(e)
      /\ \A i \in 1 .. Len(e) : c[i] = e[i]
      /\ Len(e) < subscriberBuffer => c[Len(e) + 1] = ev
  BY SendOne
<1> HIDE DEF c
<1>2. Len(h) \in Nat /\ Len(c) \in Nat /\ Len(e) \in Nat
        /\ \A i \in 1 .. Len(e) : e[i].ID \in Nat /\ e[i].n \in Nat
  BY <1>1, Bounds, EventsOf
<1>3. \A i \in 1 .. Len(c) : (i \in 1 .. Len(e) /\ c[i] = e[i])
                               \/ (i = Len(e) + 1 /\ c[i] = ev)
  BY <1>1, <1>2
<1>4. ASSUME NEW i \in 1 .. Len(c)
      PROVE  c[i].ID \in 1 .. top + 1 /\ c[i].n \in 1 .. p + 1
  BY <1>3, <1>4 DEF ChannelIs
<1>5. ASSUME NEW i \in 1 .. Len(c), NEW j \in 1 .. Len(c), i < j
      PROVE  c[i].n < c[j].n
  <2>1. i \in 1 .. Len(e) /\ c[i] = e[i]
    BY <1>2, <1>3, <1>5
  <2>2. CASE j \in 1 .. Len(e) /\ c[j] = e[j]
    BY <1>5, <2>1, <2>2 DEF ChannelIs
  <2>3. CASE c[j] = ev
    BY <1>2, <2>1, <2>3
  <2> QED
    BY <1>3, <1>5, <2>2, <2>3
<1>6. ASSUME NEW i \in 1 .. Len(c), NEW j \in 1 .. Len(h)
      PROVE  h[j].ID > c[i].ID <=> h[j].n > c[i].n
  <2>1. CASE i \in 1 .. Len(e) /\ c[i] = e[i]
    BY <1>6, <2>1 DEF ChannelIs
  <2>2. CASE c[i] = ev
    <3>1. h[j].ID \in 1 .. top + 1 /\ h[j].n = p + 1 - Len(h) + j
      BY <1>6 DEF HistoryIs
    <3>2. h[j].n <= p + 1 /\ h[j].n \in Int
      BY <1>2, <1>6, <3>1
    <3> QED
      BY <2>2, <3>1, <3>2
  <2> QED
    BY <1>3, <1>6, <2>1, <2>2
<1>7. ChannelIs(c, h, p + 1, top + 1)
  BY <1>4, <1>5, <1>6 DEF ChannelIs
<1> QED
  BY <1>7 DEF c

(* More ids, given to other sessions.                                      *)
LEMMA ChannelElsewhere ==
  ASSUME NEW e \in Seq(Event), NEW h, NEW p \in Nat, NEW top \in Nat,
         ChannelIs(e, h, p, top)
  PROVE  ChannelIs(e, h, p, top + 1)
  BY DEF ChannelIs

(* A replay: a stretch of the history.                                     *)
LEMMA ChannelReplays ==
  ASSUME NEW h \in Seq(Event), NEW p \in Nat, NEW top \in Nat,
         HistoryIs(h, p, top), NEW e \in Seq(Event),
         NEW k \in 0 .. Len(h), Len(e) <= Len(h) - k,
         \A i \in 1 .. Len(e) : e[i] = h[k + i]
  PROVE  ChannelIs(e, h, p, top)
<1>1. Len(h) \in Nat /\ Len(e) \in Nat /\ k \in Nat
        /\ \A i \in 1 .. Len(h) : h[i].ID \in Nat /\ h[i].n \in Nat
  BY EventsOf
<1>2. \A i \in 1 .. Len(e) : k + i \in 1 .. Len(h)
  BY <1>1
<1>3. ASSUME NEW i \in 1 .. Len(h)
      PROVE  h[i].ID \in 1 .. top /\ h[i].n = p - Len(h) + i /\ h[i].n \in 1 .. p
  BY <1>1, <1>3 DEF HistoryIs
<1>4. ASSUME NEW i \in 1 .. Len(h), NEW j \in 1 .. Len(h)
      PROVE  h[j].ID > h[i].ID <=> h[j].n > h[i].n
  <2>1. h[j].n > h[i].n <=> j > i
    BY <1>1, <1>3, <1>4
  <2>2. CASE j > i
    <3>1. h[i].ID < h[j].ID
      BY <2>2 DEF HistoryIs
    <3> QED
      BY <1>1, <2>1, <2>2, <3>1
  <2>3. CASE j = i
    BY <1>1, <2>1, <2>3
  <2>4. CASE j < i
    <3>1. h[j].ID < h[i].ID
      BY <2>4 DEF HistoryIs
    <3> QED
      BY <1>1, <2>1, <2>4, <3>1
  <2> QED
    BY <2>2, <2>3, <2>4
<1>5. \A i \in 1 .. Len(e) : e[i].ID \in 1 .. top /\ e[i].n \in 1 .. p
  BY <1>2, <1>3
<1>6. ASSUME NEW i \in 1 .. Len(e), NEW j \in 1 .. Len(e), i < j
      PROVE  e[i].n < e[j].n
  <2>1. k + i \in 1 .. Len(h) /\ k + j \in 1 .. Len(h) /\ k + i < k + j
    BY <1>1, <1>2, <1>6
  <2>2. h[k + i].n < h[k + j].n
    BY <1>1, <1>3, <2>1
  <2> QED
    BY <2>2
<1>7. \A i \in 1 .. Len(e) : \A j \in 1 .. Len(h) : h[j].ID > e[i].ID <=> h[j].n > e[i].n
  BY <1>2, <1>4
<1> QED
  BY <1>5, <1>6, <1>7 DEF ChannelIs

(* The next event is dispatched.                                           *)
LEMMA ChannelGives ==
  ASSUME NEW e \in Seq(Event), e # <<>>, NEW h, NEW p \in Nat, NEW top \in Nat,
         ChannelIs(e, h, p, top)
  PROVE  ChannelIs(Tail(e), h, p, top)
<1>1. Len(e) \in Nat \ {0} /\ Len(Tail(e)) = Len(e) - 1
        /\ \A i \in 1 .. Len(Tail(e)) : Tail(e)[i] = e[i + 1]
  BY TailOf
<1>2. \A i \in 1 .. Len(Tail(e)) : i + 1 \in 1 .. Len(e)
  BY <1>1
<1>3. ASSUME NEW i \in 1 .. Len(Tail(e)), NEW j \in 1 .. Len(Tail(e)), i < j
      PROVE  Tail(e)[i].n < Tail(e)[j].n
  <2>1. e[i + 1].n < e[j + 1].n
    BY <1>1, <1>2, <1>3 DEF ChannelIs
  <2> QED
    BY <1>1, <2>1
<1>4. /\ \A i \in 1 .. Len(Tail(e)) : Tail(e)[i].ID \in 1 .. top /\ Tail(e)[i].n \in 1 .. p
      /\ \A i \in 1 .. Len(Tail(e)) : \A j \in 1 .. Len(h) :
           h[j].ID > Tail(e)[i].ID <=> h[j].n > Tail(e)[i].n
  BY <1>1, <1>2 DEF ChannelIs
<1> QED
  BY <1>3, <1>4 DEF ChannelIs

(* The session has one more event, in its history and perhaps the channel. *)
LEMMA ResumeKeeps ==
  ASSUME NEW h \in Seq(Event), Len(h) <= replayWindow, NEW ev \in Event,
         NEW p \in Nat, ev.n = p + 1, NEW e, NEW id, NEW g \in Seq(Nat),
         ResumeIs(g, id, e, h, p)
  PROVE  ResumeIs(g, id, e, Kept(h, ev), p + 1)
<1> DEFINE q == Kept(h, ev)
<1>1. /\ q[Len(q)] = ev
      /\ Len(q) = IF Len(h) < replayWindow THEN Len(h) + 1 ELSE Len(h)
      /\ \A i \in 1 .. Len(q) - 1 : /\ Len(h) + 1 - Len(q) + i \in 1 .. Len(h)
                                    /\ q[i] = h[Len(h) + 1 - Len(q) + i]
  BY KeepOne
<1> HIDE DEF q
<1>2. Len(h) \in Nat /\ Len(q) \in Nat
  BY <1>1, Bounds, EventsOf
<1>3. \A i \in 1 .. Len(g) : g[i] \in 1 .. p /\ g[i] \in 1 .. p + 1
  BY DEF ResumeIs
<1>4. ASSUME NEW j \in 1 .. Len(q), q[j].ID > id, NEW i \in 1 .. Len(g)
      PROVE  g[i] < q[j].n
  <2>1. CASE j = Len(q)
    BY <1>1, <1>3, <1>4, <2>1
  <2>2. CASE j # Len(q)
    <3>1. j \in 1 .. Len(q) - 1
      BY <1>2, <1>4, <2>2
    <3>2. PICK k \in 1 .. Len(h) : q[j] = h[k]
      BY <1>1, <3>1
    <3> QED
      BY <1>4, <3>2 DEF ResumeIs
  <2> QED
    BY <2>1, <2>2
<1>5. ResumeIs(g, id, e, q, p + 1)
  BY <1>3, <1>4 DEF ResumeIs
<1> QED
  BY <1>5 DEF q

LEMMA ResumeTakes ==
  ASSUME NEW h, NEW ev \in Event, NEW p \in Nat, ev.n = p + 1,
         NEW e \in Seq(Event), Len(e) <= subscriberBuffer, NEW id, NEW g \in Seq(Nat),
         ResumeIs(g, id, e, h, p + 1), \A i \in 1 .. Len(g) : g[i] \in 1 .. p
  PROVE  ResumeIs(g, id, Send(e, <<ev>>), h, p + 1)
<1> DEFINE c == Send(e, <<ev>>)
<1>1. /\ Len(c) = IF Len(e) < subscriberBuffer THEN Len(e) + 1 ELSE Len(e)
      /\ \A i \in 1 .. Len(e) : c[i] = e[i]
      /\ Len(e) < subscriberBuffer => c[Len(e) + 1] = ev
  BY SendOne
<1> HIDE DEF c
<1>2. Len(c) \in Nat /\ Len(e) \in Nat
  BY <1>1, Bounds, EventsOf
<1>3. \A i \in 1 .. Len(c) : (i \in 1 .. Len(e) /\ c[i] = e[i]) \/ c[i] = ev
  BY <1>1, <1>2
<1>4. \A i \in 1 .. Len(g) : g[i] \in 1 .. p /\ g[i] < ev.n
  OBVIOUS
<1>5. \A i \in 1 .. Len(g) : \A j \in 1 .. Len(c) : g[i] < c[j].n
  BY <1>3, <1>4 DEF ResumeIs
<1>6. ResumeIs(g, id, c, h, p + 1)
  BY <1>5 DEF ResumeIs
<1> QED
  BY <1>6 DEF c

(* The next event is dispatched, and its id noted.                         *)
LEMMA ResumeGives ==
  ASSUME NEW e \in Seq(Event), e # <<>>, NEW h, NEW p \in Nat, NEW top \in Nat,
         ChannelIs(e, h, p, top), NEW id, NEW g \in Seq(Nat),
         ResumeIs(g, id, e, h, p),
         \A j \in 1 .. Len(h) : h[j].ID \in Nat /\ h[j].n \in Nat
  PROVE  ResumeIs(Append(g, Head(e).n), Head(e).ID, Tail(e), h, p)
<1> DEFINE m == Append(g, Head(e).n)
<1>1. /\ Len(e) \in Nat \ {0} /\ Len(Tail(e)) = Len(e) - 1 /\ Head(e) = e[1]
      /\ \A i \in 1 .. Len(Tail(e)) : Tail(e)[i] = e[i + 1]
  BY TailOf
<1>2. /\ 1 \in 1 .. Len(e)
      /\ e[1].ID \in 1 .. top /\ e[1].n \in 1 .. p
  BY <1>1 DEF ChannelIs
<1>3. /\ Len(m) = Len(g) + 1 /\ Len(g) \in Nat
      /\ \A i \in 1 .. Len(g) : m[i] = g[i]
      /\ m[Len(g) + 1] = e[1].n
  <2>1. Head(e).n \in Nat /\ Head(e).n = e[1].n
    BY <1>1, <1>2
  <2> QED
    BY <2>1, AppendProperties, LenProperties
<1> HIDE DEF m
<1>4. \A i \in 1 .. Len(m) : (i \in 1 .. Len(g) /\ m[i] = g[i])
                               \/ (i = Len(g) + 1 /\ m[i] = e[1].n)
  BY <1>3
<1>5. \A i \in 1 .. Len(g) : g[i] \in 1 .. p /\ g[i] < e[1].n
  BY <1>2 DEF ResumeIs
<1>6. \A i \in 1 .. Len(m) : m[i] \in 1 .. p /\ m[i] <= e[1].n
  BY <1>2, <1>4, <1>5
<1>7. ASSUME NEW i \in 1 .. Len(m), NEW j \in 1 .. Len(m), i < j
      PROVE  m[i] < m[j]
  <2>1. i \in 1 .. Len(g) /\ m[i] = g[i]
    BY <1>3, <1>4, <1>7
  <2>2. CASE j \in 1 .. Len(g) /\ m[j] = g[j]
    BY <1>7, <2>1, <2>2 DEF ResumeIs
  <2>3. CASE m[j] = e[1].n
    BY <1>5, <2>1, <2>3
  <2> QED
    BY <1>4, <1>7, <2>2, <2>3
<1>8. ASSUME NEW j \in 1 .. Len(Tail(e))
      PROVE  Tail(e)[j].n > e[1].n /\ Tail(e)[j].n \in Nat
  <2>1. j + 1 \in 1 .. Len(e) /\ 1 < j + 1 /\ Tail(e)[j] = e[j + 1]
    BY <1>1, <1>8
  <2> QED
    BY <1>2, <2>1 DEF ChannelIs
<1>9. \A i \in 1 .. Len(m) : \A j \in 1 .. Len(Tail(e)) : m[i] < Tail(e)[j].n
  BY <1>2, <1>6, <1>8
<1>10. ASSUME NEW j \in 1 .. Len(h), h[j].ID > e[1].ID, NEW i \in 1 .. Len(m)
       PROVE  m[i] < h[j].n
  <2>1. h[j].n > e[1].n
    BY <1>2, <1>10 DEF ChannelIs
  <2> QED
    BY <1>2, <1>6, <1>10, <2>1
<1>11. ResumeIs(m, e[1].ID, Tail(e), h, p)
  BY <1>2, <1>3, <1>6, <1>7, <1>9, <1>10 DEF ResumeIs
<1> QED
  BY <1>1, <1>11 DEF m

(* A replay starts after what the viewer has.                              *)
LEMMA ResumeReplays ==
  ASSUME NEW h \in Seq(Event), NEW p, NEW e \in Seq(Event), NEW c,
         NEW k \in 0 .. Len(h), Len(e) <= Len(h) - k,
         \A i \in 1 .. Len(e) : e[i] = h[k + i],
         NEW id, NEW g, ResumeIs(g, id, c, h, p),
         \A i \in 1 .. Len(h) : h[i].ID > id <=> k < i
  PROVE  ResumeIs(g, id, e, h, p)
<1>1. Len(h) \in Nat /\ Len(e) \in Nat /\ k \in Nat
  BY EventsOf
<1>2. \A i \in 1 .. Len(e) : k + i \in 1 .. Len(h) /\ k < k + i
  BY <1>1
<1>3. \A i \in 1 .. Len(g) : \A j \in 1 .. Len(e) : g[i] < e[j].n
  BY <1>2 DEF ResumeIs
<1> QED
  BY <1>3 DEF ResumeIs

(* The channel is emptied, and after a restart the history too.            *)
LEMMA ResumeCut ==
  ASSUME NEW h, NEW p, NEW e, NEW id, NEW g, ResumeIs(g, id, e, h, p)
  PROVE  ResumeIs(g, id, <<>>, h, p) /\ ResumeIs(g, id, <<>>, <<>>, p)
<1>1. 1 .. Len(<<>>) = {}
  BY EmptySeq
<1> QED
  BY <1>1 DEF ResumeIs

LEMMA ChannelCut ==
  ASSUME NEW h, NEW p, NEW top
  PROVE  ChannelIs(<<>>, h, p, top)
<1>1. 1 .. Len(<<>>) = {}
  BY EmptySeq
<1> QED
  BY <1>1 DEF ChannelIs

-----------------------------------------------------------------------------
(***************************************************************************)
(* The viewers' invariant, step by step.                                   *)
(***************************************************************************)
ViewerInv(v) ==
  LET s == Watched[v]
  IN  /\ stream[v] # "open" => events[v] = <<>>
      /\ ChannelIs(events[v], history[s], published[s], nextID)
      /\ ResumeIs(seen[v], lastEventID[v], events[v], history[s], published[s])

LEMMA ViewerPublish ==
  ASSUME TypeOK, NEW s \in Sessions, Publish(s), HistoryInv(s)',
         NEW v \in Viewers, ViewerInv(v)
  PROVE  ViewerInv(v)'
<1> DEFINE ev == NewEvent(s)
           w == Watched[v]
<1>1. nextID \in Nat /\ nextID' = nextID + 1
        /\ UNCHANGED <<stream, lastEventID, seen>>
  BY PublishDoes
<1>2. w \in Sessions /\ events[v] \in Seq(Event) /\ Len(events[v]) <= subscriberBuffer
        /\ seen[v] \in Seq(Nat)
  BY ViewerTypes
<1>3. history[w] \in Seq(Event) /\ Len(history[w]) <= replayWindow /\ published[w] \in Nat
  BY <1>2, SessionTypes
<1>4. CASE w # s
  <2>1. history'[w] = history[w] /\ published'[w] = published[w] /\ events'[v] = events[v]
    <3>1. events'[v] = events[v]
      <4>1. events' = [u \in Viewers |->
              IF stream[u] = "open" /\ Watched[u] = s
                THEN Send(events[u], <<ev>>) ELSE events[u]]
        BY PublishDoes
      <4> QED
        BY <1>4, <4>1
    <3>2. history'[w] = history[w] /\ published'[w] = published[w]
      BY <1>2, <1>4, PublishDoes DEF TypeOK
    <3> QED
      BY <3>1, <3>2
  <2>2. ChannelIs(events[v], history[w], published[w], nextID + 1)
    BY <1>1, <1>2, <1>3, ChannelElsewhere DEF ViewerInv
  <2> QED
    BY <1>1, <2>1, <2>2 DEF ViewerInv
<1>5. CASE w = s
  <2>1. ev \in Event /\ ev.ID = nextID + 1 /\ ev.n = published[w] + 1
    BY <1>5, PublishDoes DEF NewEvent
  <2>2. history'[w] = Kept(history[w], ev) /\ published'[w] = published[w] + 1
    BY <1>2, <1>5, PublishDoes DEF TypeOK
  <2>3. events'[v] = IF stream[v] = "open" THEN Send(events[v], <<ev>>) ELSE events[v]
    BY <1>5, PublishDoes
  <2> HIDE DEF ev
  <2>4. ChannelIs(events[v], Kept(history[w], ev), published[w] + 1, nextID + 1)
    BY <1>1, <1>2, <1>3, <2>1, ChannelKeeps DEF ViewerInv
  <2>5. ResumeIs(seen[v], lastEventID[v], events[v], Kept(history[w], ev), published[w] + 1)
    BY <1>2, <1>3, <2>1, ResumeKeeps DEF ViewerInv
  <2>6. CASE stream[v] # "open"
    BY <1>1, <2>2, <2>3, <2>4, <2>5, <2>6 DEF ViewerInv
  <2>7. CASE stream[v] = "open"
    <3>1. Kept(history[w], ev) \in Seq(Event)
      BY <1>3, <2>1, KeepOne
    <3>2. HistoryIs(Kept(history[w], ev), published[w] + 1, nextID + 1)
      BY <1>1, <1>5, <2>2 DEF HistoryInv
    <3>3. \A i \in 1 .. Len(events[v]) : events[v][i].n <= published[w]
      BY <1>3 DEF ViewerInv, ChannelIs
    <3>4. \A i \in 1 .. Len(seen[v]) : seen[v][i] \in 1 .. published[w]
      BY DEF ViewerInv, ResumeIs
    <3>5. ChannelIs(Send(events[v], <<ev>>), Kept(history[w], ev), published[w] + 1, nextID + 1)
      BY <1>1, <1>2, <1>3, <2>1, <2>4, <3>1, <3>2, <3>3, ChannelTakes
    <3>6. ResumeIs(seen[v], lastEventID[v], Send(events[v], <<ev>>),
                   Kept(history[w], ev), published[w] + 1)
      BY <1>2, <1>3, <2>1, <2>5, <3>4, ResumeTakes
    <3> QED
      BY <1>1, <2>2, <2>3, <2>7, <3>5, <3>6 DEF ViewerInv
  <2> QED
    BY <2>6, <2>7
<1> QED
  BY <1>4, <1>5

LEMMA ViewerSubscribe ==
  ASSUME TypeOK, NEW v \in Viewers, Subscribe(v), HistoryInv(Watched[v]), ViewerInv(v)
  PROVE  ViewerInv(v)'
<1> DEFINE w == Watched[v]
           h == history[w]
           e == Replay(v)
<1>1. events'[v] = e /\ stream'[v] = "open" /\ UNCHANGED <<hub, lastEventID, seen, published>>
  BY SubscribeDoes DEF TypeOK
<1>2. h \in Seq(Event) /\ Len(h) \in Nat /\ published[w] \in Nat /\ nextID \in Nat
  BY ViewerTypes, SessionTypes
<1>3. /\ e \in Seq(Event) /\ Len(e) \in Nat
      /\ lastEventID[v] = 0 => e = <<>>
  BY ReplayOf, EventsOf DEF Replay
<1>4. CASE lastEventID[v] = 0
  BY <1>1, <1>3, <1>4, ResumeCut, ChannelCut DEF ViewerInv, hub
<1>5. CASE lastEventID[v] # 0
  <2>1. PICK k \in 0 .. Len(h) :
          /\ Len(e) = IF Len(h) - k > subscriberBuffer THEN subscriberBuffer
                                                       ELSE Len(h) - k
          /\ \A i \in 1 .. Len(e) : e[i] = h[k + i]
          /\ \A i \in 1 .. Len(h) : h[i].ID > lastEventID[v] <=> k < i
    BY <1>5, ReplayOf
  <2>2. Len(e) <= Len(h) - k
    BY <1>2, <1>3, <2>1, Bounds
  <2>3. HistoryIs(h, published[w], nextID)
    BY DEF HistoryInv
  <2>4. ChannelIs(events[v], h, published[w], nextID)
          /\ ResumeIs(seen[v], lastEventID[v], events[v], h, published[w])
    BY DEF ViewerInv
  <2> HIDE DEF e, h
  <2>5. ChannelIs(e, h, published[w], nextID)
    BY <1>2, <1>3, <2>1, <2>2, <2>3, ChannelReplays
  <2>6. ResumeIs(seen[v], lastEventID[v], e, h, published[w])
    BY <1>2, <1>3, <2>1, <2>2, <2>4, ResumeReplays
  <2> QED
    BY <1>1, <2>5, <2>6 DEF ViewerInv, hub, h
<1> QED
  BY <1>4, <1>5

LEMMA ViewerDeliver ==
  ASSUME TypeOK, NEW v \in Viewers, Deliver(v), ViewerInv(v)
  PROVE  ViewerInv(v)'
<1> DEFINE w == Watched[v]
           e == events[v]
<1>1. /\ e # <<>> /\ events'[v] = Tail(e) /\ seen'[v] = Append(seen[v], Head(e).n)
      /\ lastEventID'[v] = Head(e).ID /\ UNCHANGED <<hub, stream, published>>
  BY DEF TypeOK, Deliver
<1>2. e \in Seq(Event) /\ seen[v] \in Seq(Nat) /\ w \in Sessions
  BY ViewerTypes
<1>3. history[w] \in Seq(Event) /\ published[w] \in Nat /\ nextID \in Nat
  BY <1>2, SessionTypes
<1>4. \A j \in 1 .. Len(history[w]) : history[w][j].ID \in Nat /\ history[w][j].n \in Nat
  BY <1>3, EventsOf
<1>5. stream[v] = "open" /\ ChannelIs(e, history[w], published[w], nextID)
        /\ ResumeIs(seen[v], lastEventID[v], e, history[w], published[w])
  BY <1>1 DEF ViewerInv
<1> HIDE DEF e, w
<1>6. ChannelIs(Tail(e), history[w], published[w], nextID)
  BY <1>1, <1>2, <1>3, <1>5, ChannelGives
<1>7. ResumeIs(Append(seen[v], Head(e).n), Head(e).ID, Tail(e), history[w], published[w])
  BY <1>1, <1>2, <1>3, <1>4, <1>5, ResumeGives
<1> QED
  BY <1>1, <1>5, <1>6, <1>7 DEF ViewerInv, hub, w

LEMMA ViewerCut ==
  ASSUME TypeOK, NEW v \in Viewers, ViewerInv(v),
         events'[v] = <<>>, UNCHANGED <<lastEventID, seen, published>>,
         UNCHANGED hub \/ history'[Watched[v]] = <<>>
  PROVE  ViewerInv(v)'
  BY ResumeCut, ChannelCut DEF ViewerInv, hub

LEMMA ViewerNext ==
  ASSUME TypeOK, \A s \in Sessions : HistoryInv(s), \A s \in Sessions : HistoryInv(s)',
         NEW v \in Viewers, ViewerInv(v), [Next]_vars
  PROVE  ViewerInv(v)'
<1>1. ASSUME UNCHANGED <<hub, published>>, events'[v] = events[v], stream'[v] = stream[v],
             seen'[v] = seen[v], lastEventID'[v] = lastEventID[v]
      PROVE  ViewerInv(v)'
  BY <1>1 DEF ViewerInv, hub
<1>2. CASE UNCHANGED vars
  BY <1>1, <1>2 DEF vars, viewer
<1>3. ASSUME NEW u \in Viewers, Subscribe(u)
      PROVE  ViewerInv(v)'
  <2>1. CASE u = v
    BY <1>3, <2>1, ViewerTypes, ViewerSubscribe
  <2>2. CASE u # v
    BY <1>1, <1>3, <2>2, SubscribeDoes DEF TypeOK
  <2> QED
    BY <2>1, <2>2
<1>4. ASSUME NEW u \in Viewers, Refuse(u)
      PROVE  ViewerInv(v)'
  <2>1. CASE u = v
    BY <1>4, <2>1 DEF Refuse, Connecting, TypeOK, ViewerInv, hub
  <2>2. CASE u # v
    BY <1>1, <1>4, <2>2 DEF TypeOK, Refuse
  <2> QED
    BY <2>1, <2>2
<1>5. ASSUME NEW u \in Viewers, Deliver(u)
      PROVE  ViewerInv(v)'
  <2>1. CASE u = v
    BY <1>5, <2>1, ViewerDeliver
  <2>2. CASE u # v
    BY <1>1, <1>5, <2>2 DEF TypeOK, Deliver
  <2> QED
    BY <2>1, <2>2
<1>6. ASSUME NEW u \in Viewers, Disconnect(u)
      PROVE  ViewerInv(v)'
  <2>1. CASE u = v
    BY <1>6, <2>1, ViewerCut DEF Disconnect, TypeOK
  <2>2. CASE u # v
    BY <1>1, <1>6, <2>2 DEF TypeOK, Disconnect
  <2> QED
    BY <2>1, <2>2
<1>7. CASE Restart
  BY <1>7, ViewerTypes, ViewerCut DEF Restart
<1> QED
  BY <1>2, <1>3, <1>4, <1>5, <1>6, <1>7, ViewerPublish DEF Next

LEMMA ViewerInit == Init => \A v \in Viewers : ViewerInv(v)
<1> SUFFICES ASSUME Init, NEW v \in Viewers PROVE ViewerInv(v)
  OBVIOUS
<1>1. Watched[v] \in Sessions /\ Len(<<>>) = 0 /\ 1 .. Len(<<>>) = {}
  BY LiveFeedAssumption, EmptySeq
<1> QED
  BY <1>1 DEF Init, ViewerInv, ChannelIs, ResumeIs

LEMMA FeedInvariant ==
  Spec => [](TypeOK /\ (\A s \in Sessions : HistoryInv(s)) /\ \A v \in Viewers : ViewerInv(v))
<1> DEFINE Hub == \A s \in Sessions : HistoryInv(s)
           Page == \A v \in Viewers : ViewerInv(v)
<1>1. Init => Page
  BY ViewerInit
<1>2. TypeOK /\ Hub /\ Hub' /\ Page /\ [Next]_vars => Page'
  BY ViewerNext
<1>3. Spec => [](TypeOK /\ Hub)
  BY HubInvariant
<1> HIDE DEF Hub, Page
<1>4. Spec => [](TypeOK /\ Hub /\ Page)
  BY <1>1, <1>2, <1>3, PTL DEF Spec
<1> QED
  BY <1>4 DEF Hub, Page

(* What a viewer has received, element by element.                         *)
LEMMA ReceivedOf ==
  ASSUME TypeOK, NEW v \in Viewers
  PROVE  /\ Received(v) \in Seq(Nat)
         /\ Len(Received(v)) = Len(seen[v]) + Len(events[v])
         /\ \A i \in 1 .. Len(seen[v]) + Len(events[v]) :
              Received(v)[i] = IF i <= Len(seen[v]) THEN seen[v][i]
                               ELSE events[v][i - Len(seen[v])].n
<1>1. /\ events[v] \in Seq(Event) /\ Len(events[v]) \in Nat
      /\ seen[v] \in Seq(Nat) /\ Len(seen[v]) \in Nat
  BY ViewerTypes
<1>2. Pending(v) = [i \in 1 .. Len(events[v]) |-> events[v][i].n]
  BY <1>1, LenProperties DEF Pending
<1>3. Pending(v) \in [1 .. Len(events[v]) -> Nat]
  BY <1>1, <1>2, EventsOf
<1>4. Pending(v) \in Seq(Nat)
  BY <1>1, <1>3, SeqDef
<1>5. Len(Pending(v)) = Len(events[v])
  BY <1>1, <1>3, <1>4, LenProperties
<1>6. /\ Received(v) \in Seq(Nat)
      /\ Len(Received(v)) = Len(seen[v]) + Len(Pending(v))
      /\ \A i \in 1 .. Len(seen[v]) + Len(Pending(v)) :
           Received(v)[i] = IF i <= Len(seen[v]) THEN seen[v][i]
                            ELSE Pending(v)[i - Len(seen[v])]
  BY <1>1, <1>4, ConcatProperties DEF Received
<1>7. \A a, b \in Nat : \A i \in 1 .. a + b : ~(i <= a) => i - a \in 1 .. b
  OBVIOUS
<1> QED
  BY <1>1, <1>2, <1>5, <1>6, <1>7

(***************************************************************************)
(* No viewer is ever given an event twice or out of order, in any          *)
(* interleaving of publishing, writing, broken connections, resumed        *)
(* streams and restarts that start the ids over.                           *)
(***************************************************************************)
THEOREM NothingTwice == Spec => []NeverTwice
<1>1. TypeOK /\ (\A v \in Viewers : ViewerInv(v)) => NeverTwice
  <2> SUFFICES ASSUME TypeOK, NEW v \in Viewers, ViewerInv(v),
                      NEW i \in DOMAIN Received(v), NEW j \in DOMAIN Received(v), i < j
               PROVE  Received(v)[i] < Received(v)[j]
    BY DEF NeverTwice
  <2> DEFINE g == seen[v]
             e == events[v]
  <2>1. i \in 1 .. Len(g) + Len(e) /\ j \in 1 .. Len(g) + Len(e)
    BY ReceivedOf, LenProperties
  <2>2. Len(g) \in Nat /\ Len(e) \in Nat
    BY ViewerTypes
  <2>3. /\ Received(v)[i] = IF i <= Len(g) THEN g[i] ELSE e[i - Len(g)].n
        /\ Received(v)[j] = IF j <= Len(g) THEN g[j] ELSE e[j - Len(g)].n
    BY <2>1, ReceivedOf
  <2>4. ChannelIs(e, history[Watched[v]], published[Watched[v]], nextID)
          /\ ResumeIs(g, lastEventID[v], e, history[Watched[v]], published[Watched[v]])
    BY DEF ViewerInv
  <2> HIDE DEF g, e
  <2>5. CASE j <= Len(g)
    <3>1. i \in 1 .. Len(g) /\ j \in 1 .. Len(g) /\ i <= Len(g)
      BY <2>1, <2>2, <2>5
    <3> QED
      BY <2>3, <2>4, <2>5, <3>1 DEF ResumeIs
  <2>6. CASE ~(j <= Len(g)) /\ i <= Len(g)
    <3>1. i \in 1 .. Len(g) /\ j - Len(g) \in 1 .. Len(e)
      BY <2>1, <2>2, <2>6
    <3> QED
      BY <2>3, <2>4, <2>6, <3>1 DEF ResumeIs
  <2>7. CASE ~(j <= Len(g)) /\ ~(i <= Len(g))
    <3>1. i - Len(g) \in 1 .. Len(e) /\ j - Len(g) \in 1 .. Len(e)
            /\ i - Len(g) < j - Len(g)
      BY <2>1, <2>2, <2>7
    <3> QED
      BY <2>3, <2>4, <2>7, <3>1 DEF ChannelIs
  <2> QED
    BY <2>5, <2>6, <2>7
<1> QED
  BY <1>1, FeedInvariant, PTL

-----------------------------------------------------------------------------
(***************************************************************************)
(* A viewer that has always been near has no gap.  CaughtUp: everything    *)
(* after the last event it was given fits in the channel, and is in the    *)
(* history, behind its last id.  Flowing: what is in the channel is all    *)
(* that follows.  Fresh: the same before the first event is given.         *)
(***************************************************************************)
CaughtUp(g, id, h, p, top) ==
  /\ \A i \in 1 .. Len(g) : g[i] = g[1] + i - 1
  /\ g[Len(g)] <= p /\ p - g[Len(g)] <= Room /\ p - g[Len(g)] <= Len(h)
  /\ id \in 1 .. top
  /\ \A j \in 1 .. Len(h) : h[j].n > g[Len(g)] => h[j].ID > id

Flowing(last, e, p) ==
  Len(e) = p - last /\ \A i \in 1 .. Len(e) : e[i].n = last + i

Fresh(e, h, p) ==
  /\ \A i \in 1 .. Len(e) : e[i].n = p - Len(e) + i
  /\ Len(e) <= Room /\ Len(e) <= Len(h)

NearIs(g, id, e, h, p, top, st) ==
  /\ Len(g) # 0 => /\ CaughtUp(g, id, h, p, top)
                   /\ st = "open" => Flowing(g[Len(g)], e, p)
  /\ Len(g) = 0 => Fresh(e, h, p)

NearInv(v) ==
  near[v] => NearIs(seen[v], lastEventID[v], events[v], history[Watched[v]],
                    published[Watched[v]], nextID, stream[v])

(* The session has one more event, still within Room.                      *)
LEMMA CaughtUpKeeps ==
  ASSUME NEW h \in Seq(Event), Len(h) <= replayWindow, NEW ev \in Event,
         NEW p \in Nat, NEW top \in Nat, ev.ID = top + 1, ev.n = p + 1,
         NEW g \in Seq(Nat), Len(g) # 0, NEW id \in Nat,
         CaughtUp(g, id, h, p, top), p + 1 - g[Len(g)] <= Room
  PROVE  CaughtUp(g, id, Kept(h, ev), p + 1, top + 1)
<1> DEFINE q == Kept(h, ev)
           last == g[Len(g)]
<1>1. /\ q[Len(q)] = ev
      /\ Len(q) = IF Len(h) < replayWindow THEN Len(h) + 1 ELSE Len(h)
      /\ \A i \in 1 .. Len(q) - 1 : /\ Len(h) + 1 - Len(q) + i \in 1 .. Len(h)
                                    /\ q[i] = h[Len(h) + 1 - Len(q) + i]
  BY KeepOne
<1> HIDE DEF q
<1>2. Len(h) \in Nat /\ Len(q) \in Nat /\ Len(g) \in Nat \ {0}
  BY <1>1, Bounds, EventsOf, LenProperties
<1>3. Len(g) \in 1 .. Len(g)
  BY <1>2
<1>4. last \in Nat
  BY <1>3, ElementOfSeq
<1>5. last <= p /\ p - last <= Len(h) /\ id \in 1 .. top /\ p + 1 - last <= Room
  BY DEF CaughtUp
<1>6. p + 1 - last <= Len(q)
  BY <1>1, <1>2, <1>4, <1>5, Bounds
<1>7. ASSUME NEW j \in 1 .. Len(q), q[j].n > last
      PROVE  q[j].ID > id
  <2>1. CASE j = Len(q)
    BY <1>1, <1>5, <2>1
  <2>2. CASE j # Len(q)
    <3>1. j \in 1 .. Len(q) - 1
      BY <1>2, <1>7, <2>2
    <3>2. PICK k \in 1 .. Len(h) : q[j] = h[k]
      BY <1>1, <3>1
    <3> QED
      BY <1>7, <3>2 DEF CaughtUp
  <2> QED
    BY <2>1, <2>2
<1>8. CaughtUp(g, id, q, p + 1, top + 1)
  <2>1. last <= p + 1 /\ id \in 1 .. top + 1
    BY <1>4, <1>5
  <2>2. \A i \in 1 .. Len(g) : g[i] = g[1] + i - 1
    BY DEF CaughtUp
  <2> QED
    BY <1>5, <1>6, <1>7, <2>1, <2>2 DEF CaughtUp
<1> QED
  BY <1>8 DEF q

LEMMA FlowingTakes ==
  ASSUME NEW ev \in Event, NEW p \in Nat, ev.n = p + 1,
         NEW last \in Nat, NEW e \in Seq(Event), Len(e) <= subscriberBuffer,
         Flowing(last, e, p), p + 1 - last <= Room
  PROVE  Flowing(last, Send(e, <<ev>>), p + 1)
<1> DEFINE c == Send(e, <<ev>>)
<1>1. /\ Len(c) = IF Len(e) < subscriberBuffer THEN Len(e) + 1 ELSE Len(e)
      /\ \A i \in 1 .. Len(e) : c[i] = e[i]
      /\ Len(e) < subscriberBuffer => c[Len(e) + 1] = ev
  BY SendOne
<1> HIDE DEF c
<1>2. Len(e) \in Nat /\ Len(e) = p - last
  BY EventsOf DEF Flowing
<1>3. Len(c) = Len(e) + 1 /\ c[Len(e) + 1] = ev
  BY <1>1, <1>2, Bounds
<1>4. ASSUME NEW i \in 1 .. Len(c)
      PROVE  c[i].n = last + i
  <2>1. CASE i = Len(e) + 1
    BY <1>2, <1>3, <2>1
  <2>2. CASE i # Len(e) + 1
    <3>1. i \in 1 .. Len(e)
      BY <1>2, <1>3, <1>4, <2>2
    <3> QED
      BY <1>1, <3>1 DEF Flowing
  <2> QED
    BY <2>1, <2>2
<1>5. Len(c) = p + 1 - last
  BY <1>2, <1>3
<1>6. Flowing(last, c, p + 1)
  BY <1>4, <1>5 DEF Flowing
<1> QED
  BY <1>6 DEF c

LEMMA FreshTakes ==
  ASSUME NEW h \in Seq(Event), Len(h) <= replayWindow, NEW ev \in Event,
         NEW p \in Nat, ev.n = p + 1,
         NEW e \in Seq(Event), Len(e) <= subscriberBuffer,
         Fresh(e, h, p), Len(e) + 1 <= Room
  PROVE  Fresh(Send(e, <<ev>>), Kept(h, ev), p + 1)
<1> DEFINE c == Send(e, <<ev>>)
           q == Kept(h, ev)
<1>1. /\ Len(c) = IF Len(e) < subscriberBuffer THEN Len(e) + 1 ELSE Len(e)
      /\ \A i \in 1 .. Len(e) : c[i] = e[i]
      /\ Len(e) < subscriberBuffer => c[Len(e) + 1] = ev
  BY SendOne
<1>2. Len(q) = IF Len(h) < replayWindow THEN Len(h) + 1 ELSE Len(h)
  BY KeepOne
<1> HIDE DEF c, q
<1>3. Len(e) \in Nat /\ Len(h) \in Nat
  BY EventsOf
<1>4. Len(c) = Len(e) + 1 /\ c[Len(e) + 1] = ev
  BY <1>1, <1>3, Bounds
<1>5. Len(c) <= Room /\ Len(c) <= Len(q)
  BY <1>2, <1>3, <1>4, Bounds DEF Fresh
<1>6. ASSUME NEW i \in 1 .. Len(c)
      PROVE  c[i].n = p + 1 - Len(c) + i
  <2>1. CASE i = Len(e) + 1
    BY <1>3, <1>4, <2>1
  <2>2. CASE i # Len(e) + 1
    <3>1. i \in 1 .. Len(e)
      BY <1>3, <1>4, <1>6, <2>2
    <3>2. c[i].n = p - Len(e) + i
      BY <1>1, <3>1 DEF Fresh
    <3> QED
      BY <1>3, <1>4, <3>1, <3>2
  <2> QED
    BY <2>1, <2>2
<1>7. Fresh(c, q, p + 1)
  BY <1>5, <1>6 DEF Fresh
<1> QED
  BY <1>7 DEF c, q

LEMMA FreshKeeps ==
  ASSUME NEW h, NEW p
  PROVE  h \in Seq(Event) => Fresh(<<>>, h, p)
<1>1. Len(<<>>) = 0 /\ 1 .. Len(<<>>) = {}
  BY EmptySeq
<1> QED
  BY <1>1, Bounds, EventsOf DEF Fresh

(* A resumed stream is sent all that follows the last event it was given.  *)
LEMMA ReplayFlows ==
  ASSUME NEW h \in Seq(Event), NEW p \in Nat, NEW top \in Nat, HistoryIs(h, p, top),
         NEW g \in Seq(Nat), Len(g) # 0, NEW id \in Nat, NEW c,
         ResumeIs(g, id, c, h, p), CaughtUp(g, id, h, p, top),
         NEW k \in 0 .. Len(h), NEW e \in Seq(Event),
         Len(e) = IF Len(h) - k > subscriberBuffer THEN subscriberBuffer ELSE Len(h) - k,
         \A i \in 1 .. Len(e) : e[i] = h[k + i],
         \A i \in 1 .. Len(h) : h[i].ID > id <=> k < i
  PROVE  Flowing(g[Len(g)], e, p)
<1> DEFINE last == g[Len(g)]
<1>1. Len(h) \in Nat /\ Len(e) \in Nat /\ Len(g) \in Nat \ {0} /\ k \in Nat
  BY EventsOf, LenProperties
<1>2. Len(g) \in 1 .. Len(g)
  BY <1>1
<1>3. last \in Nat /\ last <= p /\ p - last <= Len(h) /\ p - last <= Room
  BY <1>2, ElementOfSeq DEF CaughtUp
<1>4. ASSUME NEW i \in 1 .. Len(h)
      PROVE  h[i].n = p - Len(h) + i /\ (k < i <=> h[i].n > last)
  <2>1. h[i].n = p - Len(h) + i
    BY <1>4 DEF HistoryIs
  <2>2. h[i].n \in Int
    BY <1>1, <1>4, <2>1
  <2>3. h[i].n > last => k < i
    BY <1>4 DEF CaughtUp
  <2>4. k < i => h[i].n > last
    BY <1>2, <1>4, <2>2, <1>3 DEF ResumeIs
  <2> QED
    BY <2>1, <2>3, <2>4
<1> HIDE DEF last
<1>5. Len(h) - k = p - last
  <2> DEFINE k0 == Len(h) - (p - last)
  <2>1. k0 \in 0 .. Len(h)
    BY <1>1, <1>3
  <2>2. ASSUME NEW i \in 1 .. Len(h)
        PROVE  k < i <=> k0 < i
    <3>1. \A a, b, m, d \in Int : a - b + m > d <=> b - (a - d) < m
      OBVIOUS
    <3>2. p - Len(h) + i > last <=> k0 < i
      BY <1>1, <1>3, <2>2, <3>1
    <3> QED
      BY <1>4, <2>2, <3>2
  <2> HIDE DEF k0
  <2>3. CASE k < k0
    <3>1. k0 \in 1 .. Len(h)
      BY <1>1, <2>1, <2>3
    <3> QED
      BY <2>1, <2>2, <2>3, <3>1
  <2>4. CASE k0 < k
    <3>1. k \in 1 .. Len(h)
      BY <1>1, <2>1, <2>4
    <3> QED
      BY <1>1, <2>2, <2>4, <3>1
  <2>5. CASE k = k0
    BY <1>1, <1>3, <2>5 DEF k0
  <2>6. k < k0 \/ k0 < k \/ k = k0
    <3>1. k \in Int /\ k0 \in Int
      BY <2>1
    <3>2. \A a, b \in Int : a < b \/ b < a \/ a = b
      OBVIOUS
    <3> QED
      BY <3>1, <3>2
  <2> QED
    BY <2>3, <2>4, <2>5, <2>6
<1>6. Len(e) = p - last
  BY <1>1, <1>3, <1>5, Bounds
<1>7. ASSUME NEW i \in 1 .. Len(e)
      PROVE  e[i].n = last + i
  <2>1. k + i \in 1 .. Len(h)
    BY <1>1, <1>3, <1>5, <1>6, <1>7
  <2>2. e[i] = h[k + i] /\ h[k + i].n = p - Len(h) + (k + i)
    BY <1>4, <1>7, <2>1
  <2>3. p - Len(h) + (k + i) = last + i
    <3> DEFINE l == Len(h)
    <3>1. i \in Int /\ p \in Int /\ l \in Int /\ k \in Int /\ last \in Int
            /\ l - k = p - last
      BY <1>1, <1>3, <1>5, <1>7
    <3> HIDE DEF l
    <3>2. p - l + (k + i) = last + i
      BY <3>1
    <3> QED
      BY <3>2 DEF l
  <2> QED
    BY <2>2, <2>3
<1>8. Flowing(last, e, p)
  BY <1>6, <1>7 DEF Flowing
<1> QED
  BY <1>8 DEF last

(* The page is given the next event of its channel.                        *)
LEMMA NearGives ==
  ASSUME NEW h \in Seq(Event), NEW p \in Nat, NEW top \in Nat,
         NEW g \in Seq(Nat), NEW id \in Nat, NEW e \in Seq(Event), e # <<>>,
         ChannelIs(e, h, p, top), NearIs(g, id, e, h, p, top, "open")
  PROVE  NearIs(Append(g, Head(e).n), Head(e).ID, Tail(e), h, p, top, "open")
<1> DEFINE n == Head(e).n
           G == Append(g, n)
           t == Tail(e)
           l == Len(e)
           lg == Len(g)
           lh == Len(h)
<1>1. /\ l \in Nat \ {0} /\ Len(t) = l - 1 /\ lg \in Nat /\ lh \in Nat
      /\ Head(e) = e[1] /\ n \in Nat
      /\ \A i \in 1 .. Len(t) : t[i] = e[i + 1]
  BY TailOf, EventsOf, LenProperties DEF Event
<1>2. /\ Len(G) = lg + 1 /\ G[lg + 1] = n
      /\ \A i \in 1 .. lg : G[i] = g[i]
  BY <1>1, AppendProperties
<1>3. \A i \in 1 .. lg : g[i] \in Nat
  BY ElementOfSeq
<1>4. /\ lg # 0 => CaughtUp(g, id, h, p, top) /\ Flowing(g[lg], e, p)
      /\ lg = 0 => Fresh(e, h, p)
  BY DEF NearIs
<1>5. /\ lg # 0 => /\ \A i \in 1 .. lg : g[i] = g[1] + i - 1
                   /\ g[lg] <= p /\ p - g[lg] <= Room /\ p - g[lg] <= lh
                   /\ l = p - g[lg] /\ \A i \in 1 .. l : e[i].n = g[lg] + i
      /\ lg = 0 => /\ \A i \in 1 .. l : e[i].n = p - l + i
                   /\ l <= Room /\ l <= lh
  BY <1>4 DEF CaughtUp, Flowing, Fresh
<1>6. /\ \A i \in 1 .. l : e[i].ID \in 1 .. top /\ e[i].n \in 1 .. p
      /\ \A j \in 1 .. lh : h[j].n > n => h[j].ID > e[1].ID
  BY <1>1 DEF ChannelIs
<1> HIDE DEF n, G, t, l, lg, lh
<1>7. l <= Room /\ l <= lh /\ \A i \in 1 .. l : e[i].n = p - l + i
  <2>1. CASE lg # 0
    <3> DEFINE last == g[lg]
    <3>1. last \in Nat /\ l \in Nat
      BY <1>1, <1>3, <2>1
    <3>2. /\ p - last <= Room /\ p - last <= lh /\ l = p - last
          /\ \A i \in 1 .. l : e[i].n = last + i
      BY <1>5, <2>1
    <3> HIDE DEF last
    <3>3. \A i \in 1 .. l : last + i = p - l + i
      BY <3>1, <3>2
    <3> QED
      BY <3>2, <3>3
  <2> QED
    BY <1>5, <2>1
<1>8. n = p - l + 1 /\ n \in 1 .. p
  <2>1. 1 \in 1 .. l
    BY <1>1
  <2> QED
    BY <1>1, <1>6, <1>7, <2>1 DEF n
<1>9. lg # 0 => n = g[1] + lg /\ g[1] \in Nat
  <2> SUFFICES ASSUME lg # 0 PROVE n = g[1] + lg /\ g[1] \in Nat
    OBVIOUS
  <2>1. 1 \in 1 .. lg /\ lg \in 1 .. lg /\ 1 \in 1 .. l
    BY <1>1
  <2>2. g[1] \in Nat /\ g[lg] = g[1] + lg - 1 /\ e[1].n = g[lg] + 1
    BY <1>3, <1>5, <2>1
  <2>3. n = e[1].n /\ lg \in Nat
    BY <1>1 DEF n
  <2>4. e[1].n = g[1] + lg
    BY <2>2, <2>3
  <2> QED
    BY <2>2, <2>3, <2>4
<1>10. ASSUME NEW i \in 1 .. lg + 1
       PROVE  G[i] = G[1] + i - 1
  <2>1. CASE lg = 0
    BY <1>2, <1>8, <1>10, <2>1
  <2>2. CASE lg # 0 /\ i = lg + 1
    <3>1. G[1] = g[1]
      BY <1>1, <1>2, <2>2
    <3> QED
      BY <1>1, <1>2, <1>9, <2>2, <3>1
  <2>3. CASE lg # 0 /\ i # lg + 1
    <3>1. i \in 1 .. lg /\ 1 \in 1 .. lg
      BY <1>1, <1>10, <2>3
    <3> QED
      BY <1>2, <1>5, <2>3, <3>1
  <2> QED
    BY <2>1, <2>2, <2>3
<1>11. CaughtUp(G, Head(e).ID, h, p, top)
  <2>1. p - n <= Room /\ p - n <= lh /\ n <= p
    BY <1>1, <1>7, <1>8, Bounds
  <2>2. G[Len(G)] = n
    BY <1>2
  <2>3. Head(e).ID \in 1 .. top
    BY <1>1, <1>6
  <2>4. \A j \in 1 .. lh : h[j].n > n => h[j].ID > Head(e).ID
    BY <1>1, <1>6
  <2>5. \A i \in 1 .. Len(G) : G[i] = G[1] + i - 1
    BY <1>2, <1>10
  <2> QED
    BY <2>1, <2>2, <2>3, <2>4, <2>5 DEF CaughtUp, lh
<1>12. Flowing(n, t, p)
  <2>1. Len(t) = p - n
    BY <1>1, <1>8
  <2>2. ASSUME NEW i \in 1 .. Len(t)
        PROVE  t[i].n = n + i
    <3>1. i + 1 \in 1 .. l /\ i \in Int
      BY <1>1, <2>2
    <3>2. t[i].n = p - l + (i + 1)
      BY <1>1, <1>7, <2>2, <3>1
    <3>3. p - l + (i + 1) = n + i
      BY <1>1, <1>8, <3>1
    <3> QED
      BY <3>2, <3>3
  <2> QED
    BY <2>1, <2>2 DEF Flowing
<1>13. NearIs(G, Head(e).ID, t, h, p, top, "open")
  BY <1>1, <1>2, <1>11, <1>12 DEF NearIs
<1> QED
  BY <1>13 DEF G, n, t

(* What the history variable near says of the next event.                  *)
LEMMA RoomLeft ==
  ASSUME TypeOK, NEW v \in Viewers, NearInv(v), near[v], StaysNear(v, Watched[v])
  PROVE  /\ Len(seen[v]) # 0 => published[Watched[v]] + 1 - seen[v][Len(seen[v])] <= Room
         /\ Len(seen[v]) = 0 => Len(events[v]) + 1 <= Room
<1> DEFINE p == published[Watched[v]]
           g == seen[v]
           e == events[v]
           r == Received(v)
           lg == Len(g)
           le == Len(e)
<1>1. lg \in Nat /\ le \in Nat /\ p \in Nat /\ \A i \in 1 .. lg : g[i] \in Nat
  BY ViewerTypes, SessionTypes
<1>2. r \in Seq(Nat) /\ Len(r) = lg + le
        /\ \A i \in 1 .. lg + le : r[i] = IF i <= lg THEN g[i] ELSE e[i - lg].n
  BY ReceivedOf
<1>3. r # <<>> => p + 1 < r[1] + lg + Room
  BY DEF StaysNear
<1>4. lg # 0 => \A i \in 1 .. lg : g[i] = g[1] + i - 1
  BY DEF NearInv, NearIs, CaughtUp
<1>5. lg = 0 => \A i \in 1 .. le : e[i].n = p - le + i
  BY DEF NearInv, NearIs, Fresh
<1> HIDE DEF p, g, e, r, lg, le
<1>6. lg + le # 0 => r # <<>>
  BY <1>2, EmptySeq
<1>7. CASE lg # 0
  <2>1. 1 \in 1 .. lg + le /\ 1 \in 1 .. lg /\ lg \in 1 .. lg /\ 1 <= lg /\ lg + le # 0
    BY <1>1, <1>7
  <2>2. r[1] = g[1] /\ g[1] \in Nat /\ g[lg] = g[1] + lg - 1
    BY <1>1, <1>2, <1>4, <1>7, <2>1
  <2>3. p + 1 < r[1] + lg + Room
    BY <1>3, <1>6, <2>1
  <2>4. p + 1 - g[lg] <= Room
    BY <1>1, <2>2, <2>3, Bounds
  <2> QED
    BY <1>7, <2>4 DEF p, g, lg
<1>8. CASE lg = 0 /\ le # 0
  <2>1. 1 \in 1 .. lg + le /\ 1 \in 1 .. le /\ ~ (1 <= lg) /\ 1 - lg = 1 /\ lg + le # 0
    BY <1>1, <1>8
  <2>2. r[1] = e[1].n /\ e[1].n = p - le + 1
    BY <1>2, <1>5, <1>8, <2>1
  <2>3. p + 1 < r[1] + lg + Room
    BY <1>3, <1>6, <2>1
  <2>4. le + 1 <= Room
    BY <1>1, <1>8, <2>2, <2>3, Bounds
  <2> QED
    BY <1>8, <2>4 DEF g, e, lg, le
<1>9. CASE lg = 0 /\ le = 0
  <2>1. 0 + 1 <= Room
    BY Bounds
  <2> QED
    BY <1>9, <2>1 DEF g, e, lg, le
<1> QED
  BY <1>7, <1>8, <1>9

LEMMA NearPublish ==
  ASSUME TypeOK, NEW s \in Sessions, Publish(s), NEW v \in Viewers,
         ViewerInv(v), NearInv(v)
  PROVE  NearInv(v)'
<1> DEFINE ev == NewEvent(s)
           w == Watched[v]
<1>1. nextID \in Nat /\ nextID' = nextID + 1
        /\ UNCHANGED <<stream, lastEventID, seen>>
  BY PublishDoes
<1>2. /\ w \in Sessions /\ events[v] \in Seq(Event) /\ Len(events[v]) <= subscriberBuffer
      /\ seen[v] \in Seq(Nat) /\ lastEventID[v] \in Nat /\ Len(seen[v]) \in Nat
      /\ \A i \in 1 .. Len(seen[v]) : seen[v][i] \in Nat
  BY ViewerTypes
<1>3. history[w] \in Seq(Event) /\ Len(history[w]) <= replayWindow /\ published[w] \in Nat
  BY <1>2, SessionTypes
<1>4. near'[v] => near[v] /\ StaysNear(v, s)
  <2>1. near' = [u \in Viewers |-> near[u] /\ StaysNear(u, s)]
    BY PublishDoes
  <2> QED
    BY <2>1
<1> SUFFICES ASSUME near[v], StaysNear(v, s)
             PROVE  NearIs(seen[v], lastEventID[v], events'[v], history'[w],
                           published'[w], nextID + 1, stream[v])
  BY <1>1, <1>4 DEF NearInv
<1>5. NearIs(seen[v], lastEventID[v], events[v], history[w], published[w], nextID, stream[v])
  BY DEF NearInv
<1>6. CASE w # s
  <2>1. history'[w] = history[w] /\ published'[w] = published[w] /\ events'[v] = events[v]
    <3>1. events'[v] = events[v]
      <4>1. events' = [u \in Viewers |->
              IF stream[u] = "open" /\ Watched[u] = s
                THEN Send(events[u], <<ev>>) ELSE events[u]]
        BY PublishDoes
      <4> QED
        BY <1>6, <4>1
    <3>2. history'[w] = history[w] /\ published'[w] = published[w]
      BY <1>2, <1>6, PublishDoes DEF TypeOK
    <3> QED
      BY <3>1, <3>2
  <2>2. lastEventID[v] \in 1 .. nextID => lastEventID[v] \in 1 .. nextID + 1
    BY <1>1
  <2> QED
    BY <1>5, <2>1, <2>2 DEF NearIs, CaughtUp
<1>7. CASE w = s
  <2>1. ev \in Event /\ ev.ID = nextID + 1 /\ ev.n = published[w] + 1
    BY <1>7, PublishDoes DEF NewEvent
  <2>2. history'[w] = Kept(history[w], ev) /\ published'[w] = published[w] + 1
    BY <1>2, <1>7, PublishDoes DEF TypeOK
  <2>3. events'[v] = IF stream[v] = "open" THEN Send(events[v], <<ev>>) ELSE events[v]
    BY <1>7, PublishDoes
  <2>4. /\ Len(seen[v]) # 0 => published[w] + 1 - seen[v][Len(seen[v])] <= Room
        /\ Len(seen[v]) = 0 => Len(events[v]) + 1 <= Room
    BY <1>7, RoomLeft
  <2> HIDE DEF ev
  <2>5. CASE Len(seen[v]) # 0
    <3>1. seen[v][Len(seen[v])] \in Nat
      BY <1>2, <2>5
    <3>2. CaughtUp(seen[v], lastEventID[v], Kept(history[w], ev), published[w] + 1, nextID + 1)
      BY <1>1, <1>2, <1>3, <1>5, <2>1, <2>4, <2>5, CaughtUpKeeps DEF NearIs
    <3>3. stream[v] = "open" =>
            Flowing(seen[v][Len(seen[v])], Send(events[v], <<ev>>), published[w] + 1)
      BY <1>2, <1>3, <1>5, <2>1, <2>4, <2>5, <3>1, FlowingTakes DEF NearIs
    <3> QED
      BY <2>2, <2>3, <2>5, <3>2, <3>3 DEF NearIs
  <2>6. CASE Len(seen[v]) = 0 /\ stream[v] = "open"
    <3>1. Fresh(Send(events[v], <<ev>>), Kept(history[w], ev), published[w] + 1)
      BY <1>2, <1>3, <1>5, <2>1, <2>4, <2>6, FreshTakes DEF NearIs
    <3> QED
      BY <2>2, <2>3, <2>6, <3>1 DEF NearIs
  <2>7. CASE Len(seen[v]) = 0 /\ stream[v] # "open"
    <3>1. events[v] = <<>>
      BY <2>7 DEF ViewerInv
    <3>2. Kept(history[w], ev) \in Seq(Event)
      BY <1>3, <2>1, KeepOne
    <3> QED
      BY <2>2, <2>3, <2>7, <3>1, <3>2, FreshKeeps DEF NearIs
  <2> QED
    BY <2>5, <2>6, <2>7
<1> QED
  BY <1>6, <1>7

LEMMA NearSubscribe ==
  ASSUME TypeOK, NEW v \in Viewers, Subscribe(v), HistoryInv(Watched[v]),
         ViewerInv(v), NearInv(v)
  PROVE  NearInv(v)'
<1> DEFINE w == Watched[v]
           h == history[w]
           e == Replay(v)
           g == seen[v]
           id == lastEventID[v]
           p == published[w]
<1>1. events'[v] = e /\ stream'[v] = "open"
        /\ UNCHANGED <<hub, lastEventID, seen, published, near>>
  BY SubscribeDoes DEF TypeOK, faults
<1>2. h \in Seq(Event) /\ Len(h) \in Nat /\ p \in Nat /\ nextID \in Nat
  BY ViewerTypes, SessionTypes
<1>3. /\ e \in Seq(Event) /\ Len(e) \in Nat
      /\ id = 0 => e = <<>>
  BY ReplayOf, EventsOf DEF Replay
<1>4. g \in Seq(Nat) /\ id \in Nat
  BY ViewerTypes
<1>5. ResumeIs(g, id, events[v], h, p)
  BY DEF ViewerInv
<1>6. HistoryIs(h, p, nextID)
  BY DEF HistoryInv
<1> SUFFICES ASSUME near[v] PROVE NearIs(g, id, e, h, p, nextID, "open")
  BY <1>1 DEF NearInv, hub
<1>7. NearIs(g, id, events[v], h, p, nextID, stream[v])
  BY DEF NearInv
<1>8. CASE Len(g) = 0
  <2>1. e = <<>>
    BY <1>3, <1>5, <1>8 DEF ResumeIs
  <2> HIDE DEF e, g, id, h, p
  <2> QED
    BY <1>2, <1>8, <2>1, FreshKeeps DEF NearIs
<1>9. CASE Len(g) # 0
  <2>1. id # 0
    BY <1>5, <1>9 DEF ResumeIs
  <2>2. PICK k \in 0 .. Len(h) :
          /\ Len(e) = IF Len(h) - k > subscriberBuffer THEN subscriberBuffer
                                                       ELSE Len(h) - k
          /\ \A i \in 1 .. Len(e) : e[i] = h[k + i]
          /\ \A i \in 1 .. Len(h) : h[i].ID > id <=> k < i
    BY <2>1, ReplayOf
  <2> HIDE DEF e, g, id, h, p
  <2>3. CaughtUp(g, id, h, p, nextID)
    BY <1>7, <1>9 DEF NearIs
  <2>4. Flowing(g[Len(g)], e, p)
    BY <1>2, <1>3, <1>4, <1>5, <1>6, <1>9, <2>2, <2>3, ReplayFlows
  <2> QED
    BY <1>9, <2>3, <2>4 DEF NearIs
<1> QED
  BY <1>8, <1>9

LEMMA NearDeliver ==
  ASSUME TypeOK, NEW v \in Viewers, Deliver(v), ViewerInv(v), NearInv(v)
  PROVE  NearInv(v)'
<1> DEFINE w == Watched[v]
           e == events[v]
<1>1. /\ e # <<>> /\ events'[v] = Tail(e) /\ seen'[v] = Append(seen[v], Head(e).n)
      /\ lastEventID'[v] = Head(e).ID /\ UNCHANGED <<hub, stream, published, near>>
  BY DEF TypeOK, Deliver, faults
<1>2. e \in Seq(Event) /\ seen[v] \in Seq(Nat) /\ w \in Sessions /\ lastEventID[v] \in Nat
  BY ViewerTypes
<1>3. history[w] \in Seq(Event) /\ published[w] \in Nat /\ nextID \in Nat
  BY <1>2, SessionTypes
<1>4. stream[v] = "open" /\ ChannelIs(e, history[w], published[w], nextID)
  BY <1>1 DEF ViewerInv
<1>5. near[v] => NearIs(seen[v], lastEventID[v], e, history[w], published[w], nextID, "open")
  BY <1>4 DEF NearInv
<1> HIDE DEF e, w
<1>6. near[v] => NearIs(Append(seen[v], Head(e).n), Head(e).ID, Tail(e), history[w],
                        published[w], nextID, "open")
  BY <1>1, <1>2, <1>3, <1>4, <1>5, NearGives
<1> QED
  BY <1>1, <1>4, <1>6 DEF NearInv, hub, w

(* The connection breaks, or the server restarts.                          *)
LEMMA NearCut ==
  ASSUME TypeOK, NEW v \in Viewers, NearInv(v), history'[Watched[v]] \in Seq(Event),
         events'[v] = <<>>, stream'[v] # "open", UNCHANGED <<lastEventID, seen, published>>,
         \/ UNCHANGED <<hub, near>>
         \/ near'[v] => seen[v] = <<>>
  PROVE  NearInv(v)'
<1> SUFFICES ASSUME near'[v]
             PROVE  NearIs(seen[v], lastEventID[v], <<>>, history'[Watched[v]],
                           published[Watched[v]], nextID', stream'[v])
  BY DEF NearInv
<1>1. Len(<<>>) = 0
  BY EmptySeq
<1>2. CASE Len(seen[v]) = 0
  BY <1>2, FreshKeeps DEF NearIs
<1>3. CASE Len(seen[v]) # 0
  <2>1. UNCHANGED <<hub, near>>
    BY <1>1, <1>3
  <2> QED
    BY <1>3, <2>1 DEF NearInv, NearIs, hub
<1> QED
  BY <1>2, <1>3

LEMMA NearNext ==
  ASSUME TypeOK, TypeOK', \A s \in Sessions : HistoryInv(s),
         NEW v \in Viewers, ViewerInv(v), NearInv(v), [Next]_vars
  PROVE  NearInv(v)'
<1>1. ASSUME UNCHANGED <<hub, published, near>>, events'[v] = events[v],
             stream'[v] = stream[v], seen'[v] = seen[v], lastEventID'[v] = lastEventID[v]
      PROVE  NearInv(v)'
  BY <1>1 DEF NearInv, hub
<1>2. CASE UNCHANGED vars
  BY <1>1, <1>2 DEF vars, viewer, faults
<1>3. Watched[v] \in Sessions /\ history'[Watched[v]] \in Seq(Event)
  BY ViewerTypes DEF TypeOK
<1>4. ASSUME NEW u \in Viewers, Subscribe(u)
      PROVE  NearInv(v)'
  <2>1. CASE u = v
    BY <1>3, <1>4, <2>1, NearSubscribe
  <2>2. CASE u # v
    BY <1>1, <1>4, <2>2, SubscribeDoes DEF TypeOK, faults
  <2> QED
    BY <2>1, <2>2
<1>5. ASSUME NEW u \in Viewers, Refuse(u)
      PROVE  NearInv(v)'
  <2>1. CASE u = v
    <3>1. stream[v] # "open" /\ stream'[v] # "open"
            /\ UNCHANGED <<hub, events, lastEventID, seen, published, near>>
      BY <1>5, <2>1 DEF Refuse, Connecting, TypeOK
    <3>2. events'[v] = <<>>
      BY <3>1 DEF ViewerInv
    <3> QED
      BY <1>3, <3>1, <3>2, NearCut
  <2>2. CASE u # v
    BY <1>1, <1>5, <2>2 DEF TypeOK, Refuse
  <2> QED
    BY <2>1, <2>2
<1>6. ASSUME NEW u \in Viewers, Deliver(u)
      PROVE  NearInv(v)'
  <2>1. CASE u = v
    BY <1>6, <2>1, NearDeliver
  <2>2. CASE u # v
    BY <1>1, <1>6, <2>2 DEF TypeOK, Deliver, faults
  <2> QED
    BY <2>1, <2>2
<1>7. ASSUME NEW u \in Viewers, Disconnect(u)
      PROVE  NearInv(v)'
  <2>1. CASE u = v
    <3>1. events'[v] = <<>> /\ stream'[v] # "open"
            /\ UNCHANGED <<hub, lastEventID, seen, published, near>>
      BY <1>7, <2>1 DEF Disconnect, TypeOK
    <3> QED
      BY <1>3, <3>1, NearCut
  <2>2. CASE u # v
    BY <1>1, <1>7, <2>2 DEF TypeOK, Disconnect
  <2> QED
    BY <2>1, <2>2
<1>8. CASE Restart
  <2>1. events'[v] = <<>> /\ stream'[v] # "open" /\ UNCHANGED <<lastEventID, seen, published>>
    BY <1>8 DEF Restart
  <2>2. near'[v] => seen[v] = <<>>
    BY <1>8 DEF Restart
  <2> QED
    BY <1>3, <2>1, <2>2, NearCut
<1> QED
  BY <1>2, <1>4, <1>5, <1>6, <1>7, <1>8, NearPublish DEF Next

LEMMA NearInit == Init => \A v \in Viewers : NearInv(v)
<1> SUFFICES ASSUME Init, NEW v \in Viewers PROVE NearInv(v)
  OBVIOUS
<1>1. Watched[v] \in Sessions /\ Len(<<>>) = 0 /\ <<>> \in Seq(Event)
  BY LiveFeedAssumption, EmptySeq
<1> QED
  BY <1>1, FreshKeeps DEF Init, NearInv, NearIs

(***************************************************************************)
(* Last-Event-ID and the replay leave no gap: a connected viewer that was  *)
(* never further behind than the channel and the history hold has, from    *)
(* the first event it was given, every event of its session behind it or   *)
(* on its way, whatever the buffer and window sizes and however often its  *)
(* connection broke.                                                       *)
(***************************************************************************)
THEOREM NothingMissed == Spec => []NoGap
<1>1. ASSUME TypeOK, NEW v \in Viewers, NearInv(v), near[v], stream[v] = "open",
             seen[v] # <<>>
      PROVE  Received(v) = [i \in 1 .. published[Watched[v]] - seen[v][1] + 1 |->
                              seen[v][1] + i - 1]
  <2> DEFINE p == published[Watched[v]]
             g == seen[v]
             e == events[v]
             r == Received(v)
             lg == Len(g)
             le == Len(e)
             all == [i \in 1 .. p - g[1] + 1 |-> g[1] + i - 1]
  <2>1. lg \in Nat /\ le \in Nat /\ p \in Nat /\ \A i \in 1 .. lg : g[i] \in Nat
    BY <1>1, ViewerTypes, SessionTypes
  <2>2. lg # 0
    BY <1>1, ViewerTypes, EmptySeq
  <2>3. r \in Seq(Nat) /\ Len(r) = lg + le
          /\ \A i \in 1 .. lg + le : r[i] = IF i <= lg THEN g[i] ELSE e[i - lg].n
    BY <1>1, ReceivedOf
  <2>4. /\ \A i \in 1 .. lg : g[i] = g[1] + i - 1
        /\ le = p - g[lg] /\ \A i \in 1 .. le : e[i].n = g[lg] + i
    BY <1>1, <2>2 DEF NearInv, NearIs, CaughtUp, Flowing
  <2>5. r \in [1 .. lg + le -> Nat]
    BY <2>3, LenProperties
  <2> HIDE DEF p, g, e, r, lg, le
  <2>6. 1 \in 1 .. lg /\ lg \in 1 .. lg
    BY <2>1, <2>2
  <2>7. g[1] \in Nat /\ g[lg] = g[1] + lg - 1
    BY <2>1, <2>4, <2>6
  <2>8. lg + le = p - g[1] + 1
    BY <2>1, <2>4, <2>7
  <2>9. ASSUME NEW i \in 1 .. lg + le
        PROVE  r[i] = g[1] + i - 1
    <3>1. CASE i <= lg
      <4>1. i \in 1 .. lg
        BY <2>1, <2>9, <3>1
      <4> QED
        BY <2>3, <2>4, <3>1, <4>1
    <3>2. CASE ~ (i <= lg)
      <4>1. i - lg \in 1 .. le /\ i \in Int
        BY <2>1, <2>9, <3>2
      <4>2. r[i] = g[lg] + (i - lg)
        BY <2>3, <2>4, <3>2, <4>1
      <4> QED
        BY <2>1, <2>7, <4>1, <4>2
    <3> QED
      BY <3>1, <3>2
  <2>10. r = [i \in 1 .. lg + le |-> g[1] + i - 1]
    BY <2>5, <2>9
  <2>11. r = all
    BY <2>8, <2>10
  <2> QED
    BY <2>11 DEF r, p, g
<1> DEFINE Hub == \A s \in Sessions : HistoryInv(s)
           Page == \A v \in Viewers : ViewerInv(v)
           Close == \A v \in Viewers : NearInv(v)
<1>2. TypeOK /\ Close => NoGap
  BY <1>1 DEF NoGap
<1>3. Init => Close
  BY NearInit
<1>4. TypeOK /\ TypeOK' /\ Hub /\ Page /\ Close /\ [Next]_vars => Close'
  BY NearNext
<1>5. Spec => [](TypeOK /\ Hub /\ Page)
  BY FeedInvariant
<1> HIDE DEF Hub, Page, Close
<1> QED
  BY <1>2, <1>3, <1>4, <1>5, PTL DEF Spec
===============================================================================
