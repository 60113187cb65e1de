--------------------------- MODULE RoundScreenProofs ---------------------------
(***************************************************************************)
(* Theorems about the scorekeeper's screen, for any cap, number of throws, *)
(* mishaps and requests: as long as no slip happens, what the scorekeeper  *)
(* meant becomes official, a screen that says "Final" is right, and a      *)
(* quiet screen shows the server's score.                                  *)
(***************************************************************************)
EXTENDS RoundScreen, SequenceTheorems, FiniteSetTheorems, WellFoundedInduction, TLAPS

-----------------------------------------------------------------------------
(***************************************************************************)
(* The inductive invariant.                                                *)
(*                                                                         *)
(* The rows: ids and taps name them, and no id is above its throw's number.*)
(***************************************************************************)
HasTap(t) == \E r \in rows : r.tap = t

HasRow(id, t) == \E r \in rows : r.id = id /\ r.tap = t

IsVoid(t) == \E r \in rows : r.tap = t /\ r.void

RowsInv ==
  /\ \A r \in rows : r.tap <= made /\ r.id <= r.tap /\ (r.tap \in meant => ~ r.void)
  /\ \A r, s \in rows : r.id = s.id \/ r.tap = s.tap => r = s

(* The strip: an id in it names the throw's row, and what it shows as      *)
(* counting is meant.                                                      *)
StripInv ==
  /\ \A i \in 1 .. Len(strip) :
       /\ strip[i].tap <= made
       /\ strip[i].id # 0 => HasRow(strip[i].id, strip[i].tap)
       /\ ~ strip[i].void => strip[i].tap \in meant
  /\ \A i, j \in 1 .. Len(strip) : strip[i].tap = strip[j].tap => i = j

(* The queue: throws in the order of their taps, those without a row later *)
(* than every row, and undos of rows.                                      *)
First(op, t) == items # <<>> /\ items[1].op = op /\ items[1].tap = t

Queued(op, t) == \E i \in 1 .. Len(items) : items[i].op = op /\ items[i].tap = t

ItemOK(x) ==
  /\ x.tap <= made
  /\ x.op = "add" => x.tap \in meant \/ HasTap(x.tap)
  /\ x.op = "void" => x.tap \notin meant /\ HasRow(x.id, x.tap)

ItemsInv ==
  /\ loop = "idle" => items = <<>>
  /\ \A i \in 1 .. Len(items) : ItemOK(items[i])
  /\ \A i, j \in 1 .. Len(items) :
       i < j /\ items[i].op = "add" /\ items[j].op = "add" => items[i].tap < items[j].tap
  /\ \A i \in 1 .. Len(items) : items[i].op = "add" /\ ~ HasTap(items[i].tap) =>
       \A r \in rows : r.tap < items[i].tap

(* What is meant is live or queued, and what is live is meant or will be   *)
(* undone, unless a false start has not reached the server yet.            *)
MeantInv ==
  /\ \A t \in meant : t <= made /\ (t \in Live \/ Queued("add", t))
  /\ ~ Unhandled("reset") => \A t \in Live : t \in meant \/ Queued("void", t)

(* A write on the wire: one that is awaited is the first of the queue; a   *)
(* late one has had its effect already, or is the first of the queue too.  *)
WriteOK(q) ==
  /\ q.n \in 1 .. made /\ q.at # "rejected"
  /\ q.at # "late" => loop = "send" /\ First(q.op, q.n)
  /\ q.op = "void" => q.n \notin meant /\ HasRow(q.id, q.n)
  /\ q.op = "add" /\ q.at \in Waiting => HasTap(q.n) \/ (q.n \in meant /\ First("add", q.n))
  /\ q.op = "void" /\ q.at \in Waiting => IsVoid(q.n) \/ First("void", q.n)
  /\ q.op = "add" /\ q.at = "ok" => HasRow(q.id, q.n) /\ q.total = Score(Live)
  /\ q.op = "void" /\ q.at = "ok" => IsVoid(q.n)

(* A confirmation is sent when nothing is queued, and nothing is queued    *)
(* after it.                                                               *)
CallOK(q) ==
  /\ q.at # "rejected"
  /\ q.op = "confirm" =>
       /\ items = <<>> /\ loop = "idle"
       /\ q.at = "ok" => status = "confirmed" /\ q.total = Score(Live)

RequestOK(q) ==
  /\ q.total <= made
  /\ q.op \in Writes => WriteOK(q)
  /\ q.op \notin Writes => CallOK(q)

WireInv ==
  /\ \A q \in wire : RequestOK(q)
  /\ \A p, q \in wire :
       {p.op, q.op} \subseteq Writes /\ p.at # "late" /\ q.at # "late" => p = q

ClosedInv ==
  /\ status = "confirmed" => items = <<>> /\ loop = "idle"
  /\ phase = "done" => status = "confirmed"

(* A false start is on its way: nothing else of its round is.              *)
ResetInv ==
  Unhandled("reset") =>
    /\ items = <<>> /\ strip = <<>> /\ meant = {}
    /\ confirming = "no" /\ status # "confirmed"
    /\ ~ OnWire(Writes) /\ ~ OnWire({"confirm"})

(* The last event on its way has the score.                                *)
FeedInv ==
  /\ feed # <<>> => feed[Len(feed)].total = Score(Live)
  /\ \A i \in 1 .. Len(feed) :
       feed[i].total <= made /\ (feed[i].final => status = "confirmed")

(* The score on the screen, and how far a guess can be off: by a point for *)
(* every throw undone or discarded.                                        *)
Undone == (1 .. made) \ meant

ShownInv ==
  /\ /\ feed = <<>> /\ items = <<>> /\ ~ Unhandled("reset")
     /\ phase = "done" \/ \A r \in rows : ~ r.void
     => shown = Score(Live)
  /\ shown <= made
  /\ shown >= - Cardinality(Undone)

Inv ==
  /\ slip = "none"
  /\ RowsInv /\ StripInv /\ ItemsInv /\ MeantInv /\ WireInv
  /\ ClosedInv /\ ResetInv /\ FeedInv /\ ShownInv

-----------------------------------------------------------------------------
(***************************************************************************)
(* Constants, numbers and sets.                                            *)
(***************************************************************************)
LEMMA Bounds ==
  /\ Cap \in Nat /\ MaxTaps \in Nat /\ MaxStarts \in Nat /\ MaxMishaps \in Nat
  /\ MaxCalls \in Nat /\ MaxFeed \in Nat /\ MaxFeed > 0
  BY RoundScreenAssumption

(* A set of naturals that has an upper bound has a greatest element.       *)
LEMMA MaxOf ==
  ASSUME NEW S, S \subseteq Nat, S # {}, NEW b \in Nat, \A y \in S : y <= b
  PROVE  Max(S) \in S /\ \A y \in S : y <= Max(S)
<1> DEFINE Above == {u \in Nat : \A y \in S : y <= u}
<1>1. Above \subseteq Nat /\ b \in Above
  OBVIOUS
<1>2. PICK m \in Above : \A u \in Above : ~ (<<u, m>> \in OpToRel(<, Nat))
  BY <1>1, NatLessThanWellFounded, WFMin
<1>3. m \in Nat /\ \A y \in S : y <= m
  BY <1>2
<1>4. \A u \in Above : ~ (u < m)
  BY <1>1, <1>2 DEF OpToRel
<1>5. m \in S
  <2> SUFFICES ASSUME m \notin S PROVE FALSE
    OBVIOUS
  <2>1. \A y \in S : y <= m - 1
    BY <1>3
  <2>2. m - 1 \in Nat
    <3>1. PICK y \in S : TRUE
      OBVIOUS
    <3> QED
      BY <1>3, <2>1, <3>1
  <2> HIDE DEF Above
  <2>3. m - 1 \in Above
    BY <2>1, <2>2 DEF Above
  <2> QED
    BY <1>3, <1>4, <2>3
<1>6. \E x \in S : \A y \in S : x >= y
  BY <1>3, <1>5
<1> QED
  BY <1>6 DEF Max

LEMMA ScoreRange ==
  ASSUME NEW m \in Nat, NEW taps, taps \subseteq 1 .. m
  PROVE  Score(taps) \in 0 .. m
<1>1. IsFiniteSet(1 .. m) /\ Cardinality(1 .. m) = m
  BY FS_Interval
<1>2. IsFiniteSet(taps) /\ Cardinality(taps) <= m
  BY <1>1, FS_Subset
<1>3. Cardinality(taps) \in Nat
  BY <1>2, FS_CardinalityType
<1> QED
  BY <1>2, <1>3, Bounds DEF Score

(* A step that notes no slip makes none.                                   *)
LEMMA NoSlip ==
  ASSUME NEW now, now \subseteq Slips, slip = "none", slip' = "none", Note(now)
  PROVE  now = {}
<1>1. "none" \notin now
  BY DEF Slips
<1> SUFFICES ASSUME now # {} PROVE FALSE
  OBVIOUS
<1>2. (CHOOSE name \in now : TRUE) \in now
  OBVIOUS
<1> QED
  BY <1>1, <1>2 DEF Note

-----------------------------------------------------------------------------
(***************************************************************************)
(* The types of the parts.                                                 *)
(***************************************************************************)
RowSet == [id: Taps, tap: Taps, void: BOOLEAN]

Entries == [tap: Taps, id: 0..MaxTaps, void: BOOLEAN]

Events == [total: 0..MaxTaps, final: BOOLEAN]

LEMMA RowTypes ==
  ASSUME TypeOK, NEW r \in rows
  PROVE  r.id \in Nat \ {0} /\ r.tap \in Nat \ {0} /\ r.id \in Taps /\ r.tap \in Taps
           /\ r.void \in BOOLEAN
  BY Bounds DEF TypeOK, Taps

LEMMA ItemTypes ==
  ASSUME TypeOK
  PROVE  /\ items \in Seq(Items) /\ Len(items) \in Nat
         /\ \A i \in 1 .. Len(items) :
              /\ items[i] \in Items /\ items[i].op \in Writes
              /\ items[i].tap \in Taps /\ items[i].tap \in Nat /\ items[i].id \in 0 .. MaxTaps
<1>1. items \in Seq(Items)
  BY DEF TypeOK
<1>2. Len(items) \in Nat /\ \A i \in 1 .. Len(items) : items[i] \in Items
  BY <1>1, LenProperties, ElementOfSeq
<1> QED
  BY <1>1, <1>2, Bounds DEF Items, Taps

LEMMA StripTypes ==
  ASSUME TypeOK
  PROVE  /\ strip \in Seq(Entries) /\ Len(strip) \in Nat
         /\ \A i \in 1 .. Len(strip) :
              /\ strip[i] \in Entries
              /\ strip[i].tap \in Taps /\ strip[i].tap \in Nat /\ strip[i].id \in 0 .. MaxTaps
              /\ strip[i].void \in BOOLEAN
<1>1. strip \in Seq(Entries)
  BY DEF TypeOK, Entries
<1>2. Len(strip) \in Nat /\ \A i \in 1 .. Len(strip) : strip[i] \in Entries
  BY <1>1, LenProperties, ElementOfSeq
<1> QED
  BY <1>1, <1>2, Bounds DEF Entries, Taps

LEMMA FeedTypes ==
  ASSUME TypeOK
  PROVE  /\ feed \in Seq(Events) /\ Len(feed) \in Nat
         /\ \A i \in 1 .. Len(feed) :
              feed[i] \in Events /\ feed[i].total \in 0 .. MaxTaps /\ feed[i].total \in Nat
                /\ feed[i].final \in BOOLEAN
<1>1. feed \in Seq(Events)
  BY DEF TypeOK, Events
<1>2. Len(feed) \in Nat /\ \A i \in 1 .. Len(feed) : feed[i] \in Events
  BY <1>1, LenProperties, ElementOfSeq
<1> QED
  BY <1>1, <1>2, Bounds DEF Events

LEMMA WireTypes ==
  ASSUME TypeOK, NEW q \in wire
  PROVE  /\ q \in Requests /\ q.op \in Ops /\ q.n \in Nat /\ q.id \in 0 .. MaxTaps
         /\ q.total \in 0 .. MaxTaps /\ q.total \in Nat
         /\ q.at \in {"sent", "late", "ok", "rejected"}
  BY Bounds DEF TypeOK, Requests

LEMMA NumberTypes ==
  ASSUME TypeOK
  PROVE  /\ made \in 0 .. MaxTaps /\ made \in Nat /\ made <= MaxTaps
         /\ shown \in Int /\ falseStarts \in Nat /\ reloads \in Nat /\ delays \in Nat
         /\ falseStarts <= MaxMishaps /\ reloads <= MaxMishaps /\ delays <= MaxMishaps
         /\ meant \subseteq Taps
<1>1. shown \in -MaxTaps .. MaxTaps
  BY DEF TypeOK
<1>2. shown \in Int
  BY <1>1, Bounds
<1> QED
  BY <1>2, Bounds DEF TypeOK

(* The score of the rows there are.                                        *)
LEMMA ScoreNow ==
  ASSUME TypeOK, RowsInv
  PROVE  Live \subseteq 1 .. made /\ Score(Live) \in 0 .. made
<1>1. \A r \in rows : r.tap \in 1 .. made
  BY RowTypes, NumberTypes DEF RowsInv
<1>2. Live \subseteq 1 .. made
  BY <1>1 DEF Live
<1> QED
  BY <1>2, ScoreRange, NumberTypes

LEMMA UndoneTypes ==
  ASSUME TypeOK
  PROVE  IsFiniteSet(Undone) /\ Cardinality(Undone) \in Nat /\ Cardinality(Undone) <= made
<1>1. made \in Int /\ made \in Nat
  BY NumberTypes
<1>2. IsFiniteSet(1 .. made) /\ Cardinality(1 .. made) = made
  BY <1>1, FS_Interval
<1>3. Undone \in SUBSET (1 .. made)
  BY DEF Undone
<1>4. IsFiniteSet(Undone) /\ Cardinality(Undone) <= made
  BY <1>2, <1>3, FS_Subset
<1> QED
  BY <1>4, FS_CardinalityType

-----------------------------------------------------------------------------
(***************************************************************************)
(* What a step that leaves the rows, or the queue, alone leaves alone.     *)
(***************************************************************************)
LEMMA SameRows ==
  ASSUME rows' = rows
  PROVE  /\ Live' = Live /\ Score(Live)' = Score(Live)
         /\ \A t : HasTap(t)' <=> HasTap(t)
         /\ \A id, t : HasRow(id, t)' <=> HasRow(id, t)
         /\ \A t : IsVoid(t)' <=> IsVoid(t)
  BY DEF Live, Score, HasTap, HasRow, IsVoid

LEMMA SameItems ==
  ASSUME items' = items
  PROVE  /\ \A op, t : First(op, t)' <=> First(op, t)
         /\ \A op, t : Queued(op, t)' <=> Queued(op, t)
  BY DEF First, Queued

LEMMA HasRowTap ==
  ASSUME NEW id, NEW t, HasRow(id, t)
  PROVE  HasTap(t)
  BY DEF HasRow, HasTap

(* Only calls, which are not resets, come to the wire; other calls, and    *)
(* answered ones, may leave it.                                            *)
LEMMA CallsChange ==
  ASSUME TypeOK, Inv, UNCHANGED <<items, loop, rows, meant, made, strip, status>>,
         \A q \in wire' : \/ q \in wire
                          \/ /\ q.op \notin Writes /\ q.op # "reset" /\ q.total <= made
                             /\ q.at \in Waiting
                             /\ q.op = "confirm" =>
                                  items = <<>> /\ loop = "idle" /\ ~ Unhandled("reset"),
         \A q \in wire : q.op = "reset" /\ q.at \in Waiting => q \in wire'
  PROVE  /\ RowsInv' /\ StripInv' /\ ItemsInv' /\ MeantInv' /\ WireInv'
         /\ Unhandled("reset")' <=> Unhandled("reset")
         /\ confirming' = confirming \/ confirming' = "no" \/ ~ Unhandled("reset") => ResetInv'
<1>1. /\ Live' = Live /\ Score(Live)' = Score(Live)
      /\ \A t : HasTap(t)' <=> HasTap(t)
      /\ \A id, t : HasRow(id, t)' <=> HasRow(id, t)
      /\ \A t : IsVoid(t)' <=> IsVoid(t)
  BY SameRows
<1>2. /\ \A op, t : First(op, t)' <=> First(op, t)
      /\ \A op, t : Queued(op, t)' <=> Queued(op, t)
  BY SameItems
<1>3. Unhandled("reset")' <=> Unhandled("reset")
  BY DEF Unhandled
<1>4. RowsInv'
  BY DEF Inv, RowsInv
<1>5. StripInv'
  BY <1>1 DEF Inv, StripInv
<1>6. ItemsInv'
  BY <1>1 DEF Inv, ItemsInv, ItemOK
<1>7. MeantInv'
  BY <1>1, <1>2, <1>3 DEF Inv, MeantInv
<1>8. WireInv'
  <2>1. ASSUME NEW q \in wire, RequestOK(q)
        PROVE  RequestOK(q)'
    BY <1>1, <1>2, <2>1 DEF RequestOK, WriteOK, CallOK
  <2>2. ASSUME NEW q \in wire', q \notin wire
        PROVE  RequestOK(q)'
    <3>1. q.op \notin Writes /\ q.total <= made /\ q.at \in Waiting
            /\ (q.op = "confirm" => items = <<>> /\ loop = "idle")
      BY <2>2
    <3>2. q.total <= made'
      BY <3>1
    <3> QED
      BY <3>1, <3>2 DEF RequestOK, CallOK, Waiting
  <2>3. \A p, q \in wire' :
         {p.op, q.op} \subseteq Writes /\ p.at # "late" /\ q.at # "late" => p = q
    BY DEF Inv, WireInv
  <2> QED
    BY <2>1, <2>2, <2>3 DEF Inv, WireInv
<1>9. ASSUME confirming' = confirming \/ confirming' = "no" \/ ~ Unhandled("reset")
      PROVE  ResetInv'
  BY <1>3, <1>9 DEF Inv, ResetInv, OnWire
<1> QED
  BY <1>3, <1>4, <1>5, <1>6, <1>7, <1>8, <1>9

(* A request of the screen's own.                                          *)
LEMMA CallTypes ==
  ASSUME TypeOK, NEW op \in Ops \ Writes
  PROVE  LET c == Request(op, falseStarts, 0)
         IN  /\ c \in Requests /\ c.op = op /\ c.at = "sent" /\ c.total <= made
             /\ c.at \in Waiting
  BY NumberTypes, Bounds DEF Request, Requests, Waiting

-----------------------------------------------------------------------------
(***************************************************************************)
(* The screen's own requests, its clock and the feed.                      *)
(***************************************************************************)
LEMMA StartKeeps ==
  ASSUME TypeOK, Inv, Start
  PROVE  TypeOK' /\ Inv'
<1> DEFINE c == Request("start", falseStarts, 0)
<1>1. wire' = wire \cup {c} /\ starts' = starts + 1 /\ starts < MaxStarts
        /\ UNCHANGED <<screen, queue, server, feed, history, falseStarts, reloads, delays>>
  BY DEF Start, Send
<1>2. c \in Requests /\ c.op = "start" /\ c.at \in Waiting /\ c.total <= made
  BY CallTypes DEF Ops, Writes
<1>3. TypeOK'
  BY <1>1, <1>2, Bounds DEF TypeOK, screen, queue, server, history
<1>4. /\ RowsInv' /\ StripInv' /\ ItemsInv' /\ MeantInv' /\ WireInv' /\ ResetInv'
      /\ Unhandled("reset")' <=> Unhandled("reset")
  BY <1>1, <1>2, CallsChange DEF Writes, screen, queue, server, history
<1>5. ClosedInv'
  BY <1>1 DEF Inv, ClosedInv, screen, queue, server
<1>6. FeedInv'
  BY <1>1, SameRows DEF Inv, FeedInv, server, history
<1>7. ShownInv'
  BY <1>1, <1>4, SameRows DEF Inv, ShownInv, Undone, screen, queue, server, history
<1> QED
  BY <1>1, <1>3, <1>4, <1>5, <1>6, <1>7 DEF Inv, history

LEMMA PrerollKeeps ==
  ASSUME TypeOK, Inv, PrerollEnds
  PROVE  TypeOK' /\ Inv'
<1>1. phase = "preroll" /\ phase' = "running"
        /\ UNCHANGED <<adopted, strip, shown, confirming, queue, wire, server, feed,
                       history, bounds>>
  BY DEF PrerollEnds
<1>2. TypeOK'
  BY <1>1 DEF TypeOK, queue, server, history, bounds, Phases
<1>3. /\ RowsInv' /\ StripInv' /\ ItemsInv' /\ MeantInv' /\ WireInv' /\ ResetInv'
      /\ Unhandled("reset")' <=> Unhandled("reset")
  BY <1>1, CallsChange DEF queue, server, history
<1>4. ClosedInv' /\ FeedInv' /\ ShownInv'
  BY <1>1, <1>3, SameRows DEF Inv, ClosedInv, FeedInv, ShownInv, Undone, queue, server, history
<1> QED
  BY <1>1, <1>2, <1>3, <1>4 DEF Inv, history

LEMMA TimeUpKeeps ==
  ASSUME TypeOK, Inv, TimeUp
  PROVE  TypeOK' /\ Inv'
<1> DEFINE c == Request("grace", falseStarts, 0)
<1>1. wire' = wire \cup {c} /\ phase = "running" /\ phase' = "grace"
        /\ UNCHANGED <<adopted, strip, shown, confirming, queue, server, feed, history, bounds>>
  BY DEF TimeUp, Send
<1>2. c \in Requests /\ c.op = "grace" /\ c.at \in Waiting /\ c.total <= made
  BY CallTypes DEF Ops, Writes
<1>3. TypeOK'
  BY <1>1, <1>2 DEF TypeOK, queue, server, history, bounds, Phases
<1>4. /\ RowsInv' /\ StripInv' /\ ItemsInv' /\ MeantInv' /\ WireInv' /\ ResetInv'
      /\ Unhandled("reset")' <=> Unhandled("reset")
  BY <1>1, <1>2, CallsChange DEF Writes, queue, server, history
<1>5. ClosedInv' /\ FeedInv' /\ ShownInv'
  BY <1>1, <1>4, SameRows DEF Inv, ClosedInv, FeedInv, ShownInv, Undone, queue, server, history
<1> QED
  BY <1>1, <1>3, <1>4, <1>5 DEF Inv, history

(* A confirmation is sent at once only when the queue's loop is idle.      *)
LEMMA ConfirmKeeps ==
  ASSUME TypeOK, Inv, Confirm, slip' = "none"
  PROVE  TypeOK' /\ Inv'
<1> DEFINE c == Request("confirm", falseStarts, 0)
<1>1. \/ loop = "idle" /\ wire' = wire \cup {c} /\ confirming' = "sent"
      \/ wire' = wire /\ confirming' = "draining"
  BY DEF Confirm, Send
<1>2. UNCHANGED <<phase, adopted, strip, shown, queue, server, feed, made, meant, bounds>>
  BY DEF Confirm
<1>3. ~ Unhandled("reset")
  <2>1. Slip("loose reset", Unhandled("reset")) \subseteq Slips
    BY DEF Slip, Slips
  <2>2. Slip("loose reset", Unhandled("reset")) = {}
    BY <2>1, NoSlip DEF Confirm, Inv
  <2> QED
    BY <2>2 DEF Slip
<1>4. c \in Requests /\ c.op = "confirm" /\ c.at \in Waiting /\ c.total <= made
  BY CallTypes DEF Ops, Writes
<1>5. TypeOK'
  BY <1>1, <1>2, <1>4 DEF TypeOK, queue, server, bounds
<1>6. loop = "idle" => items = <<>>
  BY DEF Inv, ItemsInv
<1>7. /\ RowsInv' /\ StripInv' /\ ItemsInv' /\ MeantInv' /\ WireInv' /\ ResetInv'
      /\ Unhandled("reset")' <=> Unhandled("reset")
  BY <1>1, <1>2, <1>3, <1>4, <1>6, CallsChange DEF Writes, queue, server
<1>8. ClosedInv' /\ FeedInv' /\ ShownInv'
  BY <1>2, <1>7, SameRows DEF Inv, ClosedInv, FeedInv, ShownInv, Undone, queue, server
<1> QED
  BY <1>5, <1>7, <1>8 DEF Inv

(* A call is answered: only the confirmation's brings a score.             *)
LEMMA CallAnsweredKeeps ==
  ASSUME TypeOK, Inv, NEW q \in wire, CallAnswered(q)
  PROVE  TypeOK' /\ Inv'
<1>1. q.op \notin Writes /\ q.at = "ok" /\ wire' = wire \ {q}
        /\ UNCHANGED <<adopted, strip, queue, server, feed, history, bounds>>
  BY DEF CallAnswered
<1>2. /\ phase' = phase \/ (phase' = "preroll" /\ q.op = "start")
                        \/ (phase' = "done" /\ q.op = "confirm")
      /\ shown' = IF q.op = "confirm" THEN q.total ELSE shown
      /\ confirming' = confirming \/ confirming' = "no"
  BY DEF CallAnswered, CallEnds
<1>3. q.total \in 0 .. MaxTaps /\ q.total \in Nat
  BY WireTypes
<1>4. shown' \in -MaxTaps .. MaxTaps
  BY <1>2, <1>3, Bounds DEF TypeOK
<1>5. TypeOK'
  BY <1>1, <1>2, <1>4 DEF TypeOK, queue, server, history, bounds, Phases
<1>6. /\ RowsInv' /\ StripInv' /\ ItemsInv' /\ MeantInv' /\ WireInv' /\ ResetInv'
      /\ Unhandled("reset")' <=> Unhandled("reset")
  BY <1>1, <1>2, CallsChange DEF queue, server, history, Waiting
<1>7. q.total <= made /\ (q.op = "confirm" => status = "confirmed" /\ q.total = Score(Live))
  BY <1>1 DEF Inv, WireInv, RequestOK, CallOK
<1>8. ClosedInv' /\ FeedInv'
  BY <1>1, <1>2, <1>7, SameRows DEF Inv, ClosedInv, FeedInv, queue, server, history
<1>9. ShownInv'
  <2>1. /\ made' = made /\ meant' = meant /\ rows' = rows /\ feed' = feed /\ items' = items
        /\ Score(Live)' = Score(Live)
    BY <1>1, SameRows DEF queue, server, history
  <2>2. CASE q.op = "confirm"
    <3>1. shown' = q.total /\ q.total >= - Cardinality(Undone)
      BY <1>2, <1>3, <2>2, UndoneTypes
    <3> QED
      BY <1>7, <2>1, <2>2, <3>1 DEF ShownInv, Undone
  <2>3. CASE q.op # "confirm"
    BY <1>2, <1>6, <2>1, <2>3 DEF Inv, ShownInv, Undone
  <2> QED
    BY <2>2, <2>3
<1> QED
  BY <1>1, <1>5, <1>6, <1>8, <1>9 DEF Inv, history

LEMMA FeedTail ==
  ASSUME TypeOK, feed # <<>>
  PROVE  /\ Len(feed) \in Nat \ {0} /\ Head(feed) = feed[1]
         /\ Tail(feed) \in Seq(Events) /\ Len(Tail(feed)) = Len(feed) - 1
         /\ \A i \in 1 .. Len(Tail(feed)) : Tail(feed)[i] = feed[i + 1]
<1>1. feed \in Seq(Events)
  BY FeedTypes
<1>2. Len(feed) \in Nat \ {0}
  BY <1>1, EmptySeq
<1> QED
  BY <1>1, <1>2, HeadTailProperties

(* An event of the feed: the last one leaves the screen up to date.        *)
LEMMA ApplyRemoteKeeps ==
  ASSUME TypeOK, Inv, ApplyRemote
  PROVE  TypeOK' /\ Inv'
<1> DEFINE n == Len(feed)
           f == Tail(feed)
<1>1. /\ feed # <<>> /\ feed' = f
      /\ shown' = IF items = <<>> THEN feed[1].total ELSE shown
      /\ phase' = IF feed[1].final THEN "done" ELSE phase
      /\ UNCHANGED <<adopted, strip, confirming, queue, wire, server, history, bounds>>
  BY FeedTail DEF ApplyRemote
<1>2. /\ n \in Nat \ {0} /\ f \in Seq(Events) /\ Len(f) = n - 1
      /\ \A i \in 1 .. Len(f) : f[i] = feed[i + 1]
  BY <1>1, FeedTail
<1>3. \A i \in 1 .. n : feed[i].total \in 0 .. MaxTaps /\ feed[i].total \in Nat
  BY FeedTypes
<1>4. /\ feed[n].total = Score(Live)
      /\ \A i \in 1 .. n : feed[i].total <= made /\ (feed[i].final => status = "confirmed")
  BY <1>1 DEF Inv, FeedInv
<1>5. 1 \in 1 .. n /\ n \in 1 .. n
  BY <1>2
<1>6. f # <<>> => Len(f) \in 1 .. Len(f) /\ Len(f) + 1 = n
  <2> SUFFICES ASSUME f # <<>> PROVE Len(f) \in 1 .. Len(f) /\ Len(f) + 1 = n
    OBVIOUS
  <2>1. Len(f) \in Nat \ {0}
    BY <1>2, EmptySeq
  <2> QED
    BY <1>2, <2>1
<1>7. f = <<>> => n = 1
  BY <1>2, EmptySeq
<1> HIDE DEF n, f
<1>8. TypeOK'
  <2>1. shown' \in -MaxTaps .. MaxTaps
    BY <1>1, <1>3, <1>5, Bounds DEF TypeOK
  <2>2. feed' \in Seq([total: 0..MaxTaps, final: BOOLEAN])
    BY <1>1, <1>2 DEF Events
  <2> QED
    BY <1>1, <2>1, <2>2 DEF TypeOK, queue, server, history, bounds, Phases
<1>9. /\ RowsInv' /\ StripInv' /\ ItemsInv' /\ MeantInv' /\ WireInv' /\ ResetInv'
      /\ Unhandled("reset")' <=> Unhandled("reset")
  BY <1>1, CallsChange DEF queue, server, history
<1>10. Score(Live)' = Score(Live)
  BY <1>1, SameRows DEF server
<1>11. ClosedInv'
  BY <1>1, <1>4, <1>5 DEF Inv, ClosedInv, queue, server
<1>12. FeedInv'
  <2>1. f # <<>> => f[Len(f)].total = Score(Live)
    BY <1>2, <1>4, <1>6
  <2>2. ASSUME NEW i \in 1 .. Len(f)
        PROVE  f[i].total <= made /\ (f[i].final => status = "confirmed")
    <3>1. i + 1 \in 1 .. n
      BY <1>2, <2>2
    <3> QED
      BY <1>2, <1>4, <3>1
  <2> QED
    BY <1>1, <1>10, <2>1, <2>2 DEF FeedInv, server, history
<1>13. ShownInv'
  <2>1. made' = made /\ meant' = meant /\ rows' = rows /\ items' = items
    BY <1>1 DEF queue, server, history
  <2>2. f = <<>> /\ items = <<>> => shown' = Score(Live)
    BY <1>1, <1>4, <1>7
  <2>3. shown' <= made /\ shown' >= - Cardinality(Undone)
    <3>1. feed[1].total <= made /\ feed[1].total >= - Cardinality(Undone)
      BY <1>3, <1>4, <1>5, UndoneTypes
    <3> QED
      BY <1>1, <3>1 DEF Inv, ShownInv
  <2> QED
    BY <1>1, <1>10, <2>1, <2>2, <2>3 DEF ShownInv, Undone
<1> QED
  BY <1>1, <1>8, <1>9, <1>11, <1>12, <1>13 DEF Inv, history

(* A call fails, and is lost, or handled later.  A reset is not: losing    *)
(* one would be a slip.                                                    *)
LEMMA FailCallKeeps ==
  ASSUME TypeOK, Inv, NEW q \in wire, Fail(q), q.op \notin Writes, slip' = "none"
  PROVE  TypeOK' /\ Inv'
<1> DEFINE late == [q EXCEPT !.at = "late"]
<1>1. /\ \/ wire' = wire \ {q} /\ delays' = delays
         \/ /\ q.at = "sent" /\ Mishaps < MaxMishaps
            /\ wire' = (wire \ {q}) \cup {late} /\ delays' = delays + 1
      /\ UNCHANGED <<loop, adopted, strip, items, server, feed, made, meant, starts,
                     falseStarts, reloads>>
  BY DEF Fail
<1>2. /\ phase' = phase \/ (phase' = "preroll" /\ q.op = "start")
      /\ shown' = shown
      /\ confirming' = confirming \/ confirming' = "no"
  BY DEF Fail, CallEnds
<1>3. ~ (q.op = "reset" /\ q.at = "sent")
  <2>1. Slip("loose reset", q.op = "reset" /\ q.at = "sent") \subseteq Slips
    BY DEF Slip, Slips
  <2>2. Slip("loose reset", q.op = "reset" /\ q.at = "sent") = {}
    BY <2>1, NoSlip DEF Fail, Inv
  <2> QED
    BY <2>2 DEF Slip
<1>4. /\ late \in Requests /\ late.op = q.op /\ late.at = "late" /\ late.total = q.total
      /\ q.at # "late"
  BY WireTypes DEF Requests, Fail
<1>5. q.total <= made /\ CallOK(q)
  BY DEF Inv, WireInv, RequestOK
<1>6. delays' \in 0 .. MaxMishaps
  BY <1>1, NumberTypes, Bounds DEF TypeOK, Mishaps
<1>7. TypeOK'
  BY <1>1, <1>2, <1>4, <1>6 DEF TypeOK, server, Phases
<1>8. q.op = "confirm" => ~ Unhandled("reset") /\ items = <<>> /\ loop = "idle"
  BY <1>5 DEF Inv, ResetInv, OnWire, CallOK
<1> HIDE DEF late
<1>9. \A z \in wire' : \/ z \in wire
                       \/ /\ z.op \notin Writes /\ z.op # "reset" /\ z.total <= made
                          /\ z.at \in Waiting
                          /\ z.op = "confirm" =>
                               items = <<>> /\ loop = "idle" /\ ~ Unhandled("reset")
  BY <1>1, <1>3, <1>4, <1>5, <1>8 DEF Waiting
<1>10. \A z \in wire : z.op = "reset" /\ z.at \in Waiting => z \in wire'
  BY <1>1, <1>3, <1>4 DEF Waiting
<1>11. /\ RowsInv' /\ StripInv' /\ ItemsInv' /\ MeantInv' /\ WireInv' /\ ResetInv'
       /\ Unhandled("reset")' <=> Unhandled("reset")
  BY <1>1, <1>2, <1>9, <1>10, CallsChange DEF server
<1>12. ClosedInv' /\ FeedInv' /\ ShownInv'
  BY <1>1, <1>2, <1>11, SameRows DEF Inv, ClosedInv, FeedInv, ShownInv, Undone, server
<1> QED
  BY <1>7, <1>11, <1>12 DEF Inv

-----------------------------------------------------------------------------
(***************************************************************************)
(* The writes.  One that is awaited: the queue's loop waits for it, and    *)
(* nothing of the round's end or of a false start is under way.            *)
(***************************************************************************)
LEMMA AwaitedWrite ==
  ASSUME TypeOK, Inv, NEW q \in wire, q.op \in Writes, q.at # "late"
  PROVE  /\ loop = "send" /\ First(q.op, q.n) /\ items # <<>>
         /\ \A p \in wire : p.op \in Writes /\ p.at # "late" => p = q
         /\ \A p \in wire : p.op # "confirm"
         /\ status # "confirmed" /\ phase # "done" /\ ~ Unhandled("reset")
<1>1. WriteOK(q)
  BY DEF Inv, WireInv, RequestOK
<1>2. loop = "send" /\ First(q.op, q.n)
  BY <1>1 DEF WriteOK
<1>3. items # <<>>
  BY <1>2 DEF First
<1>4. \A p \in wire : p.op \in Writes /\ p.at # "late" => p = q
  BY DEF Inv, WireInv
<1>5. \A p \in wire : p.op # "confirm"
  <2>1. \A p \in wire : p.op = "confirm" => CallOK(p)
    BY DEF Inv, WireInv, RequestOK, Writes
  <2> QED
    BY <1>2, <2>1 DEF CallOK
<1>6. status # "confirmed" /\ phase # "done"
  BY <1>2 DEF Inv, ClosedInv
<1>7. ~ Unhandled("reset")
  BY DEF Inv, ResetInv, OnWire
<1> QED
  BY <1>2, <1>3, <1>4, <1>5, <1>6, <1>7

(* A write fails: the queue will send it again, and it may still be        *)
(* handled.                                                                *)
LEMMA FailWriteKeeps ==
  ASSUME TypeOK, Inv, NEW q \in wire, Fail(q), q.op \in Writes, slip' = "none"
  PROVE  TypeOK' /\ Inv'
<1> DEFINE late == [q EXCEPT !.at = "late"]
<1>1. /\ \/ wire' = wire \ {q} /\ delays' = delays
         \/ /\ q.at = "sent" /\ Mishaps < MaxMishaps
            /\ wire' = (wire \ {q}) \cup {late} /\ delays' = delays + 1
      /\ loop' = "sleep" /\ q.at # "late"
      /\ UNCHANGED <<phase, shown, confirming, adopted, strip, items, server, feed,
                     made, meant, starts, falseStarts, reloads>>
  BY DEF Fail
<1>2. /\ loop = "send" /\ items # <<>>
      /\ \A p \in wire : p.op \in Writes /\ p.at # "late" => p = q
      /\ \A p \in wire : p.op # "confirm"
      /\ status # "confirmed" /\ phase # "done" /\ ~ Unhandled("reset")
  BY <1>1, AwaitedWrite
<1>3. /\ late \in Requests /\ late.op = q.op /\ late.at = "late" /\ late.total = q.total
      /\ late.n = q.n /\ late.id = q.id
  BY WireTypes DEF Requests
<1>4. delays' \in 0 .. MaxMishaps
  BY <1>1, NumberTypes, Bounds DEF TypeOK, Mishaps
<1>5. TypeOK'
  BY <1>1, <1>3, <1>4 DEF TypeOK, server
<1> HIDE DEF late
<1>6. /\ Live' = Live /\ Score(Live)' = Score(Live)
      /\ \A t : HasTap(t)' <=> HasTap(t)
      /\ \A id, t : HasRow(id, t)' <=> HasRow(id, t)
      /\ \A t : IsVoid(t)' <=> IsVoid(t)
  BY <1>1, SameRows DEF server
<1>7. /\ \A op, t : First(op, t)' <=> First(op, t)
      /\ \A op, t : Queued(op, t)' <=> Queued(op, t)
  BY <1>1, SameItems
<1>8. q.op # "reset"
  BY DEF Writes
<1>9. Unhandled("reset")' <=> Unhandled("reset")
  BY <1>1, <1>3, <1>8 DEF Unhandled
<1>10. RowsInv' /\ StripInv'
  BY <1>1, <1>6 DEF Inv, RowsInv, StripInv, server
<1>11. ItemsInv'
  BY <1>1, <1>6 DEF Inv, ItemsInv, ItemOK, server
<1>12. MeantInv'
  BY <1>1, <1>6, <1>7, <1>9 DEF Inv, MeantInv
<1>13. WireInv'
  <2>1. ASSUME NEW p \in wire, p # q
        PROVE  RequestOK(p)'
    <3>1. RequestOK(p) /\ (p.op \in Writes => p.at = "late") /\ p.op # "confirm"
      BY <1>2, <2>1 DEF Inv, WireInv
    <3> QED
      BY <1>1, <1>6, <1>7, <3>1 DEF RequestOK, WriteOK, CallOK
  <2>2. q.at = "sent" => RequestOK(late)'
    <3> SUFFICES ASSUME q.at = "sent" PROVE RequestOK(late)'
      OBVIOUS
    <3>1. RequestOK(q)
      BY DEF Inv, WireInv
    <3>2. WriteOK(late)'
      BY <1>1, <1>3, <1>6, <1>7, <3>1 DEF RequestOK, WriteOK, Waiting
    <3> QED
      BY <1>1, <1>3, <3>1, <3>2 DEF RequestOK
  <2>3. \A p \in wire' : RequestOK(p)'
    BY <1>1, <2>1, <2>2
  <2>4. \A p \in wire' : p.op \in Writes => p.at = "late"
    BY <1>1, <1>2, <1>3
  <2> QED
    BY <2>3, <2>4 DEF WireInv
<1>14. ClosedInv' /\ FeedInv' /\ ResetInv'
  BY <1>1, <1>2, <1>6, <1>9 DEF Inv, ClosedInv, FeedInv, ResetInv, server
<1>15. ShownInv'
  BY <1>1, <1>2 DEF Inv, ShownInv, Undone
<1> QED
  BY <1>5, <1>10, <1>11, <1>12, <1>13, <1>14, <1>15 DEF Inv

(* The queue's loop sends its oldest write, and awaits no other.           *)
LEMMA WriteSent ==
  ASSUME NEW others, others \subseteq Requests, wire' = others \cup {Write(Head(items'))},
         loop' = "send", items' \in Seq(Items), items' # <<>>,
         made' \in Nat, MaxTaps \in Nat,
         \A q \in others : RequestOK(q)' /\ (q.op \in Writes => q.at = "late"),
         \A i \in 1 .. Len(items') : ItemOK(items[i])'
  PROVE  /\ WireInv' /\ wire' \subseteq Requests
         /\ Unhandled("reset")' <=> \E q \in others : q.op = "reset" /\ q.at \in Waiting
<1> PICK w : w = Write(Head(items'))
  OBVIOUS
<1>1. loop' = "send" /\ wire' = others \cup {w}
  OBVIOUS
<1>2. Len(items') \in Nat \ {0}
  BY EmptySeq
<1>3. 1 \in 1 .. Len(items') /\ Head(items') = items'[1]
  BY <1>2, HeadTailProperties
<1>4. items'[1] \in Items /\ ItemOK(items[1])'
  BY <1>3, ElementOfSeq
<1>5. /\ w.op = items'[1].op /\ w.n = items'[1].tap /\ w.id = items'[1].id
      /\ w.total = 0 /\ w.at = "sent" /\ w \in Requests
      /\ w.op \in Writes /\ w.n \in Nat \ {0}
  BY <1>3, <1>4 DEF Write, Request, Requests, Items, Taps, Ops
<1>6. First(w.op, w.n)'
  BY <1>5 DEF First
<1>7. w.n \in 1 .. made'
  BY <1>4, <1>5 DEF ItemOK
<1>8. WriteOK(w)'
  BY <1>1, <1>4, <1>5, <1>6, <1>7 DEF WriteOK, ItemOK, Waiting, Writes
<1>9. RequestOK(w)'
  BY <1>5, <1>8 DEF RequestOK
<1>10. WireInv'
  BY <1>1, <1>9 DEF WireInv
<1>11. Unhandled("reset")' <=> \E q \in others : q.op = "reset" /\ q.at \in Waiting
  BY <1>1, <1>5 DEF Unhandled, Writes
<1> QED
  BY <1>1, <1>5, <1>10, <1>11

(* The queue's loop goes on: the wire after it has the oldest write, or    *)
(* the confirmation that waited for the queue.                             *)
LEMMA AdvanceDoes ==
  ASSUME NEW others, others \subseteq Requests, Advance(items', others),
         items' \in Seq(Items), made' \in Nat, falseStarts \in Nat, MaxTaps \in Nat,
         \A q \in others : RequestOK(q)' /\ q.op # "confirm" /\
                           (q.op \in Writes => q.at = "late"),
         \A i \in 1 .. Len(items') : ItemOK(items[i])'
  PROVE  /\ WireInv' /\ wire' \subseteq Requests
         /\ Unhandled("reset")' <=> \E q \in others : q.op = "reset" /\ q.at \in Waiting
         /\ loop' \in {"send", "idle"} /\ (loop' = "idle" => items' = <<>>)
         /\ \/ confirming' = confirming /\ (items' = <<>> => wire' = others)
            \/ confirming = "draining" /\ confirming' = "sent"
<1>1. CASE items' # <<>>
  <2>1. loop' = "send" /\ wire' = others \cup {Write(Head(items'))}
          /\ confirming' = confirming
    BY <1>1 DEF Advance
  <2> QED
    BY <1>1, <2>1, WriteSent
<1>2. CASE items' = <<>>
  <2> PICK c : c = Request("confirm", falseStarts, 0)
    OBVIOUS
  <2>1. /\ loop' = "idle"
        /\ \/ wire' = others /\ confirming' = confirming
           \/ /\ wire' = others \cup {c}
              /\ confirming = "draining" /\ confirming' = "sent"
    BY <1>2 DEF Advance, Resume
  <2>2. c \in Requests /\ c.op = "confirm" /\ c.at = "sent" /\ c.total = 0
    BY DEF Request, Requests, Ops
  <2>3. RequestOK(c)'
    BY <1>2, <2>1, <2>2 DEF RequestOK, CallOK, Writes
  <2>4. WireInv'
    BY <2>1, <2>2, <2>3 DEF WireInv, Writes
  <2>5. Unhandled("reset")' <=> \E q \in others : q.op = "reset" /\ q.at \in Waiting
    BY <2>1, <2>2 DEF Unhandled
  <2> QED
    BY <1>2, <2>1, <2>2, <2>4, <2>5
<1> QED
  BY <1>1, <1>2

LEMMA WakeKeeps ==
  ASSUME TypeOK, Inv, Wake
  PROVE  TypeOK' /\ Inv'
<1>1. loop = "sleep" /\ Advance(items, wire)
        /\ UNCHANGED <<phase, adopted, strip, shown, items, server, feed, history, bounds>>
  BY DEF Wake
<1>2. /\ Live' = Live /\ Score(Live)' = Score(Live)
      /\ \A t : HasTap(t)' <=> HasTap(t)
      /\ \A id, t : HasRow(id, t)' <=> HasRow(id, t)
      /\ \A t : IsVoid(t)' <=> IsVoid(t)
  BY <1>1, SameRows DEF server
<1>3. /\ \A op, t : First(op, t)' <=> First(op, t)
      /\ \A op, t : Queued(op, t)' <=> Queued(op, t)
  BY <1>1, SameItems
<1>4. made' = made /\ meant' = meant /\ status' = status /\ rows' = rows
  BY <1>1 DEF history, server
<1>5. ASSUME NEW q \in wire
      PROVE  RequestOK(q)' /\ q.op # "confirm" /\ (q.op \in Writes => q.at = "late")
  <2>1. RequestOK(q)
    BY DEF Inv, WireInv
  <2>2. q.op # "confirm" /\ (q.op \in Writes => q.at = "late")
    BY <1>1, <2>1 DEF RequestOK, WriteOK, CallOK, Writes
  <2>3. RequestOK(q)'
    BY <1>1, <1>2, <1>3, <1>4, <2>1, <2>2 DEF RequestOK, WriteOK, CallOK
  <2> QED
    BY <2>2, <2>3
<1>6. \A i \in 1 .. Len(items') : ItemOK(items[i])'
  BY <1>1, <1>2, <1>4 DEF Inv, ItemsInv, ItemOK
<1>7. /\ wire \subseteq Requests /\ items' \in Seq(Items) /\ made' \in Nat
      /\ falseStarts \in Nat /\ MaxTaps \in Nat /\ Advance(items', wire)
  BY <1>1, <1>4, ItemTypes, NumberTypes, Bounds DEF TypeOK
<1>8. /\ WireInv' /\ wire' \subseteq Requests
      /\ Unhandled("reset")' <=> \E q \in wire : q.op = "reset" /\ q.at \in Waiting
      /\ loop' \in {"send", "idle"} /\ (loop' = "idle" => items' = <<>>)
      /\ \/ confirming' = confirming /\ (items' = <<>> => wire' = wire)
         \/ confirming = "draining" /\ confirming' = "sent"
  BY <1>5, <1>6, <1>7, AdvanceDoes
<1>9. Unhandled("reset")' <=> Unhandled("reset")
  BY <1>8 DEF Unhandled
<1>10. TypeOK'
  BY <1>1, <1>8 DEF TypeOK, server, history, bounds
<1>11. RowsInv' /\ StripInv' /\ FeedInv'
  BY <1>1, <1>2, <1>4 DEF Inv, RowsInv, StripInv, FeedInv
<1>12. ItemsInv'
  BY <1>1, <1>2, <1>4, <1>6, <1>8 DEF Inv, ItemsInv
<1>13. MeantInv'
  BY <1>2, <1>3, <1>4, <1>9 DEF Inv, MeantInv
<1>14. ClosedInv'
  BY <1>1, <1>4 DEF Inv, ClosedInv
<1>15. ResetInv'
  <2> SUFFICES ASSUME Unhandled("reset")
               PROVE  /\ items' = <<>> /\ strip' = <<>> /\ meant' = {}
                      /\ confirming' = "no" /\ status' # "confirmed"
                      /\ ~ OnWire(Writes)' /\ ~ OnWire({"confirm"})'
    BY <1>9 DEF ResetInv
  <2>1. confirming = "no" /\ items = <<>>
    BY DEF Inv, ResetInv
  <2>2. wire' = wire /\ confirming' = confirming
    BY <1>1, <1>8, <2>1
  <2> QED
    BY <1>1, <1>4, <2>2 DEF Inv, ResetInv, OnWire
<1>16. ShownInv'
  BY <1>1, <1>2, <1>4, <1>9 DEF Inv, ShownInv, Undone
<1> QED
  BY <1>1, <1>8, <1>10, <1>11, <1>12, <1>13, <1>14, <1>15, <1>16 DEF Inv, history

(* A write joins the queue.                                                *)
LEMMA QueueGrows ==
  ASSUME TypeOK, NEW x \in Items, items' = Append(items, x)
  PROVE  /\ items' \in Seq(Items) /\ items' # <<>> /\ Len(items) \in Nat
         /\ Len(items') = Len(items) + 1 /\ items'[Len(items) + 1] = x
         /\ \A i \in 1 .. Len(items) : items'[i] = items[i]
         /\ \A op, t : First(op, t) => First(op, t)'
         /\ \A op, t : Queued(op, t) => Queued(op, t)'
         /\ Queued(x.op, x.tap)'
<1>1. items \in Seq(Items) /\ Len(items) \in Nat
  BY ItemTypes
<1>2. /\ items' \in Seq(Items) /\ items' # <<>>
      /\ Len(items') = Len(items) + 1 /\ items'[Len(items) + 1] = x
      /\ \A i \in 1 .. Len(items) : items'[i] = items[i]
  BY <1>1, AppendProperties
<1>3. ASSUME NEW op, NEW t, First(op, t)
      PROVE  First(op, t)'
  <2>1. Len(items) \in Nat \ {0}
    BY <1>1, <1>3, EmptySeq DEF First
  <2>2. 1 \in 1 .. Len(items)
    BY <2>1
  <2>3. items'[1] = items[1]
    BY <1>2, <2>2
  <2> QED
    BY <1>2, <1>3, <2>3 DEF First
<1>4. ASSUME NEW op, NEW t, Queued(op, t)
      PROVE  Queued(op, t)'
  <2>1. PICK i \in 1 .. Len(items) : items[i].op = op /\ items[i].tap = t
    BY <1>4 DEF Queued
  <2>2. i \in 1 .. Len(items') /\ items'[i] = items[i]
    BY <1>1, <1>2
  <2> QED
    BY <2>1, <2>2 DEF Queued
<1>5. Queued(x.op, x.tap)'
  <2>1. Len(items) + 1 \in 1 .. Len(items')
    BY <1>1, <1>2
  <2> QED
    BY <1>2, <2>1 DEF Queued
<1> QED
  BY <1>1, <1>2, <1>3, <1>4, <1>5

LEMMA EnqueueDoes ==
  ASSUME TypeOK, Inv, NEW x \in Items, Enqueue(x), made' \in Nat,
         \A i \in 1 .. Len(items') : ItemOK(items[i])',
         \A q \in wire : q.op # "confirm",
         loop' = loop \/ (loop = "idle" /\ loop' = "send") =>
           \A q \in wire : RequestOK(q)'
  PROVE  /\ WireInv' /\ wire' \subseteq Requests
         /\ Unhandled("reset")' <=> Unhandled("reset")
         /\ loop' \in {"send", "sleep"} /\ confirming' = confirming
<1>1. items' = Append(items, x) /\ items' \in Seq(Items) /\ items' # <<>>
  BY QueueGrows DEF Enqueue
<1>2. CASE loop = "idle"
  <2>1. Advance(items', wire) /\ loop' = "send" /\ confirming' = confirming
    BY <1>1, <1>2 DEF Enqueue, Advance
  <2>2. \A q \in wire : RequestOK(q)'
    BY <1>2, <2>1
  <2>3. \A q \in wire : q.op \in Writes => q.at = "late"
    BY <1>2, AwaitedWrite
  <2>4. wire \subseteq Requests /\ falseStarts \in Nat /\ MaxTaps \in Nat
    BY NumberTypes, Bounds DEF TypeOK
  <2>5. /\ WireInv' /\ wire' \subseteq Requests
        /\ Unhandled("reset")' <=> \E q \in wire : q.op = "reset" /\ q.at \in Waiting
    BY <1>1, <2>1, <2>2, <2>3, <2>4, AdvanceDoes
  <2> QED
    BY <2>1, <2>5 DEF Unhandled
<1>3. CASE loop # "idle"
  <2>1. UNCHANGED <<loop, wire, confirming>>
    BY <1>3 DEF Enqueue
  <2>2. \A q \in wire : RequestOK(q)'
    BY <2>1
  <2>3. WireInv'
    BY <2>1, <2>2 DEF Inv, WireInv
  <2> QED
    BY <1>3, <2>1, <2>3 DEF TypeOK, Unhandled
<1> QED
  BY <1>2, <1>3

(* A throw is tapped.                                                      *)
LEMMA RecordKeeps ==
  ASSUME TypeOK, Inv, Record, slip' = "none"
  PROVE  TypeOK' /\ Inv'
<1> PICK t : t = made + 1
  OBVIOUS
<1> DEFINE x == [op |-> "add", tap |-> t, id |-> 0]
           y == [tap |-> t, id |-> 0, void |-> FALSE]
           n == Len(strip)
<1>1. /\ canScore /\ made < MaxTaps /\ made' = t /\ meant' = meant \cup {t}
      /\ strip' = Append(strip, y) /\ shown' = shown + 1 /\ Enqueue(x)
      /\ UNCHANGED <<phase, adopted, server, feed, bounds>>
  BY DEF Record
<1>2. ~ Closing /\ ~ Unhandled("reset")
  <2> DEFINE now == Slip("closing tap", Closing) \cup Slip("loose reset", Unhandled("reset"))
  <2>1. now \subseteq Slips
    BY DEF Slip, Slips
  <2>2. Note(now)
    BY DEF Record
  <2>3. now = {}
    BY <2>1, <2>2, NoSlip DEF Inv
  <2> QED
    BY <2>3 DEF Slip
<1>3. made \in Nat /\ t \in Taps /\ meant \subseteq Taps
  BY <1>1, NumberTypes, Bounds DEF Taps
<1>4. x \in Items /\ y \in Entries /\ x.op = "add" /\ x.tap = t
  BY <1>3, Bounds DEF Items, Writes, Entries
<1>5. /\ Live' = Live /\ Score(Live)' = Score(Live)
      /\ \A u : HasTap(u)' <=> HasTap(u)
      /\ \A id, u : HasRow(id, u)' <=> HasRow(id, u)
      /\ \A u : IsVoid(u)' <=> IsVoid(u)
  BY <1>1, SameRows DEF server
<1>6. items' = Append(items, x)
  BY <1>1 DEF Enqueue
<1>7. /\ items' \in Seq(Items) /\ items' # <<>> /\ Len(items) \in Nat
      /\ Len(items') = Len(items) + 1 /\ items'[Len(items) + 1] = x
      /\ \A i \in 1 .. Len(items) : items'[i] = items[i]
      /\ \A op, u : First(op, u) => First(op, u)'
      /\ \A op, u : Queued(op, u) => Queued(op, u)'
      /\ Queued("add", t)'
  BY <1>4, <1>6, QueueGrows
<1>8. strip' \in Seq(Entries) /\ Len(strip') = n + 1 /\ strip'[n + 1] = y
        /\ n \in Nat /\ \A i \in 1 .. n : strip'[i] = strip[i]
  BY <1>1, <1>4, StripTypes, AppendProperties
<1>9. /\ \A u \in meant : u <= made
      /\ \A r \in rows : r.tap <= made
      /\ \A i \in 1 .. Len(items) : ItemOK(items[i])
      /\ \A i \in 1 .. n : strip[i].tap <= made
  BY DEF Inv, MeantInv, RowsInv, ItemsInv, StripInv
<1>10. t \notin meant /\ ~ HasTap(t)
  BY <1>3, <1>9 DEF HasTap
<1>11. \A i \in 1 .. Len(items) : items[i].tap <= made /\ items[i].tap \in Nat
  BY <1>9, ItemTypes DEF ItemOK
<1>12. \A i \in 1 .. n : strip[i].tap \in Nat
  BY StripTypes
<1>13. rows' = rows /\ status' = status /\ feed' = feed
  BY <1>1 DEF server
<1> HIDE DEF n
<1>14. \A q \in wire : q.op # "confirm"
  BY <1>2 DEF Closing, OnWire
<1>15. ASSUME NEW i \in 1 .. Len(items')
       PROVE  ItemOK(items[i])'
  <2>1. CASE i = Len(items) + 1
    <3>1. items'[i].tap = t /\ items'[i].op = "add" /\ t \in meant' /\ t <= made'
      BY <1>1, <1>3, <1>7, <2>1
    <3> QED
      BY <3>1 DEF ItemOK
  <2>2. CASE i # Len(items) + 1
    <3>1. i \in 1 .. Len(items)
      BY <1>7, <2>2
    <3>2. items'[i] = items[i] /\ ItemOK(items[i]) /\ items[i].tap <= made
            /\ items[i].tap \in Nat
      BY <1>7, <1>9, <1>11, <3>1
    <3>3. items[i].tap <= made' /\ items[i].tap # t
      BY <1>1, <1>3, <3>2
    <3> QED
      BY <1>1, <1>5, <3>2, <3>3 DEF ItemOK
  <2> QED
    BY <2>1, <2>2
<1>16. ASSUME loop' = loop \/ (loop = "idle" /\ loop' = "send"), NEW q \in wire
       PROVE  RequestOK(q)'
  <2>1. RequestOK(q) /\ q.total \in Nat /\ q.n \in Nat
    BY WireTypes DEF Inv, WireInv
  <2>2. q.total <= made'
    BY <1>1, <1>3, <2>1 DEF RequestOK
  <2>3. q.op \notin Writes => CallOK(q)'
    BY <1>14, <2>1 DEF RequestOK, CallOK
  <2>4. q.op \in Writes => WriteOK(q)'
    <3> SUFFICES ASSUME WriteOK(q) PROVE WriteOK(q)'
      BY <2>1 DEF RequestOK
    <3>1. q.n \in 1 .. made' /\ q.n # t
      BY <1>1, <1>3, <2>1 DEF WriteOK
    <3> QED
      BY <1>1, <1>5, <1>7, <1>16, <3>1 DEF WriteOK
  <2> QED
    BY <2>2, <2>3, <2>4 DEF RequestOK
<1>17. /\ WireInv' /\ wire' \subseteq Requests
       /\ Unhandled("reset")' <=> Unhandled("reset")
       /\ loop' \in {"send", "sleep"} /\ confirming' = confirming
  BY <1>1, <1>3, <1>4, <1>14, <1>15, <1>16, EnqueueDoes
<1>18. RowsInv'
  BY <1>1, <1>3, <1>10, <1>13, RowTypes DEF Inv, RowsInv, HasTap
<1>19. StripInv'
  <2>1. ASSUME NEW i \in 1 .. Len(strip')
        PROVE  /\ strip'[i].tap <= made'
               /\ strip'[i].id # 0 => HasRow(strip[i].id, strip[i].tap)'
               /\ ~ strip'[i].void => strip'[i].tap \in meant'
    <3>1. CASE i = n + 1
      BY <1>1, <1>3, <1>8, <3>1
    <3>2. CASE i # n + 1
      <4>1. i \in 1 .. n
        BY <1>8, <3>2
      <4>2. strip'[i] = strip[i] /\ strip[i].tap <= made /\ strip[i].tap \in Nat
        BY <1>8, <1>9, <1>12, <4>1
      <4>3. /\ strip[i].id # 0 => HasRow(strip[i].id, strip[i].tap)
            /\ ~ strip[i].void => strip[i].tap \in meant
        BY <4>1 DEF Inv, StripInv, n
      <4>4. strip[i].tap <= made'
        BY <1>1, <1>3, <4>2
      <4> QED
        BY <1>1, <1>5, <4>2, <4>3, <4>4
    <3> QED
      BY <3>1, <3>2
  <2>2. ASSUME NEW i \in 1 .. Len(strip'), NEW j \in 1 .. Len(strip'),
               strip'[i].tap = strip'[j].tap
        PROVE  i = j
    <3>1. i \in 1 .. n \/ i = n + 1
      BY <1>8
    <3>2. j \in 1 .. n \/ j = n + 1
      BY <1>8
    <3>3. \A k \in 1 .. n : strip'[k].tap # t
      BY <1>3, <1>8, <1>9, <1>12
    <3>4. strip'[n + 1].tap = t
      BY <1>8
    <3>5. CASE i \in 1 .. n /\ j \in 1 .. n
      BY <1>8, <2>2, <3>5 DEF Inv, StripInv, n
    <3> QED
      BY <2>2, <3>1, <3>2, <3>3, <3>4, <3>5
  <2> QED
    BY <2>1, <2>2 DEF StripInv
<1>20. ItemsInv'
  <2>1. ASSUME NEW i \in 1 .. Len(items'), NEW j \in 1 .. Len(items'), i < j,
               items'[i].op = "add", items'[j].op = "add"
        PROVE  items'[i].tap < items'[j].tap
    <3>1. i \in 1 .. Len(items)
      BY <1>7, <2>1
    <3>2. CASE j = Len(items) + 1
      BY <1>3, <1>7, <1>11, <3>1, <3>2
    <3>3. CASE j # Len(items) + 1
      <4>1. j \in 1 .. Len(items)
        BY <1>7, <3>3
      <4> QED
        BY <1>7, <2>1, <3>1, <4>1 DEF Inv, ItemsInv
    <3> QED
      BY <3>2, <3>3
  <2>2. ASSUME NEW i \in 1 .. Len(items'), items'[i].op = "add",
               ~ HasTap(items[i].tap)', NEW r \in rows
        PROVE  r.tap < items'[i].tap
    <3>1. CASE i = Len(items) + 1
      BY <1>3, <1>7, <1>9, <3>1, RowTypes
    <3>2. CASE i # Len(items) + 1
      <4>1. i \in 1 .. Len(items)
        BY <1>7, <3>2
      <4> QED
        BY <1>5, <1>7, <2>2, <4>1 DEF Inv, ItemsInv
    <3> QED
      BY <3>1, <3>2
  <2> QED
    BY <1>13, <1>15, <1>17, <2>1, <2>2 DEF ItemsInv
<1>21. MeantInv'
  <2>1. ASSUME NEW u \in meant'
        PROVE  u <= made' /\ (u \in Live' \/ Queued("add", u)')
    <3>1. CASE u = t
      BY <1>1, <1>3, <1>7, <3>1
    <3>2. CASE u # t
      <4>1. u \in meant
        BY <1>1, <3>2
      <4>2. u <= made' /\ (u \in Live \/ Queued("add", u))
        BY <1>1, <1>3, <1>9, <4>1, Bounds DEF Inv, MeantInv, Taps
      <4> QED
        BY <1>5, <1>7, <4>2
    <3> QED
      BY <3>1, <3>2
  <2>2. \A u \in Live' : u \in meant' \/ Queued("void", u)'
    BY <1>1, <1>2, <1>5, <1>7 DEF Inv, MeantInv
  <2> QED
    BY <2>1, <2>2 DEF MeantInv
<1>22. ClosedInv' /\ ResetInv'
  BY <1>1, <1>2, <1>13, <1>17 DEF Inv, ClosedInv, ResetInv, Closing
<1>23. FeedInv'
  <2>1. ASSUME NEW i \in 1 .. Len(feed)
        PROVE  feed[i].total <= made' /\ (feed[i].final => status = "confirmed")
    <3>1. feed[i].total <= made /\ feed[i].total \in Nat
            /\ (feed[i].final => status = "confirmed")
      BY FeedTypes DEF Inv, FeedInv
    <3> QED
      BY <1>1, <1>3, <3>1
  <2> QED
    BY <1>5, <1>13, <2>1 DEF Inv, FeedInv
<1>24. Undone' = Undone
  <2>1. \A u \in 1 .. made' : u \in 1 .. made \/ u = t
    BY <1>1, <1>3
  <2>2. \A u \in 1 .. made : u \in 1 .. made' /\ u # t
    BY <1>1, <1>3
  <2> QED
    BY <1>1, <2>1, <2>2 DEF Undone
<1>25. shown' <= made' /\ shown' >= - Cardinality(Undone)
  <2>1. shown <= made /\ shown >= - Cardinality(Undone)
    BY DEF Inv, ShownInv
  <2> QED
    BY <1>1, <1>3, <2>1, NumberTypes, UndoneTypes
<1>26. ShownInv'
  BY <1>7, <1>24, <1>25 DEF ShownInv
<1>27. TypeOK'
  <2>1. shown' \in -MaxTaps .. MaxTaps
    <3>1. shown' \in Int /\ made' <= MaxTaps /\ made' \in Nat
      BY <1>1, <1>3, NumberTypes, Bounds
    <3> QED
      BY <1>3, <1>25, <3>1, UndoneTypes, NumberTypes, Bounds
  <2>2. made' \in 0 .. MaxTaps /\ meant' \subseteq Taps
    BY <1>1, <1>3, Bounds
  <2>3. strip' \in Seq([tap: Taps, id: 0..MaxTaps, void: BOOLEAN])
    BY <1>8 DEF Entries
  <2>4. UNCHANGED <<phase, adopted, rows, feed, status, starts, falseStarts, reloads, delays>>
    BY <1>1 DEF server, bounds
  <2>5. slip' \in Slips \cup {"none"}
    OBVIOUS
  <2> QED
    BY <1>7, <1>17, <2>1, <2>2, <2>3, <2>4, <2>5 DEF TypeOK
<1> QED
  BY <1>17, <1>18, <1>19, <1>20, <1>21, <1>22, <1>23, <1>26, <1>27 DEF Inv

(* The last throw that counts is undone; it has a row, or the undo would   *)
(* be a slip.                                                              *)
LEMMA UndoKeeps ==
  ASSUME TypeOK, Inv, Undo, slip' = "none"
  PROVE  TypeOK' /\ Inv'
<1>1. PICK k \in DOMAIN strip :
        /\ ~ strip[k].void
        /\ strip' = [strip EXCEPT ![k].void = TRUE]
        /\ meant' = meant \ {strip[k].tap}
        /\ IF strip[k].id # 0
             THEN Enqueue([op |-> "void", tap |-> strip[k].tap, id |-> strip[k].id])
             ELSE UNCHANGED <<queue, wire, confirming>>
        /\ Note(Slip("early undo", strip[k].id = 0) \cup Slip("closing tap", Closing)
                  \cup Slip("loose reset", Unhandled("reset")))
  BY DEF Undo
<1>2. /\ canScore /\ shown' = shown - 1
      /\ UNCHANGED <<phase, adopted, server, feed, made, bounds>>
  BY DEF Undo
<1>3. ~ Closing /\ ~ Unhandled("reset") /\ strip[k].id # 0
  <2> DEFINE now == Slip("early undo", strip[k].id = 0) \cup Slip("closing tap", Closing)
                      \cup Slip("loose reset", Unhandled("reset"))
  <2>1. now \subseteq Slips
    BY DEF Slip, Slips
  <2>2. now = {}
    BY <1>1, <2>1, NoSlip DEF Inv
  <2> QED
    BY <2>2 DEF Slip
<1>4. PICK t, id : t = strip[k].tap /\ id = strip[k].id
  OBVIOUS
<1> DEFINE x == [op |-> "void", tap |-> t, id |-> id]
<1>5. k \in 1 .. Len(strip) /\ strip \in Seq(Entries) /\ strip[k] \in Entries
  BY StripTypes, LenProperties
<1>6. made \in Nat /\ t \in Taps /\ t \in Nat /\ meant \subseteq Taps /\ id \in 0 .. MaxTaps
  BY <1>4, <1>5, NumberTypes, StripTypes
<1>7. t \in meant /\ t \in 1 .. made /\ HasRow(id, t)
  <2>1. strip[k].tap <= made /\ strip[k].tap \in meant /\ HasRow(strip[k].id, strip[k].tap)
    BY <1>1, <1>3, <1>5 DEF Inv, StripInv
  <2> QED
    BY <1>4, <1>6, <2>1 DEF Taps
<1>8. HasTap(t)
  BY <1>7, HasRowTap
<1>9. Enqueue(x) /\ items' = Append(items, x) /\ meant' = meant \ {t}
  BY <1>1, <1>3, <1>4 DEF Enqueue
<1>10. x \in Items /\ x.op = "void" /\ x.tap = t /\ x.id = id
  BY <1>6 DEF Items, Writes
<1>11. /\ Live' = Live /\ Score(Live)' = Score(Live)
       /\ \A u : HasTap(u)' <=> HasTap(u)
       /\ \A d, u : HasRow(d, u)' <=> HasRow(d, u)
       /\ \A u : IsVoid(u)' <=> IsVoid(u)
  BY <1>2, SameRows DEF server
<1>12. /\ items' \in Seq(Items) /\ items' # <<>> /\ Len(items) \in Nat
       /\ Len(items') = Len(items) + 1 /\ items'[Len(items) + 1] = x
       /\ \A i \in 1 .. Len(items) : items'[i] = items[i]
       /\ \A op, u : First(op, u) => First(op, u)'
       /\ \A op, u : Queued(op, u) => Queued(op, u)'
       /\ Queued("void", t)'
  BY <1>9, <1>10, QueueGrows
<1> HIDE DEF x
<1>13. /\ strip' \in Seq(Entries) /\ Len(strip') = Len(strip) /\ Len(strip) \in Nat
       /\ \A i \in 1 .. Len(strip) :
            /\ strip'[i].tap = strip[i].tap /\ strip'[i].id = strip[i].id
            /\ strip'[i].void = IF i = k THEN TRUE ELSE strip[i].void
  <2> DEFINE y == [strip[k] EXCEPT !.void = TRUE]
  <2>1. strip' = [strip EXCEPT ![k] = y] /\ y \in Entries
          /\ y.tap = strip[k].tap /\ y.id = strip[k].id /\ y.void = TRUE
    BY <1>1, <1>5 DEF Entries
  <2> HIDE DEF y
  <2>2. strip' \in Seq(Entries) /\ Len(strip') = Len(strip)
          /\ \A i \in 1 .. Len(strip) : strip'[i] = IF i = k THEN y ELSE strip[i]
    BY <1>5, <2>1, ExceptSeq
  <2> QED
    BY <2>1, <2>2, StripTypes
<1>14. rows' = rows /\ status' = status /\ feed' = feed /\ made' = made /\ phase' = phase
  BY <1>2 DEF server
<1>15. \A q \in wire : q.op # "confirm"
  BY <1>3 DEF Closing, OnWire
<1>16. ASSUME NEW i \in 1 .. Len(items')
       PROVE  ItemOK(items[i])'
  <2>1. CASE i = Len(items) + 1
    <3>1. items'[i].tap = t /\ items'[i].op = "void" /\ items'[i].id = id
            /\ t \notin meant' /\ t <= made'
      BY <1>6, <1>7, <1>9, <1>10, <1>12, <1>14, <2>1
    <3> QED
      BY <1>7, <1>11, <3>1 DEF ItemOK
  <2>2. CASE i # Len(items) + 1
    <3>1. i \in 1 .. Len(items)
      BY <1>12, <2>2
    <3>2. items'[i] = items[i] /\ ItemOK(items[i])
      BY <1>12, <3>1 DEF Inv, ItemsInv
    <3> QED
      BY <1>8, <1>9, <1>11, <1>14, <3>2 DEF ItemOK
  <2> QED
    BY <2>1, <2>2
<1>17. ASSUME loop' = loop \/ (loop = "idle" /\ loop' = "send"), NEW q \in wire
       PROVE  RequestOK(q)'
  <2>1. RequestOK(q)
    BY DEF Inv, WireInv
  <2>2. q.op \notin Writes => CallOK(q)'
    BY <1>15, <2>1 DEF RequestOK, CallOK
  <2>3. q.op \in Writes => WriteOK(q)'
    BY <1>8, <1>9, <1>11, <1>12, <1>14, <1>17, <2>1 DEF RequestOK, WriteOK
  <2> QED
    BY <1>14, <2>1, <2>2, <2>3 DEF RequestOK
<1>18. /\ WireInv' /\ wire' \subseteq Requests
       /\ Unhandled("reset")' <=> Unhandled("reset")
       /\ loop' \in {"send", "sleep"} /\ confirming' = confirming
  BY <1>6, <1>9, <1>10, <1>14, <1>15, <1>16, <1>17, EnqueueDoes
<1>19. RowsInv'
  BY <1>9, <1>14 DEF Inv, RowsInv
<1>20. StripInv'
  <2>1. ASSUME NEW i \in 1 .. Len(strip')
        PROVE  /\ strip'[i].tap <= made'
               /\ strip'[i].id # 0 => HasRow(strip[i].id, strip[i].tap)'
               /\ ~ strip'[i].void => strip'[i].tap \in meant'
    <3>1. i \in 1 .. Len(strip) /\ k \in 1 .. Len(strip)
      BY <1>5, <1>13
    <3>2. /\ strip[i].tap <= made
          /\ strip[i].id # 0 => HasRow(strip[i].id, strip[i].tap)
          /\ ~ strip[i].void => strip[i].tap \in meant
          /\ strip[i].tap = strip[k].tap => i = k
      BY <3>1 DEF Inv, StripInv
    <3> QED
      BY <1>4, <1>9, <1>11, <1>13, <1>14, <3>1, <3>2
  <2>2. \A i, j \in 1 .. Len(strip') : strip'[i].tap = strip'[j].tap => i = j
    BY <1>13 DEF Inv, StripInv
  <2> QED
    BY <2>1, <2>2 DEF StripInv
<1>21. ItemsInv'
  <2>1. \A i \in 1 .. Len(items') : items'[i].op = "add" =>
          i \in 1 .. Len(items) /\ items'[i] = items[i]
    BY <1>10, <1>12
  <2>2. \A i, j \in 1 .. Len(items') :
          i < j /\ items'[i].op = "add" /\ items'[j].op = "add" =>
            items'[i].tap < items'[j].tap
    BY <2>1 DEF Inv, ItemsInv
  <2>3. ASSUME NEW i \in 1 .. Len(items'), items'[i].op = "add",
               ~ HasTap(items[i].tap)', NEW r \in rows
        PROVE  r.tap < items'[i].tap
    BY <1>11, <2>1, <2>3 DEF Inv, ItemsInv
  <2> QED
    BY <1>14, <1>16, <1>18, <2>2, <2>3 DEF ItemsInv
<1>22. MeantInv'
  <2>1. \A u \in meant' : u <= made' /\ (u \in Live' \/ Queued("add", u)')
    BY <1>9, <1>11, <1>12, <1>14 DEF Inv, MeantInv
  <2>2. \A u \in Live' : u \in meant' \/ Queued("void", u)'
    BY <1>3, <1>9, <1>11, <1>12 DEF Inv, MeantInv
  <2> QED
    BY <2>1, <2>2 DEF MeantInv
<1>23. ClosedInv' /\ ResetInv'
  BY <1>2, <1>3, <1>14, <1>18 DEF Inv, ClosedInv, ResetInv, Closing
<1>24. FeedInv'
  BY <1>11, <1>14 DEF Inv, FeedInv
<1>25. Cardinality(Undone)' = Cardinality(Undone) + 1
  <2>1. Undone' = Undone \cup {t} /\ t \notin Undone
    BY <1>7, <1>9, <1>14 DEF Undone
  <2>2. IsFiniteSet(Undone)
    BY UndoneTypes
  <2>3. Cardinality(Undone \cup {t}) = Cardinality(Undone) + 1
    BY <2>1, <2>2, FS_AddElement
  <2> QED
    BY <2>1, <2>3
<1>26. shown' <= made' /\ shown' >= - Cardinality(Undone)'
  <2>1. shown <= made /\ shown >= - Cardinality(Undone)
    BY DEF Inv, ShownInv
  <2> QED
    BY <1>2, <1>6, <1>14, <1>25, <2>1, NumberTypes, UndoneTypes
<1>27. ShownInv'
  BY <1>12, <1>26 DEF ShownInv
<1>28. TypeOK'
  <2>1. IsFiniteSet(Undone') /\ Cardinality(Undone)' <= made /\ Cardinality(Undone)' \in Nat
    <3>1. IsFiniteSet(1 .. made) /\ Cardinality(1 .. made) = made
      BY <1>6, FS_Interval
    <3>2. Undone' \in SUBSET (1 .. made)
      BY <1>14 DEF Undone
    <3>3. IsFiniteSet(Undone') /\ Cardinality(Undone') <= made
      BY <3>1, <3>2, FS_Subset
    <3> QED
      BY <3>3, FS_CardinalityType
  <2>2. shown' \in -MaxTaps .. MaxTaps
    <3>1. shown' \in Int /\ made <= MaxTaps
      BY <1>2, NumberTypes
    <3> QED
      BY <1>6, <1>14, <1>26, <2>1, <3>1, Bounds
  <2>3. meant' \subseteq Taps
    BY <1>6, <1>9
  <2>4. strip' \in Seq([tap: Taps, id: 0..MaxTaps, void: BOOLEAN])
    BY <1>13 DEF Entries
  <2>5. UNCHANGED <<phase, adopted, rows, feed, status, made, starts, falseStarts, reloads,
                    delays>>
    BY <1>2 DEF server, bounds
  <2> QED
    BY <1>12, <1>18, <2>2, <2>3, <2>4, <2>5 DEF TypeOK
<1> QED
  BY <1>18, <1>19, <1>20, <1>21, <1>22, <1>23, <1>24, <1>27, <1>28 DEF Inv

(* A false start, with no write on the wire and no confirmation begun.     *)
LEMMA FalseStartKeeps ==
  ASSUME TypeOK, Inv, FalseStart, slip' = "none"
  PROVE  TypeOK' /\ Inv'
<1> PICK c : c = Request("reset", falseStarts, 0)
  OBVIOUS
<1>1. /\ Mishaps < MaxMishaps
      /\ phase' = "ready" /\ strip' = <<>> /\ shown' = 0 /\ items' = <<>>
      /\ wire' = wire \cup {c} /\ meant' = {} /\ falseStarts' = falseStarts + 1
      /\ UNCHANGED <<adopted, confirming, loop, server, feed, made, starts, reloads, delays>>
  BY DEF FalseStart, Send
<1>2. ~ OnWire(Writes) /\ ~ Closing /\ confirming = "no"
  <2> DEFINE now == Slip("busy reset", OnWire(Writes))
                      \cup Slip("closing tap", Closing \/ confirming # "no")
  <2>1. now \subseteq Slips
    BY DEF Slip, Slips
  <2>2. Note(now)
    BY DEF FalseStart
  <2>3. now = {}
    BY <2>1, <2>2, NoSlip DEF Inv
  <2> QED
    BY <2>3 DEF Slip
<1>3. c \in Requests /\ c.op = "reset" /\ c.at = "sent" /\ c.total <= made
  <2>1. "reset" \in Ops \ Writes
    BY DEF Ops, Writes
  <2> QED
    BY <2>1, CallTypes
<1>4. status # "confirmed" /\ ~ OnWire({"confirm"})
  BY <1>2 DEF Closing
<1>5. rows' = rows /\ status' = status
  BY <1>1 DEF server
<1>6. Len(<<>>) = 0 /\ 1 .. Len(<<>>) = {} /\ <<>> \in Seq(Items) /\ <<>> \in Seq(Entries)
  BY EmptySeq
<1>7. TypeOK'
  <2>1. falseStarts' \in 0 .. MaxMishaps
    BY <1>1, NumberTypes, Bounds DEF Mishaps
  <2>2. shown' \in -MaxTaps .. MaxTaps
    BY <1>1, Bounds
  <2> QED
    BY <1>1, <1>3, <1>6, <2>1, <2>2 DEF TypeOK, server, Entries, Phases
<1>8. RowsInv' /\ StripInv' /\ ItemsInv'
  BY <1>1, <1>5, <1>6 DEF Inv, RowsInv, StripInv, ItemsInv
<1>9. Unhandled("reset")'
  BY <1>1, <1>3 DEF Unhandled, Waiting
<1>10. MeantInv'
  BY <1>1, <1>9 DEF MeantInv
<1>11. WireInv'
  <2>1. \A q \in wire' : q.op \notin Writes /\ q.op # "confirm"
    BY <1>1, <1>2, <1>3, <1>4 DEF OnWire, Writes
  <2>2. \A q \in wire : q.total <= made /\ q.at # "rejected"
    BY <1>1, <2>1 DEF Inv, WireInv, RequestOK, CallOK
  <2>3. \A q \in wire' : q.total <= made' /\ q.at # "rejected"
    BY <1>1, <1>3, <2>2
  <2> QED
    BY <2>1, <2>3 DEF WireInv, RequestOK, CallOK
<1>12. ClosedInv'
  BY <1>1, <1>4, <1>5 DEF ClosedInv
<1>13. ResetInv'
  BY <1>1, <1>2, <1>3, <1>4, <1>5 DEF ResetInv, OnWire, Writes
<1>14. FeedInv'
  BY <1>1, <1>5, SameRows DEF Inv, FeedInv
<1>15. ShownInv'
  <2>1. made' = made /\ made \in Nat
    BY <1>1, NumberTypes
  <2>2. Undone' = 1 .. made
    BY <1>1, <2>1 DEF Undone
  <2>3. Cardinality(Undone') = made
    BY <2>1, <2>2, FS_Interval
  <2> QED
    BY <1>1, <1>9, <2>1, <2>3 DEF ShownInv
<1> QED
  BY <1>7, <1>8, <1>10, <1>11, <1>12, <1>13, <1>14, <1>15 DEF Inv

(* The first write leaves the queue.                                       *)
LEMMA QueueShrinks ==
  ASSUME TypeOK, items # <<>>, items' = Tail(items)
  PROVE  /\ items' \in Seq(Items) /\ Len(items) \in Nat \ {0}
         /\ Len(items') = Len(items) - 1
         /\ \A i \in 1 .. Len(items') : i + 1 \in 1 .. Len(items) /\ items'[i] = items[i + 1]
         /\ \A op, t : Queued(op, t) => First(op, t) \/ Queued(op, t)'
<1>1. items \in Seq(Items) /\ Len(items) \in Nat
  BY ItemTypes
<1>2. Len(items) \in Nat \ {0}
  BY <1>1, EmptySeq
<1>3. /\ items' \in Seq(Items) /\ Len(items') = Len(items) - 1
      /\ \A i \in 1 .. Len(items') : items'[i] = items[i + 1]
  BY <1>1, HeadTailProperties
<1>4. \A i \in 1 .. Len(items') : i + 1 \in 1 .. Len(items)
  BY <1>2, <1>3
<1>5. ASSUME NEW op, NEW t, Queued(op, t), ~ First(op, t)
      PROVE  Queued(op, t)'
  <2>1. PICK i \in 1 .. Len(items) : items[i].op = op /\ items[i].tap = t
    BY <1>5 DEF Queued
  <2>2. i # 1
    BY <1>5, <2>1 DEF First
  <2>3. i - 1 \in 1 .. Len(items') /\ (i - 1) + 1 = i
    BY <1>2, <1>3, <2>2
  <2>4. items'[i - 1] = items[i]
    BY <1>3, <2>3
  <2> QED
    BY <2>1, <2>3, <2>4 DEF Queued
<1> QED
  BY <1>2, <1>3, <1>4, <1>5

(* A write is answered: it has had its effect, and leaves the queue.       *)
LEMMA WriteAnsweredKeeps ==
  ASSUME TypeOK, Inv, NEW q \in wire, WriteAnswered(q)
  PROVE  TypeOK' /\ Inv'
<1> DEFINE others == wire \ {q}
<1>1. RequestOK(q) /\ WriteOK(q) /\ q.op \in Writes /\ q.at = "ok"
  BY DEF Inv, WireInv, RequestOK, WriteOK, WriteAnswered
<1>2. /\ loop = "send" /\ First(q.op, q.n) /\ items # <<>>
      /\ \A p \in wire : p.op \in Writes /\ p.at # "late" => p = q
      /\ \A p \in wire : p.op # "confirm"
      /\ status # "confirmed" /\ phase # "done" /\ ~ Unhandled("reset")
  BY <1>1, AwaitedWrite
<1>3. /\ items' = Tail(items) /\ Advance(items', others)
      /\ IF q.op = "add"
           THEN /\ shown' = q.total
                /\ strip' = [i \in DOMAIN strip |->
                     IF strip[i].tap = q.n THEN [strip[i] EXCEPT !.id = q.id] ELSE strip[i]]
           ELSE UNCHANGED <<shown, strip>>
      /\ UNCHANGED <<phase, adopted, server, feed, history, bounds>>
  BY <1>1, <1>2 DEF WriteAnswered, Shifted
<1>4. /\ items' \in Seq(Items) /\ Len(items) \in Nat \ {0} /\ Len(items') = Len(items) - 1
      /\ \A i \in 1 .. Len(items') : i + 1 \in 1 .. Len(items) /\ items'[i] = items[i + 1]
      /\ \A op, t : Queued(op, t) => First(op, t) \/ Queued(op, t)'
  BY <1>2, <1>3, QueueShrinks
<1>5. /\ Live' = Live /\ Score(Live)' = Score(Live)
      /\ \A t : HasTap(t)' <=> HasTap(t)
      /\ \A id, t : HasRow(id, t)' <=> HasRow(id, t)
      /\ \A t : IsVoid(t)' <=> IsVoid(t)
  BY <1>3, SameRows DEF server
<1>6. made' = made /\ meant' = meant /\ status' = status /\ rows' = rows /\ feed' = feed
        /\ phase' = phase
  BY <1>3 DEF history, server
<1>7. /\ q.op = "add" => HasRow(q.id, q.n) /\ HasTap(q.n) /\ q.total = Score(Live)
      /\ q.op = "void" => IsVoid(q.n)
      /\ q.op = "add" \/ q.op = "void"
      /\ q.total <= made /\ q.total \in 0 .. MaxTaps /\ q.total \in Nat /\ q.id \in 0 .. MaxTaps
  BY <1>1, HasRowTap, WireTypes DEF RequestOK, WriteOK, Writes
<1>8. \A op, t : First(op, t) => op = q.op /\ t = q.n
  BY <1>2 DEF First
<1>9. ASSUME NEW p \in others
      PROVE  RequestOK(p)' /\ p.op # "confirm" /\ (p.op \in Writes => p.at = "late")
  <2>1. RequestOK(p) /\ p.op # "confirm" /\ (p.op \in Writes => p.at = "late")
    BY <1>2 DEF Inv, WireInv
  <2>2. p.op \in Writes => WriteOK(p)'
    <3> SUFFICES ASSUME WriteOK(p), p.at = "late" PROVE WriteOK(p)'
      BY <2>1 DEF RequestOK
    <3>1. p.op = "add" => HasTap(p.n)
      BY <1>7, <1>8 DEF WriteOK, Waiting
    <3>2. p.op = "void" => IsVoid(p.n)
      BY <1>7, <1>8 DEF WriteOK, Waiting
    <3> QED
      BY <1>5, <1>6, <3>1, <3>2 DEF WriteOK
  <2>3. p.op \notin Writes => CallOK(p)'
    BY <2>1 DEF RequestOK, CallOK
  <2> QED
    BY <1>6, <2>1, <2>2, <2>3 DEF RequestOK
<1>10. \A i \in 1 .. Len(items') : ItemOK(items[i])'
  BY <1>4, <1>5, <1>6 DEF Inv, ItemsInv, ItemOK
<1>11. /\ others \subseteq Requests /\ made' \in Nat /\ falseStarts \in Nat /\ MaxTaps \in Nat
  BY <1>6, NumberTypes, Bounds DEF TypeOK
<1>12. Advance(items', others)
  BY <1>3
<1> HIDE DEF others
<1>13. /\ WireInv' /\ wire' \subseteq Requests
       /\ Unhandled("reset")' <=> \E p \in others : p.op = "reset" /\ p.at \in Waiting
       /\ loop' \in {"send", "idle"} /\ (loop' = "idle" => items' = <<>>)
       /\ \/ confirming' = confirming /\ (items' = <<>> => wire' = others)
          \/ confirming = "draining" /\ confirming' = "sent"
  BY <1>4, <1>9, <1>10, <1>11, <1>12, AdvanceDoes
<1>14. ~ Unhandled("reset")'
  BY <1>2, <1>13 DEF Unhandled, others
<1>15. /\ strip' \in Seq(Entries) /\ Len(strip') = Len(strip)
       /\ \A i \in 1 .. Len(strip) :
            /\ strip'[i].tap = strip[i].tap /\ strip'[i].void = strip[i].void
            /\ \/ strip'[i].id = strip[i].id
               \/ q.op = "add" /\ strip[i].tap = q.n /\ strip'[i].id = q.id
  <2>1. CASE q.op # "add"
    BY <1>3, <2>1, StripTypes
  <2>2. CASE q.op = "add"
    <3>1. strip \in Seq(Entries) /\ Len(strip) \in Nat /\ DOMAIN strip = 1 .. Len(strip)
      BY StripTypes, LenProperties
    <3>2. strip' = [i \in 1 .. Len(strip) |->
             IF strip[i].tap = q.n THEN [strip[i] EXCEPT !.id = q.id] ELSE strip[i]]
      BY <1>3, <2>2, <3>1
    <3>3. ASSUME NEW i \in 1 .. Len(strip)
          PROVE  /\ strip'[i] \in Entries
                 /\ strip'[i].tap = strip[i].tap /\ strip'[i].void = strip[i].void
                 /\ \/ strip'[i].id = strip[i].id
                    \/ strip[i].tap = q.n /\ strip'[i].id = q.id
      <4>1. strip[i] \in Entries
        BY StripTypes
      <4>2. strip'[i] = IF strip[i].tap = q.n THEN [strip[i] EXCEPT !.id = q.id] ELSE strip[i]
        BY <3>2
      <4> QED
        BY <1>7, <4>1, <4>2 DEF Entries
    <3>4. strip' \in [1 .. Len(strip) -> Entries]
      BY <3>2, <3>3
    <3>5. strip' \in Seq(Entries)
      BY <3>1, <3>4, SeqDef
    <3>6. Len(strip') = Len(strip)
      BY <3>1, <3>4, <3>5, LenProperties
    <3> QED
      BY <2>2, <3>3, <3>5, <3>6
  <2> QED
    BY <2>1, <2>2
<1>16. shown' \in -MaxTaps .. MaxTaps /\ shown' <= made /\ shown' >= - Cardinality(Undone)
  <2>1. CASE q.op = "add"
    BY <1>3, <1>7, <2>1, UndoneTypes, Bounds
  <2>2. CASE q.op # "add"
    BY <1>3, <2>2 DEF TypeOK, Inv, ShownInv
  <2> QED
    BY <2>1, <2>2
<1>17. TypeOK'
  BY <1>3, <1>4, <1>13, <1>15, <1>16 DEF TypeOK, server, history, bounds, Entries
<1>18. RowsInv' /\ FeedInv'
  BY <1>5, <1>6 DEF Inv, RowsInv, FeedInv
<1>19. StripInv'
  <2>1. ASSUME NEW i \in 1 .. Len(strip')
        PROVE  /\ strip'[i].tap <= made'
               /\ strip'[i].id # 0 => HasRow(strip[i].id, strip[i].tap)'
               /\ ~ strip'[i].void => strip'[i].tap \in meant'
    <3>1. /\ i \in 1 .. Len(strip)
          /\ strip[i].tap <= made
          /\ strip[i].id # 0 => HasRow(strip[i].id, strip[i].tap)
          /\ ~ strip[i].void => strip[i].tap \in meant
      BY <1>15 DEF Inv, StripInv
    <3>2. /\ strip'[i].tap = strip[i].tap /\ strip'[i].void = strip[i].void
          /\ \/ strip'[i].id = strip[i].id
             \/ q.op = "add" /\ strip[i].tap = q.n /\ strip'[i].id = q.id
      BY <1>15, <3>1
    <3> QED
      BY <1>5, <1>6, <1>7, <3>1, <3>2
  <2>2. \A i, j \in 1 .. Len(strip') : strip'[i].tap = strip'[j].tap => i = j
    BY <1>15 DEF Inv, StripInv
  <2> QED
    BY <2>1, <2>2 DEF StripInv
<1>20. ItemsInv'
  <2>1. \A i, j \in 1 .. Len(items') :
          i < j /\ items'[i].op = "add" /\ items'[j].op = "add" =>
            items'[i].tap < items'[j].tap
    <3>1. \A i, j \in 1 .. Len(items') : i < j => i + 1 < j + 1
      OBVIOUS
    <3> QED
      BY <1>4, <3>1 DEF Inv, ItemsInv
  <2>2. ASSUME NEW i \in 1 .. Len(items'), items'[i].op = "add",
               ~ HasTap(items[i].tap)', NEW r \in rows
        PROVE  r.tap < items'[i].tap
    BY <1>4, <1>5, <2>2 DEF Inv, ItemsInv
  <2> QED
    BY <1>6, <1>10, <1>13, <2>1, <2>2 DEF ItemsInv
<1>21. MeantInv'
  <2>1. ASSUME NEW t \in meant
        PROVE  t <= made /\ (t \in Live \/ Queued("add", t)')
    <3>1. t <= made /\ (t \in Live \/ First("add", t) \/ Queued("add", t)')
      BY <1>4 DEF Inv, MeantInv
    <3>2. First("add", t) => t \in Live
      <4>1. First("add", t) => HasTap(t)
        BY <1>7, <1>8
      <4> QED
        BY <4>1 DEF Inv, RowsInv, HasTap, Live
    <3> QED
      BY <3>1, <3>2
  <2>2. ASSUME NEW t \in Live
        PROVE  t \in meant \/ Queued("void", t)'
    <3>1. t \in meant \/ First("void", t) \/ Queued("void", t)'
      BY <1>2, <1>4 DEF Inv, MeantInv
    <3>2. ~ First("void", t)
      <4>1. First("void", t) => IsVoid(t)
        BY <1>7, <1>8
      <4> QED
        BY <4>1 DEF Inv, RowsInv, IsVoid, Live
    <3> QED
      BY <3>1, <3>2
  <2> QED
    BY <1>5, <1>6, <2>1, <2>2 DEF MeantInv
<1>22. ClosedInv' /\ ResetInv'
  BY <1>2, <1>6, <1>14 DEF Inv, ClosedInv, ResetInv
<1>23. ShownInv'
  <2>1. Undone' = Undone
    BY <1>6 DEF Undone
  <2>2. (\A r \in rows : ~ r.void) => shown' = Score(Live)
    <3>1. q.op = "void" => \E r \in rows : r.void
      BY <1>7 DEF IsVoid
    <3> QED
      BY <1>3, <1>7, <3>1
  <2> QED
    BY <1>2, <1>5, <1>6, <1>16, <2>1, <2>2 DEF ShownInv
<1> QED
  BY <1>3, <1>13, <1>17, <1>18, <1>19, <1>20, <1>21, <1>22, <1>23 DEF Inv, history

-----------------------------------------------------------------------------
(***************************************************************************)
(* The requests under way are finitely many: a step adds one at most, or   *)
(* only renames them.                                                      *)
(***************************************************************************)
LEMMA OneMore ==
  ASSUME IsFiniteSet(wire), NEW x, wire' \subseteq wire \cup {x}
  PROVE  IsFiniteSet(wire)'
<1>1. IsFiniteSet(wire \cup {x})
  BY FS_AddElement
<1> QED
  BY <1>1, FS_Subset

LEMMA AdvanceFinite ==
  ASSUME IsFiniteSet(wire), NEW rest, NEW others, others \subseteq wire, Advance(rest, others)
  PROVE  IsFiniteSet(wire)'
<1>1. \/ wire' = others \cup {Write(Head(rest))} \/ wire' = others
      \/ wire' = others \cup {Request("confirm", falseStarts, 0)}
  BY DEF Advance, Resume
<1>2. \E x : wire' \subseteq wire \cup {x}
  BY <1>1
<1> QED
  BY <1>2, OneMore

LEMMA EnqueueFinite ==
  ASSUME IsFiniteSet(wire), NEW x, Enqueue(x)
  PROVE  IsFiniteSet(wire)'
<1>1. CASE loop = "idle"
  <2>1. PICK rest : rest = items'
    OBVIOUS
  <2>2. Advance(rest, wire)
    BY <1>1, <2>1 DEF Enqueue
  <2> QED
    BY <2>2, AdvanceFinite
<1>2. CASE loop # "idle"
  BY <1>2 DEF Enqueue
<1> QED
  BY <1>1, <1>2

(* The requests that a reload leaves behind.                               *)
LEMMA LateFinite ==
  ASSUME IsFiniteSet(wire), NEW kept, kept \subseteq wire
  PROVE  IsFiniteSet({[q EXCEPT !.at = "late"] : q \in kept})
<1> DEFINE f == [q \in kept |-> [q EXCEPT !.at = "late"]]
           T == {[q EXCEPT !.at = "late"] : q \in kept}
<1>1. IsFiniteSet(kept)
  BY FS_Subset
<1>2. f \in Surjection(kept, T)
  <2>1. f \in [kept -> T]
    OBVIOUS
  <2>2. \A t \in T : \E q \in kept : f[q] = t
    OBVIOUS
  <2> HIDE DEF f, T
  <2> QED
    BY <2>1, <2>2 DEF Surjection
<1> HIDE DEF f, T
<1>3. IsFiniteSet(T)
  BY <1>1, <1>2, FS_Surjection
<1> QED
  BY <1>3 DEF T

LEMMA FiniteWire ==
  ASSUME IsFiniteSet(wire), Next
  PROVE  IsFiniteSet(wire)'
<1>1. CASE Start
  <2>1. wire' \subseteq wire \cup {Request("start", falseStarts, 0)}
    BY <1>1 DEF Start, Send
  <2> QED
    BY <2>1, OneMore
<1>2. CASE Record
  <2>1. PICK x : Enqueue(x)
    BY <1>2 DEF Record
  <2> QED
    BY <2>1, EnqueueFinite
<1>3. CASE Undo
  <2>1. wire' = wire \/ \E x : Enqueue(x)
    BY <1>3 DEF Undo
  <2> QED
    BY <2>1, EnqueueFinite
<1>4. CASE FalseStart
  <2>1. wire' \subseteq wire \cup {Request("reset", falseStarts, 0)}
    BY <1>4 DEF FalseStart, Send
  <2> QED
    BY <2>1, OneMore
<1>5. CASE Confirm
  <2>1. wire' \subseteq wire \cup {Request("confirm", falseStarts, 0)}
    BY <1>5 DEF Confirm, Send
  <2> QED
    BY <2>1, OneMore
<1>6. CASE PrerollEnds \/ ApplyRemote
  BY <1>6 DEF PrerollEnds, ApplyRemote
<1>7. CASE TimeUp
  <2>1. wire' \subseteq wire \cup {Request("grace", falseStarts, 0)}
    BY <1>7 DEF TimeUp, Send
  <2> QED
    BY <2>1, OneMore
<1>8. CASE Wake
  BY <1>8, AdvanceFinite DEF Wake
<1>9. CASE Reload
  <2>1. PICK kept : /\ kept \subseteq wire
                    /\ wire' \subseteq (wire \cup {[q EXCEPT !.at = "late"] : q \in kept})
                                         \cup {Write(Head(items))}
    BY <1>9 DEF Reload
  <2> DEFINE both == wire \cup {[q EXCEPT !.at = "late"] : q \in kept}
  <2>2. IsFiniteSet(both)
    BY <2>1, LateFinite, FS_Union
  <2> HIDE DEF both
  <2>3. IsFiniteSet(both \cup {Write(Head(items))})
    BY <2>2, FS_AddElement
  <2> QED
    BY <2>1, <2>3, FS_Subset DEF both
<1>10. ASSUME NEW q \in wire, Ends(q) \/ Handle(q)
       PROVE  IsFiniteSet(wire)'
  <2>1. CASE WriteAnswered(q)
    <3>1. PICK rest : rest = items'
      OBVIOUS
    <3>2. Advance(rest, wire \ {q})
      BY <2>1, <3>1 DEF WriteAnswered
    <3>3. wire \ {q} \subseteq wire
      OBVIOUS
    <3> QED
      BY <3>2, <3>3, AdvanceFinite
  <2>2. CASE CallAnswered(q)
    <3>1. wire' \subseteq wire \cup {q}
      BY <2>2 DEF CallAnswered
    <3> QED
      BY <3>1, OneMore
  <2>3. CASE Fail(q)
    <3>1. wire' \subseteq wire \cup {[q EXCEPT !.at = "late"]}
      BY <2>3 DEF Fail
    <3> QED
      BY <3>1, OneMore
  <2>4. CASE Handle(q)
    <3>1. \E answer : wire' \subseteq wire \cup {answer}
      BY <2>4 DEF Handle, HandleWrite, Accept, Refuse, HandleCall, Reply
    <3> QED
      BY <3>1, OneMore
  <2> QED
    BY <1>10, <2>1, <2>2, <2>3, <2>4 DEF Ends
<1> QED
  BY <1>1, <1>2, <1>3, <1>4, <1>5, <1>6, <1>7, <1>8, <1>9, <1>10 DEF Next, Tap

-----------------------------------------------------------------------------
(***************************************************************************)
(* The page is loaded again, no reset being on its way.                    *)
(***************************************************************************)
LEMMA ReloadKeeps ==
  ASSUME TypeOK, Inv, IsFiniteSet(wire), Reload, slip' = "none"
  PROVE  TypeOK' /\ Inv'
<1>1. /\ reloads' = reloads + 1
      /\ phase' = CASE status = "running"   -> "running"
                    [] status = "confirmed" -> "done"
                    [] OTHER                -> "ready"
      /\ adopted' = (status = "running")
      /\ strip' = <<>> /\ shown' = Score(Live) /\ feed' = <<>> /\ confirming' = "no"
      /\ UNCHANGED <<items, rows, status, made, meant, starts, falseStarts>>
  BY DEF Reload, server
<1>2. PICK kept \in SUBSET {q \in wire : q.at = "sent"} :
        LET late == {q \in wire : q.at = "late"} \cup {[q EXCEPT !.at = "late"] : q \in kept}
        IN  /\ delays' = delays + Cardinality(kept)
            /\ Mishaps + Cardinality(kept) < MaxMishaps
            /\ IF items = <<>> THEN loop' = "idle" /\ wire' = late
                               ELSE loop' = "send" /\ wire' = late \cup {Write(Head(items))}
  BY DEF Reload
<1> DEFINE late == {q \in wire : q.at = "late"} \cup {[q EXCEPT !.at = "late"] : q \in kept}
<1>3. /\ delays' = delays + Cardinality(kept)
      /\ Mishaps + Cardinality(kept) < MaxMishaps
      /\ items = <<>> => loop' = "idle" /\ wire' = late
      /\ items # <<>> => loop' = "send" /\ wire' = late \cup {Write(Head(items))}
  BY <1>2
<1>4. ~ Unhandled("reset")
  <2>1. Slip("loose reset", Unhandled("reset")) \subseteq Slips
    BY DEF Slip, Slips
  <2>2. Slip("loose reset", Unhandled("reset")) = {}
    BY <2>1, NoSlip DEF Reload, Inv
  <2> QED
    BY <2>2 DEF Slip
<1>5. Cardinality(kept) \in Nat
  <2>1. IsFiniteSet(kept)
    BY FS_Subset
  <2> QED
    BY <2>1, FS_CardinalityType
<1>6. reloads' \in 0 .. MaxMishaps /\ delays' \in 0 .. MaxMishaps
  <2> DEFINE k == Cardinality(kept)
  <2> HIDE DEF k
  <2>1. k \in Nat /\ delays' = delays + k /\ falseStarts + reloads + delays + k < MaxMishaps
    BY <1>3, <1>5 DEF k, Mishaps
  <2> QED
    BY <1>1, <2>1, NumberTypes, Bounds
<1>7. ASSUME NEW z \in late
      PROVE  \E q \in wire : /\ q.at \in Waiting
                             /\ z.op = q.op /\ z.n = q.n /\ z.id = q.id /\ z.total = q.total
                             /\ z.at = "late" /\ z \in Requests
  <2>1. CASE z \in wire /\ z.at = "late"
    BY <2>1, WireTypes DEF Waiting
  <2>2. CASE \E q \in kept : z = [q EXCEPT !.at = "late"]
    <3>1. PICK q \in kept : z = [q EXCEPT !.at = "late"]
      BY <2>2
    <3>2. q \in wire /\ q.at = "sent" /\ q \in Requests
      BY WireTypes
    <3> QED
      BY <3>1, <3>2 DEF Waiting, Requests
  <2> QED
    BY <2>1, <2>2
<1> HIDE DEF late
<1>8. /\ Live' = Live /\ Score(Live)' = Score(Live)
      /\ \A t : HasTap(t)' <=> HasTap(t)
      /\ \A id, t : HasRow(id, t)' <=> HasRow(id, t)
      /\ \A t : IsVoid(t)' <=> IsVoid(t)
  BY <1>1, SameRows
<1>9. /\ \A op, t : First(op, t)' <=> First(op, t)
      /\ \A op, t : Queued(op, t)' <=> Queued(op, t)
  BY <1>1, SameItems
<1>10. ASSUME NEW z \in late
       PROVE  RequestOK(z)' /\ z.at = "late"
  <2>1. PICK q \in wire : /\ q.at \in Waiting
                          /\ z.op = q.op /\ z.n = q.n /\ z.id = q.id /\ z.total = q.total
                          /\ z.at = "late"
    BY <1>7
  <2>2. RequestOK(q)
    BY DEF Inv, WireInv
  <2>3. z.op \in Writes => WriteOK(z)'
    BY <1>1, <1>8, <1>9, <2>1, <2>2 DEF RequestOK, WriteOK, Waiting
  <2>4. z.op \notin Writes => CallOK(z)'
    BY <1>1, <1>3, <2>1, <2>2 DEF RequestOK, CallOK
  <2> QED
    BY <1>1, <2>1, <2>2, <2>3, <2>4 DEF RequestOK
<1>11. \A i \in 1 .. Len(items') : ItemOK(items[i])'
  BY <1>1, <1>8 DEF Inv, ItemsInv, ItemOK
<1>12. \A z \in late : ~ (z.op = "reset" /\ z.at \in Waiting)
  BY <1>4, <1>7 DEF Unhandled
<1>13. WireInv' /\ wire' \subseteq Requests /\ ~ Unhandled("reset")'
  <2>1. late \subseteq Requests
    BY <1>7
  <2>2. CASE items = <<>>
    <3>1. wire' = late
      BY <1>3, <2>2
    <3> QED
      BY <1>10, <1>12, <2>1, <3>1 DEF WireInv, Unhandled
  <2>3. CASE items # <<>>
    <3>1. wire' = late \cup {Write(Head(items'))} /\ loop' = "send"
            /\ items' \in Seq(Items) /\ items' # <<>> /\ made' \in Nat /\ MaxTaps \in Nat
      BY <1>1, <1>3, <2>3, ItemTypes, NumberTypes, Bounds
    <3>2. /\ WireInv' /\ wire' \subseteq Requests
          /\ Unhandled("reset")' <=> \E q \in late : q.op = "reset" /\ q.at \in Waiting
      BY <1>10, <1>11, <2>1, <3>1, WriteSent
    <3> QED
      BY <1>12, <3>2
  <2> QED
    BY <2>2, <2>3
<1>14. Score(Live) \in 0 .. made
  BY ScoreNow DEF Inv
<1>15. Len(<<>>) = 0 /\ 1 .. Len(<<>>) = {} /\ <<>> \in Seq(Events) /\ <<>> \in Seq(Entries)
  BY EmptySeq
<1>16. TypeOK'
  <2>1. shown' \in -MaxTaps .. MaxTaps
    BY <1>1, <1>14, NumberTypes, Bounds
  <2>2. phase' \in Phases /\ adopted' \in BOOLEAN
    BY <1>1 DEF Phases
  <2>3. loop' \in {"idle", "send", "sleep"}
    BY <1>3
  <2>4. strip' \in Seq([tap: Taps, id: 0..MaxTaps, void: BOOLEAN])
          /\ feed' \in Seq([total: 0..MaxTaps, final: BOOLEAN])
    BY <1>1, <1>15 DEF Entries, Events
  <2> QED
    BY <1>1, <1>6, <1>13, <2>1, <2>2, <2>3, <2>4 DEF TypeOK
<1>17. RowsInv' /\ StripInv' /\ FeedInv'
  BY <1>1, <1>15 DEF Inv, RowsInv, StripInv, FeedInv
<1>18. ItemsInv'
  BY <1>1, <1>3, <1>8 DEF Inv, ItemsInv, ItemOK
<1>19. MeantInv'
  BY <1>1, <1>4, <1>8, <1>9 DEF Inv, MeantInv
<1>20. ClosedInv' /\ ResetInv'
  BY <1>1, <1>3, <1>13 DEF Inv, ClosedInv, ResetInv
<1>21. ShownInv'
  <2>1. Undone' = Undone
    BY <1>1 DEF Undone
  <2>2. shown' <= made' /\ shown' >= - Cardinality(Undone)
    BY <1>1, <1>14, NumberTypes, UndoneTypes
  <2> QED
    BY <1>1, <1>8, <2>1, <2>2 DEF ShownInv
<1> QED
  BY <1>13, <1>16, <1>17, <1>18, <1>19, <1>20, <1>21 DEF Inv

-----------------------------------------------------------------------------
(***************************************************************************)
(* The server's handlers.  The event of one joins the feed, or is merged   *)
(* with the last one there.                                                *)
(***************************************************************************)
LEMMA FeedGrows ==
  ASSUME NEW S, NEW s \in Seq(S), NEW e \in S
  PROVE  /\ Append(s, e) \in Seq(S) /\ Append(s, e) # <<>>
         /\ Append(s, e)[Len(Append(s, e))] = e
         /\ \A i \in 1 .. Len(Append(s, e)) :
              Append(s, e)[i] = e \/ \E j \in 1 .. Len(s) : Append(s, e)[i] = s[j]
<1> DEFINE a == Append(s, e)
           n == Len(s)
<1>1. /\ a \in Seq(S) /\ a # <<>> /\ Len(a) = n + 1 /\ a[n + 1] = e
      /\ \A i \in 1 .. n : a[i] = s[i]
  BY AppendProperties
<1>2. n \in Nat
  OBVIOUS
<1> HIDE DEF a, n
<1>3. \A i \in 1 .. Len(a) : i = n + 1 \/ i \in 1 .. n
  BY <1>1, <1>2
<1>4. /\ a \in Seq(S) /\ a # <<>> /\ a[Len(a)] = e
      /\ \A i \in 1 .. Len(a) : a[i] = e \/ \E j \in 1 .. n : a[i] = s[j]
  BY <1>1, <1>3
<1> QED
  BY <1>4 DEF a, n

LEMMA FrontOf ==
  ASSUME NEW S, NEW s \in Seq(S), Len(s) > 0
  PROVE  /\ Front(s) \in Seq(S)
         /\ \A i \in 1 .. Len(Front(s)) : \E j \in 1 .. Len(s) : Front(s)[i] = s[j]
<1> DEFINE n == Len(s)
<1>1. n \in Nat /\ n > 0 /\ \A i \in 1 .. n : s[i] \in S
  BY ElementOfSeq
<1>2. Front(s) = SubSeq(s, 1, n - 1)
  BY DEF Front
<1> HIDE DEF n
<1>3. 1 \in Int /\ n - 1 \in Int /\ \A i \in 1 .. n - 1 : i \in 1 .. n /\ s[i] \in S
  BY <1>1
<1>4. /\ Front(s) \in Seq(S)
      /\ Len(Front(s)) = IF 1 <= n - 1 THEN (n - 1) - 1 + 1 ELSE 0
      /\ \A i \in 1 .. (n - 1) - 1 + 1 : Front(s)[i] = s[1 + i - 1]
  BY <1>2, <1>3, SubSeqProperties
<1> DEFINE l == Len(Front(s))
<1> HIDE DEF l
<1>5. \A i \in 1 .. l : i \in 1 .. (n - 1) - 1 + 1 /\ 1 + i - 1 \in 1 .. n
  BY <1>1, <1>4 DEF l
<1>6. \A i \in 1 .. l : \E j \in 1 .. n : Front(s)[i] = s[j]
  BY <1>4, <1>5
<1> QED
  BY <1>4, <1>6 DEF l, n

LEMMA PublishDoes ==
  ASSUME TypeOK, FeedInv, NEW op, op # "grace", Publish(op),
         Score(Live)' \in 0 .. made, made' = made,
         (\E i \in 1 .. Len(feed) : feed[i].final) => status' = "confirmed"
  PROVE  feed' \in Seq(Events) /\ feed' # <<>> /\ FeedInv'
<1> PICK x, fin : x = Score(Live)' /\ fin = (status' = "confirmed")
  OBVIOUS
<1> DEFINE event == [total |-> x, final |-> fin]
           n == Len(feed)
           merged == [event EXCEPT !.final = @ \/ feed[n].final]
<1>1. feed' = CASE op = "grace"   -> feed
                [] n < MaxFeed   -> Append(feed, event)
                [] OTHER         -> Append(Front(feed), merged)
  BY DEF Publish
<1>2. feed \in Seq(Events) /\ n \in Nat
      /\ \A i \in 1 .. n : feed[i].final \in BOOLEAN /\ feed[i].total <= made
                             /\ (feed[i].final => fin)
  BY FeedTypes DEF FeedInv
<1>3. event \in Events /\ event.total = x /\ event.final = fin /\ x <= made
  BY NumberTypes, Bounds DEF Events
<1>4. ASSUME NEW s \in Seq(Events), NEW e \in Events, e.total = x, e.final => fin,
             \A i \in 1 .. Len(s) : \E j \in 1 .. n : s[i] = feed[j],
             feed' = Append(s, e)
      PROVE  feed' \in Seq(Events) /\ feed' # <<>> /\ FeedInv'
  <2>1. /\ feed' \in Seq(Events) /\ feed' # <<>> /\ feed'[Len(feed')] = e
        /\ \A i \in 1 .. Len(feed') :
             feed'[i] = e \/ \E j \in 1 .. Len(s) : feed'[i] = s[j]
    BY <1>4, FeedGrows
  <2>2. \A i \in 1 .. Len(feed') : feed'[i].total <= made /\ (feed'[i].final => fin)
    BY <1>2, <1>3, <1>4, <2>1
  <2> QED
    BY <1>4, <2>1, <2>2 DEF FeedInv
<1> HIDE DEF event, n
<1>5. CASE n < MaxFeed
  BY <1>1, <1>2, <1>3, <1>4, <1>5 DEF n
<1>6. CASE ~ (n < MaxFeed)
  <2>1. n > 0 /\ n \in 1 .. n
    BY <1>2, <1>6, Bounds
  <2>2. Front(feed) \in Seq(Events)
          /\ \A i \in 1 .. Len(Front(feed)) : \E j \in 1 .. n : Front(feed)[i] = feed[j]
    BY <1>2, <2>1, FrontOf DEF n
  <2>3. merged \in Events /\ merged.total = x /\ (merged.final => fin)
    BY <1>2, <1>3, <2>1 DEF Events
  <2> HIDE DEF merged
  <2>4. feed' = Append(Front(feed), merged)
    BY <1>1, <1>6
  <2> QED
    BY <1>4, <2>2, <2>3, <2>4
<1> QED
  BY <1>5, <1>6

(* What a write that is carried out does to the rows: nothing, or what the *)
(* first of the queue asks for.                                            *)
Effect(q, id) ==
  /\ rows' \subseteq RowSet /\ id \in Taps /\ RowsInv'
  /\ \A t : HasTap(t) => HasTap(t)'
  /\ \A d, t : HasRow(d, t) => HasRow(d, t)'
  /\ \A t : IsVoid(t) => IsVoid(t)'
  /\ rows' = rows \/ (First(q.op, q.n) /\ (q.op = "add" => ~ HasTap(q.n)))
  /\ HasRow(id, q.n)'
  /\ q.op = "void" => IsVoid(q.n)'
  /\ \A t : t \in Live' => t \in Live \/ t \in meant
  /\ \A t : t \in Live /\ t \in meant => t \in Live'
  /\ \A t : HasTap(t)' => HasTap(t) \/ (t = q.n /\ First("add", q.n))

LEMMA RowVoided ==
  ASSUME TypeOK, Inv, NEW q \in wire, q.op = "void", q.at \in Waiting,
         NEW id \in RowOf(q), rows' = Written(q, id), made' = made, meant' = meant
  PROVE  Effect(q, id)
<1>1. WriteOK(q) /\ RowsInv
  BY DEF Inv, WireInv, RequestOK, Writes
<1>2. id = q.id
  <2>1. RowOf(q) = {} \/ RowOf(q) = {r.id : r \in {t \in rows : t.id = q.id}}
    BY DEF RowOf
  <2> QED
    BY <2>1
<1>3. PICK v \in rows : v.id = id /\ v.tap = q.n
  BY <1>1, <1>2 DEF WriteOK, HasRow
<1>4. \A r \in rows : r.id = id \/ r.tap = q.n => r = v
  BY <1>1, <1>3 DEF RowsInv
<1>5. q.n \notin meant /\ (IsVoid(q.n) \/ First("void", q.n))
  BY <1>1 DEF WriteOK
<1> DEFINE w == [v EXCEPT !.void = TRUE]
<1>6. rows \subseteq RowSet
  BY DEF TypeOK, RowSet
<1>7. w \in RowSet /\ w.id = id /\ w.tap = q.n /\ w.void = TRUE
  BY <1>3, <1>6 DEF RowSet
<1>8. rows' = (rows \ {v}) \cup {w}
  BY <1>3, <1>4 DEF Written
<1>9. v.void = TRUE => w = v
  BY <1>3, <1>6 DEF RowSet
<1> HIDE DEF w
<1>10. \A r \in rows' : r = w \/ (r \in rows /\ r # v /\ r.id # id /\ r.tap # q.n)
  BY <1>4, <1>8
<1>11. \A r \in rows : r \in rows' \/ r = v
  BY <1>8
<1>12. w \in rows'
  BY <1>8
<1>13. rows' \subseteq RowSet /\ id \in Taps
  BY <1>3, <1>6, <1>7, <1>8 DEF RowSet
<1>14. RowsInv'
  BY <1>1, <1>3, <1>5, <1>7, <1>10 DEF RowsInv
<1>15. \A t : HasTap(t) => HasTap(t)'
  BY <1>3, <1>7, <1>11, <1>12 DEF HasTap
<1>16. \A d, t : HasRow(d, t) => HasRow(d, t)'
  BY <1>3, <1>7, <1>11, <1>12 DEF HasRow
<1>17. \A t : IsVoid(t) => IsVoid(t)'
  BY <1>3, <1>7, <1>11, <1>12 DEF IsVoid
<1>18. IsVoid(q.n)' /\ HasRow(id, q.n)'
  BY <1>7, <1>12 DEF IsVoid, HasRow
<1>19. rows' = rows \/ First("void", q.n)
  <2>1. IsVoid(q.n) => v.void = TRUE
    BY <1>4, <1>6 DEF IsVoid, RowSet
  <2> QED
    BY <1>3, <1>5, <1>8, <1>9, <2>1
<1>20. \A t : t \in Live' => t \in Live
  BY <1>7, <1>10 DEF Live
<1>21. \A t : t \in Live /\ t \in meant => t \in Live'
  BY <1>3, <1>5, <1>11 DEF Live
<1>22. \A t : HasTap(t)' => HasTap(t)
  BY <1>3, <1>7, <1>10 DEF HasTap
<1> QED
  BY <1>13, <1>14, <1>15, <1>16, <1>17, <1>18, <1>19, <1>20, <1>21, <1>22 DEF Effect

LEMMA RowAdded ==
  ASSUME TypeOK, Inv, NEW q \in wire, q.op = "add", q.at \in Waiting, ~ HasTap(q.n),
         status # "confirmed",
         NEW id \in RowOf(q), rows' = Written(q, id), made' = made, meant' = meant
  PROVE  Effect(q, id)
<1>1. WriteOK(q) /\ RowsInv
  BY DEF Inv, WireInv, RequestOK, Writes
<1>2. q.n \in meant /\ First("add", q.n) /\ q.n \in 1 .. made /\ made \in Nat
  BY <1>1, NumberTypes DEF WriteOK
<1>3. \A r \in rows : r.tap < q.n
  <2>1. Len(items) \in Nat \ {0}
    BY <1>2, ItemTypes, EmptySeq DEF First
  <2>2. 1 \in 1 .. Len(items) /\ items[1].op = "add" /\ items[1].tap = q.n
    BY <1>2, <2>1 DEF First
  <2> QED
    BY <2>2 DEF Inv, ItemsInv
<1> DEFINE S == {r.id : r \in rows} \cup {0}
<1>4. id = 1 + Max(S)
  BY DEF RowOf, HasTap
<1>5. \A r \in rows : r.id \in Nat /\ r.tap \in Nat /\ r.id <= r.tap
  BY <1>1, RowTypes DEF RowsInv
<1>6. S \subseteq Nat /\ S # {} /\ q.n - 1 \in Nat /\ \A y \in S : y <= q.n - 1
  BY <1>2, <1>3, <1>5
<1>7. \A r \in rows : r.id \in S
  OBVIOUS
<1> HIDE DEF S
<1>8. Max(S) \in S /\ \A y \in S : y <= Max(S)
  BY <1>6, MaxOf
<1>9. id \in 1 .. q.n /\ \A r \in rows : r.id # id
  <2>1. PICK m : m = Max(S)
    OBVIOUS
  <2>2. m \in Nat /\ m <= q.n - 1 /\ id = 1 + m
    BY <1>4, <1>6, <1>8, <2>1
  <2>3. \A r \in rows : r.id \in Nat /\ r.id <= m
    BY <1>5, <1>7, <1>8, <2>1
  <2> QED
    BY <1>2, <2>2, <2>3
<1> DEFINE w == [id |-> id, tap |-> q.n, void |-> FALSE]
<1>10. rows' = rows \cup {w}
  BY DEF Written, HasTap
<1>11. q.n \in Taps /\ id \in Taps
  BY <1>2, <1>9, NumberTypes, Bounds DEF Taps
<1>12. w \in RowSet /\ w.id = id /\ w.tap = q.n /\ w.void = FALSE
  BY <1>11 DEF RowSet
<1> HIDE DEF w
<1>13. rows' \subseteq RowSet
  BY <1>10, <1>12 DEF TypeOK, RowSet
<1>14. RowsInv'
  <2>1. \A r \in rows' : r.tap <= made /\ r.id <= r.tap /\ (r.tap \in meant => ~ r.void)
    <3>1. w.tap <= made /\ w.id <= w.tap /\ ~ w.void
      BY <1>2, <1>9, <1>12
    <3> QED
      BY <1>1, <1>10, <3>1 DEF RowsInv
  <2>2. \A r, s \in rows' : r.id = s.id \/ r.tap = s.tap => r = s
    BY <1>1, <1>9, <1>10, <1>12 DEF RowsInv, HasTap
  <2> QED
    BY <2>1, <2>2 DEF RowsInv
<1>15. /\ \A t : HasTap(t) => HasTap(t)'
       /\ \A d, t : HasRow(d, t) => HasRow(d, t)'
       /\ \A t : IsVoid(t) => IsVoid(t)'
  BY <1>10 DEF HasTap, HasRow, IsVoid
<1>16. HasRow(id, q.n)'
  BY <1>10, <1>12 DEF HasRow
<1>17. \A t : t \in Live' => t \in Live \/ t = q.n
  BY <1>10, <1>12 DEF Live
<1>18. \A t : t \in Live => t \in Live'
  BY <1>10 DEF Live
<1>19. \A t : HasTap(t)' => HasTap(t) \/ t = q.n
  BY <1>10, <1>12 DEF HasTap
<1> QED
  BY <1>2, <1>11, <1>13, <1>14, <1>15, <1>16, <1>17, <1>18, <1>19 DEF Effect

LEMMA RowWritten ==
  ASSUME TypeOK, Inv, NEW q \in wire, q.op \in Writes, q.at \in Waiting,
         NEW id \in RowOf(q), rows' = Written(q, id), made' = made, meant' = meant
  PROVE  Effect(q, id) /\ status # "confirmed"
<1>1. status # "confirmed"
  BY DEF RowOf
<1>2. CASE q.op = "void"
  BY <1>1, <1>2, RowVoided
<1>3. CASE q.op = "add" /\ ~ HasTap(q.n)
  BY <1>1, <1>3, RowAdded
<1>4. CASE q.op = "add" /\ HasTap(q.n)
  <2>1. rows' = rows
    BY <1>4 DEF Written, HasTap
  <2>2. PICK r \in rows : r.id = id /\ r.tap = q.n
    BY <1>1, <1>4 DEF RowOf, HasTap
  <2>3. HasRow(id, q.n) /\ id \in Taps /\ rows \subseteq RowSet
    BY <2>2, RowTypes DEF HasRow, TypeOK, RowSet
  <2>4. RowsInv'
    BY <2>1 DEF Inv, RowsInv
  <2> QED
    BY <1>1, <1>4, <2>1, <2>3, <2>4, SameRows DEF Effect
<1> QED
  BY <1>2, <1>3, <1>4 DEF Writes

LEMMA HandleWriteKeeps ==
  ASSUME TypeOK, Inv, NEW q \in wire, HandleWrite(q), slip' = "none"
  PROVE  TypeOK' /\ Inv'
<1>1. /\ q.op \in Writes /\ q.at \in Waiting
      /\ UNCHANGED <<screen, queue, made, meant, slip, bounds>>
  BY DEF HandleWrite, Inv
<1>2. /\ made' = made /\ meant' = meant /\ items' = items /\ loop' = loop /\ strip' = strip
      /\ shown' = shown /\ phase' = phase /\ confirming' = confirming
  BY <1>1 DEF screen, queue
<1>3. RequestOK(q) /\ WriteOK(q) /\ ~ Unhandled("reset") /\ q.op # "reset"
  BY <1>1 DEF Inv, WireInv, RequestOK, ResetInv, OnWire, Writes
<1>4. CASE Refuse(q)
  <2>1. /\ UNCHANGED <<server, feed>>
        /\ wire' = (wire \ {q}) \cup
                     (IF q.at = "late" THEN {} ELSE {[q EXCEPT !.at = "rejected"]})
        /\ Note(Slip("turned away", q.at = "sent"))
    BY <1>4 DEF Refuse, Reply
  <2>2. q.at # "sent"
    <3>1. Slip("turned away", q.at = "sent") \subseteq Slips
      BY DEF Slip, Slips
    <3>2. Slip("turned away", q.at = "sent") = {}
      BY <2>1, <3>1, NoSlip DEF Inv
    <3> QED
      BY <3>2 DEF Slip
  <2>3. q.at = "late"
    BY <1>1, <2>2 DEF Waiting
  <2>4. wire' = wire \ {q}
    BY <2>1, <2>3
  <2>5. TypeOK'
    BY <1>1, <2>1, <2>4 DEF TypeOK, screen, queue, server, bounds
  <2>6. /\ RowsInv' /\ StripInv' /\ ItemsInv' /\ MeantInv' /\ WireInv' /\ ResetInv'
        /\ Unhandled("reset")' <=> Unhandled("reset")
    BY <1>2, <1>3, <2>1, <2>4, CallsChange DEF server
  <2>7. ClosedInv' /\ FeedInv' /\ ShownInv'
    BY <1>2, <2>1, <2>6, SameRows DEF Inv, ClosedInv, FeedInv, ShownInv, Undone, server
  <2> QED
    BY <2>5, <2>6, <2>7 DEF Inv
<1>5. CASE Accept(q)
  <2> PICK x : x = Score(Live)'
    OBVIOUS
  <2>1. PICK id \in RowOf(q) :
          /\ rows' = Written(q, id) /\ status' = status
          /\ wire' = (wire \ {q}) \cup
               (IF q.at = "late" THEN {}
                ELSE {[q EXCEPT !.at = "ok", !.id = id,
                                !.total = IF q.op = "add" THEN x ELSE 0]})
          /\ Publish(q.op)
    BY <1>5 DEF Accept, Reply
  <2> DEFINE answer == [q EXCEPT !.at = "ok", !.id = id,
                                 !.total = IF q.op = "add" THEN x ELSE 0]
  <2>2. Effect(q, id) /\ status # "confirmed"
    BY <1>1, <1>2, <2>1, RowWritten
  <2>3. x \in 0 .. made /\ made \in Nat /\ made <= MaxTaps
    <3> PICK taps : taps = Live'
      OBVIOUS
    <3>1. \A r \in rows' : r.tap \in 1 .. made
      BY <1>2, <2>2, NumberTypes, Bounds DEF Effect, RowSet, RowsInv, Taps
    <3>2. taps \subseteq 1 .. made
      BY <3>1 DEF Live
    <3>3. Score(taps) = x
      BY DEF Score
    <3> QED
      BY <3>2, <3>3, ScoreRange, NumberTypes
  <2>4. feed' \in Seq(Events) /\ feed' # <<>> /\ FeedInv'
    <3>1. (\E i \in 1 .. Len(feed) : feed[i].final) => status' = "confirmed"
      BY <2>1 DEF Inv, FeedInv
    <3>2. q.op # "grace"
      BY <1>1 DEF Writes
    <3>3. Score(Live)' \in 0 .. made
      BY <2>3
    <3> QED
      BY <1>2, <2>1, <3>1, <3>2, <3>3, PublishDoes DEF Inv
  <2>5. /\ answer \in Requests /\ answer.op = q.op /\ answer.n = q.n /\ answer.id = id
        /\ answer.at = "ok" /\ (q.op = "add" => answer.total = x) /\ answer.total <= made
    <3>1. id \in 0 .. MaxTaps
      BY <2>2, Bounds DEF Effect, Taps
    <3>2. x \in 0 .. MaxTaps /\ 0 \in 0 .. MaxTaps /\ 0 <= made
      BY <2>3, Bounds
    <3>3. q \in Requests
      BY WireTypes
    <3> PICK y : y = IF q.op = "add" THEN x ELSE 0
      OBVIOUS
    <3>4. y \in 0 .. MaxTaps /\ y <= made /\ (q.op = "add" => y = x)
      BY <2>3, <3>2
    <3>5. answer = [q EXCEPT !.at = "ok", !.id = id, !.total = y]
      OBVIOUS
    <3> HIDE DEF answer
    <3>6. /\ answer \in Requests /\ answer.op = q.op /\ answer.n = q.n /\ answer.id = id
          /\ answer.at = "ok" /\ answer.total = y
      BY <3>1, <3>3, <3>4, <3>5 DEF Requests
    <3> QED
      BY <3>4, <3>6
  <2>6. \A p \in wire' : (p \in wire /\ p # q) \/ (p = answer /\ q.at # "late")
    BY <2>1
  <2>7. \A p \in wire : p = q \/ p \in wire'
    BY <2>1
  <2> HIDE DEF answer
  <2>8. TypeOK'
    <3>1. wire' \subseteq Requests
      BY <2>5, <2>6 DEF TypeOK
    <3>2. rows' \subseteq [id: Taps, tap: Taps, void: BOOLEAN]
      BY <2>2 DEF Effect, RowSet
    <3>3. feed' \in Seq([total: 0..MaxTaps, final: BOOLEAN])
      BY <2>4 DEF Events
    <3> QED
      BY <1>1, <2>1, <3>1, <3>2, <3>3 DEF TypeOK, screen, queue, history, bounds
  <2>9. RowsInv' /\ StripInv'
    BY <1>2, <2>2 DEF Inv, StripInv, Effect
  <2>10. ASSUME NEW i \in 1 .. Len(items)
         PROVE  ItemOK(items[i])'
    BY <1>2, <2>2 DEF Inv, ItemsInv, ItemOK, Effect
  <2>11. ASSUME NEW i \in 1 .. Len(items), items[i].op = "add",
                ~ HasTap(items[i].tap)', NEW r \in rows'
         PROVE  r.tap < items[i].tap
    <3>1. ~ HasTap(items[i].tap)
      BY <1>2, <2>2, <2>11 DEF Effect
    <3>2. \A s \in rows : s.tap < items[i].tap
      BY <2>11, <3>1 DEF Inv, ItemsInv
    <3>3. HasTap(r.tap)'
      BY DEF HasTap
    <3>4. HasTap(r.tap) \/ (r.tap = q.n /\ First("add", q.n))
      BY <2>2, <3>3 DEF Effect
    <3>5. CASE HasTap(r.tap)
      BY <3>2, <3>5 DEF HasTap
    <3>6. CASE r.tap = q.n /\ First("add", q.n)
      <4>1. Len(items) \in Nat \ {0}
        BY <3>6, ItemTypes, EmptySeq DEF First
      <4>2. 1 \in 1 .. Len(items) /\ items[1].op = "add" /\ items[1].tap = q.n
        BY <3>6, <4>1 DEF First
      <4>3. i # 1
        BY <1>2, <2>11, <3>3, <3>6, <4>2
      <4>4. 1 < i
        BY <4>3
      <4> QED
        BY <2>11, <3>6, <4>2, <4>4 DEF Inv, ItemsInv
    <3> QED
      BY <3>4, <3>5, <3>6
  <2>12. ItemsInv'
    BY <1>2, <2>10, <2>11 DEF Inv, ItemsInv
  <2>13. ~ Unhandled("reset")'
    BY <1>3, <2>5, <2>6 DEF Unhandled
  <2>14. MeantInv'
    <3>1. \A op, t : Queued(op, t)' <=> Queued(op, t)
      BY <1>2, SameItems
    <3>2. \A t \in meant : t <= made /\ (t \in Live' \/ Queued("add", t))
      BY <2>2 DEF Inv, MeantInv, Effect
    <3>3. \A t \in Live' : t \in meant \/ Queued("void", t)
      BY <1>3, <2>2 DEF Inv, MeantInv, Effect
    <3> QED
      BY <1>2, <3>1, <3>2, <3>3 DEF MeantInv
  <2>15. WireInv'
    <3>1. \A op, t : First(op, t)' <=> First(op, t)
      BY <1>2, SameItems
    <3>2. q.at # "late" => RequestOK(answer)'
      <4> SUFFICES ASSUME q.at # "late" PROVE RequestOK(answer)'
        OBVIOUS
      <4>1. WriteOK(answer)'
        BY <1>1, <1>2, <1>3, <2>2, <2>5, <3>1 DEF WriteOK, Effect, Waiting, Writes
      <4> QED
        BY <1>1, <1>2, <2>5, <4>1 DEF RequestOK
    <3>3. ASSUME NEW p \in wire, p # q
          PROVE  RequestOK(p)'
      <4>1. RequestOK(p)
        BY DEF Inv, WireInv
      <4>2. p.op \notin Writes => CallOK(p)'
        BY <1>2, <2>1, <2>2, <4>1 DEF RequestOK, CallOK
      <4>3. p.op = "add" /\ p.at = "ok" => Score(Live)' = Score(Live)
        <5> SUFFICES ASSUME p.op = "add", p.at = "ok" PROVE Score(Live)' = Score(Live)
          OBVIOUS
        <5>1. First("add", p.n) /\ HasTap(p.n)
          BY <4>1, HasRowTap DEF RequestOK, WriteOK, Writes
        <5>2. ~ (First(q.op, q.n) /\ (q.op = "add" => ~ HasTap(q.n)))
          BY <5>1 DEF First
        <5>3. rows' = rows
          BY <2>2, <5>2 DEF Effect
        <5> QED
          BY <5>3, SameRows
      <4>4. p.op \in Writes => WriteOK(p)'
        BY <1>2, <2>2, <3>1, <4>1, <4>3 DEF RequestOK, WriteOK, Effect
      <4> QED
        BY <1>2, <4>1, <4>2, <4>4 DEF RequestOK
    <3>4. ASSUME NEW p \in wire', NEW z \in wire',
                 {p.op, z.op} \subseteq Writes, p.at # "late", z.at # "late"
          PROVE  p = z
      BY <1>1, <2>6, <3>4 DEF Inv, WireInv
    <3> QED
      BY <2>6, <3>2, <3>3, <3>4 DEF WireInv
  <2>16. ClosedInv' /\ ResetInv'
    BY <1>2, <2>1, <2>2, <2>13 DEF Inv, ClosedInv, ResetInv
  <2>17. ShownInv'
    BY <1>2, <2>4 DEF Inv, ShownInv, Undone
  <2> QED
    BY <2>4, <2>8, <2>9, <2>12, <2>14, <2>15, <2>16, <2>17 DEF Inv
<1> QED
  BY <1>4, <1>5 DEF HandleWrite

(* A start, a grace, a reset or a confirmation is handled.                 *)
LEMMA HandleCallKeeps ==
  ASSUME TypeOK, Inv, NEW q \in wire, HandleCall(q), slip' = "none"
  PROVE  TypeOK' /\ Inv'
<1> PICK x, y : x = Score(Live)' /\ y = (IF q.op = "confirm" THEN x ELSE 0)
  OBVIOUS
<1> DEFINE answer == [q EXCEPT !.at = "ok", !.total = y]
<1>1. /\ q.op \notin Writes /\ q.at \in Waiting
      /\ UNCHANGED <<screen, queue, made, meant, bounds>>
      /\ rows' = IF q.op = "reset" THEN {} ELSE rows
      /\ wire' = (wire \ {q}) \cup (IF q.at = "late" THEN {} ELSE {answer})
      /\ Publish(q.op)
  BY DEF HandleCall, Reply
<1>2. q.op \in {"start", "grace", "reset", "confirm"}
  BY <1>1, WireTypes DEF Ops, Writes
<1>3. /\ status' \in Statuses
      /\ q.op = "confirm" <=> status' = "confirmed"
  BY <1>2 DEF HandleCall, Statuses
<1>4. /\ made' = made /\ meant' = meant /\ items' = items /\ loop' = loop /\ strip' = strip
      /\ shown' = shown /\ phase' = phase /\ confirming' = confirming
  BY <1>1 DEF screen, queue
<1>5. status = "confirmed" => q.op = "confirm"
  <2> DEFINE reopened == Slip("reopened", status = "confirmed" /\ q.op # "confirm")
             now == reopened
                      \cup Slip("overtaken", q.op \in {"start", "grace"} /\ q.n < falseStarts
                                               /\ ~ Unhandled("reset"))
  <2>1. now \subseteq Slips
    BY DEF Slip, Slips
  <2>2. Note(now)
    BY DEF HandleCall
  <2> HIDE DEF reopened
  <2>3. now = {}
    BY <2>1, <2>2, NoSlip DEF Inv
  <2>4. reopened = {}
    BY <2>3
  <2> QED
    BY <2>4 DEF Slip, reopened
<1>6. RequestOK(q) /\ CallOK(q)
  BY <1>1 DEF Inv, WireInv, RequestOK
<1>7. made \in Nat /\ made <= MaxTaps
  BY NumberTypes
<1>8. rows' \subseteq rows
  BY <1>1
<1>9. x \in 0 .. made
  <2> PICK taps : taps = Live'
    OBVIOUS
  <2>1. Live \subseteq 1 .. made
    BY ScoreNow DEF Inv
  <2>2. taps \subseteq Live
    BY <1>8 DEF Live
  <2>3. x = Score(taps)
    BY DEF Score
  <2> QED
    BY <1>7, <2>1, <2>2, <2>3, ScoreRange
<1>10. y \in 0 .. MaxTaps /\ y <= made /\ (q.op = "confirm" => y = x)
  BY <1>7, <1>9, Bounds
<1>11. /\ answer \in Requests /\ answer.op = q.op /\ answer.at = "ok" /\ answer.total = y
  BY <1>10, WireTypes DEF Requests
<1> HIDE DEF answer
<1>12. \A p \in wire' : (p \in wire /\ p # q) \/ (p = answer /\ q.at # "late")
  BY <1>1
<1>13. \A p \in wire : p = q \/ p \in wire'
  BY <1>1
<1>14. q.op # "grace" => feed' \in Seq(Events) /\ feed' # <<>> /\ FeedInv'
  <2>1. (\E i \in 1 .. Len(feed) : feed[i].final) => status' = "confirmed"
    BY <1>3, <1>5 DEF Inv, FeedInv
  <2>2. Score(Live)' \in 0 .. made
    BY <1>9
  <2> QED
    BY <1>1, <1>4, <2>1, <2>2, PublishDoes DEF Inv
<1>15. q.op = "grace" => feed' = feed
  BY <1>1 DEF Publish
<1>16. TypeOK'
  <2>1. wire' \subseteq Requests
    BY <1>11, <1>12 DEF TypeOK
  <2>2. feed' \in Seq([total: 0..MaxTaps, final: BOOLEAN])
    BY <1>14, <1>15, FeedTypes DEF Events
  <2> QED
    BY <1>1, <1>3, <1>8, <2>1, <2>2 DEF TypeOK, screen, queue, bounds
<1>17. \A ops : OnWire(ops)' => OnWire(ops)
  BY <1>11, <1>12 DEF OnWire
<1>18. Unhandled("reset")' => Unhandled("reset")
  BY <1>11, <1>12 DEF Unhandled, Waiting
<1>19. CASE q.op = "reset"
  <2>1. Unhandled("reset")
    BY <1>1, <1>19 DEF Unhandled
  <2>2. /\ items = <<>> /\ strip = <<>> /\ meant = {}
        /\ confirming = "no" /\ status # "confirmed"
        /\ ~ OnWire(Writes) /\ ~ OnWire({"confirm"})
    BY <2>1 DEF Inv, ResetInv
  <2>3. rows' = {} /\ Live' = {}
    BY <1>1, <1>19 DEF Live
  <2>4. Len(<<>>) = 0 /\ 1 .. Len(<<>>) = {}
    BY EmptySeq
  <2>5. RowsInv' /\ StripInv' /\ ItemsInv'
    BY <1>4, <2>2, <2>3, <2>4 DEF RowsInv, StripInv, ItemsInv
  <2>6. MeantInv'
    BY <1>4, <2>2, <2>3 DEF MeantInv
  <2>7. WireInv'
    <3>1. \A p \in wire' : p.op \notin Writes /\ p.op # "confirm"
      BY <1>17, <2>2 DEF OnWire
    <3>2. \A p \in wire : p.op \notin Writes => p.total <= made /\ p.at # "rejected"
      BY DEF Inv, WireInv, RequestOK, CallOK
    <3>3. \A p \in wire' : p.total <= made' /\ p.at # "rejected"
      BY <1>4, <1>10, <1>11, <1>12, <3>1, <3>2
    <3> QED
      BY <3>1, <3>3 DEF WireInv, RequestOK, CallOK
  <2>8. ClosedInv' /\ ResetInv'
    BY <1>3, <1>4, <1>17, <1>19, <2>2 DEF Inv, ClosedInv, ResetInv
  <2>9. FeedInv' /\ ShownInv'
    BY <1>4, <1>14, <1>19 DEF Inv, ShownInv, Undone
  <2> QED
    BY <1>16, <2>5, <2>6, <2>7, <2>8, <2>9 DEF Inv
<1>20. CASE q.op # "reset"
  <2>1. rows' = rows
    BY <1>1, <1>20
  <2>2. /\ Live' = Live /\ Score(Live)' = Score(Live)
        /\ \A t : HasTap(t)' <=> HasTap(t)
        /\ \A id, t : HasRow(id, t)' <=> HasRow(id, t)
        /\ \A t : IsVoid(t)' <=> IsVoid(t)
    BY <2>1, SameRows
  <2>3. /\ \A op, t : First(op, t)' <=> First(op, t)
        /\ \A op, t : Queued(op, t)' <=> Queued(op, t)
    BY <1>4, SameItems
  <2>4. Unhandled("reset")' <=> Unhandled("reset")
    BY <1>13, <1>18, <1>20 DEF Unhandled
  <2>5. q.op = "confirm" => items = <<>> /\ loop = "idle" /\ ~ Unhandled("reset")
    BY <1>6 DEF Inv, CallOK, ResetInv, OnWire
  <2>6. RowsInv' /\ StripInv'
    BY <1>4, <2>1, <2>2 DEF Inv, RowsInv, StripInv
  <2>7. ItemsInv'
    BY <1>4, <2>1, <2>2 DEF Inv, ItemsInv, ItemOK
  <2>8. MeantInv'
    BY <1>4, <2>2, <2>3, <2>4 DEF Inv, MeantInv
  <2>9. WireInv'
    <3>1. ASSUME NEW p \in wire
          PROVE  RequestOK(p)'
      <4>1. RequestOK(p)
        BY DEF Inv, WireInv
      <4>2. p.op \in Writes => WriteOK(p)'
        BY <1>4, <2>2, <2>3, <4>1 DEF RequestOK, WriteOK
      <4>3. p.op \notin Writes => CallOK(p)'
        BY <1>3, <1>4, <1>5, <2>2, <4>1 DEF RequestOK, CallOK
      <4> QED
        BY <1>4, <4>1, <4>2, <4>3 DEF RequestOK
    <3>2. RequestOK(answer)'
      <4>1. CallOK(answer)'
        BY <1>3, <1>4, <1>10, <1>11, <2>2, <2>5 DEF CallOK
      <4> QED
        BY <1>1, <1>4, <1>10, <1>11, <4>1 DEF RequestOK
    <3>3. ASSUME NEW p \in wire', NEW z \in wire',
                 {p.op, z.op} \subseteq Writes, p.at # "late", z.at # "late"
          PROVE  p = z
      BY <1>1, <1>11, <1>12, <3>3 DEF Inv, WireInv
    <3> QED
      BY <1>12, <3>1, <3>2, <3>3 DEF WireInv
  <2>10. ClosedInv'
    BY <1>3, <1>4, <1>5, <2>5 DEF Inv, ClosedInv
  <2>11. ResetInv'
    BY <1>3, <1>4, <1>17, <2>4, <2>5 DEF Inv, ResetInv
  <2>12. FeedInv' /\ ShownInv'
    <3>1. CASE q.op = "grace"
      <4>1. status # "confirmed" /\ feed' = feed
        BY <1>5, <1>15, <3>1
      <4>2. FeedInv'
        BY <1>4, <2>2, <4>1 DEF Inv, FeedInv
      <4>3. ShownInv'
        BY <1>4, <2>1, <2>2, <2>4, <4>1 DEF Inv, ShownInv, Undone
      <4> QED
        BY <4>2, <4>3
    <3>2. CASE q.op # "grace"
      BY <1>4, <1>14, <3>2 DEF Inv, ShownInv, Undone
    <3> QED
      BY <3>1, <3>2
  <2> QED
    BY <1>16, <2>6, <2>7, <2>8, <2>9, <2>10, <2>11, <2>12 DEF Inv
<1> QED
  BY <1>19, <1>20

-----------------------------------------------------------------------------
(***************************************************************************)
(* The invariant holds at first, and every step without a slip keeps it.   *)
(***************************************************************************)
AllInv == TypeOK /\ Inv /\ IsFiniteSet(wire)

LEMMA ScreenInit == Init => AllInv
<1> SUFFICES ASSUME Init PROVE AllInv
  OBVIOUS
<1> USE DEF Init
<1>1. Len(<<>>) = 0 /\ 1 .. Len(<<>>) = {} /\ \A S : <<>> \in Seq(S)
  BY EmptySeq
<1>2. 0 \in 0 .. MaxTaps /\ 0 \in -MaxTaps .. MaxTaps /\ 0 \in 0 .. MaxStarts
        /\ 0 \in 0 .. MaxMishaps
  BY Bounds
<1>3. TypeOK
  BY <1>1, <1>2 DEF TypeOK, Phases, Statuses
<1>4. /\ Live = {} /\ ~ Unhandled("reset")
  BY DEF Live, Unhandled
<1>5. Score(Live) = 0 /\ Undone = {} /\ Cardinality(Undone) = 0
  <2>1. Cardinality({}) = 0
    BY FS_EmptySet
  <2>2. Undone = {}
    BY DEF Undone
  <2>3. ~ (Cap > 0 /\ 0 > Cap)
    BY Bounds
  <2> QED
    BY <1>4, <2>1, <2>2, <2>3 DEF Score
<1>6. RowsInv /\ StripInv /\ ItemsInv /\ MeantInv /\ WireInv
  BY <1>1, <1>4 DEF RowsInv, StripInv, ItemsInv, MeantInv, WireInv
<1>7. ClosedInv /\ ResetInv
  BY <1>4 DEF ClosedInv, ResetInv
<1>8. FeedInv /\ ShownInv
  BY <1>1, <1>5 DEF FeedInv, ShownInv
<1>9. IsFiniteSet(wire)
  BY FS_EmptySet
<1> QED
  BY <1>3, <1>6, <1>7, <1>8, <1>9 DEF AllInv, Inv

LEMMA ScreenNext == AllInv /\ [Next /\ slip' = "none"]_vars => AllInv'
<1> SUFFICES ASSUME TypeOK, Inv, IsFiniteSet(wire), [Next /\ slip' = "none"]_vars
             PROVE  TypeOK' /\ Inv' /\ IsFiniteSet(wire)'
  BY DEF AllInv
<1>1. CASE UNCHANGED vars
  <2>1. UNCHANGED <<phase, adopted, strip, shown, confirming, items, loop, wire, status, rows,
                    feed, made, meant, slip, starts, falseStarts, reloads, delays>>
    BY <1>1 DEF vars, screen, queue, server, history, bounds
  <2>2. TypeOK'
    BY <2>1 DEF TypeOK
  <2>3. /\ RowsInv' /\ StripInv' /\ ItemsInv' /\ MeantInv' /\ WireInv' /\ ResetInv'
        /\ Unhandled("reset")' <=> Unhandled("reset")
    BY <2>1, CallsChange
  <2>4. ClosedInv' /\ FeedInv' /\ ShownInv'
    BY <2>1, <2>3, SameRows DEF Inv, ClosedInv, FeedInv, ShownInv, Undone
  <2> QED
    BY <2>1, <2>2, <2>3, <2>4 DEF Inv
<1>2. CASE Next /\ slip' = "none"
  <2>1. IsFiniteSet(wire)'
    BY <1>2, FiniteWire
  <2>2. TypeOK' /\ Inv'
    <3>1. CASE Tap
      BY <1>2, <3>1, StartKeeps, RecordKeeps, UndoKeeps, FalseStartKeeps, ConfirmKeeps DEF Tap
    <3>2. CASE PrerollEnds \/ TimeUp \/ Wake
      BY <3>2, PrerollKeeps, TimeUpKeeps, WakeKeeps
    <3>3. CASE Reload \/ ApplyRemote
      BY <1>2, <3>3, ReloadKeeps, ApplyRemoteKeeps
    <3>4. ASSUME NEW q \in wire, Ends(q)
          PROVE  TypeOK' /\ Inv'
      <4>1. CASE WriteAnswered(q)
        BY <4>1, WriteAnsweredKeeps
      <4>2. CASE CallAnswered(q)
        BY <4>2, CallAnsweredKeeps
      <4>3. CASE Fail(q)
        BY <1>2, <4>3, FailWriteKeeps, FailCallKeeps
      <4> QED
        BY <3>4, <4>1, <4>2, <4>3 DEF Ends
    <3>5. ASSUME NEW q \in wire, Handle(q)
          PROVE  TypeOK' /\ Inv'
      <4>1. CASE HandleWrite(q)
        BY <1>2, <4>1, HandleWriteKeeps
      <4>2. CASE HandleCall(q)
        BY <1>2, <4>2, HandleCallKeeps
      <4> QED
        BY <3>5, <4>1, <4>2 DEF Handle
    <3> QED
      BY <1>2, <3>1, <3>2, <3>3, <3>4, <3>5 DEF Next
  <2> QED
    BY <2>1, <2>2
<1> QED
  BY <1>1, <1>2

LEMMA ScreenInvariant == CarefulSpec => []AllInv
<1> QED
  BY ScreenInit, ScreenNext, PTL DEF CarefulSpec

-----------------------------------------------------------------------------
(***************************************************************************)
(* Whatever is sent, lost, late or repeated, each variable keeps its type: *)
(* above all, the score on the screen, which guesses up and down, stays    *)
(* between minus and plus the throws tapped.                               *)
(***************************************************************************)
THEOREM ScreenTypes == CarefulSpec => []TypeOK
<1>1. AllInv => TypeOK
  BY DEF AllInv
<1> QED
  BY <1>1, ScreenInvariant, PTL

(***************************************************************************)
(* Once the round is confirmed, the server's live throws are exactly those *)
(* the scorekeeper tapped in the last attempt and did not undo.  The       *)
(* confirmation left when the queue was empty, so every meant throw has    *)
(* reached the server, and every undo too.                                 *)
(***************************************************************************)
THEOREM MeantIsOfficial == CarefulSpec => []OfficialIsMeant
<1>1. AllInv => OfficialIsMeant
  <2> SUFFICES ASSUME AllInv, status = "confirmed"
               PROVE  Live = meant
    BY DEF OfficialIsMeant
  <2>1. items = <<>> /\ ~ Unhandled("reset")
    BY DEF AllInv, Inv, ClosedInv, ResetInv
  <2>2. \A op, t : ~ Queued(op, t)
    <3>1. 1 .. Len(<<>>) = {}
      BY EmptySeq
    <3> QED
      BY <2>1, <3>1 DEF Queued
  <2> QED
    BY <2>1, <2>2 DEF AllInv, Inv, MeantInv
<1> QED
  BY <1>1, ScreenInvariant, PTL

(***************************************************************************)
(* With nothing under way, a screen that shows the round as final, or one  *)
(* of whose throws none was undone, shows the server's score.              *)
(***************************************************************************)
THEOREM QuietScreenAgrees == CarefulSpec => []ScreenAgrees
<1>1. AllInv => ScreenAgrees
  <2> SUFFICES ASSUME AllInv, Quiet, phase = "done" \/ \A r \in rows : ~ r.void
               PROVE  shown = Score(Live)
    BY DEF ScreenAgrees
  <2>1. ~ Unhandled("reset")
    BY DEF Quiet, Unhandled
  <2> QED
    BY <2>1 DEF AllInv, Inv, ShownInv, Quiet
<1> QED
  BY <1>1, ScreenInvariant, PTL

(***************************************************************************)
(* A screen that says "Final" is of a round that the server has confirmed. *)
(***************************************************************************)
THEOREM FinalIsRight == CarefulSpec => []FinalIsConfirmed
<1>1. AllInv => FinalIsConfirmed
  BY DEF AllInv, Inv, ClosedInv, FinalIsConfirmed
<1> QED
  BY <1>1, ScreenInvariant, PTL
===============================================================================
