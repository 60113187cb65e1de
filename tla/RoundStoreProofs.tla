--------------------------- MODULE RoundStoreProofs ---------------------------
(***************************************************************************)
(* Theorems about modules RoundStore and RoundDevice, for every set of     *)
(* requests, taps and row ids and every team and season format: what holds *)
(* of any clients, and that a round scored by one patient device is a      *)
(* paper score sheet.                                                      *)
(***************************************************************************)
EXTENDS RoundDevice, TLAPS

(***************************************************************************)
(* The score of any set of taps is one of the totals.                      *)
(***************************************************************************)
LEMMA RoundTotalType ==
  ASSUME NEW live \in SUBSET ClientIds
  PROVE  RoundTotal(live) \in Totals
  BY DEF Totals

LEMMA ZeroIsATotal == 0 \in Totals
  BY RoundTotalType, EmptyRoundAssumption

LEMMA LiveType == TypeOK => Live \in SUBSET ClientIds
  BY DEF TypeOK, Live, Rows

LEMMA IdleType == Idle \in RequestStates
  BY DEF Idle, RequestStates

LEMMA AddCall ==
  ASSUME NEW c \in Calls, c.op = "add"
  PROVE  c.client \in ClientIds
  BY DEF Calls

(***************************************************************************)
(* Every variable keeps its type, in every interleaving of the requests.   *)
(***************************************************************************)
LEMMA TypeInit == Init => TypeOK
  BY ZeroIsATotal, IdleType DEF Init, TypeOK, Statuses

LEMMA TypeBegin ==
  ASSUME TypeOK, NEW r \in Requests, NEW c \in Calls, Begin(r, c)
  PROVE  TypeOK'
  BY IdleType DEF TypeOK, Begin, RequestStates, Idle, row

LEMMA TypeStep ==
  ASSUME TypeOK, NEW r \in Requests, Step(r)
  PROVE  TypeOK'
<1> USE DEF RequestStates, Goto, Return
<1>1. CASE CheckStatus(r)
  BY <1>1, IdleType DEF TypeOK, CheckStatus, row
<1>2. ASSUME NEW c \in Calls, InsertThrow(r, c) PROVE TypeOK'
  <2>1. c.client \in ClientIds
    BY <1>2, AddCall DEF InsertThrow
  <2>2. CASE UNCHANGED throws
    BY <1>2, <2>2 DEF TypeOK, InsertThrow
  <2>3. CASE ~UNCHANGED throws
    <3>1. PICK i \in ThrowIds :
            throws' = throws \cup
              {[id |-> i, client |-> c.client, void |-> FALSE]}
      BY <1>2, <2>3 DEF InsertThrow
    <3>2. [id |-> i, client |-> c.client, void |-> FALSE] \in Rows
      BY <2>1 DEF Rows
    <3>3. throws' \subseteq Rows
      BY <3>1, <3>2 DEF TypeOK
    <3> QED
      BY <1>2, <3>3 DEF TypeOK, InsertThrow
  <2> QED
    BY <2>2, <2>3
<1>3. ASSUME NEW c \in Calls, FetchThrow(r, c) PROVE TypeOK'
  BY <1>3, IdleType DEF TypeOK, FetchThrow, row
<1>4. ASSUME NEW c \in Calls, MarkVoid(r, c) PROVE TypeOK'
  <2>1. throws' \subseteq Rows
    BY <1>4 DEF TypeOK, MarkVoid, Rows
  <2> QED
    BY <1>4, <2>1, IdleType DEF TypeOK, MarkVoid
<1>5. CASE ReadThrows(r)
  BY <1>5, LiveType DEF TypeOK, ReadThrows, row
<1>6. CASE CacheTotal(r)
  BY <1>6, RoundTotalType DEF TypeOK, CacheTotal
<1>7. CASE StartRound(r)
  BY <1>7 DEF TypeOK, StartRound, Statuses
<1>8. CASE EnterGrace(r)
  BY <1>8 DEF TypeOK, EnterGrace, Statuses
<1>9. CASE ConfirmRound(r)
  BY <1>9 DEF TypeOK, ConfirmRound, Statuses
<1>10. CASE ResetRound(r)
  BY <1>10, ZeroIsATotal DEF TypeOK, ResetRound, Statuses
<1>11. CASE ReadRound(r)
  <2>1. [status |-> status, total |-> total] \in Views
    BY DEF TypeOK, Views
  <2>2. req' \in [Requests -> RequestStates]
    BY <1>11, <2>1 DEF TypeOK, ReadRound
  <2> QED
    BY <1>11, <2>2 DEF TypeOK, ReadRound, row
<1>12. CASE Publish(r)
  <2>1. req[r] \in RequestStates /\ req[r].call \subseteq Calls
                                /\ req[r].view \subseteq Views
    BY DEF TypeOK
  <2>2. \A c \in req[r].call : c.op = "add" => c.client \in ClientIds
    BY <2>1, AddCall
  <2>3. acked' \subseteq ClientIds
    BY <1>12, <2>2 DEF TypeOK, Publish
  <2>4. req' \in [Requests -> RequestStates]
    BY <1>12, IdleType DEF TypeOK, Publish
  <2> QED
    BY <1>12, <2>1, <2>3, <2>4 DEF TypeOK, Publish, row
<1> QED
  BY <1>1, <1>2, <1>3, <1>4, <1>5, <1>6, <1>7, <1>8, <1>9, <1>10, <1>11, <1>12
     DEF Step

LEMMA TypeAbort ==
  ASSUME TypeOK, NEW r \in Requests, Abort(r)
  PROVE  TypeOK'
  BY IdleType DEF TypeOK, Abort, Return, row

LEMMA TypeNext == TypeOK /\ [Next]_vars => TypeOK'
<1> SUFFICES ASSUME TypeOK, [Next]_vars PROVE TypeOK'
  OBVIOUS
<1>1. CASE UNCHANGED vars
  BY <1>1 DEF TypeOK, vars, row
<1>2. CASE Next
  BY <1>2, TypeBegin, TypeStep, TypeAbort DEF Next
<1> QED
  BY <1>1, <1>2

(***************************************************************************)
(* Type correctness of the round's rows and of every request in progress.  *)
(***************************************************************************)
THEOREM TypeCorrect == Spec => []TypeOK
  BY TypeInit, TypeNext, PTL DEF Spec

-----------------------------------------------------------------------------
(***************************************************************************)
(* The only statements that write table throws.                            *)
(***************************************************************************)
LEMMA ThrowsWriters ==
  ASSUME [Next]_vars
  PROVE  \/ UNCHANGED throws
         \/ \E r \in Requests, c \in Calls : InsertThrow(r, c) \/ MarkVoid(r, c)
         \/ \E r \in Requests : ResetRound(r)
<1>1. CASE UNCHANGED vars
  BY <1>1 DEF vars, row
<1>2. ASSUME NEW r \in Requests, NEW c \in Calls, Begin(r, c)
      PROVE  UNCHANGED throws
  BY <1>2 DEF Begin, row
<1>3. ASSUME NEW r \in Requests, Abort(r)
      PROVE  UNCHANGED throws
  BY <1>3 DEF Abort, row
<1>4. ASSUME NEW r \in Requests, Step(r)
      PROVE  \/ UNCHANGED throws
             \/ \E c \in Calls : InsertThrow(r, c) \/ MarkVoid(r, c)
             \/ ResetRound(r)
  BY <1>4 DEF Step, CheckStatus, FetchThrow, ReadThrows, CacheTotal,
              StartRound, EnterGrace, ConfirmRound, ReadRound, Publish, row
<1> QED
  BY <1>1, <1>2, <1>3, <1>4 DEF Next

(***************************************************************************)
(* What an INSERT does to the rows.                                        *)
(***************************************************************************)
LEMMA InsertedRow ==
  ASSUME NEW r, NEW c, InsertThrow(r, c)
  PROVE  \/ UNCHANGED throws
         \/ /\ ~Stored(c.client)
            /\ \E i \in ThrowIds :
                 /\ \A t \in throws : t.id # i
                 /\ throws' = throws \cup
                      {[id |-> i, client |-> c.client, void |-> FALSE]}
  BY DEF InsertThrow

(***************************************************************************)
(* What an undo does to the rows: each keeps its id and client, and the    *)
(* voided ones stay what they are.                                         *)
(***************************************************************************)
LEMMA VoidedRows ==
  ASSUME TypeOK, NEW r, NEW c, MarkVoid(r, c)
  PROVE  /\ \A u \in throws' : \E t \in throws :
              u.id = t.id /\ u.client = t.client
                /\ u = (IF t.id = c.id THEN [t EXCEPT !.void = TRUE] ELSE t)
         /\ \A t \in throws : t.void => t \in throws'
         /\ \A t \in throws : \E u \in throws' : u.client = t.client
<1> DEFINE marked(t) == IF t.id = c.id THEN [t EXCEPT !.void = TRUE] ELSE t
<1>1. throws' = {marked(t) : t \in throws}
  BY DEF MarkVoid
<1>2. \A t \in throws : marked(t).id = t.id /\ marked(t).client = t.client
                          /\ (t.void => marked(t) = t)
  <2> SUFFICES ASSUME NEW t \in throws
               PROVE  marked(t).id = t.id /\ marked(t).client = t.client
                        /\ (t.void => marked(t) = t)
    OBVIOUS
  <2>1. t \in Rows
    BY DEF TypeOK
  <2> QED
    BY <2>1 DEF Rows
<1> QED
  BY <1>1, <1>2

LEMMA OneRowPerTapNext ==
  ASSUME TypeOK, OneRowPerTap, [Next]_vars
  PROVE  OneRowPerTap'
<1>1. CASE UNCHANGED throws
  BY <1>1 DEF OneRowPerTap
<1>2. ASSUME NEW r \in Requests, NEW c \in Calls, InsertThrow(r, c)
      PROVE  OneRowPerTap'
  <2>1. CASE UNCHANGED throws
    BY <2>1 DEF OneRowPerTap
  <2>2. ASSUME ~Stored(c.client), NEW i \in ThrowIds,
               \A t \in throws : t.id # i,
               throws' = throws \cup
                 {[id |-> i, client |-> c.client, void |-> FALSE]}
        PROVE  OneRowPerTap'
    <3> DEFINE new == [id |-> i, client |-> c.client, void |-> FALSE]
    <3>1. new.id = i /\ new.client = c.client
      OBVIOUS
    <3> HIDE DEF new
    <3>2. throws' = throws \cup {new}
      BY <2>2 DEF new
    <3>3. \A t \in throws : t.client # new.client /\ t.id # new.id
      BY <2>2, <3>1 DEF Stored
    <3> QED
      BY <3>2, <3>3 DEF OneRowPerTap
  <2> QED
    BY <1>2, <2>1, <2>2, InsertedRow
<1>3. ASSUME NEW r \in Requests, NEW c \in Calls, MarkVoid(r, c)
      PROVE  OneRowPerTap'
  <2> SUFFICES ASSUME NEW u \in throws', NEW v \in throws',
                      u.client = v.client \/ u.id = v.id
               PROVE  u = v
    BY DEF OneRowPerTap
  <2> DEFINE marked(t) == IF t.id = c.id THEN [t EXCEPT !.void = TRUE] ELSE t
  <2>1. PICK t \in throws :
          u.id = t.id /\ u.client = t.client /\ u = marked(t)
    BY <1>3, VoidedRows
  <2>2. PICK w \in throws :
          v.id = w.id /\ v.client = w.client /\ v = marked(w)
    BY <1>3, VoidedRows
  <2>3. t = w
    BY <2>1, <2>2 DEF OneRowPerTap
  <2> QED
    BY <2>1, <2>2, <2>3
<1>4. ASSUME NEW r \in Requests, ResetRound(r)
      PROVE  OneRowPerTap'
  BY <1>4 DEF OneRowPerTap, ResetRound
<1> QED
  BY <1>1, <1>2, <1>3, <1>4, ThrowsWriters

(***************************************************************************)
(* However its requests interleave, repeat and break off, a tap never has  *)
(* two rows, and no two rows share an id: no tap is scored twice.          *)
(***************************************************************************)
THEOREM NeverScoredTwice == Spec => []OneRowPerTap
<1>1. Init => OneRowPerTap
  BY DEF Init, OneRowPerTap
<1>2. TypeOK /\ OneRowPerTap /\ [Next]_vars => OneRowPerTap'
  BY OneRowPerTapNext
<1> QED
  BY <1>1, <1>2, TypeCorrect, PTL DEF Spec

(***************************************************************************)
(* No statement but ResetRound's takes a voided row away or unmarks it, so *)
(* an undo survives every retry of the tap it undid.                       *)
(***************************************************************************)
THEOREM UndoIsFinal == Spec => UndoSticks
<1>1. TypeOK /\ [Next]_vars =>
        [(\E r \in Requests : ResetRound(r))
           \/ \A t \in throws : t.void => t \in throws']_vars
  <2> SUFFICES ASSUME TypeOK, [Next]_vars, ~\E r \in Requests : ResetRound(r)
               PROVE  \A t \in throws : t.void => t \in throws'
    OBVIOUS
  <2>1. CASE UNCHANGED throws
    BY <2>1
  <2>2. ASSUME NEW r \in Requests, NEW c \in Calls, InsertThrow(r, c)
        PROVE  throws \subseteq throws'
    BY <2>2, InsertedRow
  <2>3. ASSUME NEW r \in Requests, NEW c \in Calls, MarkVoid(r, c)
        PROVE  \A t \in throws : t.void => t \in throws'
    BY <2>3, VoidedRows
  <2> QED
    BY <2>1, <2>2, <2>3, ThrowsWriters
<1> QED
  BY <1>1, TypeCorrect, PTL DEF Spec, UndoSticks

-----------------------------------------------------------------------------
(***************************************************************************)
(* A stored throw stays stored until a reset.                              *)
(***************************************************************************)
LEMMA StoredStays ==
  ASSUME TypeOK, [Next]_vars, NEW k, Stored(k),
         ~\E r \in Requests : ResetRound(r)
  PROVE  Stored(k)'
<1>1. CASE UNCHANGED throws
  BY <1>1 DEF Stored
<1>2. ASSUME NEW r \in Requests, NEW c \in Calls, InsertThrow(r, c)
      PROVE  Stored(k)'
  BY <1>2, InsertedRow DEF Stored
<1>3. ASSUME NEW r \in Requests, NEW c \in Calls, MarkVoid(r, c)
      PROVE  Stored(k)'
  BY <1>3, VoidedRows DEF Stored
<1> QED
  BY <1>1, <1>2, <1>3, ThrowsWriters

(***************************************************************************)
(* Why an answered tap is stored: past the statement that reads the row    *)
(* back, the row of every add no reset has crossed is there.               *)
(***************************************************************************)
AfterFetch == {"rescore", "cache", "view", "publish"}

LandedAddsAreStored ==
  \A r \in Requests : \A c \in req[r].call :
    c.op = "add" /\ ~req[r].crossed /\ req[r].at \in AfterFetch
      => Stored(c.client)

LEMMA LandedNext ==
  ASSUME TypeOK, LandedAddsAreStored, [Next]_vars
  PROVE  LandedAddsAreStored'
<1> SUFFICES ASSUME NEW q \in Requests, NEW c \in req'[q].call, c.op = "add",
                    ~req'[q].crossed, req'[q].at \in AfterFetch
             PROVE  Stored(c.client)'
  BY DEF LandedAddsAreStored
<1> USE DEF TypeOK, RequestStates
<1>1. CASE \E r \in Requests : ResetRound(r)
  <2>1. PICK r \in Requests : ResetRound(r)
    BY <1>1
  <2>2. CASE q = r
    BY <2>1, <2>2 DEF ResetRound, Doing
  <2>3. CASE q # r
    BY <2>1, <2>3 DEF ResetRound, AfterFetch
  <2> QED
    BY <2>2, <2>3
<1>2. CASE ~\E r \in Requests : ResetRound(r)
  <2>1. CASE c \in req[q].call /\ ~req[q].crossed /\ req[q].at \in AfterFetch
    <3>1. Stored(c.client)
      BY <2>1 DEF LandedAddsAreStored
    <3> QED
      BY <3>1, <1>2, StoredStays
  <2>2. CASE req'[q] = req[q]
    BY <2>1, <2>2
  <2>3. ASSUME NEW r \in Requests, NEW d \in Calls, Begin(r, d)
        PROVE  Stored(c.client)'
    BY <2>3, <2>2 DEF Begin, Idle, AfterFetch
  <2>4. ASSUME NEW r \in Requests, Abort(r)
        PROVE  Stored(c.client)'
    BY <2>4, <2>2 DEF Abort, Return, Idle
  <2>5. ASSUME NEW r \in Requests, Step(r)
        PROVE  Stored(c.client)'
    <3>1. CASE CheckStatus(r)
      BY <3>1, <2>2 DEF CheckStatus, Return, Goto, Idle, AfterFetch
    <3>2. ASSUME NEW d \in Calls, InsertThrow(r, d)
          PROVE  Stored(c.client)'
      BY <3>2, <2>2 DEF InsertThrow, Goto, AfterFetch
    <3>3. ASSUME NEW d \in Calls, FetchThrow(r, d)
          PROVE  Stored(c.client)'
      <4>1. CASE q = r
        <5>1. c = d /\ Stored(d.client)
          BY <3>3, <4>1 DEF FetchThrow, Doing, Goto, Return, Idle
        <5> QED
          BY <5>1, <1>2, StoredStays
      <4>2. CASE q # r
        BY <3>3, <4>2, <2>2 DEF FetchThrow, Goto, Return
      <4> QED
        BY <4>1, <4>2
    <3>4. ASSUME NEW d \in Calls, MarkVoid(r, d)
          PROVE  Stored(c.client)'
      BY <3>4, <2>2 DEF MarkVoid, Doing, Goto, Return, Idle
    <3>5. CASE ReadThrows(r)
      BY <3>5, <2>1, <2>2 DEF ReadThrows, AfterFetch
    <3>6. CASE CacheTotal(r)
      BY <3>6, <2>1, <2>2 DEF CacheTotal, AfterFetch
    <3>7. CASE StartRound(r) \/ EnterGrace(r) \/ ConfirmRound(r)
      BY <3>7, <2>2 DEF StartRound, EnterGrace, ConfirmRound, Doing, Goto
    <3>8. CASE ReadRound(r)
      BY <3>8, <2>1, <2>2 DEF ReadRound, AfterFetch
    <3>9. CASE Publish(r)
      BY <3>9, <2>2 DEF Publish, Return, Idle
    <3> QED
      BY <2>5, <1>2, <3>1, <3>2, <3>3, <3>4, <3>5, <3>6, <3>7, <3>8, <3>9
         DEF Step
  <2>6. CASE UNCHANGED vars
    BY <2>6, <2>2 DEF vars
  <2> QED
    BY <2>3, <2>4, <2>5, <2>6 DEF Next
<1> QED
  BY <1>1, <1>2

LEMMA AckedNext ==
  ASSUME TypeOK, LandedAddsAreStored, AckedThrowsAreStored, [Next]_vars
  PROVE  AckedThrowsAreStored'
<1>1. CASE \E r \in Requests : ResetRound(r)
  BY <1>1 DEF ResetRound, AckedThrowsAreStored
<1>2. CASE ~\E r \in Requests : ResetRound(r)
  <2>1. ASSUME NEW r \in Requests, Publish(r)
        PROVE  \A k \in acked' : Stored(k)
    BY <2>1 DEF Publish, LandedAddsAreStored, AckedThrowsAreStored, AfterFetch
  <2>2. ASSUME NEW r \in Requests, Step(r)
        PROVE  Publish(r) \/ UNCHANGED acked
    BY <1>2, <2>2 DEF Step, CheckStatus, InsertThrow, FetchThrow, MarkVoid,
                  ReadThrows, CacheTotal, StartRound, EnterGrace,
                  ConfirmRound, ReadRound
  <2>3. UNCHANGED acked \/ \E r \in Requests : Publish(r)
    BY <2>2 DEF Next, Begin, Abort, vars
  <2>4. \A k \in acked' : Stored(k)
    BY <2>1, <2>3 DEF AckedThrowsAreStored
  <2> QED
    BY <2>4, <1>2, StoredStays DEF AckedThrowsAreStored
<1> QED
  BY <1>1, <1>2

(***************************************************************************)
(* A tap that has been answered 200 is stored until the round is reset, in *)
(* every interleaving and however often requests are cut short.  The       *)
(* queue may forget a write once it is answered.                           *)
(***************************************************************************)
THEOREM AnsweredTapsAreStored == Spec => []AckedThrowsAreStored
<1>1. Init => LandedAddsAreStored /\ AckedThrowsAreStored
  BY DEF Init, LandedAddsAreStored, AckedThrowsAreStored, Idle
<1>2. TypeOK /\ LandedAddsAreStored /\ AckedThrowsAreStored /\ [Next]_vars
        => LandedAddsAreStored' /\ AckedThrowsAreStored'
  BY LandedNext, AckedNext
<1> QED
  BY <1>1, <1>2, TypeCorrect, PTL DEF Spec

-----------------------------------------------------------------------------
(***************************************************************************)
(* One device sends what any client may send, so what holds of every       *)
(* client holds of it.                                                     *)
(***************************************************************************)
LEMMA DeviceStepIsStep == [DeviceNext]_deviceVars => [Next]_vars
  BY DEF DeviceNext, Ask, Serve, CutShort, GiveUp, Reload, Next, deviceVars

LEMMA DeviceIsClient == DeviceSpec => Spec
  BY DeviceStepIsStep, PTL DEF DeviceSpec, DeviceInit, Spec

(***************************************************************************)
(* What TypeOK leaves open for a device: its page's variables.             *)
(***************************************************************************)
PageTypes ==
  /\ clock \in Clocks /\ adopted \in BOOLEAN
  /\ owed \subseteq {c \in Calls : c.op \in Writes}
  /\ behind \subseteq {"total", "feed"}

LEMMA PageTypesNext == PageTypes /\ [DeviceNext]_deviceVars => PageTypes'
<1> SUFFICES ASSUME PageTypes, [DeviceNext]_deviceVars PROVE PageTypes'
  OBVIOUS
<1> USE DEF PageTypes, Clocks
<1>1. CASE UNCHANGED deviceVars
  BY <1>1 DEF deviceVars, page
<1>2. Stale \subseteq {"total"}
  BY DEF Stale
<1>3. ASSUME NEW r \in Requests, NEW c \in Calls, Ask(r, c)
      PROVE  PageTypes'
  BY <1>2, <1>3 DEF Ask
<1>4. ASSUME NEW r \in Requests, NEW b \in BOOLEAN, Over(r, b)
      PROVE  /\ clock' \in Clocks /\ adopted' \in BOOLEAN
             /\ owed' \subseteq {c \in Calls : c.op \in Writes}
  BY <1>4 DEF Over
<1>5. ASSUME NEW r \in Requests, Serve(r)
      PROVE  PageTypes'
  BY <1>2, <1>4, <1>5 DEF Serve, Mended, page
<1>6. ASSUME NEW r \in Requests, CutShort(r)
      PROVE  PageTypes'
  BY <1>4, <1>6 DEF CutShort, Unseen
<1>7. CASE GiveUp \/ Reload
  BY <1>2, <1>7 DEF GiveUp, Reload
<1> QED
  BY <1>1, <1>3, <1>5, <1>6, <1>7 DEF DeviceNext

(***************************************************************************)
(* Type correctness of the page beside the round (Offered, Over, GiveUp):  *)
(* the queue owes nothing but throw writes.                                *)
(***************************************************************************)
THEOREM DeviceTypes == DeviceSpec => []DeviceTypeOK
<1>1. DeviceInit => PageTypes
  BY DEF DeviceInit, PageTypes, Clocks
<1>2. TypeOK /\ PageTypes => DeviceTypeOK
  BY DEF PageTypes, DeviceTypeOK
<1>3. DeviceSpec => []PageTypes
  BY <1>1, PageTypesNext, PTL DEF DeviceSpec
<1> QED
  BY <1>2, <1>3, TypeCorrect, DeviceIsClient, PTL

-----------------------------------------------------------------------------
(***************************************************************************)
(* What is known of the one request in progress, serving call c.           *)
(***************************************************************************)
Serving(r, c) ==
  /\ req[r].call = {c}
  /\ req[r].at \in {"check", "fetch", "rescore", "cache"} => c.op \in Writes
  /\ req[r].at = "fetch" => c.op = "add" /\ Stored(c.client)
  /\ req[r].at = "cache" => req[r].snap = Live
  /\ req[r].at = "publish" => req[r].view = {[status |-> status, total |-> total]}
  /\ c.op \in Writes => owed = {c}
  /\ c.op \in Writes /\ req[r].at # "check" => status # "confirmed"
  /\ c.op \in Writes /\ req[r].at \in {"view", "publish"} => total = RoundTotal(Live)
  /\ c.op = "confirm" => owed = {}

OneAtATime ==
  /\ \A r \in Requests : req[r].at # "idle" => \E c \in Calls : Serving(r, c)
  /\ \A r, q \in Requests : req[r].at # "idle" /\ req[q].at # "idle" => r = q

TotalIsRight == total = RoundTotal(Live)

(* With an empty queue the cached total is right, or known to be behind;   *)
(* and so is that of a confirmed round.                                    *)
TotalFollows ==
  "total" \notin behind /\ (owed = {} \/ status = "confirmed") => TotalIsRight

(* Before a request writes, spectators see the round as it is, or are known *)
(* to be behind.                                                            *)
FeedFollows ==
  feed # {} /\ "feed" \notin behind
    /\ (\A r \in Requests : req[r].at \in {"idle", "check", "write"})
    => feed = {[status |-> status, total |-> total]}

DeviceInv == TypeOK /\ OneRowPerTap /\ OneAtATime /\ TotalFollows /\ FeedFollows

-----------------------------------------------------------------------------
(***************************************************************************)
(* Small facts the steps below share.                                      *)
(***************************************************************************)
LEMMA CallForms ==
  \A c \in Calls :
    /\ c.op \in {"add", "void", "start", "grace", "reset", "confirm"}
    /\ c.op \in {"start", "grace", "reset", "confirm"} => c = [op |-> c.op]
  BY DEF Calls

LEMMA Alone ==
  ASSUME OneAtATime, NEW r \in Requests, req[r].at # "idle",
         NEW q \in Requests, q # r
  PROVE  req[q].at = "idle"
  BY DEF OneAtATime

(* When every other request is idle, what one of them does is all that     *)
(* matters.                                                                *)
LEMMA OnlyOne ==
  ASSUME NEW r \in Requests,
         \A q \in Requests : q # r => req'[q].at = "idle",
         req'[r].at # "idle" => \E c \in Calls : Serving(r, c)'
  PROVE  OneAtATime'
  BY DEF OneAtATime

(* A statement that leaves the rows alone leaves their score alone.        *)
LEMMA SameThrows ==
  ASSUME UNCHANGED throws
  PROVE  /\ Live' = Live
         /\ RoundTotal(Live)' = RoundTotal(Live)
         /\ \A k : Stored(k)' = Stored(k)
  BY DEF Live, Stored

LEMMA SameTotal ==
  ASSUME UNCHANGED throws, UNCHANGED total
  PROVE  TotalIsRight' = TotalIsRight
  BY SameThrows DEF TotalIsRight

LEMMA StaleOrRight == TotalIsRight \/ "total" \in Stale
  BY DEF TotalIsRight, Stale

-----------------------------------------------------------------------------
(***************************************************************************)
(* The invariant holds after a request arrives, and after each statement.  *)
(***************************************************************************)
DeviceState == OneAtATime /\ TotalFollows /\ FeedFollows

LEMMA DeviceAsk ==
  ASSUME DeviceInv, NEW r \in Requests, NEW c \in Calls, Ask(r, c)
  PROVE  DeviceState'
<1> USE DEF DeviceInv
<1>1. UNCHANGED <<row, feed>>
  BY DEF Ask, Begin
<1>2. /\ \A q \in Requests : q # r => req'[q].at = "idle"
      /\ req'[r].at \in {"check", "write"} /\ req'[r].call = {c}
      /\ req'[r].at = "check" <=> c.op \in Writes
  BY DEF Ask, Begin, AllIdle, TypeOK, Idle, Writes
<1>3. c.op \in Writes => owed' = {c}
  BY DEF Ask, Writes
<1>4. c.op = "confirm" => owed' = {}
  BY DEF Ask, Offered, Writes
<1>5. Serving(r, c)'
  BY <1>2, <1>3, <1>4 DEF Serving, Writes
<1>6. OneAtATime'
  BY <1>2, <1>5, OnlyOne
<1>7. behind \subseteq behind'
  BY DEF Ask
<1>8. UNCHANGED status /\ TotalIsRight' = TotalIsRight
  BY <1>1, SameTotal DEF row
<1>9. TotalFollows'
  <2>1. CASE c.op \in Writes
    BY <1>3, <1>7, <1>8, <2>1 DEF TotalFollows
  <2>2. CASE c.op = "reset" /\ owed # {}
    <3>1. Stale \subseteq behind'
      BY <2>2 DEF Ask
    <3> QED
      BY <1>8, <3>1, StaleOrRight DEF TotalFollows
  <2>3. CASE c.op \notin Writes /\ (c.op # "reset" \/ owed = {})
    <3>1. owed' = owed
      BY <2>3 DEF Ask
    <3> QED
      BY <1>7, <1>8, <3>1 DEF TotalFollows
  <2> QED
    BY <2>1, <2>2, <2>3
<1>10. FeedFollows'
  BY <1>1, <1>7 DEF FeedFollows, Ask, AllIdle, row
<1> QED
  BY <1>6, <1>9, <1>10 DEF DeviceState

(* A write the round refuses ends its request.                             *)
LEMMA DeviceRefused ==
  ASSUME DeviceInv, NEW r \in Requests, req[r].at \in {"check", "write"},
         req' = [req EXCEPT ![r] = Idle], UNCHANGED <<row, feed>>,
         owed' = owed \/ Stale \subseteq behind',
         behind \subseteq behind'
  PROVE  DeviceState'
<1> USE DEF DeviceInv
<1>1. \A q \in Requests : req'[q].at = "idle"
  BY Alone DEF TypeOK, Idle
<1>2. \A q \in Requests : req[q].at \in {"idle", "check", "write"}
  BY Alone
<1>3. OneAtATime'
  BY <1>1 DEF OneAtATime
<1>4. UNCHANGED status /\ TotalIsRight' = TotalIsRight
  BY SameTotal DEF row
<1>5. TotalFollows'
  BY <1>4, StaleOrRight DEF TotalFollows
<1>6. FeedFollows'
  BY <1>2 DEF FeedFollows, row
<1> QED
  BY <1>3, <1>5, <1>6 DEF DeviceState

LEMMA DeviceCheck ==
  ASSUME DeviceInv, NEW r \in Requests, CheckStatus(r), req'[r].at # "idle",
         UNCHANGED <<owed, behind>>
  PROVE  DeviceState'
<1> USE DEF DeviceInv
<1>1. PICK c \in Calls : Serving(r, c)
  BY DEF OneAtATime, CheckStatus
<1>2. status # "confirmed" /\ req' = [req EXCEPT ![r].at = "write"]
        /\ UNCHANGED <<row, feed>>
  BY DEF CheckStatus, Goto, Return, TypeOK, Idle
<1>3. /\ \A q \in Requests : q # r => req'[q].at = "idle"
      /\ req'[r].at = "write" /\ req'[r].call = {c}
  BY <1>1, <1>2, Alone DEF TypeOK, RequestStates, Serving, CheckStatus
<1>4. Serving(r, c)'
  BY <1>1, <1>2, <1>3 DEF Serving, CheckStatus, row
<1>5. OneAtATime'
  BY <1>3, <1>4, OnlyOne
<1>6. \A q \in Requests : req[q].at \in {"idle", "check"}
  BY Alone DEF CheckStatus
<1>7. TotalFollows'
  BY <1>2, SameTotal DEF TotalFollows, row
<1>8. FeedFollows'
  BY <1>2, <1>6 DEF FeedFollows, row
<1> QED
  BY <1>5, <1>7, <1>8 DEF DeviceState

(* While a throw write runs the queue owes it and the round is open.       *)
LEMMA WriteRuns ==
  ASSUME NEW r \in Requests, NEW c \in Calls, Serving(r, c)', c.op \in Writes,
         req'[r].at # "check"
  PROVE  TotalFollows'
  BY DEF Serving, TotalFollows

LEMMA DeviceInsert ==
  ASSUME DeviceInv, NEW r \in Requests, NEW d \in Calls, InsertThrow(r, d),
         UNCHANGED <<owed, behind>>
  PROVE  DeviceState'
<1> USE DEF DeviceInv
<1>1. PICK c \in Calls : Serving(r, c)
  BY DEF OneAtATime, InsertThrow, Doing
<1>2. c = d /\ c.op = "add" /\ req[r].at = "write"
  BY <1>1 DEF Serving, InsertThrow, Doing
<1>3. req' = [req EXCEPT ![r].at = "fetch"] /\ UNCHANGED status
  BY DEF InsertThrow, Goto
<1>4. /\ \A q \in Requests : q # r => req'[q].at = "idle"
      /\ req'[r].at = "fetch" /\ req'[r].call = {c}
  BY <1>1, <1>2, <1>3, Alone DEF TypeOK, RequestStates, Serving
<1>5. Stored(c.client)'
  <2>1. CASE Stored(c.client) /\ UNCHANGED throws
    BY <2>1 DEF Stored
  <2>2. CASE \E i \in ThrowIds : [id |-> i, client |-> c.client, void |-> FALSE] \in throws'
    BY <2>2 DEF Stored
  <2> QED
    BY <1>2, <2>1, <2>2 DEF InsertThrow
<1>6. Serving(r, c)'
  BY <1>1, <1>2, <1>3, <1>4, <1>5 DEF Serving, Writes
<1>7. OneAtATime'
  BY <1>4, <1>6, OnlyOne
<1>8. TotalFollows'
  BY <1>2, <1>4, <1>6, WriteRuns DEF Writes
<1>9. FeedFollows'
  BY <1>4 DEF FeedFollows
<1> QED
  BY <1>7, <1>8, <1>9 DEF DeviceState

LEMMA DeviceFetch ==
  ASSUME DeviceInv, NEW r \in Requests, NEW d \in Calls, FetchThrow(r, d),
         UNCHANGED <<owed, behind>>
  PROVE  DeviceState'
<1> USE DEF DeviceInv
<1>1. PICK c \in Calls : Serving(r, c)
  BY DEF OneAtATime, FetchThrow, Doing
<1>2. c = d /\ c.op = "add" /\ req[r].at = "fetch" /\ Stored(c.client)
  BY <1>1 DEF Serving, FetchThrow, Doing
<1>3. req' = [req EXCEPT ![r].at = "rescore"] /\ UNCHANGED <<row, feed>>
  BY <1>2 DEF FetchThrow, Goto
<1>4. /\ \A q \in Requests : q # r => req'[q].at = "idle"
      /\ req'[r].at = "rescore" /\ req'[r].call = {c}
  BY <1>1, <1>2, <1>3, Alone DEF TypeOK, RequestStates, Serving
<1>5. Serving(r, c)'
  BY <1>1, <1>2, <1>3, <1>4 DEF Serving, Writes, row
<1>6. OneAtATime'
  BY <1>4, <1>5, OnlyOne
<1>7. TotalFollows'
  BY <1>2, <1>4, <1>5, WriteRuns DEF Writes
<1>8. FeedFollows'
  BY <1>4 DEF FeedFollows
<1> QED
  BY <1>6, <1>7, <1>8 DEF DeviceState

(* The stored throw is there when its own request reads it back.           *)
LEMMA FetchGoesOn ==
  ASSUME DeviceInv, NEW r \in Requests, NEW d \in Calls, FetchThrow(r, d)
  PROVE  req'[r].at = "rescore"
<1> USE DEF DeviceInv
<1>1. PICK c \in Calls : Serving(r, c)
  BY DEF OneAtATime, FetchThrow, Doing
<1>2. Stored(d.client)
  BY <1>1 DEF Serving, FetchThrow, Doing
<1> QED
  BY <1>2 DEF FetchThrow, Goto, TypeOK, RequestStates

LEMMA DeviceVoid ==
  ASSUME DeviceInv, NEW r \in Requests, NEW d \in Calls, MarkVoid(r, d),
         \E t \in throws : t.id = d.id, UNCHANGED <<owed, behind>>
  PROVE  DeviceState'
<1> USE DEF DeviceInv
<1>1. PICK c \in Calls : Serving(r, c)
  BY DEF OneAtATime, MarkVoid, Doing
<1>2. c = d /\ c.op = "void" /\ req[r].at = "write"
  BY <1>1 DEF Serving, MarkVoid, Doing
<1>3. UNCHANGED <<status, total, feed>>
  BY DEF MarkVoid
<1>4. req' = [req EXCEPT ![r].at = "rescore"]
  BY DEF MarkVoid, Goto
<1>5. /\ \A q \in Requests : q # r => req'[q].at = "idle"
      /\ req'[r].at = "rescore" /\ req'[r].call = {c}
  BY <1>1, <1>2, <1>4, Alone DEF TypeOK, RequestStates, Serving
<1>6. Serving(r, c)'
  BY <1>1, <1>2, <1>3, <1>5 DEF Serving, Writes
<1>7. OneAtATime'
  BY <1>5, <1>6, OnlyOne
<1>8. TotalFollows'
  BY <1>2, <1>5, <1>6, WriteRuns DEF Writes
<1>9. FeedFollows'
  BY <1>5 DEF FeedFollows
<1> QED
  BY <1>7, <1>8, <1>9 DEF DeviceState

LEMMA DeviceReadThrows ==
  ASSUME DeviceInv, NEW r \in Requests, ReadThrows(r), UNCHANGED <<owed, behind>>
  PROVE  DeviceState'
<1> USE DEF DeviceInv
<1>1. PICK c \in Calls : Serving(r, c)
  BY DEF OneAtATime, ReadThrows
<1>2. /\ \A q \in Requests : q # r => req'[q].at = "idle"
      /\ req'[r].at = "cache" /\ req'[r].call = {c} /\ req'[r].snap = Live
      /\ UNCHANGED <<row, feed>>
  BY <1>1, Alone DEF TypeOK, RequestStates, Serving, ReadThrows
<1>3. Serving(r, c)' /\ c.op \in Writes
  BY <1>1, <1>2, SameThrows DEF Serving, ReadThrows, row
<1>4. OneAtATime'
  BY <1>2, <1>3, OnlyOne
<1>5. TotalFollows'
  BY <1>2, <1>3, WriteRuns
<1>6. FeedFollows'
  BY <1>2 DEF FeedFollows
<1> QED
  BY <1>4, <1>5, <1>6 DEF DeviceState

LEMMA DeviceCacheTotal ==
  ASSUME DeviceInv, NEW r \in Requests, CacheTotal(r), UNCHANGED owed
  PROVE  DeviceState'
<1> USE DEF DeviceInv
<1>1. PICK c \in Calls : Serving(r, c)
  BY DEF OneAtATime, CacheTotal
<1>2. /\ \A q \in Requests : q # r => req'[q].at = "idle"
      /\ req'[r].at = "view" /\ req'[r].call = {c}
  BY <1>1, Alone DEF TypeOK, RequestStates, Serving, CacheTotal
<1>3. total' = RoundTotal(Live) /\ UNCHANGED <<status, throws>>
  BY <1>1 DEF Serving, CacheTotal
<1>4. total' = RoundTotal(Live)'
  BY <1>3, SameThrows
<1>5. Serving(r, c)'
  BY <1>1, <1>2, <1>3, <1>4 DEF Serving, CacheTotal
<1>6. OneAtATime'
  BY <1>2, <1>5, OnlyOne
<1>7. TotalFollows' /\ FeedFollows'
  BY <1>2, <1>4 DEF TotalFollows, TotalIsRight, FeedFollows
<1> QED
  BY <1>6, <1>7 DEF DeviceState

(* The three writes of the round's row that leave its throws alone.  A     *)
(* confirmation is only asked for with an empty queue.                     *)
LEMMA DeviceStatus ==
  ASSUME DeviceInv, NEW r \in Requests,
         StartRound(r) \/ EnterGrace(r) \/ ConfirmRound(r),
         UNCHANGED <<owed, behind>>
  PROVE  DeviceState'
<1> USE DEF DeviceInv
<1>1. PICK c \in Calls : Serving(r, c)
  BY DEF OneAtATime, StartRound, EnterGrace, ConfirmRound, Doing
<1>2. /\ req[r].at = "write" /\ c.op \in {"start", "grace", "confirm"}
      /\ status' = "confirmed" => c.op = "confirm"
  BY <1>1 DEF Serving, StartRound, EnterGrace, ConfirmRound, Doing
<1>3. req' = [req EXCEPT ![r].at = "view"] /\ UNCHANGED <<total, throws, feed>>
  BY DEF StartRound, EnterGrace, ConfirmRound, Goto
<1>4. /\ \A q \in Requests : q # r => req'[q].at = "idle"
      /\ req'[r].at = "view" /\ req'[r].call = {c}
  BY <1>1, <1>2, <1>3, Alone DEF TypeOK, RequestStates, Serving
<1>5. Serving(r, c)'
  BY <1>1, <1>2, <1>4 DEF Serving, Writes
<1>6. OneAtATime'
  BY <1>4, <1>5, OnlyOne
<1>7. status' = "confirmed" => owed = {}
  BY <1>1, <1>2 DEF Serving
<1>8. TotalFollows'
  BY <1>3, <1>7, SameTotal DEF TotalFollows
<1>9. FeedFollows'
  BY <1>4 DEF FeedFollows
<1> QED
  BY <1>6, <1>8, <1>9 DEF DeviceState

LEMMA DeviceReset ==
  ASSUME DeviceInv, NEW r \in Requests, ResetRound(r), UNCHANGED owed
  PROVE  DeviceState'
<1> USE DEF DeviceInv
<1>1. PICK c \in Calls : Serving(r, c)
  BY DEF OneAtATime, ResetRound, Doing
<1>2. req[r].at = "write" /\ c.op = "reset"
  BY <1>1 DEF Serving, ResetRound, Doing
<1>3. /\ \A q \in Requests : q # r => req'[q].at = "idle"
      /\ req'[r].at = "view" /\ req'[r].call = {c}
  BY <1>1, <1>2, Alone DEF TypeOK, RequestStates, Serving, ResetRound
<1>4. Serving(r, c)'
  BY <1>1, <1>2, <1>3 DEF Serving, Writes
<1>5. OneAtATime'
  BY <1>3, <1>4, OnlyOne
<1>6. Live' = {} /\ total' = 0
  BY DEF ResetRound, Live
<1>7. total' = RoundTotal(Live)'
  BY <1>6, EmptyRoundAssumption
<1>8. TotalFollows' /\ FeedFollows'
  BY <1>3, <1>7 DEF TotalFollows, TotalIsRight, FeedFollows
<1> QED
  BY <1>5, <1>8 DEF DeviceState

LEMMA DeviceReadRound ==
  ASSUME DeviceInv, NEW r \in Requests, ReadRound(r), UNCHANGED <<owed, behind>>
  PROVE  DeviceState'
<1> USE DEF DeviceInv
<1>1. PICK c \in Calls : Serving(r, c)
  BY DEF OneAtATime, ReadRound
<1>2. /\ \A q \in Requests : q # r => req'[q].at = "idle"
      /\ req'[r].at = "publish" /\ req'[r].call = {c}
      /\ req'[r].view = {[status |-> status, total |-> total]}
      /\ UNCHANGED <<row, feed>>
  BY <1>1, Alone DEF TypeOK, RequestStates, Serving, ReadRound
<1>3. Serving(r, c)'
  BY <1>1, <1>2, SameThrows DEF Serving, ReadRound, row
<1>4. OneAtATime'
  BY <1>2, <1>3, OnlyOne
<1>5. TotalFollows'
  BY <1>2, SameTotal DEF TotalFollows, row
<1>6. FeedFollows'
  BY <1>2 DEF FeedFollows
<1> QED
  BY <1>4, <1>5, <1>6 DEF DeviceState

LEMMA DevicePublish ==
  ASSUME DeviceInv, NEW r \in Requests, Publish(r),
         owed' = owed \/ Is(r, Writes), behind' = behind \ {"feed"}
  PROVE  DeviceState'
<1> USE DEF DeviceInv
<1>1. PICK c \in Calls : Serving(r, c)
  BY DEF OneAtATime, Publish
<1>2. /\ \A q \in Requests : req'[q].at = "idle"
      /\ feed' = {[status |-> status, total |-> total]} /\ UNCHANGED row
  BY <1>1, Alone DEF TypeOK, Serving, Publish, Return, Idle
<1>3. OneAtATime'
  BY <1>2 DEF OneAtATime
<1>4. owed' = owed \/ TotalIsRight
  BY <1>1 DEF Is, Serving, Publish, TotalIsRight
<1>5. UNCHANGED status /\ TotalIsRight' = TotalIsRight
  BY <1>2, SameTotal DEF row
<1>6. TotalFollows'
  BY <1>4, <1>5 DEF TotalFollows
<1>7. FeedFollows'
  BY <1>2 DEF FeedFollows, row
<1> QED
  BY <1>3, <1>6, <1>7 DEF DeviceState

LEMMA DeviceCut ==
  ASSUME DeviceInv, NEW r \in Requests, CutShort(r)
  PROVE  DeviceState'
<1> USE DEF DeviceInv
<1>1. /\ \A q \in Requests : req'[q].at = "idle"
      /\ UNCHANGED <<row, feed>>
  BY Alone DEF TypeOK, CutShort, Abort, Return, Idle
<1>2. OneAtATime'
  BY <1>1 DEF OneAtATime
<1>3. owed' = owed /\ behind' = behind \cup Unseen(r)
  BY DEF CutShort, Over
<1>4. UNCHANGED status /\ TotalIsRight' = TotalIsRight
  BY <1>1, SameTotal DEF row
<1>5. TotalFollows'
  BY <1>3, <1>4 DEF TotalFollows
<1>6. "feed" \in Unseen(r)
        \/ \A q \in Requests : req[q].at \in {"idle", "check", "write"}
  BY Alone DEF CutShort, Abort, Unseen, TypeOK, RequestStates
<1>7. FeedFollows'
  BY <1>1, <1>3, <1>6 DEF FeedFollows, row
<1> QED
  BY <1>2, <1>5, <1>7 DEF DeviceState

(* What the page makes of a statement that is not the request's last.      *)
LEMMA ServeGoesOn ==
  ASSUME DeviceInv, NEW r \in Requests, Serve(r), req[r].at # "idle",
         req'[r].at # "idle"
  PROVE  UNCHANGED owed /\ behind' = behind \ Mended(r)
<1>1. PICK c \in Calls : Serving(r, c)
  BY DEF DeviceInv, OneAtATime
<1>2. UNCHANGED owed
  BY DEF Serve, page
<1>3. ~(Refused(r) /\ owed' = {})
  BY <1>1, <1>2 DEF Refused, Is, Serving
<1> QED
  BY <1>2, <1>3 DEF Serve

(* And of the last one.                                                    *)
LEMMA ServeEnds ==
  ASSUME NEW r \in Requests, Serve(r), req'[r].at = "idle"
  PROVE  owed' = owed \/ (Is(r, Writes) /\ owed' = {})
  BY DEF Serve, Over

LEMMA DeviceServe ==
  ASSUME DeviceInv, NEW r \in Requests, Serve(r)
  PROVE  DeviceState'
<1> USE DEF DeviceInv
<1>1. Step(r)
  BY DEF Serve
<1>2. ASSUME req[r].at \in {"check", "write"}, req' = [req EXCEPT ![r] = Idle],
             UNCHANGED <<row, feed>>, ~Is(r, {"reset"})
      PROVE  DeviceState'
  <2>1. req'[r].at = "idle"
    BY <1>2 DEF TypeOK, Idle
  <2>2. owed' = owed \/ Stale \subseteq behind'
    BY <1>2, <2>1, ServeEnds DEF Serve, Refused
  <2>3. behind \subseteq behind'
    <3>1. ~Doing(r, "write", [op |-> "reset"])
      <4>1. [op |-> "reset"].op \in {"reset"}
        OBVIOUS
      <4> QED
        BY <1>2, <4>1 DEF Doing, Is
    <3>2. Mended(r) = {}
      BY <1>2, <3>1 DEF Mended
    <3> QED
      BY <3>2 DEF Serve
  <2> QED
    BY <1>2, <2>2, <2>3, DeviceRefused
<1>3. CASE CheckStatus(r)
  <2>1. CASE req'[r].at = "idle"
    <3>1. ~Is(r, {"reset"})
      BY <1>3 DEF OneAtATime, Serving, Is, CheckStatus, Writes
    <3> QED
      BY <1>2, <1>3, <2>1, <3>1 DEF CheckStatus, Return, Goto, TypeOK, RequestStates
  <2>2. CASE req'[r].at # "idle"
    BY <1>3, <2>2, ServeGoesOn, DeviceCheck DEF CheckStatus, Mended, Doing
  <2> QED
    BY <2>1, <2>2
<1>4. ASSUME NEW c \in Calls, InsertThrow(r, c)
      PROVE  DeviceState'
  <2>1. req'[r].at # "idle"
    BY <1>4 DEF InsertThrow, Goto, TypeOK, RequestStates
  <2>2. Mended(r) = {}
    BY <1>4 DEF InsertThrow, Doing, Mended
  <2> QED
    BY <1>4, <2>1, <2>2, ServeGoesOn, DeviceInsert DEF InsertThrow, Doing
<1>5. ASSUME NEW c \in Calls, FetchThrow(r, c)
      PROVE  DeviceState'
  BY <1>5, FetchGoesOn, ServeGoesOn, DeviceFetch DEF FetchThrow, Doing, Mended
<1>6. ASSUME NEW c \in Calls, MarkVoid(r, c)
      PROVE  DeviceState'
  <2>1. Mended(r) = {} /\ req[r].at = "write"
    BY <1>6 DEF MarkVoid, Doing, Mended
  <2>2. CASE \E t \in throws : t.id = c.id
    <3>1. req'[r].at # "idle"
      BY <1>6, <2>2 DEF MarkVoid, Goto, TypeOK, RequestStates
    <3> QED
      BY <1>6, <2>1, <2>2, <3>1, ServeGoesOn, DeviceVoid
  <2>3. CASE ~\E t \in throws : t.id = c.id
    <3>1. throws' = throws
      BY <1>6, <2>3 DEF MarkVoid
    <3>2. ~Is(r, {"reset"})
      BY <1>6 DEF MarkVoid, Doing, Is
    <3> QED
      BY <1>2, <1>6, <2>1, <2>3, <3>1, <3>2 DEF MarkVoid, Return, row
  <2> QED
    BY <2>2, <2>3
<1>7. CASE ReadThrows(r)
  <2>1. req'[r].at = "cache"
    BY <1>7 DEF ReadThrows, TypeOK, RequestStates
  <2> QED
    BY <1>7, <2>1, ServeGoesOn, DeviceReadThrows DEF ReadThrows, Doing, Mended
<1>8. CASE CacheTotal(r)
  <2>1. req'[r].at = "view"
    BY <1>8 DEF CacheTotal, TypeOK, RequestStates
  <2> QED
    BY <1>8, <2>1, ServeGoesOn, DeviceCacheTotal DEF CacheTotal
<1>9. CASE StartRound(r) \/ EnterGrace(r) \/ ConfirmRound(r)
  <2>1. ~Doing(r, "write", [op |-> "reset"]) /\ req[r].at = "write"
    <3>1. \A o \in {"start", "grace", "confirm"} : [op |-> o] # [op |-> "reset"]
      OBVIOUS
    <3>2. PICK o \in {"start", "grace", "confirm"} : Doing(r, "write", [op |-> o])
      BY <1>9 DEF StartRound, EnterGrace, ConfirmRound
    <3> QED
      BY <3>1, <3>2 DEF Doing
  <2>2. Mended(r) = {}
    BY <2>1 DEF Mended
  <2>3. req'[r].at = "view"
    BY <1>9 DEF StartRound, EnterGrace, ConfirmRound, Goto, TypeOK, RequestStates
  <2> QED
    BY <1>9, <2>1, <2>2, <2>3, ServeGoesOn, DeviceStatus
<1>10. CASE ResetRound(r)
  <2>1. req'[r].at = "view" /\ req[r].at = "write"
    BY <1>10 DEF ResetRound, Doing, TypeOK, RequestStates
  <2> QED
    BY <1>10, <2>1, ServeGoesOn, DeviceReset
<1>11. CASE ReadRound(r)
  <2>1. req'[r].at = "publish"
    BY <1>11 DEF ReadRound, TypeOK, RequestStates
  <2> QED
    BY <1>11, <2>1, ServeGoesOn, DeviceReadRound DEF ReadRound, Doing, Mended
<1>12. CASE Publish(r)
  <2>1. req'[r].at = "idle" /\ req[r].at = "publish"
    BY <1>12 DEF Publish, Return, TypeOK, Idle
  <2>2. behind' = behind \ {"feed"}
    BY <2>1 DEF Serve, Mended, Refused, Doing
  <2> QED
    BY <1>12, <2>1, <2>2, ServeEnds, DevicePublish
<1> QED
  BY <1>1, <1>3, <1>4, <1>5, <1>6, <1>7, <1>8, <1>9, <1>10, <1>11, <1>12 DEF Step

(* The queue drops a write, or the page is loaded again.                   *)
LEMMA DevicePage ==
  ASSUME DeviceInv, GiveUp \/ Reload \/ UNCHANGED deviceVars
  PROVE  DeviceState'
<1> USE DEF DeviceInv
<1>1. UNCHANGED vars /\ behind \subseteq behind'
  BY DEF GiveUp, Reload, deviceVars
<1>2. owed' = owed \/ Stale \subseteq behind'
  BY DEF GiveUp, Reload, deviceVars, page
<1>3. TotalIsRight' = TotalIsRight /\ UNCHANGED <<req, status, total, feed>>
  BY <1>1, SameTotal DEF vars, row
<1>4. OneAtATime'
  <2>1. CASE UNCHANGED deviceVars
    BY <1>1, <2>1, SameThrows DEF OneAtATime, Serving, deviceVars, page, vars, row
  <2>2. CASE GiveUp \/ Reload
    BY <1>3, <2>2 DEF OneAtATime, GiveUp, Reload, AllIdle
  <2> QED
    BY <2>1, <2>2
<1>5. TotalFollows'
  BY <1>1, <1>2, <1>3, StaleOrRight DEF TotalFollows
<1>6. FeedFollows'
  BY <1>1, <1>3 DEF FeedFollows
<1> QED
  BY <1>4, <1>5, <1>6 DEF DeviceState

LEMMA DeviceInvNext == DeviceInv /\ [DeviceNext]_deviceVars => DeviceInv'
<1> SUFFICES ASSUME DeviceInv, [DeviceNext]_deviceVars PROVE DeviceInv'
  OBVIOUS
<1>1. TypeOK' /\ OneRowPerTap'
  BY DeviceStepIsStep, TypeNext, OneRowPerTapNext DEF DeviceInv
<1>2. DeviceState'
  BY DeviceAsk, DeviceServe, DeviceCut, DevicePage DEF DeviceNext
<1> QED
  BY <1>1, <1>2 DEF DeviceInv, DeviceState

LEMMA DeviceInvInit == DeviceInit => DeviceInv
<1> SUFFICES ASSUME DeviceInit PROVE DeviceInv
  OBVIOUS
<1>1. TypeOK /\ OneRowPerTap
  BY TypeInit DEF DeviceInit, Init, OneRowPerTap
<1>2. TotalIsRight
  BY EmptyRoundAssumption DEF DeviceInit, Init, Live, TotalIsRight
<1> QED
  BY <1>1, <1>2
     DEF DeviceInit, Init, Idle, DeviceInv, OneAtATime, TotalFollows, FeedFollows

LEMMA DeviceInvariant == DeviceSpec => []DeviceInv
  BY DeviceInvInit, DeviceInvNext, PTL DEF DeviceSpec

-----------------------------------------------------------------------------
(***************************************************************************)
(* A throw write that reaches its event has put the cached total right,    *)
(* whatever was cut short before it: a retry repairs an interrupted write. *)
(***************************************************************************)
THEOREM RetryRepairsTotal == DeviceSpec => []WriteHealsTotal
<1>1. DeviceInv => WriteHealsTotal
  BY DEF DeviceInv, OneAtATime, Serving, WriteHealsTotal, Is
<1> QED
  BY <1>1, DeviceInvariant, PTL

(***************************************************************************)
(* Between two requests spectators see the round as it is, unless one was  *)
(* cut short before its event.                                             *)
(***************************************************************************)
THEOREM SpectatorsAreCurrent == DeviceSpec => []FeedIsCurrent
<1>1. DeviceInv => FeedIsCurrent
  BY DEF DeviceInv, FeedFollows, FeedIsCurrent, AllIdle
<1> QED
  BY <1>1, DeviceInvariant, PTL

-----------------------------------------------------------------------------
(***************************************************************************)
(* The refinement.  SheetNow and OfficialNow are what the mapping of       *)
(* module RoundDevice puts for the paper sheet and its official score.     *)
(***************************************************************************)
SheetNow ==
  [c \in ClientIds |->
     IF c \in Live THEN "live" ELSE IF Stored(c) THEN "void" ELSE "absent"]

OfficialNow ==
  IF status # "confirmed" THEN {}
  ELSE {IF "total" \in behind THEN RoundTotal(Live) ELSE total}

SheetScore == IF status # "confirmed" THEN {} ELSE {RoundTotal(Live)}

(* Confirmed, the row's total is right: the queue was empty.               *)
LEMMA OfficialIsScore == DeviceInv => OfficialNow = SheetScore
  BY DEF DeviceInv, TotalFollows, TotalIsRight, OfficialNow, SheetScore

LEMMA OfficialIsScoreNext == DeviceInv' => (OfficialNow = SheetScore)'
  BY OfficialIsScore, PTL

LEMMA LiveIsStored ==
  ASSUME NEW k \in Live
  PROVE  Stored(k)
  BY DEF Live, Stored

(* The throws the paper sheet counts are the live ones.                    *)
LEMMA SheetCounts ==
  ASSUME DeviceInv
  PROVE  Sheet!LiveThrows = Live
<1>1. Live \subseteq ClientIds
  BY LiveType DEF DeviceInv
<1> QED
  BY <1>1 DEF Sheet!LiveThrows

LEMMA SheetOfSameThrows ==
  ASSUME UNCHANGED throws
  PROVE  SheetNow' = SheetNow
  BY SameThrows DEF SheetNow

(***************************************************************************)
(* The statements that change the paper sheet, one by one.                 *)
(***************************************************************************)
LEMMA InsertEnters ==
  ASSUME DeviceInv, NEW r \in Requests, NEW d \in Calls, InsertThrow(r, d),
         ~UNCHANGED throws
  PROVE  /\ status # "confirmed"
         /\ d.client \in ClientIds
         /\ SheetNow[d.client] = "absent"
         /\ SheetNow' = [SheetNow EXCEPT ![d.client] = "live"]
<1>1. d.client \in ClientIds /\ d.op = "add"
  BY AddCall DEF InsertThrow
<1>2. status # "confirmed"
  BY <1>1 DEF DeviceInv, OneAtATime, Serving, InsertThrow, Doing, Writes
<1>3. PICK i \in ThrowIds :
        /\ ~Stored(d.client)
        /\ throws' = throws \cup {[id |-> i, client |-> d.client, void |-> FALSE]}
  BY InsertedRow
<1>4. d.client \notin Live
  BY <1>3, LiveIsStored
<1>5. Live' = Live \cup {d.client}
  BY <1>3 DEF Live
<1>6. \A k : Stored(k)' <=> Stored(k) \/ k = d.client
  BY <1>3 DEF Stored
<1>7. SheetNow[d.client] = "absent"
  BY <1>1, <1>3, <1>4 DEF SheetNow
<1>8. SheetNow' = [SheetNow EXCEPT ![d.client] = "live"]
  BY <1>5, <1>6 DEF SheetNow
<1> QED
  BY <1>1, <1>2, <1>7, <1>8

LEMMA VoidStrikesOut ==
  ASSUME DeviceInv, NEW r \in Requests, NEW d \in Calls, MarkVoid(r, d)
  PROVE  \/ SheetNow' = SheetNow /\ Live' = Live
         \/ /\ status # "confirmed"
            /\ \E k \in ClientIds :
                 /\ SheetNow[k] = "live"
                 /\ SheetNow' = [SheetNow EXCEPT ![k] = "void"]
<1> DEFINE marked(t) == IF t.id = d.id THEN [t EXCEPT !.void = TRUE] ELSE t
<1>1. throws' = {marked(t) : t \in throws}
  BY DEF MarkVoid
<1>2. \A t \in throws : marked(t).client = t.client /\ t \in Rows
                          /\ (marked(t).void <=> t.void \/ t.id = d.id)
  BY DEF DeviceInv, TypeOK, Rows
<1> HIDE DEF marked
<1>3. \A k : Stored(k)' <=> Stored(k)
  BY <1>1, <1>2 DEF Stored
<1>4. \A k : k \in Live' <=> \E t \in throws : t.client = k /\ ~t.void /\ t.id # d.id
  BY <1>1, <1>2 DEF Live
<1>5. \A k : k \in Live <=> \E t \in throws : t.client = k /\ ~t.void
  BY DEF Live
<1>6. CASE \E t \in throws : t.id = d.id /\ ~t.void
  <2>1. PICK t \in throws : t.id = d.id /\ ~t.void
    BY <1>6
  <2>2. t.client \in ClientIds
    BY <1>2 DEF Rows
  <2>3. \A k : k \in Live' <=> k \in Live /\ k # t.client
    BY <1>4, <1>5, <2>1 DEF DeviceInv, OneRowPerTap
  <2>4. status # "confirmed"
    BY CallForms DEF DeviceInv, OneAtATime, Serving, MarkVoid, Doing, Writes
  <2>5. t.client \in Live /\ Stored(t.client)
    BY <1>5, <2>1 DEF Stored
  <2>6. SheetNow[t.client] = "live"
    BY <2>2, <2>5 DEF SheetNow
  <2>7. SheetNow' = [SheetNow EXCEPT ![t.client] = "void"]
    BY <1>3, <2>3, <2>5 DEF SheetNow
  <2> QED
    BY <2>2, <2>4, <2>6, <2>7
<1>7. CASE ~\E t \in throws : t.id = d.id /\ ~t.void
  <2>1. Live' = Live
    BY <1>4, <1>5, <1>7
  <2> QED
    BY <1>3, <2>1 DEF SheetNow
<1> QED
  BY <1>6, <1>7

(* A statement that leaves status and throws alone is no step of the sheet. *)
LEMMA SheetStutters ==
  ASSUME DeviceInv, DeviceInv', UNCHANGED status, SheetNow' = SheetNow,
         Live' = Live
  PROVE  UNCHANGED Sheet!vars
<1>1. RoundTotal(Live)' = RoundTotal(Live)
  OBVIOUS
<1>2. OfficialNow' = OfficialNow
  BY <1>1, OfficialIsScore, OfficialIsScoreNext DEF SheetScore
<1> QED
  BY <1>2 DEF Sheet!vars, SheetNow, OfficialNow

(***************************************************************************)
(* Every step of the round, or of a request that is cut short, is a step   *)
(* of the paper sheet or none.                                             *)
(***************************************************************************)
SheetStep == [Sheet!Next]_(Sheet!vars)

LEMMA StatusMoves ==
  ASSUME DeviceInv, DeviceInv', NEW r \in Requests,
         StartRound(r) \/ EnterGrace(r)
  PROVE  SheetStep
<1> SUFFICES Sheet!Reopen
  BY DEF SheetStep, Sheet!Next
<1>1. SheetNow' = SheetNow
  BY SheetOfSameThrows DEF StartRound, EnterGrace
<1>2. OfficialNow' = {}
  BY DEF OfficialNow, StartRound, EnterGrace
<1> QED
  BY <1>1, <1>2 DEF Sheet!Reopen, SheetNow, OfficialNow

LEMMA ConfirmMoves ==
  ASSUME DeviceInv, DeviceInv', NEW r \in Requests, ConfirmRound(r)
  PROVE  SheetStep
<1> SUFFICES Sheet!Confirm
  BY DEF SheetStep, Sheet!Next
<1>1. SheetNow' = SheetNow /\ RoundTotal(Live)' = RoundTotal(Live)
  BY SameThrows, SheetOfSameThrows DEF ConfirmRound
<1>2. status' = "confirmed"
  BY DEF ConfirmRound
<1>3. OfficialNow' = {RoundTotal(Live)}
  BY <1>1, <1>2, OfficialIsScoreNext DEF SheetScore
<1> QED
  BY <1>1, <1>3, SheetCounts DEF Sheet!Confirm, SheetNow, OfficialNow

LEMMA ResetMoves ==
  ASSUME NEW r \in Requests, ResetRound(r)
  PROVE  SheetStep
<1> SUFFICES Sheet!FalseStart
  BY DEF SheetStep, Sheet!Next
<1>1. Live' = {} /\ \A k : ~Stored(k)'
  BY DEF ResetRound, Live, Stored
<1>2. SheetNow' = Sheet!BlankSheet
  BY <1>1 DEF SheetNow, Sheet!BlankSheet
<1>3. OfficialNow' = {}
  BY DEF OfficialNow, ResetRound
<1> QED
  BY <1>2, <1>3 DEF Sheet!FalseStart, SheetNow, OfficialNow

LEMMA InsertMoves ==
  ASSUME DeviceInv, NEW r \in Requests, NEW d \in Calls,
         InsertThrow(r, d), ~UNCHANGED throws
  PROVE  SheetStep
<1>1. OfficialNow = {} /\ OfficialNow' = {}
  BY InsertEnters DEF InsertThrow, OfficialNow
<1>2. d.client \in ClientIds /\ Sheet!Enter(d.client)
  BY <1>1, InsertEnters DEF Sheet!Enter, Sheet!Open, SheetNow, OfficialNow
<1> QED
  BY <1>2 DEF SheetStep, Sheet!Next

LEMMA VoidMoves ==
  ASSUME DeviceInv, NEW r \in Requests, NEW d \in Calls,
         MarkVoid(r, d), ~(SheetNow' = SheetNow /\ Live' = Live)
  PROVE  SheetStep
<1>1. OfficialNow = {} /\ OfficialNow' = {}
  BY VoidStrikesOut DEF MarkVoid, OfficialNow
<1>2. PICK k \in ClientIds :
        SheetNow[k] = "live" /\ SheetNow' = [SheetNow EXCEPT ![k] = "void"]
  BY VoidStrikesOut
<1>3. Sheet!StrikeOut(k)
  BY <1>1, <1>2 DEF Sheet!StrikeOut, Sheet!Open, SheetNow, OfficialNow
<1> QED
  BY <1>3 DEF SheetStep, Sheet!Next

LEMMA DeviceMoves == DeviceInv /\ DeviceInv' /\ [DeviceNext]_deviceVars => SheetStep
<1> SUFFICES ASSUME DeviceInv, DeviceInv', [DeviceNext]_deviceVars PROVE SheetStep
  OBVIOUS
<1>1. UNCHANGED status /\ SheetNow' = SheetNow /\ Live' = Live => SheetStep
  BY SheetStutters DEF SheetStep
<1>2. UNCHANGED <<status, throws>> => SheetStep
  BY <1>1, SameThrows, SheetOfSameThrows
<1>3. CASE UNCHANGED deviceVars \/ GiveUp \/ Reload
  BY <1>2, <1>3 DEF deviceVars, GiveUp, Reload, vars, row
<1>4. ASSUME NEW r \in Requests, (\E c \in Calls : Ask(r, c)) \/ CutShort(r)
      PROVE  SheetStep
  BY <1>2, <1>4 DEF Ask, CutShort, Begin, Abort, row
<1>5. ASSUME NEW r \in Requests, Step(r)
      PROVE  SheetStep
  <2>1. CASE CheckStatus(r) \/ ReadThrows(r) \/ CacheTotal(r) \/ ReadRound(r) \/ Publish(r)
    BY <1>2, <2>1 DEF CheckStatus, ReadThrows, CacheTotal, ReadRound, Publish, row
  <2>2. ASSUME NEW c \in Calls, FetchThrow(r, c)
        PROVE  SheetStep
    BY <1>2, <2>2 DEF FetchThrow, row
  <2>3. ASSUME NEW c \in Calls, InsertThrow(r, c)
        PROVE  SheetStep
    BY <1>2, <2>3, InsertMoves DEF InsertThrow
  <2>4. ASSUME NEW c \in Calls, MarkVoid(r, c)
        PROVE  SheetStep
    BY <1>1, <2>4, VoidMoves DEF MarkVoid
  <2> QED
    BY <1>5, <2>1, <2>2, <2>3, <2>4, StatusMoves, ConfirmMoves, ResetMoves DEF Step
<1> QED
  BY <1>3, <1>4, <1>5 DEF DeviceNext, Serve

LEMMA DeviceStarts == DeviceInit => Sheet!Init
  BY DEF DeviceInit, Init, Sheet!Init, Sheet!BlankSheet, Live, Stored

(***************************************************************************)
(* To one device that waits for its answers the requests, statements and   *)
(* caches of the store are one paper score sheet, wherever its requests    *)
(* are cut short and whatever status the round is in when the screen       *)
(* offers them: every throw, undo, reset and confirmation takes effect     *)
(* once, and while a round is confirmed neither its throws nor its         *)
(* published score change.                                                 *)
(***************************************************************************)
THEOREM StoreIsScoreSheet == DeviceSpec => ImplementsScoreSheet
<1>1. DeviceInv /\ DeviceInv' /\ [DeviceNext]_deviceVars => [Sheet!Next]_(Sheet!vars)
  BY DeviceMoves DEF SheetStep
<1> QED
  BY <1>1, DeviceStarts, DeviceInvariant, PTL
     DEF DeviceSpec, ImplementsScoreSheet, Sheet!Spec
===============================================================================
