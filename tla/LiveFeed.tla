------------------------------- MODULE LiveFeed -------------------------------
(***************************************************************************)
(* The live feed: the hub that fans the events of play sessions out, the   *)
(* stream handler that writes a subscriber's events to its connection, and *)
(* the browser's EventSource that reads them and reconnects.               *)
(*                                                                         *)
(* A subscriber's channel stands for the whole way from the hub to the     *)
(* page: a write takes an event from it and the page dispatches that event *)
(* in one step, and a connection that breaks loses what is left in it.     *)
(* The handler unsubscribes when its client is gone; in between nobody     *)
(* reads that subscription, so the two are one step as well.               *)
(*                                                                         *)
(* Left out: Forget, which nothing calls, and what an event says: it is    *)
(* named by its place in its session's list of published events.           *)
(***************************************************************************)
EXTENDS Naturals, Sequences, FiniteSets, SequencesExt

CONSTANTS
  Sessions,
  Viewers,           (* pages with an open EventSource                     *)
  Watched,           (* the session each of them watches                   *)
  subscriberBuffer,  (* events a subscriber may fall behind                *)
  replayWindow,      (* recent events kept per session                     *)
  MaxEvents,         (* bound on the events published per session          *)
  MaxLosses,         (* bound on broken connections                        *)
  MaxRefusals,       (* bound on connections refused with an error status  *)
  MaxRestarts        (* bound on restarts of the server                    *)

ASSUME LiveFeedAssumption ==
  /\ Watched \in [Viewers -> Sessions]
  /\ subscriberBuffer \in Nat \ {0} /\ replayWindow \in Nat \ {0}
  /\ {MaxEvents, MaxLosses, MaxRefusals, MaxRestarts} \subseteq Nat

VARIABLES
  nextID,      (* Hub.nextID, shared by all sessions                       *)
  history,     (* Hub.history, per session                                 *)
  events,      (* Subscriber.Events, per viewer                            *)
  stream,      (* the EventSource: connecting, open or closed              *)
  lastEventID, (* what it sends when it reconnects; 0 before any event     *)
  seen,        (* history: the events the page has been given, in order    *)
  published,   (* history: how many events each session has had            *)
  near,        (* history: the viewer has always been within Room          *)
  losses, refusals, restarts

hub    == <<nextID, history>>
viewer == <<events, stream, lastEventID, seen>>
faults == <<near, losses, refusals, restarts>>
vars   == <<hub, viewer, published, faults>>

Event == [ID : Nat, n : Nat]

(* What the channel and the history can both hold for a viewer. *)
Room == IF subscriberBuffer < replayWindow THEN subscriberBuffer ELSE replayWindow

StreamStates == {"connecting", "open", "closed"}

TypeOK ==
  /\ nextID \in Nat
  /\ history \in [Sessions -> Seq(Event)]
  /\ events \in [Viewers -> Seq(Event)]
  /\ stream \in [Viewers -> StreamStates]
  /\ lastEventID \in [Viewers -> Nat]
  /\ seen \in [Viewers -> Seq(Nat)]
  /\ published \in [Sessions -> 0..MaxEvents]
  /\ near \in [Viewers -> BOOLEAN]
  /\ losses \in 0..MaxLosses /\ refusals \in 0..MaxRefusals
  /\ restarts \in 0..MaxRestarts
  /\ \A s \in Sessions : Len(history[s]) <= replayWindow
  /\ \A v \in Viewers : Len(events[v]) <= subscriberBuffer

Init ==
  /\ nextID = 0
  /\ history = [s \in Sessions |-> <<>>]
  /\ events = [v \in Viewers |-> <<>>]
  /\ stream = [v \in Viewers |-> "connecting"]
  /\ lastEventID = [v \in Viewers |-> 0]
  /\ seen = [v \in Viewers |-> <<>>]
  /\ published = [s \in Sessions |-> 0]
  /\ near = [v \in Viewers |-> TRUE]
  /\ losses = 0 /\ refusals = 0 /\ restarts = 0

-----------------------------------------------------------------------------
Pending(v) == [i \in DOMAIN events[v] |-> events[v][i].n]

(* What viewer v has been given and what is on its way to it. *)
Received(v) == seen[v] \o Pending(v)

(* Another event of session s leaves viewer v within Room of the last one. *)
StaysNear(v, s) ==
  Watched[v] = s /\ Received(v) # <<>> =>
    published[s] + 1 < Received(v)[1] + Len(seen[v]) + Room

(* Mutant: the history is never trimmed. *)
LatestOfAll(most, seq) == seq

(* The last "most" elements, and the first "most" elements, of a sequence. *)
Latest(most, seq) ==
  IF Len(seq) > most THEN SubSeq(seq, Len(seq) - most + 1, Len(seq)) ELSE seq

Earliest(most, seq) == IF Len(seq) > most THEN SubSeq(seq, 1, most) ELSE seq

(* The events of a history after a given id.  Ids grow along a history, so *)
(* they are the end of it.                                                 *)
After(id, seq) ==
  LET first == CHOOSE k \in 1 .. Len(seq) + 1 :
                 \A i \in DOMAIN seq : seq[i].ID > id <=> k <= i
  IN  SubSeq(seq, first, Len(seq))

(* Non-blocking sends to a channel: what no longer fits is dropped. *)
Send(channel, more) == Earliest(subscriberBuffer, channel \o more)

(* Mutant: the event is given to the connected viewers of every session. *)
PublishEverywhere(s) ==
  /\ published[s] < MaxEvents
  /\ nextID' = nextID + 1
  /\ published' = [published EXCEPT ![s] = @ + 1]
  /\ LET ev == [ID |-> nextID', n |-> published'[s]]
     IN  /\ history' = [history EXCEPT ![s] = Latest(replayWindow, Append(@, ev))]
         /\ events' = [v \in Viewers |->
              IF stream[v] = "open" THEN Send(events[v], <<ev>>) ELSE events[v]]
  /\ near' = [v \in Viewers |-> near[v] /\ StaysNear(v, s)]
  /\ UNCHANGED <<stream, lastEventID, seen, losses, refusals, restarts>>

(* Publish, under the hub's lock: the event gets the next id, is kept for  *)
(* replay and is offered to every subscriber of the session.               *)
Publish(s) ==
  /\ published[s] < MaxEvents
  /\ nextID' = nextID + 1
  /\ published' = [published EXCEPT ![s] = @ + 1]
  /\ LET ev == [ID |-> nextID', n |-> published'[s]]
     IN  /\ history' = [history EXCEPT ![s] = Latest(replayWindow, Append(@, ev))]
         /\ events' = [v \in Viewers |->
              IF stream[v] = "open" /\ Watched[v] = s
                THEN Send(events[v], <<ev>>) ELSE events[v]]
  /\ near' = [v \in Viewers |-> near[v] /\ StaysNear(v, s)]
  /\ UNCHANGED <<stream, lastEventID, seen, losses, refusals, restarts>>

Connecting(v) == stream[v] = "connecting"

(* Mutant: the event the client already has is replayed too. *)
SubscribeAgain(v) ==
  /\ Connecting(v)
  /\ stream' = [stream EXCEPT ![v] = "open"]
  /\ events' = [events EXCEPT ![v] =
       IF lastEventID[v] = 0 THEN <<>>
       ELSE Send(<<>>, After(lastEventID[v] - 1, history[Watched[v]]))]
  /\ UNCHANGED <<hub, lastEventID, seen, published, faults>>

(* Mutant: nothing is replayed. *)
SubscribeFresh(v) ==
  /\ Connecting(v)
  /\ stream' = [stream EXCEPT ![v] = "open"]
  /\ events' = [events EXCEPT ![v] = <<>>]
  /\ UNCHANGED <<hub, lastEventID, seen, published, faults>>

(* The EventSource connects, and handleStream subscribes it: what happened *)
(* after its Last-Event-ID is put in its channel at once; a connection     *)
(* without that header starts from now.                                    *)
Subscribe(v) ==
  /\ Connecting(v)
  /\ stream' = [stream EXCEPT ![v] = "open"]
  /\ events' = [events EXCEPT ![v] =
       IF lastEventID[v] = 0 THEN <<>>
       ELSE Send(<<>>, After(lastEventID[v], history[Watched[v]]))]
  /\ UNCHANGED <<hub, lastEventID, seen, published, faults>>

(* handleStream answers with an error (the session could not be read): an  *)
(* EventSource gives up on any answer but a 200.                           *)
Refuse(v) ==
  /\ Connecting(v) /\ refusals < MaxRefusals
  /\ stream' = [stream EXCEPT ![v] = "closed"]
  /\ refusals' = refusals + 1
  /\ UNCHANGED <<hub, events, lastEventID, seen, published, near, losses, restarts>>

(* handleStream writes the next event; the page's EventSource notes its id *)
(* and dispatches it.                                                      *)
Deliver(v) ==
  /\ events[v] # <<>>
  /\ events' = [events EXCEPT ![v] = Tail(@)]
  /\ seen' = [seen EXCEPT ![v] = Append(@, Head(events[v]).n)]
  /\ lastEventID' = [lastEventID EXCEPT ![v] = Head(events[v]).ID]
  /\ UNCHANGED <<hub, stream, published, faults>>

(* The connection breaks: the handler unsubscribes, the EventSource will   *)
(* reconnect.                                                              *)
Disconnect(v) ==
  /\ stream[v] = "open" /\ losses < MaxLosses
  /\ stream' = [stream EXCEPT ![v] = "connecting"]
  /\ events' = [events EXCEPT ![v] = <<>>]
  /\ losses' = losses + 1
  /\ UNCHANGED <<hub, lastEventID, seen, published, near, refusals, restarts>>

(* The server restarts with an empty hub, and ids start over. *)
Restart ==
  /\ restarts < MaxRestarts
  /\ nextID' = 0
  /\ history' = [s \in Sessions |-> <<>>]
  /\ events' = [v \in Viewers |-> <<>>]
  /\ stream' = [v \in Viewers |-> IF stream[v] = "open" THEN "connecting" ELSE stream[v]]
  /\ near' = [v \in Viewers |-> near[v] /\ seen[v] = <<>>]
  /\ restarts' = restarts + 1
  /\ UNCHANGED <<lastEventID, seen, published, losses, refusals>>

Next ==
  \/ \E s \in Sessions : Publish(s)
  \/ \E v \in Viewers : Subscribe(v) \/ Refuse(v) \/ Deliver(v) \/ Disconnect(v)
  \/ Restart

Spec == Init /\ [][Next]_vars

(***************************************************************************)
(* EventSource reconnects by itself, and the handler's loop writes what is *)
(* in the channel.                                                         *)
(***************************************************************************)
FairSpec ==
  Spec /\ \A v \in Viewers : WF_vars(Subscribe(v)) /\ WF_vars(Deliver(v))

-----------------------------------------------------------------------------
(***************************************************************************)
(* No viewer is given an event twice or out of order, whatever breaks and  *)
(* restarts: the ids start over with the server, the events do not.        *)
(***************************************************************************)
NeverTwice ==
  \A v \in Viewers : \A i, j \in DOMAIN Received(v) :
    i < j => Received(v)[i] < Received(v)[j]

(***************************************************************************)
(* From the first event a viewer was given, a connected viewer has every   *)
(* event of its session, and no other session's, behind it or on its way,  *)
(* however often its connection broke: Last-Event-ID and the replay leave  *)
(* no gap, unless the server restarted or the viewer once fell behind by   *)
(* more than the channel or the history holds.                             *)
(***************************************************************************)
NoGap ==
  \A v \in Viewers : near[v] /\ stream[v] = "open" /\ seen[v] # <<>> =>
    Received(v) = [i \in 1 .. published[Watched[v]] - seen[v][1] + 1 |->
                     seen[v][1] + i - 1]

(***************************************************************************)
(* A viewer that has been given an event is eventually given every later   *)
(* event of its session, under the same conditions and unless the server   *)
(* refuses its connection.                                                 *)
(***************************************************************************)
ViewersCatchUp ==
  \A v \in Viewers : \A n \in 1..MaxEvents :
    (seen[v] # <<>> /\ seen[v][1] <= n /\ n <= published[Watched[v]])
      ~> (Contains(seen[v], n) \/ ~near[v] \/ stream[v] = "closed")
===============================================================================
