------------------------------ MODULE WriteQueue ------------------------------
(***************************************************************************)
(* Class WriteQueue of the web client, which carries the scorekeeper's     *)
(* taps to the server, with the page it lives in, the network and the rows *)
(* the server holds.                                                       *)
(*                                                                         *)
(* The page runs one callback at a time, so the code between two awaits is *)
(* one action: an answer that arrives takes its write off the queue and    *)
(* starts the next send in the same step.  A request whose fetch has       *)
(* failed may still be on its way, and reach the server late.              *)
(*                                                                         *)
(* Left out: the length of the backoff (a sleep ends), lastError and       *)
(* onChange (they feed the display), and what a write says: a throw and an *)
(* undo queue alike.                                                       *)
(***************************************************************************)
EXTENDS Naturals, Sequences, FiniteSets, SequencesExt

CONSTANTS
  MaxTaps,         (* bound on the writes the scorekeeper makes            *)
  MaxReloads,      (* bound on reloads of the page                         *)
  MaxClears,       (* bound on false starts                                *)
  MaxStrays        (* bound on late requests on their way at once          *)

ASSUME WriteQueueAssumption ==
  /\ MaxTaps \in Nat /\ MaxReloads \in Nat
  /\ MaxClears \in Nat /\ MaxStrays \in Nat

VARIABLES
  items,      (* this.items: the writes not yet answered, oldest first     *)
  stored,     (* what localStorage holds for this queue                    *)
  loop,       (* #drainLoop: where it is, the write it awaits, its answer  *)
  dropped,    (* this.dropped: writes the server refused, as shown         *)
  strays,     (* failed requests that may still reach the server           *)
  landed,     (* the server: writes in the order they first took effect    *)
  made,       (* history: how many taps have been made                     *)
  refused,    (* history: taps whose refusal the queue has been told       *)
  cleared,    (* history: taps a false start discarded                     *)
  saved,      (* history: localStorage has accepted every write so far     *)
  reloads, clears

page    == <<items, stored, saved, loop, dropped>>
server  == <<strays, landed>>
history == <<made, refused, cleared, reloads, clears>>
vars    == <<page, server, history>>

(* A tap has a fresh client id; here, its number. *)
Taps == 1..MaxTaps

Replies == {"none", "ok", "rejected"}

(* this.draining is null exactly at Idle. *)
Idle       == [at |-> "idle"]
Sleeping   == [at |-> "sleep"]
Sending(t, reply) == [at |-> "send", tap |-> t, reply |-> reply]

LoopStates ==
  {Idle, Sleeping} \cup {Sending(t, reply) : t \in Taps, reply \in Replies}

TypeOK ==
  /\ items \in Seq(Taps) /\ stored \in Seq(Taps)
  /\ loop \in LoopStates
  /\ dropped \subseteq Taps
  /\ strays \in [Taps -> 0..MaxStrays]
  /\ landed \in Seq(Taps)
  /\ made \in 0..MaxTaps
  /\ refused \subseteq Taps /\ cleared \subseteq Taps /\ saved \in BOOLEAN
  /\ reloads \in 0..MaxReloads /\ clears \in 0..MaxClears

Init ==
  /\ items = <<>> /\ stored = <<>>
  /\ loop = Idle
  /\ dropped = {}
  /\ strays = [t \in Taps |-> 0]
  /\ landed = <<>>
  /\ made = 0 /\ refused = {} /\ cleared = {} /\ saved = TRUE
  /\ reloads = 0 /\ clears = 0

-----------------------------------------------------------------------------
(* #persist: a storage that refuses (private mode, quota) is ignored. *)
Persist(queue) ==
  \/ stored' = queue /\ UNCHANGED saved
  \/ UNCHANGED stored /\ saved' = FALSE

(* The head of #drainLoop: send the oldest write, or end. *)
Advance(queue) ==
  loop' = IF queue = <<>> THEN Idle ELSE Sending(Head(queue), "none")

(* items.shift(), which is harmless on an empty array. *)
Shifted == IF items = <<>> THEN <<>> ELSE Tail(items)

(* Mutant: the write is sent without being stored first. *)
EnqueueUnsaved ==
  /\ made < MaxTaps
  /\ made' = made + 1
  /\ items' = Append(items, made')
  /\ IF loop = Idle THEN Advance(items') ELSE UNCHANGED loop
  /\ UNCHANGED <<stored, saved, dropped, server, refused, cleared, reloads, clears>>

(* A tap is queued, stored, and sent if nothing else is being sent. *)
Enqueue ==
  /\ made < MaxTaps
  /\ made' = made + 1
  /\ items' = Append(items, made')
  /\ Persist(items')
  /\ IF loop = Idle THEN Advance(items') ELSE UNCHANGED loop
  /\ UNCHANGED <<dropped, server, refused, cleared, reloads, clears>>

(* Mutant: the loop returns after each write. *)
AnsweredOnce ==
  /\ loop.at = "send" /\ loop.reply = "ok"
  /\ items' = Shifted
  /\ Persist(items')
  /\ loop' = Idle
  /\ UNCHANGED <<dropped, server, history>>

(* The awaited send was accepted: the head leaves the queue. *)
Answered ==
  /\ loop.at = "send" /\ loop.reply = "ok"
  /\ items' = Shifted
  /\ Persist(items')
  /\ Advance(items')
  /\ UNCHANGED <<dropped, server, history>>

(* Mutant: a refused write is retried like a failed one. *)
RejectedRetried ==
  /\ loop.at = "send" /\ loop.reply = "rejected"
  /\ loop' = Sleeping
  /\ UNCHANGED <<items, stored, saved, dropped, server, history>>

(* Mutant: what is recorded as dropped is the head after the shift. *)
RejectedShiftsFirst ==
  /\ loop.at = "send" /\ loop.reply = "rejected"
  /\ items' = Shifted
  /\ Persist(items')
  /\ Advance(items')
  /\ dropped' = dropped \cup {IF items' = <<>> THEN 0 ELSE Head(items')}
  /\ refused' = refused \cup {loop.tap}
  /\ UNCHANGED <<server, made, cleared, reloads, clears>>

(* The server will never accept it: dropped, and shown as such. *)
Rejected ==
  /\ loop.at = "send" /\ loop.reply = "rejected"
  /\ items' = Shifted
  /\ Persist(items')
  /\ Advance(items')
  /\ dropped' = dropped \cup {loop.tap}
  /\ refused' = refused \cup {loop.tap}
  /\ UNCHANGED <<server, made, cleared, reloads, clears>>

(* Mutant: a write that failed goes to the back of the queue. *)
FailedRequeues ==
  /\ loop.at = "send"
  /\ loop' = Sleeping
  /\ items' = IF items = <<>> THEN <<>> ELSE Append(Tail(items), Head(items))
  /\ Persist(items')
  /\ \/ UNCHANGED strays
     \/ /\ loop.reply = "none" /\ strays[loop.tap] < MaxStrays
        /\ strays' = [strays EXCEPT ![loop.tap] = @ + 1]
  /\ UNCHANGED <<dropped, landed, history>>

(* The fetch fails, or the server answers 429 or 5xx: sleep, then retry.   *)
(* The request was lost, or had taken effect, or is still on its way.      *)
Failed ==
  /\ loop.at = "send"
  /\ loop' = Sleeping
  /\ \/ UNCHANGED strays
     \/ /\ loop.reply = "none" /\ strays[loop.tap] < MaxStrays
        /\ strays' = [strays EXCEPT ![loop.tap] = @ + 1]
  /\ UNCHANGED <<items, stored, saved, dropped, landed, history>>

Wake ==
  /\ loop = Sleeping
  /\ Advance(items)
  /\ UNCHANGED <<items, stored, saved, dropped, server, history>>

(* Mutant: the stored copy survives. *)
ClearKeepsStored ==
  /\ clears < MaxClears
  /\ items' = <<>>
  /\ dropped' = {}
  /\ cleared' = cleared \cup Range(items)
  /\ clears' = clears + 1
  /\ UNCHANGED <<stored, saved, loop, server, made, refused, reloads>>

(* A false start discards the queue; a send in progress goes on. *)
Clear ==
  /\ clears < MaxClears
  /\ items' = <<>>
  /\ Persist(items')
  /\ dropped' = {}
  /\ cleared' = cleared \cup Range(items)
  /\ clears' = clears + 1
  /\ UNCHANGED <<loop, server, made, refused, reloads>>

(* The page goes away and comes back: a new WriteQueue loads what was      *)
(* stored and drains it.  The answer of a send in progress is never read.  *)
Reload ==
  /\ reloads < MaxReloads
  /\ items' = stored
  /\ Advance(stored)
  /\ dropped' = {}
  /\ reloads' = reloads + 1
  /\ \/ UNCHANGED strays
     \/ /\ loop.at = "send" /\ loop.reply = "none" /\ strays[loop.tap] < MaxStrays
        /\ strays' = [strays EXCEPT ![loop.tap] = @ + 1]
  /\ UNCHANGED <<stored, saved, landed, made, refused, cleared, clears>>

-----------------------------------------------------------------------------
(* The server, as the queue uses it: one row per client id.  A write may   *)
(* be refused for good, and a later one, or a copy of it, be accepted: a   *)
(* confirmed round is reopened, a sign-in expires or is renewed (also 400, *)
(* 403 and 404).  A reset, which deletes the rows, is left out: landed     *)
(* says what took effect, not what is still there.                         *)
Answer(t, reply) ==
  landed' = IF reply = "rejected" \/ Contains(landed, t) THEN landed ELSE Append(landed, t)

(* The awaited request is handled, and its answer is on the way back. *)
Arrive ==
  /\ loop.at = "send" /\ loop.reply = "none"
  /\ \E reply \in Replies \ {"none"} :
       Answer(loop.tap, reply) /\ loop' = Sending(loop.tap, reply)
  /\ UNCHANGED <<items, stored, saved, dropped, strays, history>>

(* A late request is handled; nobody reads its answer. *)
ArriveLate(t) ==
  /\ strays[t] > 0
  /\ strays' = [strays EXCEPT ![t] = @ - 1]
  /\ \E reply \in Replies \ {"none"} : Answer(t, reply)
  /\ UNCHANGED <<page, history>>

Next ==
  \/ Enqueue \/ Answered \/ Rejected \/ Failed \/ Wake \/ Clear \/ Reload
  \/ Arrive \/ \E t \in Taps : ArriveLate(t)

Spec == Init /\ [][Next]_vars

(***************************************************************************)
(* A sleep ends, and the network is not down for ever: a send that is      *)
(* tried again and again reaches the server, and one whose answer is on    *)
(* its way again and again gets the answer back.                           *)
(***************************************************************************)
Fairness ==
  /\ WF_vars(Wake)
  /\ SF_vars(Arrive)
  /\ SF_vars(Answered)
  /\ SF_vars(Rejected)

FairSpec == Spec /\ Fairness

-----------------------------------------------------------------------------
(* What the queue's promises rest on: localStorage, when a reload needs it. *)
Durable == saved \/ reloads = 0

(***************************************************************************)
(* No tap disappears: whatever fails and however often the page reloads,   *)
(* each tap is still queued, has landed or was refused.  (Queued means in  *)
(* memory; Reload makes it mean stored.)  Without false starts: see        *)
(* ReplayKeepsTaps.                                                        *)
(***************************************************************************)
NoTapLost ==
  Durable /\ clears = 0 =>
    \A t \in 1..made :
      Contains(items, t) \/ Contains(landed, t) \/ t \in refused

(***************************************************************************)
(* The server sees the taps for the first time in the order they were      *)
(* made, in spite of retries, late requests and reloads.  Only a tap of    *)
(* which the queue was told that it is refused may land behind a later     *)
(* one: a late copy of it, accepted after all.  (Without false starts: a   *)
(* late request of a discarded tap may land among those of the replayed    *)
(* round.)                                                                 *)
(***************************************************************************)
LandedInOrder ==
  Durable /\ clears = 0 =>
    \A i, j \in DOMAIN landed :
      i < j => landed[i] < landed[j] \/ landed[j] \in refused

(***************************************************************************)
(* When no drain is in progress the queue is empty, so awaiting drain()    *)
(* means waiting until every tap has been answered (confirm relies on it), *)
(* even when nothing could be stored.                                      *)
(***************************************************************************)
IdleMeansEmpty == loop = Idle => items = <<>>

(***************************************************************************)
(* A send is only begun for a tap that has not been discarded by a false   *)
(* start: Clear reaches the stored copy as well as the one in memory.      *)
(***************************************************************************)
ClearedStaysCleared ==
  [][saved => \A t \in cleared :
       loop' = Sending(t, "none") => loop = loop']_vars

(***************************************************************************)
(* Every tap is eventually answered for: it lands or the server refuses    *)
(* it, unless a false start intervenes.                                    *)
(***************************************************************************)
EveryTapSettles ==
  \A t \in Taps :
    t <= made ~>
      (Contains(landed, t) \/ t \in refused \/ clears > 0 \/ ~Durable)

(***************************************************************************)
(* "A durable FIFO of pending writes for one round": the taps of the round *)
(* replayed after a false start are kept as well as those of the first.    *)
(***************************************************************************)
ReplayKeepsTaps ==
  Durable =>
    \A t \in 1..made :
      Contains(items, t) \/ Contains(landed, t) \/ t \in refused \cup cleared
===============================================================================
