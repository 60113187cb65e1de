--------------------------- MODULE WriteQueueProofs ---------------------------
(***************************************************************************)
(* Theorems about module WriteQueue, for any number of taps, reloads,      *)
(* false starts and late requests.                                         *)
(***************************************************************************)
EXTENDS WriteQueue, TLAPS

-----------------------------------------------------------------------------
(* What a queue contains after a write joins it, and after its head left.  *)

LEMMA ContainsAppended ==
  ASSUME NEW S, NEW s \in Seq(S), NEW e \in S, NEW x
  PROVE  Contains(Append(s, e), x) <=> Contains(s, x) \/ x = e
<1>1. /\ Len(Append(s, e)) = Len(s) + 1
      /\ Append(s, e)[Len(s) + 1] = e
      /\ \A i \in 1..Len(s) : Append(s, e)[i] = s[i]
  OBVIOUS
<1>2. Len(s) \in Nat
  OBVIOUS
<1> QED
  BY <1>1, <1>2 DEF Contains

LEMMA ContainsShifted ==
  ASSUME NEW S, NEW s \in Seq(S), s # <<>>, NEW x
  PROVE  Contains(s, x) <=> x = Head(s) \/ Contains(Tail(s), x)
<1>1. /\ Len(s) \in Nat \ {0} /\ Len(Tail(s)) = Len(s) - 1
      /\ Head(s) = s[1]
      /\ \A i \in 1..Len(s) - 1 : Tail(s)[i] = s[i + 1]
  OBVIOUS
<1>2. ASSUME Contains(s, x), x # Head(s) PROVE Contains(Tail(s), x)
  <2>1. PICK i \in 1..Len(s) : s[i] = x
    BY <1>2 DEF Contains
  <2>2. i - 1 \in 1..Len(s) - 1 /\ Tail(s)[i - 1] = x
    BY <1>1, <1>2, <2>1
  <2> QED
    BY <1>1, <2>2 DEF Contains
<1>3. ASSUME Contains(Tail(s), x) PROVE Contains(s, x)
  <2>1. PICK i \in 1..Len(s) - 1 : Tail(s)[i] = x
    BY <1>1, <1>3 DEF Contains
  <2>2. i + 1 \in 1..Len(s) /\ s[i + 1] = x
    BY <1>1, <2>1
  <2> QED
    BY <2>2 DEF Contains
<1>4. Contains(s, Head(s))
  BY <1>1 DEF Contains
<1> QED
  BY <1>2, <1>3, <1>4

LEMMA LandedGrows ==
  ASSUME NEW S, NEW s \in Seq(S), NEW t \in S, NEW x, Contains(s, x)
  PROVE  Contains(Append(s, t), x)
  BY ContainsAppended

-----------------------------------------------------------------------------
(* Types. *)

LEMMA LoopTypes ==
  /\ Idle \in LoopStates /\ Sleeping \in LoopStates
  /\ \A t \in Taps, reply \in Replies :
       Sending(t, reply) \in LoopStates /\ Sending(t, reply) # Idle
  /\ \A state \in LoopStates : state.at = "send" =>
       /\ state.tap \in Taps /\ state.reply \in Replies
       /\ state = Sending(state.tap, state.reply)
  /\ Sleeping # Idle /\ Idle.at = "idle" /\ Sleeping.at = "sleep"
<1>1. Idle.at = "idle" /\ Sleeping.at = "sleep"
  BY DEF Idle, Sleeping
<1>2. ASSUME NEW t \in Taps, NEW reply \in Replies
      PROVE  /\ Sending(t, reply) \in LoopStates
             /\ Sending(t, reply).at = "send"
             /\ Sending(t, reply).tap = t /\ Sending(t, reply).reply = reply
  BY DEF LoopStates, Sending
<1>3. ASSUME NEW state \in LoopStates, state.at = "send"
      PROVE  /\ state.tap \in Taps /\ state.reply \in Replies
             /\ state = Sending(state.tap, state.reply)
  <2>1. PICK t \in Taps, reply \in Replies : state = Sending(t, reply)
    BY <1>1, <1>3 DEF LoopStates
  <2> QED
    BY <1>2, <2>1
<1>4. Idle \in LoopStates /\ Sleeping \in LoopStates
  BY DEF LoopStates
<1> QED
  BY <1>1, <1>2, <1>3, <1>4

LEMMA AdvanceType ==
  ASSUME NEW queue \in Seq(Taps), Advance(queue)
  PROVE  loop' \in LoopStates
<1>1. queue # <<>> => Head(queue) \in Taps
  OBVIOUS
<1>2. "none" \in Replies
  BY DEF Replies
<1> QED
  BY <1>1, <1>2, LoopTypes DEF Advance

LEMMA PersistType ==
  ASSUME TypeOK, NEW queue \in Seq(Taps), Persist(queue)
  PROVE  stored' \in Seq(Taps) /\ saved' \in BOOLEAN
  BY DEF TypeOK, Persist

LEMMA ShiftedType == TypeOK => Shifted \in Seq(Taps)
  BY DEF TypeOK, Shifted

LEMMA StraysType ==
  ASSUME TypeOK, NEW t \in Taps, strays[t] < MaxStrays,
         strays' = [strays EXCEPT ![t] = @ + 1]
  PROVE  strays' \in [Taps -> 0..MaxStrays]
<1>1. strays[t] + 1 \in 0..MaxStrays
  BY WriteQueueAssumption DEF TypeOK
<1> QED
  BY <1>1 DEF TypeOK

LEMMA AnswerType ==
  ASSUME TypeOK, NEW t \in Taps, NEW reply, Answer(t, reply)
  PROVE  landed' \in Seq(Taps)
  BY DEF TypeOK, Answer

LEMMA TypeInit == Init => TypeOK
<1> SUFFICES ASSUME Init PROVE TypeOK
  OBVIOUS
<1>1. loop \in LoopStates
  BY LoopTypes DEF Init
<1>2. <<>> \in Seq(Taps) /\ 0 \in 0..MaxTaps /\ 0 \in 0..MaxReloads
      /\ 0 \in 0..MaxClears /\ 0 \in 0..MaxStrays
  BY WriteQueueAssumption
<1> QED
  BY <1>1, <1>2 DEF Init, TypeOK

LEMMA TypeEnqueue == TypeOK /\ Enqueue => TypeOK'
<1> SUFFICES ASSUME TypeOK, Enqueue PROVE TypeOK'
  OBVIOUS
<1>1. made' \in 0..MaxTaps /\ made' \in Taps
  BY WriteQueueAssumption DEF TypeOK, Enqueue, Taps
<1>2. items' \in Seq(Taps)
  BY <1>1 DEF TypeOK, Enqueue
<1>3. stored' \in Seq(Taps) /\ saved' \in BOOLEAN
  BY <1>2, PersistType DEF Enqueue
<1>4. loop' \in LoopStates
  BY <1>2, AdvanceType DEF TypeOK, Enqueue
<1> QED
  BY <1>1, <1>2, <1>3, <1>4 DEF TypeOK, Enqueue, server

LEMMA TypeAnswer == TypeOK /\ (Answered \/ Rejected) => TypeOK'
<1> SUFFICES ASSUME TypeOK, Answered \/ Rejected PROVE TypeOK'
  OBVIOUS
<1>1. items' \in Seq(Taps)
  BY ShiftedType DEF Answered, Rejected
<1>2. stored' \in Seq(Taps) /\ saved' \in BOOLEAN
  BY <1>1, PersistType DEF Answered, Rejected
<1>3. loop' \in LoopStates
  BY <1>1, AdvanceType DEF Answered, Rejected
<1>4. dropped' \subseteq Taps /\ refused' \subseteq Taps
  BY LoopTypes DEF TypeOK, Answered, Rejected, history
<1> QED
  BY <1>1, <1>2, <1>3, <1>4 DEF TypeOK, Answered, Rejected, server, history

LEMMA TypeFailed == TypeOK /\ Failed => TypeOK'
<1> SUFFICES ASSUME TypeOK, Failed PROVE TypeOK'
  OBVIOUS
<1>1. loop' \in LoopStates
  BY LoopTypes DEF Failed
<1>2. loop.tap \in Taps
  BY LoopTypes DEF TypeOK, Failed
<1>3. strays' \in [Taps -> 0..MaxStrays]
  BY <1>2, StraysType DEF TypeOK, Failed
<1> QED
  BY <1>1, <1>3 DEF TypeOK, Failed, history

LEMMA TypeClear == TypeOK /\ Clear => TypeOK'
<1> SUFFICES ASSUME TypeOK, Clear PROVE TypeOK'
  OBVIOUS
<1>1. items' \in Seq(Taps)
  BY DEF Clear
<1>2. stored' \in Seq(Taps) /\ saved' \in BOOLEAN
  BY <1>1, PersistType DEF Clear
<1>3. Range(items) \subseteq Taps
  BY DEF TypeOK, Range
<1>4. clears' \in 0..MaxClears
  BY WriteQueueAssumption DEF TypeOK, Clear
<1> QED
  BY <1>1, <1>2, <1>3, <1>4 DEF TypeOK, Clear, server

LEMMA TypeReload == TypeOK /\ Reload => TypeOK'
<1> SUFFICES ASSUME TypeOK, Reload PROVE TypeOK'
  OBVIOUS
<1>1. loop' \in LoopStates
  BY AdvanceType DEF TypeOK, Reload
<1>2. strays' \in [Taps -> 0..MaxStrays]
  BY WriteQueueAssumption DEF TypeOK, Reload
<1>3. reloads' \in 0..MaxReloads
  BY WriteQueueAssumption DEF TypeOK, Reload
<1> QED
  BY <1>1, <1>2, <1>3 DEF TypeOK, Reload

LEMMA TypeArrive == TypeOK /\ Arrive => TypeOK'
<1> SUFFICES ASSUME TypeOK, Arrive PROVE TypeOK'
  OBVIOUS
<1>1. loop.tap \in Taps
  BY LoopTypes DEF TypeOK, Arrive
<1>2. PICK reply \in Replies \ {"none"} :
        Answer(loop.tap, reply) /\ loop' = Sending(loop.tap, reply)
  BY DEF Arrive
<1>3. loop' \in LoopStates
  BY <1>1, <1>2, LoopTypes
<1>4. landed' \in Seq(Taps)
  BY <1>1, <1>2, AnswerType
<1> QED
  BY <1>3, <1>4 DEF TypeOK, Arrive, history

LEMMA TypeArriveLate == \A t \in Taps : TypeOK /\ ArriveLate(t) => TypeOK'
<1> SUFFICES ASSUME NEW t \in Taps, TypeOK, ArriveLate(t) PROVE TypeOK'
  OBVIOUS
<1>1. landed' \in Seq(Taps)
  BY AnswerType DEF ArriveLate
<1>2. strays' \in [Taps -> 0..MaxStrays]
  BY WriteQueueAssumption DEF TypeOK, ArriveLate
<1> QED
  BY <1>1, <1>2 DEF TypeOK, ArriveLate, page, history

LEMMA TypeNext == TypeOK /\ [Next]_vars => TypeOK'
<1> SUFFICES ASSUME TypeOK, [Next]_vars PROVE TypeOK'
  OBVIOUS
<1>1. CASE Wake
  <2>1. loop' \in LoopStates
    BY <1>1, AdvanceType DEF TypeOK, Wake
  <2> QED
    BY <1>1, <2>1 DEF TypeOK, Wake, server, history
<1>2. CASE UNCHANGED vars
  BY <1>2 DEF TypeOK, vars, page, server, history
<1> QED
  BY <1>1, <1>2, TypeEnqueue, TypeAnswer, TypeFailed, TypeClear,
     TypeReload, TypeArrive, TypeArriveLate DEF Next

(***************************************************************************)
(* Type correctness of the queue, its page, the network and the server.    *)
(***************************************************************************)
THEOREM TypeCorrect == Spec => []TypeOK
  BY TypeInit, TypeNext, PTL DEF Spec

-----------------------------------------------------------------------------
(***************************************************************************)
(* A drain only ends on an empty queue.                                    *)
(***************************************************************************)
LEMMA AdvanceIdle ==
  ASSUME NEW queue \in Seq(Taps), Advance(queue)
  PROVE  loop' = Idle => queue = <<>>
<1>1. queue # <<>> => Head(queue) \in Taps
  OBVIOUS
<1>2. "none" \in Replies
  BY DEF Replies
<1> QED
  BY <1>1, <1>2, LoopTypes DEF Advance

LEMMA IdleStep == TypeOK /\ IdleMeansEmpty /\ [Next]_vars => IdleMeansEmpty'
<1> SUFFICES ASSUME TypeOK, IdleMeansEmpty, [Next]_vars PROVE IdleMeansEmpty'
  OBVIOUS
<1>1. CASE Enqueue
  <2>1. TypeOK'
    BY <1>1, TypeEnqueue
  <2>2. CASE loop = Idle
    BY <1>1, <2>1, <2>2, AdvanceIdle DEF Enqueue, TypeOK, IdleMeansEmpty
  <2>3. CASE loop # Idle
    BY <1>1, <2>3 DEF Enqueue, IdleMeansEmpty
  <2> QED
    BY <2>2, <2>3
<1>2. CASE Answered \/ Rejected
  BY <1>2, ShiftedType, AdvanceIdle DEF Answered, Rejected, IdleMeansEmpty
<1>3. CASE Failed
  BY <1>3, LoopTypes DEF Failed, IdleMeansEmpty
<1>4. CASE Wake
  BY <1>4, AdvanceIdle DEF TypeOK, Wake, IdleMeansEmpty
<1>5. CASE Clear
  BY <1>5 DEF Clear, IdleMeansEmpty
<1>6. CASE Reload
  BY <1>6, AdvanceIdle DEF TypeOK, Reload, IdleMeansEmpty
<1>7. CASE Arrive
  <2>1. loop'.at = "send"
    BY <1>7, LoopTypes DEF TypeOK, Arrive, Sending
  <2> QED
    BY <2>1, LoopTypes DEF IdleMeansEmpty
<1>8. CASE UNCHANGED vars \/ \E t \in Taps : ArriveLate(t)
  BY <1>8 DEF ArriveLate, vars, page, IdleMeansEmpty
<1> QED
  BY <1>1, <1>2, <1>3, <1>4, <1>5, <1>6, <1>7, <1>8 DEF Next

(***************************************************************************)
(* Awaiting a drain means waiting for every tap, for any network, storage  *)
(* and number of taps.                                                     *)
(***************************************************************************)
THEOREM DrainMeansEmpty == Spec => []IdleMeansEmpty
<1>1. Init => IdleMeansEmpty
  BY DEF Init, IdleMeansEmpty
<1> QED
  BY <1>1, IdleStep, TypeInit, TypeNext, PTL DEF Spec

-----------------------------------------------------------------------------
(***************************************************************************)
(* Nothing discarded is sent again.  The queue and its stored copy hold    *)
(* only taps that were made, so a new tap is not one discarded earlier;    *)
(* and as long as storage obeys, neither holds a discarded tap.            *)
(***************************************************************************)
MadeTaps == 1..made

DiscardInv ==
  /\ cleared \subseteq MadeTaps
  /\ \A i \in 1..Len(items) : items[i] \in MadeTaps
  /\ \A i \in 1..Len(stored) : stored[i] \in MadeTaps
  /\ saved => /\ stored = items
              /\ \A i \in 1..Len(items) : items[i] \notin cleared

LEMMA ShiftedElements ==
  ASSUME TypeOK, NEW i \in 1..Len(Shifted)
  PROVE  \E j \in 1..Len(items) : Shifted[i] = items[j]
<1>1. CASE items = <<>>
  BY <1>1 DEF Shifted
<1>2. CASE items # <<>>
  <2>1. i + 1 \in 1..Len(items) /\ Shifted[i] = items[i + 1]
    BY <1>2 DEF TypeOK, Shifted
  <2> QED
    BY <2>1
<1> QED
  BY <1>1, <1>2

LEMMA DiscardKept ==
  ASSUME TypeOK, DiscardInv,
         \A i \in 1..Len(items') : \E j \in 1..Len(items) : items'[i] = items[j],
         Persist(items'), UNCHANGED <<made, cleared>>
  PROVE  DiscardInv'
<1>1. made \in Nat
  BY WriteQueueAssumption DEF TypeOK
<1>2. \A i \in 1..Len(items') : items'[i] \in MadeTaps
  BY DEF DiscardInv
<1>3. \A i \in 1..Len(stored') : stored'[i] \in MadeTaps
  BY <1>2 DEF DiscardInv, Persist
<1>4. saved' => saved /\ stored' = items'
  BY DEF Persist
<1> QED
  BY <1>1, <1>2, <1>3, <1>4 DEF DiscardInv, MadeTaps

LEMMA DiscardEnqueue == TypeOK /\ DiscardInv /\ Enqueue => DiscardInv'
<1> SUFFICES ASSUME TypeOK, DiscardInv, Enqueue PROVE DiscardInv'
  OBVIOUS
<1>1. made \in Nat /\ made' = made + 1 /\ cleared' = cleared
  BY WriteQueueAssumption DEF TypeOK, Enqueue
<1>2. MadeTaps \subseteq MadeTaps' /\ made' \in MadeTaps' /\ made' \notin cleared
  BY <1>1 DEF MadeTaps, DiscardInv
<1>3. \A i \in 1..Len(items') : items'[i] = made' \/ \E j \in 1..Len(items) : items'[i] = items[j]
  <2>1. items \in Seq(Taps) /\ items' = Append(items, made')
    BY DEF TypeOK, Enqueue
  <2>2. Len(items') = Len(items) + 1 /\ items'[Len(items) + 1] = made'
        /\ \A i \in 1..Len(items) : items'[i] = items[i]
    BY <2>1
  <2> QED
    BY <2>1, <2>2
<1>4. \A i \in 1..Len(items') : items'[i] \in MadeTaps'
  BY <1>2, <1>3 DEF DiscardInv
<1>5. \A i \in 1..Len(stored') : stored'[i] \in MadeTaps'
  BY <1>2, <1>4 DEF DiscardInv, Enqueue, Persist
<1>6. saved' => saved /\ stored' = items'
  BY DEF Enqueue, Persist
<1>7. saved => \A i \in 1..Len(items') : items'[i] \notin cleared
  BY <1>2, <1>3 DEF DiscardInv
<1>8. cleared' \subseteq MadeTaps'
  BY <1>1, <1>2 DEF DiscardInv
<1> QED
  BY <1>1, <1>4, <1>5, <1>6, <1>7, <1>8 DEF DiscardInv

LEMMA DiscardClear == TypeOK /\ DiscardInv /\ Clear => DiscardInv'
<1> SUFFICES ASSUME TypeOK, DiscardInv, Clear PROVE DiscardInv'
  OBVIOUS
<1>1. items' = <<>> /\ Len(items') = 0 /\ MadeTaps' = MadeTaps
  BY DEF Clear, MadeTaps
<1>2. Range(items) \subseteq MadeTaps
  BY DEF TypeOK, DiscardInv, Range
<1>3. cleared' \subseteq MadeTaps'
  BY <1>1, <1>2 DEF DiscardInv, Clear
<1>4. \A i \in 1..Len(stored') : stored'[i] \in MadeTaps
  BY <1>1 DEF DiscardInv, Clear, Persist
<1>5. saved' => stored' = items'
  BY DEF Clear, Persist
<1> QED
  BY <1>1, <1>3, <1>4, <1>5 DEF DiscardInv

LEMMA DiscardNext == TypeOK /\ DiscardInv /\ [Next]_vars => DiscardInv'
<1> SUFFICES ASSUME TypeOK, DiscardInv, [Next]_vars PROVE DiscardInv'
  OBVIOUS
<1>1. CASE Answered \/ Rejected
  <2>1. \A i \in 1..Len(items') : \E j \in 1..Len(items) : items'[i] = items[j]
    BY <1>1, ShiftedElements DEF Answered, Rejected
  <2> QED
    BY <1>1, <2>1, DiscardKept DEF Answered, Rejected, history
<1>2. CASE Reload
  BY <1>2 DEF Reload, DiscardInv, MadeTaps
<1>3. CASE \/ Failed \/ Wake \/ Arrive \/ UNCHANGED vars
           \/ \E t \in Taps : ArriveLate(t)
  <2>1. UNCHANGED <<items, stored, saved, made, cleared>>
    BY <1>3 DEF Failed, Wake, Arrive, ArriveLate, vars, page, history
  <2> QED
    BY <2>1 DEF DiscardInv, MadeTaps
<1> QED
  BY <1>1, <1>2, <1>3, DiscardEnqueue, DiscardClear DEF Next

LEMMA SendsHead ==
  ASSUME NEW queue \in Seq(Taps), Advance(queue), NEW t \in Taps,
         loop' = Sending(t, "none")
  PROVE  queue # <<>> /\ t = queue[1] /\ 1 \in 1..Len(queue)
<1>1. "none" \in Replies
  BY DEF Replies
<1>2. queue # <<>>
  BY <1>1, LoopTypes DEF Advance
<1>3. loop' = Sending(Head(queue), "none") /\ Head(queue) = queue[1]
      /\ 1 \in 1..Len(queue)
  BY <1>2 DEF Advance
<1> QED
  BY <1>2, <1>3 DEF Sending

LEMMA DiscardStep ==
  ASSUME TypeOK, DiscardInv, [Next]_vars, saved, NEW t \in cleared,
         loop' = Sending(t, "none")
  PROVE  loop = loop'
<1>1. t \in Taps /\ t \in MadeTaps
  BY DEF TypeOK, DiscardInv
<1>2. TypeOK'
  BY TypeNext
<1>3. CASE Enqueue
  <2> SUFFICES ASSUME loop = Idle PROVE FALSE
    BY <1>3 DEF Enqueue
  <2>1. Advance(items') /\ items' \in Seq(Taps)
    BY <1>2, <1>3 DEF Enqueue, TypeOK
  <2>2. t = items'[1]
    BY <1>1, <2>1, SendsHead
  <2>3. made' \notin cleared
    BY <1>3, WriteQueueAssumption DEF DiscardInv, MadeTaps, Enqueue, TypeOK
  <2>4. items'[1] = made' \/ (1 \in 1..Len(items) /\ items'[1] = items[1])
    BY <1>2, <1>3 DEF Enqueue, TypeOK
  <2> QED
    BY <2>2, <2>3, <2>4 DEF DiscardInv
<1>4. CASE Answered \/ Rejected
  <2>1. items' = Shifted /\ items' \in Seq(Taps) /\ Advance(items')
    BY <1>2, <1>4 DEF Answered, Rejected, TypeOK
  <2>2. t = Shifted[1] /\ 1 \in 1..Len(Shifted)
    BY <1>1, <2>1, SendsHead
  <2> QED
    BY <2>2, ShiftedElements DEF DiscardInv
<1>5. CASE Wake \/ Reload
  <2>1. Advance(items)
    BY <1>5 DEF Wake, Reload, DiscardInv
  <2>2. t = items[1] /\ 1 \in 1..Len(items)
    BY <1>1, <2>1, SendsHead DEF TypeOK
  <2> QED
    BY <2>2 DEF DiscardInv
<1>6. CASE Failed
  BY <1>6 DEF Failed, Sleeping, Sending
<1>7. CASE Arrive
  <2>1. loop'.reply # "none"
    BY <1>7, LoopTypes DEF TypeOK, Arrive, Sending
  <2> QED
    BY <2>1 DEF Sending
<1>8. CASE Clear \/ UNCHANGED vars \/ \E s \in Taps : ArriveLate(s)
  BY <1>8 DEF Clear, ArriveLate, vars, page
<1> QED
  BY <1>3, <1>4, <1>5, <1>6, <1>7, <1>8 DEF Next

(***************************************************************************)
(* Whatever is retried, stored or reloaded, a tap that a false start       *)
(* discarded is not sent again while localStorage accepts writes.          *)
(***************************************************************************)
THEOREM DiscardedTapsStay == Spec => ClearedStaysCleared
<1>1. Init => DiscardInv
  BY DEF Init, DiscardInv
<1>2. TypeOK /\ DiscardInv /\ [Next]_vars =>
        [saved => \A t \in cleared :
           loop' = Sending(t, "none") => loop = loop']_vars
  BY DiscardStep
<1> QED
  BY <1>1, <1>2, DiscardNext, TypeInit, TypeNext, PTL DEF Spec, ClearedStaysCleared

-----------------------------------------------------------------------------
(***************************************************************************)
(* No tap is lost and none overtakes another.  Taps are numbered in the    *)
(* order they are made; while nothing has been discarded or lost by the    *)
(* storage, the queue is the run of taps after the last settled one, only  *)
(* its head and taps before it have been sent, and everything before it    *)
(* has landed or been refused: a late copy of a tap before the head takes  *)
(* effect for the first time only if the tap was refused.                  *)
(***************************************************************************)
Settled == made - Len(items)

QueueIsTheRest ==
  /\ Len(items) <= made
  /\ \A i \in 1..Len(items) : items[i] = Settled + i

HeadIsSent == loop.at = "send" => items # <<>> /\ loop.tap = Settled + 1

AnsweredBefore ==
  \A t \in 1..Settled : Contains(landed, t) \/ t \in refused

NothingAhead ==
  /\ \A t \in Taps : strays[t] > 0 => t <= Settled + 1
  /\ \A i \in 1..Len(landed) : landed[i] <= Settled + 1

Increasing ==
  \A i, j \in 1..Len(landed) :
    i < j => landed[i] < landed[j] \/ landed[j] \in refused

Orderly ==
  QueueIsTheRest /\ HeadIsSent /\ AnsweredBefore /\ NothingAhead /\ Increasing

QueueInv ==
  /\ saved => stored = items
  /\ loop.at = "send" /\ loop.reply = "ok" => Contains(landed, loop.tap)
  /\ Durable /\ clears = 0 => Orderly

(* What a step that begins a send leaves: the answer is not there yet. *)
LEMMA AdvanceSends ==
  ASSUME NEW queue \in Seq(Taps), Advance(queue)
  PROVE  /\ loop'.at = "send" => /\ queue # <<>> /\ loop'.tap = queue[1]
                                 /\ loop'.reply = "none"
<1>1. CASE queue = <<>>
  BY <1>1, LoopTypes DEF Advance
<1>2. CASE queue # <<>>
  <2>1. Head(queue) \in Taps /\ Head(queue) = queue[1]
    BY <1>2
  <2>2. loop' = Sending(queue[1], "none")
    BY <1>2, <2>1 DEF Advance
  <2> QED
    BY <1>2, <2>2 DEF Sending
<1> QED
  BY <1>1, <1>2

LEMMA SettledType == TypeOK /\ QueueIsTheRest => Settled \in Nat
  BY WriteQueueAssumption DEF TypeOK, QueueIsTheRest, Settled

LEMMA QueueEnqueue == TypeOK /\ QueueInv /\ Enqueue => QueueInv'
<1> SUFFICES ASSUME TypeOK, QueueInv, Enqueue PROVE QueueInv'
  OBVIOUS
<1>1. UNCHANGED <<strays, landed, refused, reloads, clears>>
  BY DEF Enqueue, server
<1>2. TypeOK'
  BY TypeEnqueue
<1>3. /\ Len(items') = Len(items) + 1 /\ items'[Len(items) + 1] = made + 1
      /\ \A i \in 1..Len(items) : items'[i] = items[i]
      /\ made \in Nat /\ Len(items) \in Nat /\ made' = made + 1
  BY <1>2, WriteQueueAssumption DEF TypeOK, Enqueue
<1>4. Settled' = Settled
  BY <1>3 DEF Settled
<1>5. (saved' => saved) /\ (saved' => stored' = items')
  BY DEF Enqueue, Persist
<1>6. \/ UNCHANGED loop
      \/ loop = Idle /\ Advance(items')
  BY DEF Enqueue
<1>7. loop'.at = "send" => UNCHANGED loop \/ (loop = Idle /\ loop'.reply = "none"
                                               /\ loop'.tap = items'[1])
  BY <1>2, <1>6, AdvanceSends DEF TypeOK
<1>8. ASSUME Durable', clears' = 0 PROVE Orderly'
  <2>1. Orderly
    BY <1>1, <1>5, <1>8 DEF Durable, QueueInv
  <2>2. QueueIsTheRest'
    BY <1>3, <1>4, <2>1 DEF Orderly, QueueIsTheRest, Settled
  <2>3. HeadIsSent'
    <3>1. items' # <<>> /\ 1 \in 1..Len(items')
      BY <1>3
    <3>2. items'[1] = Settled' + 1
      BY <2>2, <3>1 DEF QueueIsTheRest
    <3> QED
      BY <1>4, <1>7, <2>1, <3>1, <3>2 DEF Orderly, HeadIsSent
  <2> QED
    BY <1>1, <1>4, <2>1, <2>2, <2>3
    DEF Orderly, AnsweredBefore, NothingAhead, Increasing
<1> QED
  BY <1>1, <1>5, <1>7, <1>8 DEF QueueInv

LEMMA QueueAnswer == TypeOK /\ QueueInv /\ (Answered \/ Rejected) => QueueInv'
<1> SUFFICES ASSUME TypeOK, QueueInv, Answered \/ Rejected PROVE QueueInv'
  OBVIOUS
<1>1. /\ UNCHANGED <<strays, landed, made, reloads, clears>>
      /\ refused \subseteq refused'
      /\ loop.at = "send" /\ items' = Shifted
  BY DEF Answered, Rejected, server, history
<1>2. items' \in Seq(Taps) /\ Advance(items')
  BY <1>1, ShiftedType DEF Answered, Rejected
<1>3. (saved' => saved) /\ (saved' => stored' = items')
  BY DEF Answered, Rejected, Persist
<1>4. loop'.at = "send" => /\ items' # <<>> /\ loop'.tap = items'[1]
                           /\ loop'.reply = "none"
  BY <1>2, AdvanceSends
<1>5. Contains(landed, loop.tap) \/ loop.tap \in refused'
  BY DEF QueueInv, Answered, Rejected
<1>6. ASSUME Durable', clears' = 0 PROVE Orderly'
  <2>1. Orderly
    BY <1>1, <1>3, <1>6 DEF Durable, QueueInv
  <2>2. items # <<>> /\ loop.tap = Settled + 1
    BY <1>1, <2>1 DEF Orderly, HeadIsSent
  <2>3. /\ Len(items) \in Nat \ {0} /\ Len(items') = Len(items) - 1
        /\ \A i \in 1..Len(items') : items'[i] = items[i + 1]
    BY <1>1, <2>2 DEF TypeOK, Shifted
  <2>4. made \in Nat /\ Settled' = Settled + 1 /\ Settled \in Nat
    BY <1>1, <2>1, <2>3, SettledType, WriteQueueAssumption DEF Settled, TypeOK, Orderly
  <2>5. QueueIsTheRest'
    BY <1>1, <2>1, <2>3, <2>4 DEF Orderly, QueueIsTheRest, Settled
  <2>6. HeadIsSent'
    <3> SUFFICES ASSUME loop'.at = "send" PROVE items' # <<>> /\ loop'.tap = Settled' + 1
      BY DEF HeadIsSent
    <3>1. items' # <<>> /\ loop'.tap = items'[1] /\ 1 \in 1..Len(items')
      BY <1>2, <1>4
    <3> QED
      BY <2>5, <3>1 DEF QueueIsTheRest
  <2>7. AnsweredBefore'
    <3> SUFFICES ASSUME NEW t \in 1..Settled'
                 PROVE  Contains(landed, t) \/ t \in refused'
      BY <1>1 DEF AnsweredBefore
    <3>1. t \in 1..Settled \/ t = loop.tap
      BY <2>2, <2>4
    <3> QED
      BY <1>1, <1>5, <2>1, <3>1 DEF Orderly, AnsweredBefore
  <2>8. NothingAhead'
    <3>1. \A t \in Taps : t <= Settled + 1 => t <= Settled' + 1
      BY <2>4 DEF Taps
    <3>2. \A i \in 1..Len(landed) : landed[i] \in Taps
      BY DEF TypeOK
    <3> QED
      BY <1>1, <2>1, <3>1, <3>2 DEF Orderly, NothingAhead
  <2> QED
    BY <1>1, <2>1, <2>5, <2>6, <2>7, <2>8 DEF Orderly, Increasing
<1> QED
  BY <1>3, <1>4, <1>6 DEF QueueInv

(* A request that ends without an answer leaves, at most, one more late    *)
(* request of the tap being sent.                                          *)
LEMMA StrayIsSent ==
  ASSUME TypeOK, NothingAhead, HeadIsSent, loop.at = "send",
         \/ UNCHANGED strays
         \/ strays' = [strays EXCEPT ![loop.tap] = @ + 1]
  PROVE  \A t \in Taps : strays'[t] > 0 => t <= Settled + 1
<1>1. loop.tap \in Taps
  BY LoopTypes DEF TypeOK
<1>2. \A t \in Taps : strays'[t] = strays[t] \/ t = loop.tap
  BY <1>1 DEF TypeOK
<1>3. Settled + 1 \in Int /\ Taps \subseteq Int /\ loop.tap = Settled + 1
  BY <1>1 DEF HeadIsSent, Taps
<1> QED
  BY <1>2, <1>3 DEF NothingAhead

LEMMA QueueFailed == TypeOK /\ QueueInv /\ Failed => QueueInv'
<1> SUFFICES ASSUME TypeOK, QueueInv, Failed PROVE QueueInv'
  OBVIOUS
<1>1. /\ UNCHANGED <<items, stored, saved, landed, made, refused,
                     reloads, clears>>
      /\ loop.at = "send" /\ loop'.at = "sleep"
  BY LoopTypes DEF Failed, history
<1>2. ASSUME Durable', clears' = 0 PROVE Orderly'
  <2>1. Orderly
    BY <1>1, <1>2 DEF Durable, QueueInv
  <2>2. Settled' = Settled
    BY <1>1 DEF Settled
  <2>3. \A t \in Taps : strays'[t] > 0 => t <= Settled + 1
    BY <1>1, <2>1, StrayIsSent DEF Orderly, Failed
  <2> QED
    BY <1>1, <2>1, <2>2, <2>3
    DEF Orderly, QueueIsTheRest, HeadIsSent, AnsweredBefore, NothingAhead, Increasing
<1> QED
  BY <1>1, <1>2 DEF QueueInv

LEMMA QueueReload == TypeOK /\ QueueInv /\ Reload => QueueInv'
<1> SUFFICES ASSUME TypeOK, QueueInv, Reload PROVE QueueInv'
  OBVIOUS
<1>1. /\ UNCHANGED <<stored, saved, landed, made, refused, clears>>
      /\ items' = stored /\ reloads' # 0
  BY DEF TypeOK, Reload
<1>2. loop'.at = "send" => /\ stored # <<>> /\ loop'.tap = stored[1]
                           /\ loop'.reply = "none"
  BY AdvanceSends DEF TypeOK, Reload
<1>3. ASSUME Durable', clears' = 0 PROVE Orderly'
  <2>1. saved /\ stored = items /\ Orderly
    BY <1>1, <1>3 DEF Durable, QueueInv
  <2>2. Settled' = Settled /\ items' = items
    BY <1>1, <2>1 DEF Settled
  <2>3. \A t \in Taps : strays'[t] > 0 => t <= Settled + 1
    <3>1. CASE UNCHANGED strays
      BY <2>1, <3>1 DEF Orderly, NothingAhead
    <3>2. CASE loop.at = "send" /\ strays' = [strays EXCEPT ![loop.tap] = @ + 1]
      BY <2>1, <3>2, StrayIsSent DEF Orderly
    <3> QED
      BY <3>1, <3>2 DEF Reload
  <2>4. HeadIsSent'
    <3>1. items # <<>> => 1 \in 1..Len(items)
      BY DEF TypeOK
    <3> QED
      BY <1>2, <2>1, <2>2, <3>1 DEF Orderly, QueueIsTheRest, HeadIsSent
  <2> QED
    BY <1>1, <2>1, <2>2, <2>3, <2>4
    DEF Orderly, QueueIsTheRest, AnsweredBefore, NothingAhead, Increasing
<1> QED
  BY <1>1, <1>2, <1>3 DEF QueueInv

(* The server answers a tap that was sent: if it takes effect now, it is   *)
(* the next one, or one that was refused before.                           *)
LEMMA AnswerInOrder ==
  ASSUME TypeOK, Orderly, NEW t \in Taps, t <= Settled + 1, NEW reply,
         Answer(t, reply), refused' = refused
  PROVE  /\ \A x : Contains(landed, x) => Contains(landed', x)
         /\ reply # "rejected" => Contains(landed', t)
         /\ \A i \in 1..Len(landed') : landed'[i] <= Settled + 1
         /\ Increasing'
<1>1. CASE reply = "rejected" \/ Contains(landed, t)
  <2>1. landed' = landed
    BY <1>1 DEF Answer
  <2> QED
    BY <1>1, <2>1 DEF Orderly, NothingAhead, Increasing
<1>2. CASE reply # "rejected" /\ ~Contains(landed, t)
  <2>1. landed' = Append(landed, t) /\ landed \in Seq(Taps)
    BY <1>2 DEF Answer, TypeOK
  <2>2. \A x : Contains(landed', x) <=> Contains(landed, x) \/ x = t
    BY <2>1, ContainsAppended
  <2>3. /\ Len(landed') = Len(landed) + 1 /\ landed'[Len(landed) + 1] = t
        /\ Len(landed) \in Nat
        /\ \A i \in 1..Len(landed) : landed'[i] = landed[i] /\ landed[i] \in Taps
    BY <2>1
  <2>4. Settled \in Nat /\ Taps \subseteq Nat \ {0}
    BY SettledType DEF Orderly, Taps
  <2>5. t = Settled + 1 \/ t \in refused
    <3>1. t \in 1..Settled => t \in refused
      BY <1>2 DEF Orderly, AnsweredBefore
    <3> QED
      BY <2>4, <3>1
  <2>6. \A i \in 1..Len(landed) : landed[i] < t \/ t \in refused
    <3> SUFFICES ASSUME NEW i \in 1..Len(landed), t \notin refused PROVE landed[i] < t
      OBVIOUS
    <3>1. landed[i] # t
      BY <1>2 DEF Contains
    <3>2. landed[i] <= Settled + 1
      BY DEF Orderly, NothingAhead
    <3>3. landed[i] \in Nat
      BY <2>3, <2>4
    <3> QED
      BY <2>4, <2>5, <3>1, <3>2, <3>3
  <2>7. Increasing'
    <3> SUFFICES ASSUME NEW i \in 1..Len(landed'), NEW j \in 1..Len(landed'), i < j
                 PROVE  landed'[i] < landed'[j] \/ landed'[j] \in refused
      BY DEF Increasing
    <3>1. i \in 1..Len(landed)
      BY <2>3
    <3>2. CASE j \in 1..Len(landed)
      BY <2>3, <3>1, <3>2 DEF Orderly, Increasing
    <3>3. CASE j = Len(landed) + 1
      BY <2>3, <2>6, <3>1, <3>3
    <3> QED
      BY <2>3, <3>2, <3>3
  <2>8. \A i \in 1..Len(landed') : landed'[i] <= Settled + 1
    BY <2>3, <2>4 DEF Orderly, NothingAhead
  <2> QED
    BY <2>2, <2>7, <2>8
<1> QED
  BY <1>1, <1>2

LEMMA AnswerGrows ==
  ASSUME TypeOK, NEW t \in Taps, NEW reply, Answer(t, reply)
  PROVE  /\ \A x : Contains(landed, x) => Contains(landed', x)
         /\ reply # "rejected" => Contains(landed', t)
<1>1. landed \in Seq(Taps)
  BY DEF TypeOK
<1> QED
  BY <1>1, ContainsAppended DEF Answer

LEMMA QueueArrive == TypeOK /\ QueueInv /\ Arrive => QueueInv'
<1> SUFFICES ASSUME TypeOK, QueueInv, Arrive PROVE QueueInv'
  OBVIOUS
<1>1. UNCHANGED <<items, stored, saved, strays, made, refused,
                  reloads, clears>>
  BY DEF Arrive, history
<1>2. loop.at = "send" /\ loop.tap \in Taps
  BY LoopTypes DEF TypeOK, Arrive
<1>3. PICK reply \in Replies \ {"none"} :
        Answer(loop.tap, reply) /\ loop' = Sending(loop.tap, reply)
  BY DEF Arrive
<1>6. loop'.at = "send" /\ loop'.tap = loop.tap /\ loop'.reply = reply
  BY <1>2, <1>3 DEF Sending
<1>4. Settled' = Settled
  BY <1>1 DEF Settled
<1>5. ASSUME Durable', clears' = 0 PROVE Orderly'
  <2>1. Orderly
    BY <1>1, <1>5 DEF Durable, QueueInv
  <2>2. loop.tap <= Settled + 1
    BY <1>2, <2>1 DEF Orderly, HeadIsSent, Taps
  <2> QED
    BY <1>1, <1>2, <1>3, <1>4, <1>6, <2>1, <2>2, AnswerInOrder
    DEF Orderly, QueueIsTheRest, HeadIsSent, AnsweredBefore, NothingAhead
<1> QED
  BY <1>1, <1>2, <1>3, <1>5, <1>6, AnswerGrows DEF QueueInv

LEMMA QueueArriveLate ==
  ASSUME NEW t \in Taps, TypeOK, QueueInv, ArriveLate(t)
  PROVE  QueueInv'
<1>1. UNCHANGED <<items, stored, saved, loop, made, refused,
                  reloads, clears>>
  BY DEF ArriveLate, page, history
<1>2. \A s \in Taps : strays'[s] > 0 => strays[s] > 0
  BY DEF TypeOK, ArriveLate
<1>3. PICK reply \in Replies \ {"none"} : Answer(t, reply)
  BY DEF ArriveLate
<1>5. Settled' = Settled /\ strays[t] > 0
  BY <1>1 DEF Settled, ArriveLate
<1>4. ASSUME Durable', clears' = 0 PROVE Orderly'
  <2>1. Orderly
    BY <1>1, <1>4 DEF Durable, QueueInv
  <2>2. t <= Settled + 1
    BY <1>5, <2>1 DEF Orderly, NothingAhead
  <2> QED
    BY <1>1, <1>2, <1>3, <1>5, <2>1, <2>2, AnswerInOrder
    DEF Orderly, QueueIsTheRest, HeadIsSent, AnsweredBefore, NothingAhead
<1> QED
  BY <1>1, <1>3, <1>4, AnswerGrows DEF QueueInv

LEMMA QueueNext == TypeOK /\ QueueInv /\ [Next]_vars => QueueInv'
<1> SUFFICES ASSUME TypeOK, QueueInv, [Next]_vars PROVE QueueInv'
  OBVIOUS
<1>1. CASE Wake
  <2>1. UNCHANGED <<items, stored, saved, strays, landed, made,
                    refused, reloads, clears>>
    BY <1>1 DEF Wake, server, history
  <2>2. loop'.at = "send" => /\ items # <<>> /\ loop'.tap = items[1]
                             /\ loop'.reply = "none"
    BY <1>1, AdvanceSends DEF TypeOK, Wake
  <2>3. items # <<>> => 1 \in 1..Len(items)
    BY DEF TypeOK
  <2>4. Settled' = Settled
    BY <2>1 DEF Settled
  <2>5. Durable' /\ clears' = 0 => Orderly'
    BY <2>1, <2>2, <2>3, <2>4 DEF QueueInv, Durable, Orderly, QueueIsTheRest,
       HeadIsSent, AnsweredBefore, NothingAhead, Increasing
  <2> QED
    BY <2>1, <2>2, <2>5 DEF QueueInv
<1>2. CASE Clear
  <2>1. UNCHANGED <<loop, landed>> /\ clears' # 0
    BY <1>2 DEF TypeOK, Clear, server
  <2>2. saved' => stored' = items'
    BY <1>2 DEF Clear, Persist
  <2> QED
    BY <2>1, <2>2 DEF QueueInv
<1>3. CASE UNCHANGED vars
  BY <1>3 DEF vars, page, server, history, QueueInv, Durable, Orderly, QueueIsTheRest,
     HeadIsSent, AnsweredBefore, NothingAhead, Increasing, Settled
<1> QED
  BY <1>1, <1>2, <1>3, QueueEnqueue, QueueAnswer, QueueFailed,
     QueueReload, QueueArrive, QueueArriveLate DEF Next

LEMMA QueueInit == Init => QueueInv
<1> SUFFICES ASSUME Init PROVE QueueInv
  OBVIOUS
<1>1. loop.at = "idle"
  BY LoopTypes DEF Init
<1>2. made = 0 /\ Len(items) = 0 /\ Len(landed) = 0
  BY DEF Init
<1>3. Settled = 0
  BY <1>2 DEF Settled
<1> QED
  BY <1>1, <1>2, <1>3 DEF Init, QueueInv, Durable, Orderly, QueueIsTheRest,
     HeadIsSent, AnsweredBefore, NothingAhead, Increasing

LEMMA QueueInvariant == Spec => [](TypeOK /\ QueueInv)
  BY TypeInit, TypeNext, QueueInit, QueueNext, PTL DEF Spec

(***************************************************************************)
(* Whatever the network does and however often the page reloads, every tap *)
(* is queued, has landed or was refused.                                   *)
(***************************************************************************)
THEOREM TapsAreKept == Spec => []NoTapLost
<1>1. TypeOK /\ QueueInv => NoTapLost
  <2> SUFFICES ASSUME TypeOK, QueueInv, Durable, clears = 0, NEW t \in 1..made
               PROVE  Contains(items, t) \/ Contains(landed, t) \/ t \in refused
    BY DEF NoTapLost
  <2>1. Orderly
    BY DEF QueueInv
  <2>2. Settled \in Nat /\ made \in Nat /\ Len(items) \in Nat
        /\ Settled = made - Len(items)
    BY <2>1, SettledType, WriteQueueAssumption DEF Orderly, TypeOK, Settled
  <2>3. CASE t \in 1..Settled
    BY <2>1, <2>3 DEF Orderly, AnsweredBefore
  <2>4. CASE t \notin 1..Settled
    <3>1. t - Settled \in 1..Len(items)
      BY <2>2, <2>4
    <3>2. items[t - Settled] = Settled + (t - Settled)
      BY <2>1, <3>1 DEF Orderly, QueueIsTheRest
    <3> QED
      BY <2>2, <3>1, <3>2 DEF Contains
  <2> QED
    BY <2>3, <2>4
<1> QED
  BY <1>1, QueueInvariant, PTL

(***************************************************************************)
(* The server sees the taps for the first time in the order they were      *)
(* made, but for late copies of taps it had refused.                       *)
(***************************************************************************)
THEOREM TapsKeepTheirOrder == Spec => []LandedInOrder
<1>1. TypeOK /\ QueueInv => LandedInOrder
  <2>1. TypeOK => DOMAIN landed = 1..Len(landed)
    BY DEF TypeOK
  <2> QED
    BY <2>1 DEF QueueInv, Orderly, Increasing, LandedInOrder
<1> QED
  BY <1>1, QueueInvariant, PTL
===============================================================================
