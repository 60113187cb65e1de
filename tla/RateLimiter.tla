------------------------------ MODULE RateLimiter ------------------------------
(***************************************************************************)
(* The rate limiter (middleware.go): a fixed window of attempts per key.   *)
(* Refused attempts count too.  Its lock makes allow and sweep atomic.     *)
(***************************************************************************)
EXTENDS Naturals, Sequences, FiniteSets

CONSTANTS
  Keys,      (* the callers' addresses and the mail addresses asked for    *)
  limit, period,
  MaxTime,   (* bound on the clock                                         *)
  MaxCount   (* bound on the attempts of a window                          *)

ASSUME RateLimiterAssumption ==
  /\ limit \in Nat \ {0} /\ period \in Nat \ {0}
  /\ MaxTime \in Nat /\ MaxCount \in Nat /\ MaxCount > limit

VARIABLES
  time,      (* the clock                                                  *)
  counts,    (* per key, its window: none or one                           *)
  allowed,   (* history: per key, when an attempt was allowed, in order    *)
  refused    (* history: per key, when an attempt was refused              *)

limiter == <<counts, allowed, refused>>

Times == 0..MaxTime

LimiterTypeOK ==
  /\ time \in Times
  /\ counts \in [Keys -> SUBSET [count : 1..MaxCount, start : Times]]
  /\ \A k \in Keys : Cardinality(counts[k]) <= 1
  /\ allowed \in [Keys -> Seq(Times)]
  /\ refused \in [Keys -> SUBSET Times]

LimiterInit ==
  /\ time = 0
  /\ counts = [k \in Keys |-> {}]
  /\ allowed = [k \in Keys |-> <<>>]
  /\ refused = [k \in Keys |-> {}]

Expired(w) == time - w.start >= period

(* The window that an attempt is counted in. *)
Live(k) == {w \in counts[k] : ~Expired(w)}

(* The key's window after an attempt. *)
Counted(k) ==
  IF Live(k) = {} THEN {[count |-> 1, start |-> time]}
                  ELSE {[w EXCEPT !.count = @ + 1] : w \in Live(k)}

allow(k) == \A w \in Counted(k) : w.count <= limit

(* The keys are tried in turn, up to the first one that refuses. *)
Attempt(first, second) ==
  LET tried == IF allow(first) THEN {first, second} ELSE {first}
  IN  /\ \A k \in tried : \A w \in Counted(k) : w.count <= MaxCount
      /\ counts'  = [k \in Keys |-> IF k \in tried THEN Counted(k) ELSE counts[k]]
      /\ allowed' = [k \in Keys |->
           IF k \in tried /\ allow(k) THEN Append(allowed[k], time) ELSE allowed[k]]
      /\ refused' = [k \in Keys |->
           IF k \in tried /\ ~allow(k) THEN refused[k] \cup {time} ELSE refused[k]]

(* Mutant: every window is forgotten. *)
sweepAll == counts' = [k \in Keys |-> {}] /\ UNCHANGED <<allowed, refused>>

sweep == counts' = [k \in Keys |-> Live(k)] /\ UNCHANGED <<allowed, refused>>

-----------------------------------------------------------------------------
(* The attempts allowed in the period that ends at an instant. *)
Allowed(k, t) ==
  Cardinality({i \in DOMAIN allowed[k] :
                 allowed[k][i] <= t /\ t - allowed[k][i] < period})

(***************************************************************************)
(* However attempts and sweeps fall, no period sees twice the limit (one   *)
(* that spans two fixed windows may see more than the limit), and nobody   *)
(* is turned away who has not had the full limit within the last period:   *)
(* sweeping forgets no window that still counts.                           *)
(***************************************************************************)
LimitHolds ==
  \A k \in Keys, t \in Times :
    /\ Allowed(k, t) < 2 * limit
    /\ t \in refused[k] => Allowed(k, t) >= limit
================================================================================
