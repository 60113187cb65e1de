-------------------------------- MODULE Season --------------------------------
(***************************************************************************)
(* A week of one team, throw by throw, or a season, week by week, to       *)
(* evaluate the scoring rules on every round, week and season up to the    *)
(* bounds.  The state is only the input of the functions of module Scoring.*)
(***************************************************************************)
EXTENDS Scoring

CONSTANTS
  Throws,     (* the throws a team may make                      *)
  Teams,      (* the team designations considered                *)
  Formats,    (* the play formats considered                     *)
  MaxThrows,  (* bound on the throws of one week                 *)
  WeekScores, (* scores a week may have; 0 for a missed one      *)
  MaxWeeks    (* bound on the weeks of the season                *)

ASSUME SeasonAssumption ==
  /\ Throws \subseteq Throw /\ Teams \subseteq Flags
  /\ MaxThrows \in Nat /\ MaxWeeks \in Nat /\ WeekScores \subseteq Nat
  /\ \A fm \in Formats :
       /\ fm.scoredThrowCap \in Int /\ fm.tinyWeeklyCap \in Int
       /\ fm.handicaps \in [Divisions -> Int]

VARIABLES team, format, rounds, weeks

seasonVars == <<team, format, rounds, weeks>>

ThrowsThisWeek == Len(FlattenSeq(rounds))

SeasonInit ==
  /\ team \in Teams
  /\ format \in Formats
  /\ rounds = << <<>> >>
  /\ weeks = <<>>

MakeThrow ==
  /\ ThrowsThisWeek < MaxThrows /\ weeks = <<>>
  /\ \E t \in Throws : rounds' = [rounds EXCEPT ![Len(rounds)] = Append(@, t)]
  /\ UNCHANGED <<team, format, weeks>>

NextRound ==
  /\ Len(rounds) < format.roundsPerWeek /\ weeks = <<>>
  /\ rounds' = Append(rounds, <<>>)
  /\ UNCHANGED <<team, format, weeks>>

(* A week whose score is in: the season only needs the number. *)
EndWeek ==
  /\ Len(weeks) < MaxWeeks /\ rounds = << <<>> >>
  /\ \E score \in WeekScores : weeks' = Append(weeks, score)
  /\ UNCHANGED <<team, format, rounds>>

SeasonNext == MakeThrow \/ NextRound \/ EndWeek

SeasonSpec == SeasonInit /\ [][SeasonNext]_seasonVars

-----------------------------------------------------------------------------
ValueOf(ts, I) == MapThenSumSet(LAMBDA i : ScoreThrow(ts[i], team), I)

(***************************************************************************)
(* A round is worth the best selection the format allows: no choice of at  *)
(* most scoredThrowCap of its throws (of any number, without a cap) is     *)
(* worth more, and one is worth exactly that.  ScoreRound gets there by    *)
(* sorting the values and truncating them.                                 *)
(***************************************************************************)
RoundIsBestSelection ==
  \A k \in DOMAIN rounds :
    LET ts == rounds[k]
        allowed == {I \in SUBSET DOMAIN ts :
                      format.scoredThrowCap > 0 =>
                        Cardinality(I) <= format.scoredThrowCap}
    IN  ScoreRound(ts, team, format) = Max({ValueOf(ts, I) : I \in allowed})

(***************************************************************************)
(* What the screen adds up from the generated table never promises less    *)
(* than the server's rules award, and agrees with them exactly as long as  *)
(* the throw cap has not been reached (the comment of scoring-table.js:    *)
(* the cap is what the table cannot know about).                           *)
(***************************************************************************)
OptimisticTotalAgrees ==
  \A k \in DOMAIN rounds :
    LET ts      == rounds[k]
        guess   == TotalOf([i \in DOMAIN ts |-> pointsFor(ts[i], team)])
        awarded == ScoreRound(ts, team, format)
    IN  /\ guess >= awarded
        /\ (format.scoredThrowCap = 0 \/ Len(ts) <= format.scoredThrowCap)
             => guess = awarded

(***************************************************************************)
(* The tiny-dog cap clamps what was earned in play and never the division  *)
(* handicap: a team's week is worth exactly its handicap more than the     *)
(* same week thrown by a roller team, and a tiny roller team's week never  *)
(* exceeds the cap (the order of the two in ScoreWeek).                    *)
(***************************************************************************)
HandicapOnTopOfCap ==
  LET as(roller) == ScoreWeek(rounds, [team EXCEPT !.roller = roller], format)
  IN  /\ as(FALSE) = as(TRUE) + format.handicaps[team.division]
      /\ team.tiny /\ format.tinyWeeklyCap > 0 => as(TRUE) <= format.tinyWeeklyCap

(***************************************************************************)
(* The season is the best total that leaves exactly one week out, so a     *)
(* missed week is dropped first and a second one costs the team; a season  *)
(* of a single week is worth that week.                                    *)
(***************************************************************************)
SeasonDropsOneWeek ==
  /\ Len(weeks) >= 2 =>
       ScoreSeason(weeks) = Max({TotalOf(RemoveAt(weeks, i)) : i \in DOMAIN weeks})
  /\ Len(weeks) = 1 => ScoreSeason(weeks) = weeks[1]
===============================================================================
