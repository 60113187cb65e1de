------------------------------- MODULE Scoring -------------------------------
(***************************************************************************)
(* The league's scoring rules: package scoring of the API and the table    *)
(* the web client computes its optimistic score from.  Every value counts  *)
(* half-points, as HalfPoints does; the functions are pure.                *)
(***************************************************************************)
EXTENDS Integers, Sequences, FiniteSets, SequencesExt

Zones == {"miss", "0-10", "10-20", "20-30", "30-40", "40-50", "out"}

Divisions == {"junior", "handler", "master", "expert"}

Throw == [zone: Zones, air: BOOLEAN]

Flags == [tiny: BOOLEAN, roller: BOOLEAN, division: Divisions]

HalfPoints == Int

zoneValue ==
  [z \in Zones |-> CASE z = "10-20" -> 2
                     [] z = "20-30" -> 4
                     [] z = "30-40" -> 6
                     [] z = "40-50" -> 10
                     [] OTHER       -> 0]

airBonus  == 1
tinyBonus == 2
juniorShortCatch == 2

isScoringCatch(t) == zoneValue[t.zone] > 0

Bonus(applies, value) == IF applies THEN value ELSE 0

(* Mutant: the air bonus is added to a junior's short catch too. *)
ScoreThrowAirOnShort(t, f) ==
  CASE f.division = "junior" /\ t.zone \in {"0-10", "out"} ->
         juniorShortCatch + Bonus(f.tiny, tinyBonus) + Bonus(t.air, airBonus)
    [] isScoringCatch(t) ->
         zoneValue[t.zone] + Bonus(f.tiny, tinyBonus) + Bonus(t.air, airBonus)
    [] OTHER -> 0

(***************************************************************************)
(* A junior handler's short or out-of-bounds catch is worth a point and    *)
(* never the air bonus; otherwise only a catch with a value is worth       *)
(* anything.                                                               *)
(***************************************************************************)
ScoreThrow(t, f) ==
  CASE f.division = "junior" /\ t.zone \in {"0-10", "out"} ->
         juniorShortCatch + Bonus(f.tiny, tinyBonus)
    [] isScoringCatch(t) ->
         zoneValue[t.zone] + Bonus(f.tiny, tinyBonus) + Bonus(t.air, airBonus)
    [] OTHER -> 0

TotalOf(values) == FoldLeft(+, 0, values)

(* Mutant: the cap keeps the first throws instead of the best ones. *)
ScoreRoundFirstThrows(ts, f, fm) ==
  LET values == [i \in DOMAIN ts |-> ScoreThrow(ts[i], f)]
      capped == fm.scoredThrowCap > 0 /\ Len(ts) > fm.scoredThrowCap
  IN  TotalOf(IF capped THEN SubSeq(values, 1, fm.scoredThrowCap) ELSE values)

(* The values sorted, the highest first. *)
BestFirst(values) ==
  LET places == DOMAIN values
      order == CHOOSE p \in Bijection(places, places) :
                 \A i, j \in places : i < j => values[p[i]] >= values[p[j]]
  IN  [i \in places |-> values[order[i]]]

(***************************************************************************)
(* A format with a scored-throw cap counts only that many of the round's   *)
(* best values; a cap of zero counts every throw.                          *)
(***************************************************************************)
ScoreRound(ts, f, fm) ==
  LET values == [i \in DOMAIN ts |-> ScoreThrow(ts[i], f)]
      capped == fm.scoredThrowCap > 0 /\ Len(ts) > fm.scoredThrowCap
  IN  TotalOf(IF capped THEN SubSeq(BestFirst(values), 1, fm.scoredThrowCap)
                        ELSE values)

(* Mutant: the handicap is added before the tiny-dog cap is applied. *)
ScoreWeekCapsHandicap(rounds, f, fm) ==
  LET earned == TotalOf([i \in DOMAIN rounds |-> ScoreRound(rounds[i], f, fm)])
                  + Bonus(~f.roller, fm.handicaps[f.division])
  IN  IF f.tiny /\ fm.tinyWeeklyCap > 0 /\ earned > fm.tinyWeeklyCap
        THEN fm.tinyWeeklyCap ELSE earned

(***************************************************************************)
(* The tiny-dog cap clamps what was earned in play; the division handicap  *)
(* is added afterwards, except for a team competing with rollers.          *)
(***************************************************************************)
ScoreWeek(rounds, f, fm) ==
  LET played == TotalOf([i \in DOMAIN rounds |-> ScoreRound(rounds[i], f, fm)])
      clamped == f.tiny /\ fm.tinyWeeklyCap > 0 /\ played > fm.tinyWeeklyCap
  IN  (IF clamped THEN fm.tinyWeeklyCap ELSE played)
        + Bonus(~f.roller, fm.handicaps[f.division])

(* Mutant: a week of no points is taken for one that is not there yet. *)
ScoreSeasonSkipsZero(weeks) ==
  LET scored == {i \in DOMAIN weeks : weeks[i] > 0}
  IN  IF Cardinality(scored) < 2 THEN TotalOf(weeks)
      ELSE TotalOf(weeks) - Min({weeks[i] : i \in scored})

(***************************************************************************)
(* The season total drops the single lowest week, once there are two.      *)
(***************************************************************************)
ScoreSeason(weeks) ==
  IF Len(weeks) < 2 THEN TotalOf(weeks)
  ELSE TotalOf(weeks) - Min({weeks[i] : i \in DOMAIN weeks})

-----------------------------------------------------------------------------
(***************************************************************************)
(* The three built-in play formats.                                        *)
(***************************************************************************)
standardHandicaps ==
  [junior |-> 20, handler |-> 20, master |-> 10, expert |-> 0]

tinyWeeklyCap == 110

Format60All ==
  [roundSeconds |-> 60, roundsPerWeek |-> 2, scoredThrowCap |-> 0,
   tinyWeeklyCap |-> tinyWeeklyCap, handicaps |-> standardHandicaps,
   cueSeconds |-> <<30, 10, 5, 4, 3, 2, 1>>]

Format90Top5 ==
  [roundSeconds |-> 90, roundsPerWeek |-> 2, scoredThrowCap |-> 5,
   tinyWeeklyCap |-> tinyWeeklyCap, handicaps |-> standardHandicaps,
   cueSeconds |-> <<60, 30, 10, 5, 4, 3, 2, 1>>]

FormatWWC ==
  [roundSeconds |-> 60, roundsPerWeek |-> 3, scoredThrowCap |-> 0,
   tinyWeeklyCap |-> 0,
   handicaps |-> [junior |-> 30, handler |-> 30, master |-> 15, expert |-> 0],
   cueSeconds |-> <<30, 10, 5, 4, 3, 2, 1>>]

-----------------------------------------------------------------------------
(***************************************************************************)
(* The client's lookup table, in half-points: for every division and for a *)
(* standard and a tiny dog, what a plain and an air catch is worth in each *)
(* zone.  pointsFor reads one entry.                                       *)
(***************************************************************************)
TableRows(short, catches) ==
  [z \in Zones |-> CASE z = "miss"              -> [plain |-> 0, air |-> 0]
                     [] z \in {"0-10", "out"}   -> [plain |-> short, air |-> short]
                     [] OTHER -> [plain |-> catches[z], air |-> catches[z] + 1]]

standardCatches ==
  [z \in {"10-20", "20-30", "30-40", "40-50"} |->
     CASE z = "10-20" -> 2 [] z = "20-30" -> 4 [] z = "30-40" -> 6 [] z = "40-50" -> 10]

tinyCatches ==
  [z \in {"10-20", "20-30", "30-40", "40-50"} |->
     CASE z = "10-20" -> 4 [] z = "20-30" -> 6 [] z = "30-40" -> 8 [] z = "40-50" -> 12]

TABLE ==
  [d \in Divisions |->
    [standard |-> TableRows(IF d = "junior" THEN 2 ELSE 0, standardCatches),
     tiny     |-> TableRows(IF d = "junior" THEN 4 ELSE 0, tinyCatches)]]

pointsFor(t, f) ==
  LET values == (IF f.tiny THEN TABLE[f.division].tiny
                           ELSE TABLE[f.division].standard)[t.zone]
  IN  IF t.air THEN values.air ELSE values.plain
=============================================================================
