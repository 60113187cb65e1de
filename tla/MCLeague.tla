------------------------------- MODULE MCLeague -------------------------------
(* Values for TLC: two scheduled sessions, one marked active, one called off. *)
EXTENDS League

MCDemo == <<"brad", "alex">>

MCNights == {"tonight", "next", "marked", "off"}

MCStartsAt ==
  [night \in MCNights |-> IF night = "next" THEN 3 ELSE 1]

MCStatus ==
  [night \in MCNights |->
     CASE night = "marked" -> "active" [] night = "off" -> "cancelled"
       [] OTHER -> "scheduled"]
===============================================================================
