----------------------------- MODULE MCAlertOutbox -----------------------------
(* Two calls about one alert, and a call about another that comes before it   *)
(* in the directory and cannot be rendered.                                   *)
EXTENDS AlertOutbox, TLC
CONSTANTS c1, c2, c3
TwoAboutOne == c1 :> 2 @@ c2 :> 2 @@ c3 :> 1
=============================================================================
