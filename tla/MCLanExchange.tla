------------------------- MODULE MCLanExchange -------------------------
(* The small instance of LanExchange that TLC checks: two clients whose ids *)
(* and association ids are exchanged.                                       *)
EXTENDS LanExchange, TLC

Crossed == 1 :> 2 @@ 2 :> 1

\* One client's clock is as late as an answer may be, the other's as early.
Apart == 1 :> -2 @@ 2 :> 2
======================================================================
