------------------------------- MODULE MCRocket -------------------------------
EXTENDS Rocket, TLC

CONSTANTS c1, c2

MCConn == {c1, c2}

(* One client asks, and may leave, the other one only connects and waits. *)
MCMaxRequests == c1 :> 1 @@ c2 :> 0
MCLeaver == {c1}

==============================================================================
