-------------------------------- MODULE MCRelay --------------------------------
(***************************************************************************)
(* Values of the constants for model checking Relay.                       *)
(***************************************************************************)
EXTENDS Relay, MCTraps

SomeTraps == {LinkDown("1"), LinkUp("1"), NoPort, Noise, Garbage}

NoAlerts == <<[Base EXCEPT !.alerts = FALSE]>>

\* No property tells the workers apart.
AnyWorker == Permutations(Workers)
=============================================================================
