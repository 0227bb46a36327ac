------------------------- MODULE MCAutonomousTrader -------------------------
(***************************************************************************)
(* Values for the constants of AutonomousTrader that a configuration file  *)
(* cannot write.                                                           *)
(***************************************************************************)
EXTENDS AutonomousTrader

\* One order either way, or flat.
EitherWay == {-1, 0, 1}
=============================================================================
