--------------------------- MODULE MCEnergyLedger ---------------------------
(* Small instances of EnergyLedger for TLC. *)
EXTENDS EnergyLedger

\* Energy in units of a third of a REC, so that one report may cross a REC
\* boundary exactly, by a remainder, twice, or backwards.
MCEnergies == {-4, 2, 3, 7}
=============================================================================
