------------------------------- MODULE MCEeprom -------------------------------
(* Small instances of the EEPROM emulation for TLC. *)
EXTENDS Eeprom

MCVarTab == <<"key", "ip">>
MCVals == {1, 2}
MCValsErased == {1, FFFF}

\* What follows a reset that lost data says nothing more.
StillIntact == intact
===============================================================================
