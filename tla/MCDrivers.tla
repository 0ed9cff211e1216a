----------------------------- MODULE MCDrivers -----------------------------
EXTENDS Drivers, TLC
=============================================================================
