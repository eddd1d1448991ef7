------------------------------- MODULE MCHdsk -------------------------------
EXTENDS Hdsk
=============================================================================
