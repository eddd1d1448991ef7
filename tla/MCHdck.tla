------------------------------- MODULE MCHdck -------------------------------
EXTENDS Hdck
=============================================================================
