---------------------------- MODULE MCHddChecker ----------------------------
EXTENDS HddChecker
=============================================================================
