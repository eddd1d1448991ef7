---------------------------- MODULE MCApaDelete ----------------------------
EXTENDS ApaDelete
=============================================================================
