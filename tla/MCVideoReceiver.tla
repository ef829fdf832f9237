--------------------------- MODULE MCVideoReceiver ---------------------------
EXTENDS VideoReceiver
=============================================================================
