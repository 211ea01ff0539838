--------------------------- MODULE MCEventThread ---------------------------
EXTENDS EventThread
=============================================================================
