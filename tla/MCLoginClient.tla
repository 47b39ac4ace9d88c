---------------------------- MODULE MCLoginClient ----------------------------
EXTENDS LoginClient
==============================================================================
