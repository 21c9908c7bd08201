----------------------------- MODULE MCAutoSync -----------------------------
EXTENDS AutoSync
=============================================================================
