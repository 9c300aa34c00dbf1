----------------------------- MODULE MCForkSync -----------------------------
EXTENDS ForkSync
=============================================================================
