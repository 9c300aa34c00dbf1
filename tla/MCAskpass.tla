------------------------------ MODULE MCAskpass ------------------------------
EXTENDS Askpass
=============================================================================
