------------------------------ MODULE MCStream ------------------------------
EXTENDS StreamSafety
=============================================================================
