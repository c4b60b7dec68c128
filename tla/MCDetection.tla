---------------------------- MODULE MCDetection -----------------------------
EXTENDS Detection
=============================================================================
