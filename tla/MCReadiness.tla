---------------------------- MODULE MCReadiness ----------------------------
EXTENDS Readiness

CONSTANTS sink, llm, p1, p2

MCCheckers == <<sink, llm>>
=============================================================================
