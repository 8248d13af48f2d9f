--------------------------- MODULE MCDelayTrigger ---------------------------
\* Model-checking instance of DelayTrigger; the configurations give values to
\* its constants.
EXTENDS DelayTrigger
=============================================================================
