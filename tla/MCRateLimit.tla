----------------------------- MODULE MCRateLimit -----------------------------
\* Model-checking instance of RateLimitTrigger.
EXTENDS RateLimitTrigger
=============================================================================
