----------------------------- MODULE MCThrottle -----------------------------
EXTENDS Throttle
=============================================================================
