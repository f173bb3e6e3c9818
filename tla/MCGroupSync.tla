------------------------------ MODULE MCGroupSync ------------------------------
\* GroupSync for TLC: every constant is a number given in the cfg.
EXTENDS GroupSync
=============================================================================
