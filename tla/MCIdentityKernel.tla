--------------------------- MODULE MCIdentityKernel ---------------------------
EXTENDS IdentityKernel, TLC
===============================================================================
