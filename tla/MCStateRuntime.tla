---------------------------- MODULE MCStateRuntime ----------------------------
EXTENDS StateRuntime, TLC

\* Policies without a list of actors, and with a list of one.
MCAllowed == {{}, {CHOOSE a \in Actors : TRUE}}
===============================================================================
