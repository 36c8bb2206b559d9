----------------------------- MODULE MCEventStore -----------------------------
EXTENDS EventStore, TLC
===============================================================================
