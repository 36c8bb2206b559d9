------------------------------- MODULE MCStreams -------------------------------
EXTENDS Streams

\* Streams and objects are interchangeable.
StreamSymmetry == Permutations(Subs) \cup Permutations(Uris)
===============================================================================
