------------------------------ MODULE MCTransport ------------------------------
EXTENDS Transport, TLC

CONSTANTS c1, c2, c3, p1, p2

\* Two threads of one process and one of another; the first two are alike.
MCHome == c1 :> p1 @@ c2 :> p1 @@ c3 :> p2
ThreadSymmetry == Permutations({c1, c2})

\* A workload that may use every mode, and one nobody listed.
MCWorkloads == {"research", "unlisted"}
MCPolicy ==
    [research |-> TransportModes, model_training |-> {"direct", "vpn"}, transport_control |-> TransportModes]

MCMaxCalls == [turns |-> 3, races |-> 3]
===============================================================================
