-------------------------------- MODULE MCLinks --------------------------------
EXTENDS Streams

CONSTANT StreamUris   \* the objects that are patched and streamed

\* Nothing but links has been made so far.
OnlyLinks ==
    /\ \A u \in Uris : logged[u] = 0 /\ subscribers[u] = <<>>
    /\ \A s \in Subs : sub[s].phase = "new"

\* The objects of StreamUris, each with one link, and no cycle allowed.
FewLinks ==
    /\ ~waived
    /\ \A u \in Uris : Len(links[u]) <= 1 /\ Targets(u) \subseteq StreamUris
    /\ \A u \in Uris \ StreamUris :
          logged[u] = 0 /\ links[u] = <<>> /\ subscribers[u] = <<>>
    /\ \A s \in Subs : sub[s].phase # "new" => sub[s].uri \in StreamUris

\* All links of all objects, and streams over few of them.  No step of the loop, and
\* none of a client that reads, leaves these states.
Bounded == OnlyLinks \/ FewLinks
===============================================================================
