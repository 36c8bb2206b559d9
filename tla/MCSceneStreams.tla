----------------------------- MODULE MCSceneStreams -----------------------------
EXTENDS SceneStreams

\* One live stream per object and opened stream.
MCSubs == Uris \X (1..MaxConns)

Scope(kind_, modes, conns, events, links_) ==
    [kind |-> kind_, modes |-> modes, conns |-> conns, events |-> events, links |-> links_]

\* Links and closed streams multiply the states: where one is free the other is bounded.
MCScopes ==
    {Scope(k, Modes, 2, 1, TRUE) : k \in {"prefix", "scene"}} \cup
    {Scope("prefix", {"block"}, 2, 2, FALSE),
     Scope("prefix", {"block"}, 1, 2, TRUE),
     Scope("scene", Modes, 1, 2, FALSE),
     Scope("scene", {"drop_oldest"}, 2, 2, FALSE)}
===============================================================================
