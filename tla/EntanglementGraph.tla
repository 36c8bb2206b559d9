--------------------------- MODULE EntanglementGraph ---------------------------
(***************************************************************************)
(* The links between objects (services/entanglement_graph).  A link makes  *)
(* the patches of its source stream to the subscribers of its target.  The *)
(* links are meant to form a DAG: entangle refuses a link that closes a    *)
(* cycle unless the caller allows cycles.                                  *)
(***************************************************************************)
EXTENDS Naturals, Sequences, FiniteSets

CONSTANTS
    Uris,
    AllowCycle,   \* the values of allow_cycle callers pass: {FALSE} or BOOLEAN
    MaxLinks      \* bound on the links of one source

ASSUME AllowCycleAssumption == AllowCycle \subseteq BOOLEAN
ASSUME MaxLinksAssumption == MaxLinks \in Nat

VARIABLES
    links,    \* _links_by_source: the targets of the links of each source, oldest first
    waived    \* some call allowed a cycle (history variable)

graphVars == <<links, waived>>

Targets(u) == {links[u][i] : i \in DOMAIN links[u]}

\* A set of objects that no link leaves.
Closed(S) == \A u \in S : Targets(u) \subseteq S

\* _has_path: every set with src in it that no link leaves has dst in it too.
HasPath(src, dst) == \A S \in SUBSET Uris : src \in S /\ Closed(S) => dst \in S

GraphInit ==
    /\ links = [u \in Uris |-> <<>>]
    /\ waived = FALSE

WithLink(src, dst) == [links EXCEPT ![src] = Append(@, dst)]

\* Mutant: the path is looked for in the direction of the new link.
EntangleForward_WrongWay(src, dst, allow) ==
    /\ allow \/ ~HasPath(src, dst)
    /\ links' = WithLink(src, dst)
    /\ waived' = (waived \/ allow)

\* A link that would close a cycle is refused.  A bidirectional link that enforces the
\* DAG is a step like this one: only after the forward link was added does the call
\* find that it has to raise, and the link stays.
EntangleForward(src, dst, allow) ==
    /\ allow \/ ~HasPath(dst, src)
    /\ links' = WithLink(src, dst)
    /\ waived' = (waived \/ allow)

\* A bidirectional link, cycles allowed.
EntangleBothWays(src, dst) ==
    /\ links' = [WithLink(src, dst) EXCEPT ![dst] = Append(@, src)]
    /\ waived' = TRUE

Entangle ==
    \E src, dst \in Uris, allow \in AllowCycle :
        /\ Len(links[src]) < MaxLinks /\ Len(links[dst]) < MaxLinks
        /\ EntangleForward(src, dst, allow) \/ (allow /\ EntangleBothWays(src, dst))

GraphSpec == GraphInit /\ [][Entangle]_graphVars
-------------------------------------------------------------------------------
GraphTypeOK ==
    /\ links \in [Uris -> Seq(Uris)]
    /\ waived \in BOOLEAN

\* No link points back to an object that reaches it.
NoCycle == \A u \in Uris : \A v \in Targets(u) : ~HasPath(v, u)

\* Whatever links are requested, in whatever order, refused or not: as long as no
\* caller allowed a cycle, the graph is a DAG.
Acyclic == ~waived => NoCycle

===============================================================================
