--------------------------- MODULE IdentityLifecycle ---------------------------
(***************************************************************************)
(* What an identity promises to those who rely on it: it is created once,  *)
(* may be frozen and then archived, and never comes back.  What it holds   *)
(* (credentials and links) changes at will while it is active, can only    *)
(* lose links while it is frozen, and stays as it was once archived.       *)
(***************************************************************************)
CONSTANTS Uris, Credentials, Links

VARIABLES phase,  \* "absent", "active", "frozen" or "archived"
          holds   \* the credentials and links in force

lvars == <<phase, holds>>

LInit ==
    /\ phase = [u \in Uris |-> "absent"]
    /\ holds = [u \in Uris |-> {}]

Move(u, from, to) ==
    /\ phase[u] \in from
    /\ phase' = [phase EXCEPT ![u] = to]
    /\ UNCHANGED holds

Change(u, new) ==
    /\ \/ phase[u] = "active"
       \/ /\ phase[u] = "frozen"
          /\ new \subseteq holds[u]
          /\ holds[u] \ new \subseteq Links
    /\ holds' = [holds EXCEPT ![u] = new]
    /\ UNCHANGED phase

LNext ==
    \E u \in Uris :
        \/ Move(u, {"absent"}, "active")
        \/ Move(u, {"active"}, "frozen")
        \/ Move(u, {"active", "frozen"}, "archived")
        \/ \E new \in SUBSET (Credentials \cup Links) : Change(u, new)

LSpec == LInit /\ [][LNext]_lvars
===============================================================================
