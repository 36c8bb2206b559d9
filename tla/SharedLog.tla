------------------------------ MODULE SharedLog ------------------------------
(***************************************************************************)
(* What a shared event log promises to the instances that write to it: one *)
(* total order of events that only grows, and an acknowledgement that is   *)
(* given only for an event that is in the log.                             *)
(***************************************************************************)
EXTENDS Sequences

CONSTANT Events

VARIABLES log,    \* the events, oldest first
          acked   \* the events whose append was reported as done

svars == <<log, acked>>

Logged == {log[i] : i \in DOMAIN log}

SInit == log = <<>> /\ acked = {}

Extend(e) ==
    /\ e \notin Logged
    /\ log' = Append(log, e)
    /\ UNCHANGED acked

Acknowledge(e) ==
    /\ e \in Logged
    /\ acked' = acked \cup {e}
    /\ UNCHANGED log

SNext == \E e \in Events : Extend(e) \/ Acknowledge(e)

SSpec == SInit /\ [][SNext]_svars
==============================================================================
