------------------------------- MODULE MCSandbox -------------------------------
EXTENDS Sandbox, TLC

\* Nothing names a server, an object or a message.
SandboxSymmetry == Permutations(Servers) \cup Permutations(Chats) \cup Permutations(Messages)

MCMaxOps == [turns |-> 5, races |-> 3, fails |-> 2]
===============================================================================
