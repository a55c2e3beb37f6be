---------------------------- MODULE MCObjectHosts ---------------------------
EXTENDS ObjectHosts

TheBudgets == {[window |-> 1, bytes |-> 0], [window |-> 0, bytes |-> 1]}
=============================================================================
