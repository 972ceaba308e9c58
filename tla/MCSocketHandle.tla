--------------------------- MODULE MCSocketHandle ---------------------------
EXTENDS SocketHandle

CONSTANTS a1, a2, w1, w2

\* Either the application may stop and restart reading, or the kernel may refuse requests.
MCUses == {[restarts |-> TRUE, fails |-> FALSE, refs |-> FALSE],
           [restarts |-> FALSE, fails |-> TRUE, refs |-> FALSE],
           [restarts |-> FALSE, fails |-> FALSE, refs |-> TRUE]}

=============================================================================
