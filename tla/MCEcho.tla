------------------------------- MODULE MCEcho -------------------------------
EXTENDS EchoServers

\* A message longer than the server's buffer and the space down together, and one that fits.
Lengths == [i \in Clients |-> <<4, 2, 1>>[i]]

=============================================================================
