----------------------------- MODULE MCTCPSocket -----------------------------
EXTENDS TCPSocket
=============================================================================
