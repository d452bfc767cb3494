----------------------------- MODULE MCTCPDialer -----------------------------
EXTENDS TCPDialer, TLC
===============================================================================
