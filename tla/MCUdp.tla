------------------------------- MODULE MCUdp -------------------------------
EXTENDS Udp
=============================================================================
