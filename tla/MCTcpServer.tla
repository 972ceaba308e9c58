---------------------------- MODULE MCTcpServer ----------------------------
EXTENDS TcpServer

MCExcludes == {{}, {1}}
=============================================================================
