------------------------------- MODULE MCFcp -------------------------------
EXTENDS FcpCalls
=============================================================================
