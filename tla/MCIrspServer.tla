---------------------------- MODULE MCIrspServer ----------------------------
\* Small instances of IrspServer.
EXTENDS IrspServer
CONSTANTS p1, p2, service, temp
=============================================================================
