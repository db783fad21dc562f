---------------------------- MODULE MCAreaMgmt ----------------------------
EXTENDS AreaMgmt
=============================================================================
