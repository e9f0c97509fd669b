------------------------------ MODULE MCFrontEnd ------------------------------
EXTENDS FrontEnd, TLC
=============================================================================
