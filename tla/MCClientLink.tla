---------------------------- MODULE MCClientLink ----------------------------
EXTENDS ClientLink, TLC
=============================================================================
