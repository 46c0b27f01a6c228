------------------------------ MODULE MCMemory ------------------------------
EXTENDS Slab
=============================================================================
