-------------------------------- MODULE MCVerbs --------------------------------
EXTENDS Verbs
================================================================================
