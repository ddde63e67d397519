-------------------------------- MODULE MCBoot --------------------------------
EXTENDS Boot
=============================================================================
