-------------------------------- MODULE MCAsr --------------------------------
EXTENDS Asr
=============================================================================
