---------------------------- MODULE MCRingBuffer ----------------------------
\* SpscRingBuffer on small instances: four cells, enough pushes for the
\* positions to wrap around at least twice.
EXTENDS RingBufferInvariant
=============================================================================
