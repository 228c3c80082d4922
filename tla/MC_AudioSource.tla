---------------------------- MODULE MC_AudioSource ----------------------------
EXTENDS AudioSource

\* Three blocks and five frames: the driver wraps the ring, and the reader
\* can miss gives.  At most one interrupt during a copy: a block copy is
\* far shorter than a block period.
MCBlockCount == 3
MCMaxFrames == 5
MCMaxOverrun == 1

\* The ring of the scenario of spec section 8: four blocks, six reads.
MCPollBlockCount == 4
MCPollMaxFrames == 6
=============================================================================
