------------------------- MODULE MCTransportStreams -------------------------
EXTENDS TransportStreams

MCReaders == {"r1"}
MCPublishers == {"p1", "p2"}
MCStartFrom == {0}
=============================================================================
