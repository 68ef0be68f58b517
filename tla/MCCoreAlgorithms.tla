---------------------------- MODULE MCCoreAlgorithms ----------------------------
\* Values of the constants for TLC: bytes at the ends of their range, every half,
\* and dimensions whose products fit and exceed a size_t.
EXTENDS CoreAlgorithms

MCBytes == {0, 1, 130, 255}
MCHalves == 0..65535
MCDimensions == {-1, 0, 1, 2, 6}
=============================================================================
