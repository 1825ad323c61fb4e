--------------------------- MODULE MCSignalClient ---------------------------
EXTENDS SignalClient

CONSTANTS k1, k2

MCAwaited == {k1}
MCFinal == {k2}
MCNobody == {}
=============================================================================
