--------------------------- MODULE MCGarageReader ---------------------------
EXTENDS GarageReader
CONSTANTS b1, b2
=============================================================================
