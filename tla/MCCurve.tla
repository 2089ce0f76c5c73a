------------------------------ MODULE MCCurve ------------------------------
EXTENDS Curve

\* Rent may rise above what the creator paid, and fall below it.
MCRents == {1, 3}
=============================================================================
