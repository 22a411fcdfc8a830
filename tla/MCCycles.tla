------------------------------ MODULE MCCycles ------------------------------
EXTENDS Cycles

\* In bars: all of the spectrum, its middle, one bin of it, none of it.
MCBands == {<<2, 10>>, <<3, 5>>, <<4, 6>>, <<8, 4>>}

\* All of the spectrum.
WholeBand == {<<2, 10>>}
=============================================================================
