------------------------------ MODULE MCCalib ------------------------------
EXTENDS Calib

\* Ticks just below, at and above a power of two, and a long one.
TickLengths == {9, 12, 15, 16, 17, 18, 24, 31, 45}
=============================================================================
