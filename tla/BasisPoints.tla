---------------------------- MODULE BasisPoints ----------------------------
EXTENDS Integers

BpsDenominator == 10000
=============================================================================
