---------------------------------- MODULE MCSip ----------------------------------
EXTENDS Sip

\* bound: one stream that was not ended and one call that was answered without a
\* dialog at a time
FewUnended == Cardinality(left) <= 1 /\ Cardinality(unnamed) <= 1
=============================================================================
