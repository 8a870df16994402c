----------------------------- MODULE MCTransfer -----------------------------
EXTENDS Transfer

\* A file that cannot be read, an empty one, one that fits the send buffer and
\* ends in a chunk that is not full, and two that do not fit.
AllSizes == {Missing, 0, 1, 3, 5}
=============================================================================
