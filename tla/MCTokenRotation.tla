-------------------------- MODULE MCTokenRotation --------------------------
EXTENDS TokenRotation, TLC

\* Request slots are interchangeable, and so are principals of one kind.
Interchange ==
  Permutations(Requests) \cup Permutations(Admins) \cup Permutations(Users)

=============================================================================
