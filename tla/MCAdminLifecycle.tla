-------------------------- MODULE MCAdminLifecycle --------------------------
EXTENDS AdminLifecycle, TLC

\* Slots, workers, rows and display names are interchangeable.
Interchange ==
  Permutations(Requests) \cup Permutations(Ids) \cup Permutations(Names)
    \cup Permutations(Workers)

=============================================================================
