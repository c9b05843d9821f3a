--------------------------- MODULE MC_KunitRunner ---------------------------
(* Two cases of different suites with the same case name, so that only the *)
(* suite tells them apart; filters: none, the second suite (its results    *)
(* follow a result to skip), and a suite the module does not have.        *)
EXTENDS KunitRunner

MCCaseList == << [suite |-> "s1", name |-> "c1"], [suite |-> "s2", name |-> "c1"] >>
MCFilters == {"none", "s2", "s3"}

=============================================================================
