-------------------------- MODULE MCNavigationGoal --------------------------
(***************************************************************************)
(* Small instances of the navigation goals: images with one free, unknown  *)
(* or occupied area, and files that end early or hold a bad row.           *)
(***************************************************************************)
EXTENDS NavigationGoal

White == [p \in Rows \X Columns |-> 254]

MCImages ==
  {[White EXCEPT ![p] = v] : p \in Rows \X Columns, v \in {0, 205}}
  \cup {[p \in Rows \X Columns |-> 0], White}

MCGoalFiles ==
  LET row(i) == Goal(<<i, 0>>)
  IN  {<< >>, <<row(1), row(2)>>, <<row(1), row(2), row(3)>>, <<row(1), BadRow, row(3)>>}
=============================================================================
