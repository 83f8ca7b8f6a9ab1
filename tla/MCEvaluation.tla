---------------------------- MODULE MCEvaluation ----------------------------
(***************************************************************************)
(* A small instance of Evaluation: two questions, two administrators and   *)
(* two evaluations.  An evaluation asks for one sample and all manual      *)
(* ones, or for two of which half are manual.                              *)
(***************************************************************************)
EXTENDS Evaluation

CONSTANTS q1, q2

Questions == {q1, q2}

\* What the documents give: the first question, or both.
Generated == {<<q1>>, <<q2, q1>>}

AllOrHalf == {[limit |-> 1, all |-> TRUE, halves |-> 0], [limit |-> 2, all |-> FALSE, halves |-> 1]}

\* No operator chooses among administrators or evaluations by name.
Symmetry == Permutations(Editors) \union Permutations(Evaluations)

\* The samples that are saved are kept and used, and the list tells the truth of them.
SamplesCount == TypeOK /\ SavedCounts /\ ListingIsTrue
=============================================================================
