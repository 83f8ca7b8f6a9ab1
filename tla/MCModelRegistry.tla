-------------------------- MODULE MCModelRegistry --------------------------
(***************************************************************************)
(* Small instances of ModelRegistry: the active model, its successor and a *)
(* competitor; requests come in pairs.                                     *)
(***************************************************************************)
EXTENDS ModelRegistry, TLC

CONSTANTS m1, m2, m3, r1, r2

TwoModels == {m1, m2}
ThreeModels == {m1, m2, m3}
TwoRequests == {r1, r2}

\* No operator chooses among requests by name; the models differ from the start.
Symmetry == Permutations(Requests)

\* At first m1 is active, m2, its successor, is verified and the others are not:
\* three requests could not bring more of them to activation.
InitWithActive ==
    /\ Init
    /\ active = m1
    /\ \A m \in Models : row[m].metrics.verified <=> m \in {m1, m2}

SpecWithActive == InitWithActive /\ [][Next]_vars
=============================================================================
