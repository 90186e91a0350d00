----------------------------- MODULE MCExecution -----------------------------
(* Values for the constants of the execution modules that a .cfg cannot write. *)
EXTENDS OpsMetrics, TLC

CaseOfRequest == [r \in Requests |-> CHOOSE c \in Cases : TRUE]

PreparedPayment == [c \in Cases |-> {"stripe"}]
SimulatedPayment == [c \in Cases |-> {"mock"}]
NoPayment == [c \in Cases |-> {"none"}]

\* Sessions are interchangeable.
SessionSymmetry == Permutations(Sessions)
=============================================================================
