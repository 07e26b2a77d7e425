---------------------------- MODULE MCServerLoop ----------------------------
(* Instances of ServerLoop for TLC. *)
EXTENDS ServerLoop, TLC

CONSTANTS c1, c2

OneClient  == {c1}
TwoClients == {c1, c2}

\* The clients are interchangeable; used only where no liveness is checked.
ClientSymmetry == Permutations(TwoClients)

ChangingRequests == AllRequests \ {"Read"}
EveryRequest     == AllRequests
LiveRequests     == AllRequests \ {"Restore"}

EveryCall   == SystemCalls
ThreadCalls == SystemCalls \ {"write"}

EveryWish   == Toggles
=============================================================================
