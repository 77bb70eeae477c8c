----------------------------- MODULE MCHexagon -----------------------------
(* Four layers, all of them with paged experts on two of the models.       *)
EXTENDS HexagonModel

MCModels == {[kind |-> "recurrent", paged |-> {1, 2, 3, 4}],
             [kind |-> "attention", paged |-> {1, 2, 3, 4}],
             [kind |-> "audio", paged |-> {}]}
MCPasses == [recurrent |-> 3, attention |-> 2, audio |-> 2]
MCAttention == {[kind |-> "attention", paged |-> {}]}
=============================================================================
