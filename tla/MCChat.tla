------------------------------- MODULE MCChat -------------------------------
(* Chat over a session of one token, with a text and an image message.     *)
EXTENDS Chat

Text(rows) == [soft |-> FALSE, rows |-> rows]

MCTurns == {<<Text(<<"user">>)>>,
            <<Text(<<"user">>), [soft |-> TRUE, rows |-> <<"img", "img">>]>>}
MCPrompts == {Text(<<"a", "a">>)}
MCMessages == MCTurns \cup {Continued(m, <<Eos, Newline>>) : m \in MCTurns}
=============================================================================
