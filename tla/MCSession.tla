------------------------------ MODULE MCSession ------------------------------
(* Instances of Session: two tokens, one kind of encoder row, segments of   *)
(* at most two rows in chunks of one.  Only a prompt of one row leaves room *)
(* for a draft that outlives the convolutions' history.                     *)
EXTENDS Session

Text(rows) == [soft |-> FALSE, rows |-> rows]
Media(rows) == [soft |-> TRUE, rows |-> rows]

MCPrompts == {Text(<<"a">>), Media(<<"a", "img">>)}
MCMessages == {<<Text(<<"b", "a">>), Media(<<"img">>)>>}
=============================================================================
