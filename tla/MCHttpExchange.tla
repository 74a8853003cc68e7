--------------------------- MODULE MCHttpExchange ---------------------------
(***************************************************************************)
(* One context and a few answers: with headers below and above the size of *)
(* a block, of one and of two chunks, of none, and not chunked.            *)
(***************************************************************************)
EXTENDS HttpExchange

Line == <<"x">> \o Del
Chunked == <<"c">> \o Del
Identity == <<"i">> \o Del
One == <<"1">> \o Del \o <<"d">> \o Del
Two == <<"2">> \o Del \o <<"d", "d">> \o Del
LastChunk == <<"0">> \o Del \o Del

MCAnswers ==
  { [head |-> Line \o Chunked \o Del, data |-> Two \o One \o LastChunk, first |-> <<"d", "d">>],
    [head |-> Line \o Chunked \o Del, data |-> LastChunk, first |-> <<>>],
    [head |-> Line \o Identity \o Del, data |-> <<"d">>, first |-> <<>>],
    [head |-> Line \o Del, data |-> <<"d">>, first |-> <<>>],
    [head |-> Line \o Chunked \o Line \o Del, data |-> One \o LastChunk, first |-> <<"d">>] }

MCSettings == {<<"method", "POST">>, <<"param", "p">>, <<"follow", "on">>}

=============================================================================
