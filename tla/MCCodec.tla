------------------------------ MODULE MCCodec ------------------------------
(* Instances of Codec for TLC.                                               *)
EXTENDS Codec

\* The characters and words the packets of each pack tell apart.
MCChunks == [
    result |-> {<<"OK">>, CrLf, <<"\r">>, <<"+CME ERROR:">>, <<"0">>, <<" ">>},
    ati    |-> {<<"+ATI:">>, CrLf, <<"x">>, <<"OK">>, <<" ">>},
    urc    |-> {<<"+CPIN: ">>, <<"READY">>, CrLf, <<"\n">>, <<"x">>, <<" ">>},
    test   |-> {<<"+TEST:">> \o <<"7", ",">>, <<Quote>>, <<"x">>,
                <<",", "4", ",", "Nine">>, CrLf}]

MCTexts == {<<"x">>, <<"y", "z", "y">>, <<Quote>>, <<" ", ",">>}
MCNumbers == {-10, 0, 42}
=============================================================================
