----------------------------- MODULE MCPipeline -----------------------------
EXTENDS Pipeline

Raw(n) == [i \in 1 .. n |-> <<"raw", i>>]
MCGood == Raw(3)
MCInputs == {<<>>, Raw(3), << <<"raw", 1>>, <<"raw", 3>> >>}
MCChain == {<<>>, <<"fly">>, <<"sum">>, <<"sum", "hex">>, <<"cbc">>, <<"cfb">>,
            <<"inc", "hex">>, <<"mute">>, <<"refuse">>}
MCSinkChain == {<<>>, <<"hex">>, <<"refuse">>}
=============================================================================
