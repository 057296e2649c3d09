---------------------------- MODULE MCDispatcher ----------------------------
\* Small instances of Dispatcher.
EXTENDS Dispatcher

MCLiterals == {"a", "b"}

\* Every kind of pattern; one that is not valid names the node of a valid one.
MCPatterns == {<<"a", "b">>, <<"a", "#">>, <<"+", "#">>, <<"#">>, <<"+", "b">>,
               <<"a", "#", "b">>, <<"a", "">>}

\* Lists sessions send: none, one pattern, two, one of two that is bad.
MCArguments == {<<>>, <<<<"a", "b">>>>, <<<<"a", "#">>>>, <<<<"a", "#", "b">>>>,
                <<<<"a", "b">>, <<"+", "#">>>>, <<<<"a", "b">>, <<"a", "">>>>}

MCTopics == {<<"a">>, <<"a", "b">>, <<"b", "b">>, <<"a", "+">>}
=============================================================================
