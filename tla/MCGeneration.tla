------------------------------ MODULE MCGeneration ------------------------------
(* Documents for model checking the generator: the values 1 and 123, which  *)
(* the tokens 1, 2 and 3 write, beginnings no token goes on from, and        *)
(* tokens offered that a guide denies or raises over, the end among them.   *)
EXTENDS Generation

MCTokens == {"1", "2", "3", "eos", "pad"}
MCPads == {"pad", "eos", "2"}
MCDocuments == {<<"1">>, <<"1", "2", "3">>}
MCDeadEnds == {<<"2", "1">>, <<"2", "2">>, <<"3">>}
MCDenied == {<<"1", "3">>, <<"3", "2">>}
MCRaising == {<<"2", "3">>, <<"2", "1", "eos">>}
\* Any digits are a number.
MCParsed == BoundedSeq({"1", "2", "3"}, 5) \ {<<>>}
===============================================================================
