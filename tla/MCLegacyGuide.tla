----------------------------- MODULE MCLegacyGuide -----------------------------
(* Patterns and vocabularies for model checking the index and its guide.    *)
EXTENDS TokenTable

Alt(bytes) == [i \in DOMAIN bytes |-> Once(bytes[i])]

MCPatterns ==
    { <<<<Once("1"), Many("2")>>>>,                    \* 12*
      <<Alt(<<"1", "2", "3">>), Alt(<<"1">>)>>,        \* 1(23)?
      <<Alt(<<"1", "2">>), Alt(<<"2", "1">>)>>,        \* 12|21
      <<<<Many("2"), Once("1")>>>>,                    \* 2*1
      <<Alt(<<"1">>), Alt(<<"1", "2">>)>> }            \* 1|12

\* An enumeration whose first value begins its second.
MCEnum == {<<Alt(<<"1">>), Alt(<<"1", "2">>)>>}

Entry(token, id) == [token |-> token, id |-> id]
MCEntries ==
    { Entry(<<"1">>, 0), Entry(<<"2">>, 1), Entry(<<"1", "2">>, 2), Entry(<<"2">>, 4), Entry(<<>>, 2) }

MCMaps ==
    { [t \in {} |-> <<>>],
      <<"2">> :> <<1, 6>> @@ <<"2", "1">> :> <<4>>,
      <<"1">> :> <<0, 3>> }

MCOneMap == {<<"1">> :> <<0>> @@ <<"2">> :> <<1>>}
===============================================================================
