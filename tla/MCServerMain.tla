----------------------------- MODULE MCServerMain -----------------------------
EXTENDS ServerMain

Proper == [Host |-> <<"db">>, Port |-> <<"3306">>, User |-> <<"lobby">>,
           Password |-> <<"a", "=", "b">>, Schema |-> <<"game">>]

Good ==
  << <<"#", "db">>, Tag, <<"Host", " ", "=", " ", "db">>, <<"Port", "=", "3306">>,
     <<"User", "=", "lobby", " ">>, <<>>, <<"Password", "=", "a", "=", "b">>,
     <<"Schema", "=", "game">> >>

\* Lines that change what a file says, or do not, by where they stand.
Odd ==
  { Tag, <<"[", "Game", "]">>, <<"[", "Game", "]", " ">>, <<"#", "Host", "=", "other">>,
    <<" ", "#", "Host", "=", "other">>, <<"Host", "=", "other">>, <<"Schema">>,
    <<"Port", "=">>, <<" ">> }

Inserted(f, l, i) == SubSeq(f, 1, i) \o <<l>> \o SubSeq(f, i + 1, Len(f))

\* The file, one cut short, none at all, and with one or two odd lines in it.
OneOdd == {Inserted(Good, l, i) : l \in Odd, i \in 0 .. Len(Good)}
Configs ==
  {SubSeq(Good, 1, i) : i \in 0 .. Len(Good)} \cup OneOdd
    \cup {Inserted(f, l, i) : f \in {g \in OneOdd : <<"[", "Game", "]">> \in {g[j] : j \in DOMAIN g}},
                              l \in {Tag, <<"Host", "=", "other">>}, i \in 0 .. Len(Good) + 1}
==============================================================================
