----------------------------- MODULE MCBpmpTrim -----------------------------
(* Trees of up to three children of the root, in any order: the straps,    *)
(* tables with and without nodes or handles of their own, other nodes.     *)
EXTENDS BpmpTrim

Ids(i) == <<i>>
Close == <<Line("close", <<>>)>>
Node(kind, inner) == <<Line(kind, <<>>)>> \o inner \o Close
Phandle(h) == <<Line("phandle", Ids(h))>>
Prop == <<Line("prop", <<>>)>>
Select(ids) == <<Line("select", ids)>>

Table(h) == Node("table", Prop \o Phandle(h))
Nested(h) == Node("table", Phandle(h) \o Node("node", Prop))
Twin(h) == Node("table", Phandle(h) \o Node("node", Phandle("0x5")))
Bare == Node("table", Prop)
Other == Node("node", Prop \o Phandle("0x5"))
Group == Node("node", Table("0x2"))

Handles == {"0x1", "0x2", "0x12"}
StrapNodes == {Node("strap", Select(s)) : s \in {<<"0x1", "0x2">>, <<"0x1", "0x12">>, <<"0x1", "0x1", "0x2">>,
                                                 <<"0x1">>}}
              \cup {Node("strap", Prop \o Select(<<"0x1">>)), Node("strap", Phandle("0x5") \o Select(<<"0x1">>))}
TableNodes == {Table(h) : h \in Handles} \cup {Nested("0x1"), Nested("0x2"), Twin("0x1"), Bare, Group}
Children == StrapNodes \cup TableNodes \cup {Other}

\* At most one node of straps, and no handle twice.
MCTrees ==
    {Node("root", FlattenSeq(s)) : s \in UNION {[1..n -> Children] : n \in 1..3}}
    \cup {Node("root", FlattenSeq(s)) :
             s \in {<<t, a, b, c>> : t \in {Node("strap", Select(<<"0x1", "0x2", "0x0">>))},
                                     a, b, c \in {Table("0x1"), Nested("0x2"), Table("0x3"), Other}}}
Twice(d, kind) == \E i, j \in DOMAIN d : i # j /\ d[i].kind = kind /\ d[j] = d[i]
Proper(d) == ~Twice(d, "strap") /\ ~Twice(d, "phandle")
ProperTrees == {d \in MCTrees : Proper(d)}
MCBegins == {<<"0x1", "0x12">>}
=============================================================================
