------------------------------ MODULE MCServices ------------------------------
(***************************************************************************)
(* Services for TLC.                                                       *)
(***************************************************************************)
EXTENDS Services, TLC

Line(head, text) == [head |-> head, text |-> text, long |-> FALSE]
Long(line)       == [line EXCEPT !.long = TRUE]

(* type&zone and n more fields                                             *)
SourceText(type, zone, n) ==
  <<type, "&", zone>> \o [i \in 1 .. (2 * n) |-> IF i % 2 = 1 THEN "&" ELSE "x"]

Blanks(n) == [i \in 1 .. n |-> Line("blank", <<>>)]

OneOf(S) == {<<>>} \cup {<<s>> : s \in S}

MCZones == {-1, 0, 1, 2}

MCNumerals == "1" :> 1 @@ "01" :> 1 @@ "2" :> 2

Redis1 == Line("source", SourceText("redis", "1", 2))
Mysql1 == Line("source", SourceText("mysql", "1", 5))

Some == {Line("threads", <<"2">>), Line("threads", <<"x">>), Line("threads", <<"1", "&", "x">>),
         Line("enable_ssl", <<"true">>), Line("source", <<"#", "&", "x">>),
         Long(Line("#", <<>>)), Redis1, Line("source", SourceText("redis", "01", 1)),
         Mysql1, Line("source", SourceText("mysql", "1", 4)), Line("plain", <<>>)}

(* Up to three lines, with blank ones between them.                        *)
Blocks == {a \o Blanks(i) \o b \o Blanks(j) \o c :
             a \in OneOf(Some), b \in OneOf(Some), c \in OneOf({Line("threads", <<"2">>), Redis1}),
             i \in {0, 4, 5}, j \in {0, 4}}

(* One data source of every shape up to five tokens.                       *)
Texts == {t \in UNION {[1 .. n -> {"redis", "#", "&", "1"}] : n \in 0 .. 5} :
            \A i \in 1 .. (Len(t) - 1) : "&" \in {t[i], t[i + 1]}}
Sources == {<<Line("source", t)>> : t \in Texts}

MCFollowed == {<<<<Redis1>>, "redis">>, <<<<Mysql1>>, "sql">>, <<<<Mysql1, Redis1>>, "sql">>}

MCFiles == Blocks \cup Sources
=============================================================================
