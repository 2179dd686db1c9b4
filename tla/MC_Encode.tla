------------------------------ MODULE MC_Encode ------------------------------
(* Encode for TLC: texts over two letters with every small table of merges, *)
(* texts of several pieces with a letter of two bytes, and texts over one   *)
(* character of each class the pieces depend on.                            *)
EXTENDS Encode

\* Contractions of one letter ('b, 's) and of two ('ll).
CharsMC   == {"a", "b", "s", "l", "e2", "1", " ", "tab", "nl", "'", "!"}
LettersMC == {"a", "b", "s", "l", "e2"}
SpacesMC  == {" ", "tab", "nl"}
ContractionsMC == {<<"b">>, <<"s">>, <<"l", "l">>}

MCBytesOf(c) == IF c = "e2" THEN <<"x", "y">> ELSE <<c>>
BytesMC      == (CharsMC \ {"e2"}) \cup {"x", "y"}
ByteTokens   == << <<"a">>, <<"b">>, <<"s">>, <<"l">>, <<"x">>, <<"y">>, <<"1">>, <<" ">>,
                   <<"tab">>, <<"nl">>, <<"'">>, <<"!">>, <<"nul">> >>

Results(m) == [k \in DOMAIN m |-> m[k][1] \o m[k][2]]

\* Every table of n merges, each of bytes or of products of those before it.
ab == {<<"a">>, <<"b">>}
Tables[n \in Nat] ==
  IF n = 0 THEN {<<>>}
  ELSE UNION {{Append(t, <<p, q>>) : p, q \in ab \cup ToSet(Results(t))} : t \in Tables[n - 1]}

Mixed == { << << <<"x">>, <<"y">> >>, << <<" ">>, <<"x", "y">> >> >>,
           << << <<" ">>, <<"a">> >>, << <<"a">>, <<"b">> >>, << <<" ">>, <<"a">> >> >>,
           << << <<"y">>, <<" ">> >>, << <<"a">>, <<"x">> >>, << <<"nl">>, <<"nl">> >> >> }

TextsWord   == BoundedSeq({"a", "b"}, 5)
TextsPieces == BoundedSeq({"a", "b", "e2", " ", "nl", "'"}, 4)

\* Every short text, and longer ones of spaces, digits and what follows them.
TextsClasses == BoundedSeq(CharsMC \ {"b", "e2"}, 4) \cup BoundedSeq({"a", " ", "tab", "nl", "!"}, 5)
                  \cup BoundedSeq({"1", "s", " ", "'"}, 5)
TextsMC == TextsWord \cup TextsPieces \cup TextsClasses

\* The last token is a control token, whose text can also be typed.
ModelOf(m, texts) ==
  LET named == ByteTokens \o Results(m)
  IN  [merges |-> m, tokens |-> Append(named, <<"'", "a">>), control |-> {Len(named)}, texts |-> texts]

ModelsMC == {ModelOf(m, TextsWord) : m \in Tables[3]} \cup {ModelOf(m, TextsPieces) : m \in Mixed}
              \cup {ModelOf(<< << <<" ">>, <<" ">> >> >>, TextsClasses)}
=============================================================================
