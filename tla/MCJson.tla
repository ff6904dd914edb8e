------------------------------- MODULE MCJson -------------------------------
(* Numbers at every limit, values three containers deep, every document of up  *)
(* to four words, and texts with one word left out or another in its place.    *)
EXTENDS Json

Text(bytes) == <<"text", QuotedN(bytes)>>
One == Number(FALSE, <<1>>, "none")
A == Member(<<97>>)
B == Member(<<98>>)
I(n) == Element(n)

Tree(parts) == [p \in {x[1] : x \in parts} |-> (CHOOSE x \in parts : x[1] = p)[2]]
Scalar(v) == Tree({<< <<>>, v>>})

MCNumbers == {<<"int", n>> : n \in -64..15} \cup {<<"uint", n>> : n \in 16..127}
           \cup {<<"real", h>> : h \in {-128, -31, -1, 0, 1, 31, 32, 62, 64, 128, 256, 320}}
           \cup {<<"bool", TRUE>>, <<"string", <<97>>>>, Null}

MCNestings ==
  { Tree({<< <<>>, Array>>, << <<I(0)>>, Array>>, << <<I(0), I(0)>>, <<"int", 1>> >>,
          << <<I(0), I(1)>>, Null>>, << <<I(1)>>, Array>>,
          << <<I(1), I(0)>>, <<"string", <<97, 97, 97, 97>>>> >>,
          << <<I(1), I(1)>>, Array>>, << <<I(2)>>, Object>>, << <<I(3)>>, <<"int", -2>> >>}),
    Tree({<< <<>>, Object>>, << <<A>>, Object>>, << <<Member(<<>>)>>, <<"int", 7>> >>,
          << <<A, B>>, Array>>, << <<A, B, I(0)>>, <<"bool", TRUE>> >>}),
    Tree({<< <<>>, Object>>, << <<A>>, Array>>, << <<A, I(0)>>, Object>>,
          << <<A, I(0), B>>, Null>>, << <<A, I(1)>>, Array>>, << <<B>>, Object>>}),
    Tree({<< <<>>, Object>>, << <<Member(<<0, 97>>)>>, <<"int", 7>> >>}),
    Tree({<< <<>>, Array>>} \cup {<< <<I(n)>>, <<"int", n>> >> : n \in 0..4}) }

MCTrees ==
  {Tree({<< <<>>, Object>>, << <<A>>, v>>}) : v \in MCNumbers} \cup MCNestings \cup
  {Scalar(v) : v \in {Null, Array, Object, <<"bool", FALSE>>, <<"string", <<>>>>,
                      <<"string", <<0, 97, 10>>>>, <<"string", <<34, 1, 200, 92>>>>}}

MCWords == {Word(m) : m \in Marks \cup {"comment", "error"}} \cup {Text(<<97>>), One}

MCDamaged ==
  UNION {UNION {{RemoveAt(s, i)} \cup {[s EXCEPT ![i] = w] : w \in MCWords \cup {Text(<<>>)}} :
                  i \in DOMAIN s} : s \in UNION {Texts(t, <<>>) : t \in MCNestings}}

MCGarbage ==
  BoundedSeq(MCWords, 4) \cup MCDamaged \cup
  {<<Word("["), w, Word("]")>> : w \in {Number(TRUE, <<>>, "none"), Number(FALSE, <<1>>, "e"),
     <<"text", <<BadEscape>>>>, <<"text", <<Unit(55296), Byte(97)>>>>, <<"text", <<Unit(55300)>>>>}}

MCCodePoints == {65, 127, 128, 2047, 2048, 55295, 57344, 65535, 65536, 66376, 1114111}
=============================================================================
