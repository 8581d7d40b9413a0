-------------------------------- MODULE MCCJson --------------------------------
(***************************************************************************)
(* Items of two levels below the root, with strings that need escapes, and *)
(* single changes of their texts.                                          *)
(***************************************************************************)
EXTENDS CJson

MCBlank == {" ", "\t", "\n", "\r", "^H", "\f", "^A"}
MCCodeUnit == [h \in {"0000", "0001", "00e9", "d83d", "de00"} |->
                 CASE h = "0000" -> 0 [] h = "0001" -> 1 [] h = "00e9" -> 233
                   [] h = "d83d" -> 55357 [] h = "de00" -> 56832]
MCCharOf == [u \in {1, 233, 128512} |->
               CASE u = 1 -> "^A" [] u = 233 -> "U+E9" [] u = 128512 -> "U+1F600"]
MCEscaped == [c \in {"\"", "\\", "\n", "^A"} |->
                CASE c = "^A" -> <<"\\", "u", "0001">> [] c = "\n" -> <<"\\", "n">>
                  [] OTHER -> <<"\\", c>>]
MCWidth == [t \in {"null", "true", "false", "0001", "U+E9", "U+1F600"} |->
              CASE t = "false" -> 5 [] t = "U+E9" -> 2 [] OTHER -> 4]
MCForeign ==
  {<<"\"">> \o e \o f \o <<"\"">> : e, f \in
     {<<>>, <<"5">>} \cup {<<"\\", "u", h>> : h \in DOMAIN MCCodeUnit}}

\* Pairs from two planes.
MCPlanesUnit == [h \in {"d800", "d83d", "d840", "dc00", "de00"} |->
                   CASE h = "d800" -> 55296 [] h = "d83d" -> 55357 [] h = "d840" -> 55360
                     [] h = "dc00" -> 56320 [] h = "de00" -> 56832]
MCPlanesChar == [u \in UNION {{65536 + k, 65536 + 512 + k} : k \in {0, 62464, 65536}} |-> ToString(u)]
MCPlanesForeign == {<<"\"", "\\", "u", h, "\\", "u", l, "\"">> : h, l \in DOMAIN MCPlanesUnit}
MCTokens == {"\"", "\\", "u", "00e9", "d83d", "de00", "0000", "[", "]", "{", "}", ",", ":",
             "-", "0", ".", "e", "5", "null", " ", "n"}

Lit(t) == [NewItem EXCEPT !.type = t]
Num(m, e) == [NewItem EXCEPT !.type = "number", !.valuefloat = <<m, e>>]
Str(s) == [NewItem EXCEPT !.type = "string", !.valuestring = s]
Arr(list) == [NewItem EXCEPT !.type = "array", !.child = list]
Named(list) == [i \in DOMAIN list |-> [list[i] EXCEPT !.string = IF i = 1 THEN <<"n">> ELSE <<"\"">>]]
Obj(list) == [NewItem EXCEPT !.type = "object", !.child = Named(list)]

Atoms == {Lit("null"), Lit("true"), Num(0, 0), Num(-12, 0), Num(15, -1), Num(-25, -3),
          Str(<<>>), Str(<<"\"", "\\">>), Str(<<"^A", "\n", "U+E9">>), Str(<<"U+1F600">>)}
Few == {Num(15, -1), Str(<<"\\">>)}
Lists(S) == {<<>>} \cup {<<x>> : x \in S} \cup {<<x, y>> : x \in S, y \in S}
Inner == {Arr(q) : q \in Lists(Few)} \cup {Obj(q) : q \in Lists(Few)}
MCItems == Atoms \cup {Arr(<<x>>) : x \in Atoms} \cup {Obj(<<x, y>>) : x \in Few, y \in Inner}
                 \cup {Arr(<<x>>) : x \in Inner} \cup {Arr(<<Arr(<<Obj(<<x, x>>)>>)>>) : x \in Few}
=============================================================================
