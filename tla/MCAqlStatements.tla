---------------------------- MODULE MCAqlStatements ----------------------------
(* Instances of AqlStatements for TLC. *)
EXTENDS AqlStatements

Column(name) == [agg |-> "NONE", name |-> name, domain |-> "UNSPECIFIED", size |-> 0]
Sum(name) == [Column(name) EXCEPT !.agg = "SUM"]
Plain(type) ==
  [type |-> type, result |-> "", rels |-> <<"r">>, cols |-> <<>>, vals |-> <<>>,
   index |-> "", pred |-> NoPredicate]
OnColumn(type) == [Plain(type) EXCEPT !.cols = <<Column("a")>>]
Select == OnColumn("SELECT")

\* Statements without predicates, every type and every kind of member.
Simple ==
  {Plain("CREATE_RELATION"), Plain("REMOVE_RELATION")}
    \cup {OnColumn(t) : t \in {"REMOVE_ATTRIBUTE", "REMOVE_INDEX"}}
    \cup {[OnColumn("CREATE_INDEX") EXCEPT !.index = i] :
            i \in {"INLINE", "MAXHEAP", "MEMHASH"}}
    \cup {[Plain("CREATE_ATTRIBUTE") EXCEPT !.cols =
             <<[Column("a") EXCEPT !.domain = d[1], !.size = d[2]]>>] :
            d \in {<<"INT", 2>>, <<"LONG", 4>>, <<"STRING", 1>>, <<"STRING", 255>>,
                    <<"STRING", 256>>}}
    \cup {[Plain("INSERT") EXCEPT !.vals = v] :
            v \in {<<Number(1)>>, <<Number(1), Quoted("x")>>,
                   <<Quoted("x"), Number(2), Quoted("y")>>}}
    \cup {[Select EXCEPT !.cols = c, !.rels = r, !.result = x] :
            c \in {<<Column("a")>>, <<Sum("a"), Column("b")>>, <<Column("b"), Sum("a"), Column("c")>>},
            r \in {<<"r">>, <<"r", "s">>}, x \in {"", "res"}}
    \cup {[Plain("JOIN") EXCEPT !.rels = <<"r", "s">>, !.result = x,
             !.cols = <<Column("a")>> \o c] :
            c \in {<<Column("b")>>, <<Column("a"), Sum("b")>>}, x \in {"", "res"}}

\* Statements there is no room for: columns, aggregates, values, relations.
Long5 == [i \in 1 .. 5 |-> Column(<<"a", "b", "c", "d", "e">>[i])]
TooLong ==
  {[Select EXCEPT !.cols = Long5], [Select EXCEPT !.cols = [Long5 EXCEPT ![5] = Sum("e")]],
   [Plain("INSERT") EXCEPT !.vals = [i \in 1 .. 5 |-> Number(i)]],
   [Select EXCEPT !.rels = <<"r", "s", "t">>, !.result = "res"],
   [Plain("INSERT") EXCEPT !.vals = <<Number(1)>>, !.rels = <<"r", "s", "t", "u">>],
   [Plain("JOIN") EXCEPT !.rels = <<"r", "s">>, !.cols = <<Column("a")>> \o Long5]}

\* Comparisons of variables with numbers, and with one operator on a side.
Var(x) == <<Word(x)>>
Num(n) == <<Number(n)>>
Compares(l, os, r) == {[l |-> l, o |-> o, r |-> r] : o \in os}
Atoms ==
  Compares(Var("a"), Comparisons, Num(1)) \cup Compares(Var("a"), {"<", ">="}, Num(-3))
    \cup Compares(Var("b"), {"<=", ">"}, Num(2)) \cup Compares(Var("a"), {">"}, Num(LongMax))
Others ==
  Compares(Num(1), Comparisons, Var("b")) \cup Compares(Var("a"), {"<", "="}, Var("b"))
Sides ==
  {<<Word("a"), Word(o), x>> : o \in {"+", "-", "*", "/"}, x \in {Word("b"), Number(2)}}
Arithmetical ==
  UNION {Compares(e, {"<", "="}, Num(1)) : e \in Sides}
    \cup UNION {Compares(Num(1), {"<"}, e) : e \in Sides}
    \cup UNION {Compares(e, {"="}, f) : e \in Sides, f \in {<<Number(3), Word("-"), Word("b")>>}}

Chains ==
  Compares(<<Word("a"), Word("+"), Word("b"), Word("-"), Number(1)>>, {"<"}, Num(2))

Predicates ==
  {[cs |-> <<c>>, os |-> <<>>] : c \in Atoms \cup Others \cup Arithmetical \cup Chains}
    \cup {[cs |-> <<c, d>>, os |-> <<o>>] :
            c \in Atoms \cup Others, d \in Compares(Var("a"), {"<", ">="}, Num(-3))
                                          \cup Compares(Var("b"), {">"}, Num(2)), o \in {"AND", "OR"}}
    \cup {[cs |-> <<c, d, e>>, os |-> <<o, q>>] :
            c \in Compares(Var("a"), {"<", ">="}, Num(1)),
            d \in Compares(Var("b"), {"<=", "="}, Num(0)),
            e \in Compares(Var("a"), {">", "<>"}, Num(-2)) \cup Compares(Var("c"), {">"}, Num(0)),
            o \in {"AND", "OR"}, q \in {"AND", "OR"}}

MCStatements ==
  Simple \cup TooLong
         \cup {[Select EXCEPT !.pred = p] : p \in Predicates}
         \cup {[Select EXCEPT !.cols = SubSeq(Long5, 1, 4), !.pred = p] :
                  p \in {[cs |-> <<c>>, os |-> <<>>] :
                            c \in Compares(Var("e"), {"<"}, Num(2))}}
         \cup {[Plain("REMOVE_TUPLES") EXCEPT !.pred = [cs |-> <<c>>, os |-> <<>>]] :
                  c \in Atoms}

MCTypeable ==
  {Word(w) : w \in {"x", ";", ",", ".", "(", ")", "<-", "ON", "IN", "FROM", "INT", "SUM",
                    "INDEX", "WHERE", "JOIN", "SELECT"}}
    \cup {Number(7), Quoted("z"), Unclosed("z")}
=============================================================================
