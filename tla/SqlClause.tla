------------------------------- MODULE SqlClause -------------------------------
(* What PostgreSQL makes of the text after WHERE: its grammar, as far as the Dataverse emits it, with
   PostgreSQL's precedence (OR, AND, NOT, IS, comparison, +, *, minus), the types of its operands and
   three-valued logic.  A text is a sequence of tokens. *)
EXTENDS Integers, Sequences

\* Values and literals; "none" is the value of a node that has none.
Null     == [t |-> "null", v |-> 0]
None     == [t |-> "none", v |-> 0]
Num(n)   == [t |-> "int", v |-> n]
Truth(p) == [t |-> "bool", v |-> IF p THEN 1 ELSE 0]
Yes      == Truth(TRUE)
No       == Truth(FALSE)

\* A node of a tree: an operator with its operands, a column or a literal.
Node(k, a) == [k |-> k, a |-> a, c |-> "", v |-> None]
Col(c)     == [k |-> "col", a |-> <<>>, c |-> c, v |-> None]
Lit(v)     == [k |-> "lit", a |-> <<>>, c |-> "", v |-> v]
Bad        == Node("bad", <<>>)
Failed     == [tree |-> Bad, at |-> 0]
Got(tree, i) == [tree |-> tree, at |-> i]

Tok(t)   == [t |-> t, n |-> 0]
Mark(n)  == [t |-> "$", n |-> n]
Peek(s, i) == IF i \in 1..Len(s) THEN s[i].t ELSE "end"

\* The operators of one level, all of which group to the left.
SqlOps == [or |-> {"OR"}, and |-> {"AND"}, add |-> {"+", "-"}, mul |-> {"*"}]
Comparisons == {"=", "<>", "<", "<=", ">", ">="}
Above  == [or |-> "and", and |-> "not", not |-> "is", is |-> "cmp", cmp |-> "add", add |-> "mul", mul |-> "un"]

RECURSIVE SqlAt(_, _, _), SqlTail(_, _, _), SqlIs(_, _), SqlList(_, _, _, _)

SqlTail(s, level, got) ==
    IF got.at = 0 \/ Peek(s, got.at) \notin SqlOps[level] THEN got
    ELSE LET r == SqlAt(s, Above[level], got.at + 1)
         IN  IF r.at = 0 THEN Failed
             ELSE SqlTail(s, level, Got(Node(s[got.at].t, <<got.tree, r.tree>>), r.at))

SqlIs(s, got) ==
    CASE got.at = 0 \/ Peek(s, got.at) # "IS" -> got
      [] Peek(s, got.at + 1) = "NULL" -> SqlIs(s, Got(Node("IS NULL", <<got.tree>>), got.at + 2))
      [] Peek(s, got.at + 1) = "NOT" -> SqlIs(s, Got(Node("IS NOT NULL", <<got.tree>>), got.at + 3))
      [] OTHER -> Failed

\* The expressions up to a closing token, each followed by the token the form asks for.
SqlList(s, k, ends, got) ==
    IF got.at = 0 \/ ends = <<>> \/ Peek(s, got.at) # Head(ends) THEN Failed
    ELSE IF Len(ends) = 1 THEN Got(Node(k, got.tree.a), got.at + 1)
    ELSE LET r == SqlAt(s, "or", got.at + 1)
         IN  IF r.at = 0 THEN Failed
             ELSE SqlList(s, k, Tail(ends), Got(Node(k, Append(got.tree.a, r.tree)), r.at))

SqlAt(s, level, i) ==
    CASE level \in {"or", "and", "add", "mul"} -> SqlTail(s, level, SqlAt(s, Above[level], i))
      [] level = "not" /\ Peek(s, i) = "NOT" ->
           LET r == SqlAt(s, "not", i + 1) IN IF r.at = 0 THEN Failed ELSE Got(Node("NOT", <<r.tree>>), r.at)
      [] level = "not" -> SqlAt(s, "is", i)
      [] level = "is" -> SqlIs(s, SqlAt(s, "cmp", i))
      [] level = "cmp" ->   \* comparisons do not group: a second one is an error
           LET l == SqlAt(s, "add", i)
           IN  IF l.at = 0 \/ Peek(s, l.at) \notin Comparisons THEN l
               ELSE LET r == SqlAt(s, "add", l.at + 1)
                    IN  IF r.at = 0 \/ Peek(s, r.at) \in Comparisons THEN Failed
                        ELSE Got(Node(s[l.at].t, <<l.tree, r.tree>>), r.at)
      [] level = "un" /\ Peek(s, i) = "-" ->
           LET r == SqlAt(s, "un", i + 1) IN IF r.at = 0 THEN Failed ELSE Got(Node("neg", <<r.tree>>), r.at)
      [] OTHER ->
           CASE Peek(s, i) = "(" ->
                  LET r == SqlAt(s, "or", i + 1)
                  IN  IF r.at # 0 /\ Peek(s, r.at) = ")" THEN Got(r.tree, r.at + 1) ELSE Failed
             [] Peek(s, i) = "COALESCE" -> SqlList(s, "COALESCE", <<"(", ",", ")">>, Got(Bad, i + 1))
             [] Peek(s, i) = "CASE" -> SqlList(s, "CASE", <<"WHEN", "THEN", "ELSE", "END">>, Got(Bad, i + 1))
             [] Peek(s, i) = "$" -> Got([Node("$", <<>>) EXCEPT !.v = Num(s[i].n)], i + 1)
             [] Peek(s, i) = "TRUE" -> Got(Lit(Yes), i + 1)
             [] Peek(s, i) = "FALSE" -> Got(Lit(No), i + 1)
             [] Peek(s, i) = "NULL" -> Got(Lit(Null), i + 1)
             [] Peek(s, i) \in {"x", "b", "is_deleted"} -> Got(Col(s[i].t), i + 1)
             [] OTHER -> Failed

SqlParse(s) == LET r == SqlAt(s, "or", 1) IN IF r.at = Len(s) + 1 THEN r.tree ELSE Bad

-----------------------------------------------------------------------------
(* Types and meaning.  A parameter that is null was bound as a BIGINT. *)
ColType == [x |-> "int", b |-> "bool", is_deleted |-> "bool"]

RECURSIVE SqlType(_, _)
SqlType(tree, params) ==
    LET T(j) == SqlType(tree.a[j], params)
        Same(j, k) == T(j) = T(k) \/ "null" \in {T(j), T(k)}
        Meet(j, k) == IF T(j) = "null" THEN T(k) ELSE T(j)
        Is(j, ty) == T(j) \in {ty, "null"}
    IN  CASE tree.k = "col" -> ColType[tree.c]
          [] tree.k = "lit" -> tree.v.t
          [] tree.k = "$" -> IF params[tree.v.v] = Null THEN "int" ELSE params[tree.v.v].t
          [] tree.k \in {"OR", "AND"} -> IF Is(1, "bool") /\ Is(2, "bool") THEN "bool" ELSE "bad"
          [] tree.k = "NOT" -> IF Is(1, "bool") THEN "bool" ELSE "bad"
          [] tree.k \in {"IS NULL", "IS NOT NULL"} -> IF T(1) = "bad" THEN "bad" ELSE "bool"
          [] tree.k \in Comparisons -> IF Same(1, 2) /\ T(1) # "bad" THEN "bool" ELSE "bad"
          [] tree.k \in {"+", "-", "*"} -> IF Is(1, "int") /\ Is(2, "int") THEN "int" ELSE "bad"
          [] tree.k = "neg" -> IF Is(1, "int") THEN "int" ELSE "bad"
          [] tree.k = "COALESCE" -> IF Same(1, 2) THEN Meet(1, 2) ELSE "bad"
          [] tree.k = "CASE" -> IF Is(1, "bool") /\ Same(2, 3) THEN Meet(2, 3) ELSE "bad"
          [] OTHER -> "bad"

Compare(op, l, r) ==
    CASE op = "="  -> Truth(l.v = r.v)  [] op = "<>" -> Truth(l.v # r.v)
      [] op = "<"  -> Truth(l.v < r.v)  [] op = "<=" -> Truth(l.v <= r.v)
      [] op = ">"  -> Truth(l.v > r.v)  [] OTHER -> Truth(l.v >= r.v)

Reckon(op, l, r) ==
    CASE op = "+" -> Num(l.v + r.v) [] op = "-" -> Num(l.v - r.v) [] OTHER -> Num(l.v * r.v)

RECURSIVE SqlValue(_, _, _)
SqlValue(tree, row, params) ==
    LET V(j) == SqlValue(tree.a[j], row, params)
    IN  CASE tree.k = "col" -> row[tree.c]
          [] tree.k = "lit" -> tree.v
          [] tree.k = "$" -> params[tree.v.v]
          [] tree.k = "OR" -> IF Yes \in {V(1), V(2)} THEN Yes ELSE IF Null \in {V(1), V(2)} THEN Null ELSE No
          [] tree.k = "AND" -> IF No \in {V(1), V(2)} THEN No ELSE IF Null \in {V(1), V(2)} THEN Null ELSE Yes
          [] tree.k = "NOT" -> IF V(1) = Null THEN Null ELSE Truth(V(1) = No)
          [] tree.k = "IS NULL" -> Truth(V(1) = Null)
          [] tree.k = "IS NOT NULL" -> Truth(V(1) # Null)
          [] tree.k \in Comparisons -> IF Null \in {V(1), V(2)} THEN Null ELSE Compare(tree.k, V(1), V(2))
          [] tree.k = "neg" -> IF V(1) = Null THEN Null ELSE Num(-V(1).v)
          [] tree.k = "COALESCE" -> IF V(1) = Null THEN V(2) ELSE V(1)
          [] tree.k = "CASE" -> IF V(1) = Yes THEN V(2) ELSE V(3)
          [] OTHER -> IF Null \in {V(1), V(2)} THEN Null ELSE Reckon(tree.k, V(1), V(2))

\* The rows of the table: every value of its columns, deleted or not.
Rows == [x : {Null, Num(0), Num(1)}, b : {Null, No, Yes}, is_deleted : {No, Yes}]

\* The rows a WHERE clause selects, or that PostgreSQL refuses it.
Select(sql, params) ==
    LET tree == SqlParse(sql)
    IN  IF tree = Bad \/ SqlType(tree, params) \notin {"bool", "null"} THEN [ok |-> FALSE, rows |-> {}]
        ELSE [ok |-> TRUE, rows |-> {r \in Rows : SqlValue(tree, r, params) = Yes}]
=============================================================================
