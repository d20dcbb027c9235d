---------------------------- MODULE DataverseFilter ----------------------------
(* A $filter of the Dataverse (hr-dvexpr and query.rs), from its tokens to the rows: parse, type check,
   emission of SQL with parameters, and the WHERE clause of build_list_sql.  Modelled on integers and
   booleans; text, floats, times and the functions on them are left out, and so is division, which
   the evaluator does on floats and PostgreSQL on integers.

   Each stage is a step, so that the run checks what every stage makes of every source. *)
EXTENDS SqlClause

CONSTANTS Sources   \* the token sequences that are asked for

VARIABLES
    source,    \* the tokens of the filter
    deleted,   \* $includeDeleted
    stage,     \* "source", "parsed", "typed", "emitted", "answered" or "refused"
    tree,      \* what the parser made of it
    sql,       \* the WHERE clause and its parameters
    answer     \* what PostgreSQL answers

vars == <<source, deleted, stage, tree, sql, answer>>

NoSql    == [text |-> <<>>, params |-> <<>>, ok |-> TRUE]
NoAnswer == [ok |-> TRUE, rows |-> {}]

TypeOK ==
    /\ source \in Sources /\ deleted \in BOOLEAN
    /\ stage \in {"source", "parsed", "typed", "emitted", "answered", "refused"}
    /\ answer.rows \subseteq Rows

Init ==
    /\ source \in Sources /\ deleted \in BOOLEAN /\ stage = "source"
    /\ tree = Bad /\ sql = NoSql /\ answer = NoAnswer

-----------------------------------------------------------------------------
(* parser.rs: one function per level; comparisons do not chain, "??" binds tighter than a sign. *)
ExprOps   == [or |-> {"||"}, and |-> {"&&"}, add |-> {"+", "-"}, mul |-> {"*"}, post |-> {"??"}]
CmpTokens == {"==", "!=", "<", "<=", ">", ">="}
\* Mutant: products bind looser than sums.
Tighter_Swapped == [or |-> "and", and |-> "cmp", cmp |-> "mul", mul |-> "add", add |-> "unary",
                    unary |-> "post", post |-> "primary"]

Tighter   == [or |-> "and", and |-> "cmp", cmp |-> "add", add |-> "mul", mul |-> "unary",
              unary |-> "post", post |-> "primary"]

RECURSIVE ParseAt(_, _, _), ParseTail(_, _, _), ParseArgs(_, _)

ParseTail(s, level, got) ==
    IF got.at = 0 \/ Peek(s, got.at) \notin ExprOps[level] THEN got
    ELSE LET r == ParseAt(s, Tighter[level], got.at + 1)
         IN  IF r.at = 0 THEN Failed
             ELSE ParseTail(s, level, Got(Node(s[got.at].t, <<got.tree, r.tree>>), r.at))

\* Arguments, separated by commas, up to the closing parenthesis.
ParseArgs(s, got) ==
    LET r == ParseAt(s, "or", got.at)
        all == Node(got.tree.k, Append(got.tree.a, r.tree))
    IN  CASE r.at = 0 -> Failed
          [] Peek(s, r.at) = "," -> ParseArgs(s, Got(all, r.at + 1))
          [] Peek(s, r.at) = ")" -> Got(all, r.at + 1)
          [] OTHER -> Failed

ParsePrimary(s, i) ==
    CASE Peek(s, i) = "int" -> Got(Lit(Num(s[i].n)), i + 1)
      [] Peek(s, i) = "true" -> Got(Lit(Yes), i + 1)
      [] Peek(s, i) = "false" -> Got(Lit(No), i + 1)
      [] Peek(s, i) = "null" -> Got(Lit(Null), i + 1)
      [] Peek(s, i) = "(" ->
           LET r == ParseAt(s, "or", i + 1)
           IN  IF r.at # 0 /\ Peek(s, r.at) = ")" THEN Got(r.tree, r.at + 1) ELSE Failed
      [] Peek(s, i) \in {"if", "COALESCE"} /\ Peek(s, i + 1) = "(" ->
           ParseArgs(s, Got(Node(s[i].t, <<>>), i + 2))
      [] Peek(s, i) = "now" -> Got(Node("now", <<>>), i + 1)
      [] Peek(s, i) \in {"x", "b", "ghost"} -> Got(Col(s[i].t), i + 1)
      [] OTHER -> Failed

ParseAt(s, level, i) ==
    CASE level \in {"or", "and", "add", "mul", "post"} ->
           ParseTail(s, level, ParseAt(s, Tighter[level], i))
      [] level = "cmp" ->
           LET l == ParseAt(s, Tighter["cmp"], i)
           IN  IF l.at = 0 \/ Peek(s, l.at) \notin CmpTokens THEN l
               ELSE LET r == ParseAt(s, Tighter["cmp"], l.at + 1)
                    IN  IF r.at = 0 THEN Failed ELSE Got(Node(s[l.at].t, <<l.tree, r.tree>>), r.at)
      [] level = "unary" /\ Peek(s, i) \in {"-", "!"} ->
           LET r == ParseAt(s, "unary", i + 1)
           IN  IF r.at = 0 THEN Failed
               ELSE Got(Node(IF s[i].t = "-" THEN "neg" ELSE "!", <<r.tree>>), r.at)
      [] level = "unary" -> ParseAt(s, "post", i)
      [] OTHER -> ParsePrimary(s, i)

Parse ==
    /\ stage = "source"
    /\ LET r == ParseAt(source, "or", 1)
       IN  IF r.at = Len(source) + 1 THEN stage' = "parsed" /\ tree' = r.tree
           ELSE stage' = "refused" /\ UNCHANGED tree
    /\ UNCHANGED <<source, deleted, sql, answer>>

-----------------------------------------------------------------------------
(* checker.rs *)
Arithmetic == {"+", "-", "*"}
\* Mutant: any two types go together.
Unify_Any(s, t) == IF s = "null" THEN t ELSE s

Unify(s, t) ==
    CASE "bad" \in {s, t} -> "bad" [] s = t -> s [] s = "null" -> t [] t = "null" -> s [] OTHER -> "bad"

\* check_binary: the type of an operation on operands of two types.
BinaryType(k, s, t) ==
    LET Both(ty) == {s, t} \subseteq {ty, "null"}
    IN  CASE k \in Arithmetic -> IF Both("int") THEN Unify(s, t) ELSE "bad"
          [] k \in {"==", "!="} -> IF Unify(s, t) # "bad" THEN "bool" ELSE "bad"
          [] k \in CmpTokens ->
               IF "bad" \notin {s, t} /\ ("null" \in {s, t} \/ Both("int") \/ Both("time")) THEN "bool" ELSE "bad"
          [] k \in {"||", "&&"} -> IF Both("bool") THEN "bool" ELSE "bad"
          [] OTHER -> Unify(s, t)

RECURSIVE TypeOf(_)
TypeOf(e) ==
    LET T(j) == TypeOf(e.a[j])
    IN  CASE e.k = "lit" -> e.v.t
          [] e.k = "col" -> IF e.c \in DOMAIN ColType THEN ColType[e.c] ELSE "bad"
          [] e.k = "now" -> "time"
          [] e.k = "neg" -> IF T(1) \in {"int", "null"} THEN T(1) ELSE "bad"
          [] e.k = "!" -> IF T(1) \in {"bool", "null"} THEN "bool" ELSE "bad"
          [] e.k = "if" ->
               IF Len(e.a) = 3 /\ T(1) \in {"bool", "null"} THEN Unify(T(2), T(3)) ELSE "bad"
          [] e.k = "COALESCE" /\ Len(e.a) # 2 -> "bad"
          [] OTHER -> BinaryType(e.k, T(1), T(2))

\* A filter must be a boolean, or null.
Check ==
    /\ stage = "parsed"
    /\ stage' = IF TypeOf(tree) \in {"bool", "null"} THEN "typed" ELSE "refused"
    /\ UNCHANGED <<source, deleted, tree, sql, answer>>

-----------------------------------------------------------------------------
(* sql.rs: every literal becomes a parameter, every operand is put in parentheses.  The operators of
   the language and those of SQL, and the comparisons with a literal null: *)
SqlName(k) ==
    CASE k = "||" -> "OR" [] k = "&&" -> "AND" [] k = "==" -> "=" [] k = "!=" -> "<>" [] OTHER -> k
\* Mutant: operands are written without parentheses.
Braces_None(text) == text

Braces(text) == <<Tok("(")>> \o text \o <<Tok(")")>>
\* Mutant: a literal null is compared as any other.
IsNull_Never(e) == e.k = "no literal"

IsNull(e)    == e = Lit(Null)

RECURSIVE EmitAll(_, _), Emit(_, _)
\* The texts of several operands, their parameters numbered in turn.
EmitAll(es, params) ==
    IF es = <<>> THEN [texts |-> <<>>, params |-> params, ok |-> TRUE]
    ELSE LET first == Emit(Head(es), params)
             rest  == EmitAll(Tail(es), first.params)
         IN  [texts |-> <<first.text>> \o rest.texts, params |-> rest.params,
              ok |-> first.ok /\ rest.ok]

Emit(e, params) ==
    LET all == EmitAll(e.a, params)
        Text(t) == [text |-> t, params |-> all.params, ok |-> all.ok]
        Tested(j) == LET one == Emit(e.a[j], params)
                     IN  [one EXCEPT !.text = Braces(@) \o <<Tok("IS")>>
                            \o (IF e.k = "==" THEN <<>> ELSE <<Tok("NOT")>>) \o <<Tok("NULL")>>]
    IN  CASE e.k = "lit" ->
               [text |-> <<Mark(Len(params) + 1)>>, params |-> Append(params, e.v), ok |-> TRUE]
          [] e.k = "col" -> [text |-> <<Tok(e.c)>>, params |-> params, ok |-> TRUE]
          [] e.k = "now" -> [text |-> <<>>, params |-> params, ok |-> FALSE]
          [] e.k \in {"==", "!="} /\ IsNull(e.a[1]) /\ IsNull(e.a[2]) ->
               [text |-> <<Tok(IF e.k = "==" THEN "TRUE" ELSE "FALSE")>>, params |-> params, ok |-> TRUE]
          [] e.k \in {"==", "!="} /\ IsNull(e.a[2]) -> Tested(1)
          [] e.k \in {"==", "!="} /\ IsNull(e.a[1]) -> Tested(2)
          [] e.k = "neg" -> Text(Braces(<<Tok("-")>> \o Braces(all.texts[1])))
          [] e.k = "!" -> Text(Braces(<<Tok("NOT")>> \o Braces(all.texts[1])))
          [] e.k = "if" ->
               Text(Braces(<<Tok("CASE"), Tok("WHEN")>> \o all.texts[1] \o <<Tok("THEN")>> \o all.texts[2]
                           \o <<Tok("ELSE")>> \o all.texts[3] \o <<Tok("END")>>))
          [] e.k \in {"??", "COALESCE"} ->
               Text(<<Tok("COALESCE"), Tok("(")>> \o all.texts[1] \o <<Tok(",")>> \o all.texts[2] \o <<Tok(")")>>)
          [] OTHER -> Text(Braces(all.texts[1]) \o <<Tok(SqlName(e.k))>> \o Braces(all.texts[2]))

\* build_list_sql: the soft-delete predicate and the filter, joined by AND.
\* Mutant: the option is taken the other way round.
Clause_Inverted(filter, withDeleted) ==
    IF withDeleted THEN <<Tok("is_deleted"), Tok("="), Tok("FALSE"), Tok("AND")>> \o filter ELSE filter

Clause(filter, withDeleted) ==
    IF withDeleted THEN filter ELSE <<Tok("is_deleted"), Tok("="), Tok("FALSE"), Tok("AND")>> \o filter

\* The times of the context are never provided: a filter that uses one is refused here.
Build ==
    /\ stage = "typed"
    /\ LET out == Emit(tree, <<>>)
       IN  IF out.ok THEN stage' = "emitted" /\ sql' = [out EXCEPT !.text = Clause(@, deleted)]
           ELSE stage' = "refused" /\ UNCHANGED sql
    /\ UNCHANGED <<source, deleted, tree, answer>>

Query ==
    /\ stage = "emitted" /\ stage' = "answered"
    /\ answer' = Select(sql.text, sql.params)
    /\ UNCHANGED <<source, deleted, tree, sql>>

Ask == Parse \/ Check \/ Build \/ Query

Spec == Init /\ [][Ask]_vars

-----------------------------------------------------------------------------
(* eval.rs: what the language means, on one row.  "stuck" is an operation the evaluator refuses. *)
Stuck == [t |-> "stuck", v |-> 0]
CmpName(k) == CASE k = "==" -> "=" [] k = "!=" -> "<>" [] OTHER -> k

RECURSIVE Eval(_, _)
Eval(e, row) ==
    LET V(j) == Eval(e.a[j], row)
        Nulls == Null \in {V(1), V(2)}
        Same(ty) == V(1).t = ty /\ V(2).t = ty
    IN  CASE e.k = "lit" -> e.v
          [] e.k = "col" -> row[e.c]
          [] e.k = "neg" -> IF V(1) = Null THEN Null ELSE IF V(1).t = "int" THEN Num(-V(1).v) ELSE Stuck
          [] e.k = "!" -> IF V(1) = Null THEN Null ELSE IF V(1).t = "bool" THEN Truth(V(1) = No) ELSE Stuck
          [] e.k = "if" ->
               IF V(1) = Yes THEN V(2) ELSE IF V(1) \in {No, Null} THEN V(3) ELSE Stuck
          [] e.k \in {"??", "COALESCE"} -> IF V(1) = Null THEN V(2) ELSE V(1)
          [] Stuck \in {V(1), V(2)} -> Stuck
          [] e.k = "&&" /\ Nulls -> IF No \in {V(1), V(2)} THEN No ELSE Null
          [] e.k = "||" /\ Nulls -> IF Yes \in {V(1), V(2)} THEN Yes ELSE Null
          [] Nulls -> Null
          [] e.k \in Arithmetic -> IF Same("int") THEN Reckon(e.k, V(1), V(2)) ELSE Stuck
          [] e.k \in CmpTokens -> IF Same("int") \/ Same("bool") THEN Compare(CmpName(e.k), V(1), V(2)) ELSE Stuck
          [] ~Same("bool") -> Stuck
          [] e.k = "&&" -> Truth(V(1) = Yes /\ V(2) = Yes)
          [] OTHER -> Truth(V(1) = Yes \/ V(2) = Yes)

RECURSIVE HasNull(_)
HasNull(e) == IsNull(e) \/ \E j \in 1..Len(e.a) : HasNull(e.a[j])

(* checker.rs, eval.rs: a filter the checker accepts never makes the evaluator stuck, on any row, and
   has the type the checker gave it. *)
TypesAreSound ==
    stage \in {"emitted", "answered"} =>
        \A r \in Rows : Eval(tree, r).t \in {"null", TypeOf(tree)}

(* parser.rs, sql.rs, query.rs: a filter without a literal null selects exactly the rows that are
   not deleted (or all, with $includeDeleted) and on which the language says true.  Not so if the
   filter is a disjunction at its root: the clause is not put in parentheses, so that a deleted row
   on which its last operand is true is selected, against query.rs:8-9. *)
FilterIsMeant ==
    stage = "answered" /\ ~HasNull(tree) /\ (deleted \/ tree.k # "||") =>
        answer = [ok |-> TRUE,
                  rows |-> {r \in Rows : (deleted \/ r.is_deleted = No) /\ Eval(tree, r) = Yes}]

(* sql.rs:92-97: a comparison with the literal null tests for null, as its users mean it. *)
NullIsTested ==
    stage = "answered" /\ tree.k \in {"==", "!="} /\ tree.a[1].k = "col" /\ IsNull(tree.a[2]) =>
        answer.rows = {r \in Rows : (deleted \/ r.is_deleted = No) /\ (r[tree.a[1].c] = Null) = (tree.k = "==")}

\* ast.rs (BinOp::precedence): the root of a chain of operators is its last one that binds loosest.
Precedence(op) ==
    CASE op = "||" -> 1 [] op = "&&" -> 2 [] op \in CmpTokens -> 3 [] op = "??" -> 4
      [] op \in {"+", "-"} -> 5 [] OTHER -> 6
RECURSIVE ByPrecedence(_)
ByPrecedence(s) ==
    IF Len(s) = 1 THEN ParsePrimary(s, 1).tree
    ELSE LET ops   == {i \in 1..Len(s) : i % 2 = 0}
             least == {i \in ops : \A j \in ops : Precedence(s[i].t) <= Precedence(s[j].t)}
             root  == CHOOSE i \in least : \A j \in least : j <= i
         IN  Node(s[root].t, <<ByPrecedence(SubSeq(s, 1, root - 1)), ByPrecedence(SubSeq(s, root + 1, Len(s)))>>)

Operands == {"x", "b", "int", "true", "false", "null"}
IsChain(s) ==
    /\ \A i \in 1..Len(s) : s[i].t \in IF i % 2 = 1 THEN Operands ELSE {"||", "&&", "+", "-", "*"} \cup CmpTokens
    /\ Len(s) % 2 = 1

(* parser.rs, ast.rs:23: operators without parentheses group by the precedence that ast.rs declares,
   equal ones to the left; "??" is the exception, which the parser binds tighter than declared. *)
GroupsAsDeclared == stage = "parsed" /\ IsChain(source) => tree = ByPrecedence(source)

(* The promises about a $filter. *)
FiltersHold == TypesAreSound /\ FilterIsMeant /\ NullIsTested /\ GroupsAsDeclared
=============================================================================
