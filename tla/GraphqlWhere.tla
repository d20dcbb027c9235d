------------------------------ MODULE GraphqlWhere ------------------------------
(* The "where" argument of the GraphQL lists and counts of the Dataverse (graphql/filters.rs): an object
   of conditions per column and of the combinators _and, _or and _not is compiled into a WHERE clause
   with numbered parameters.  An object is a sequence of entries, in the order they were written. *)
EXTENDS SqlClause

CONSTANTS Wheres   \* the arguments that are asked for

VARIABLES where, phase, clause, found

whereVars == <<where, phase, clause, found>>

\* An entry: a combinator with its objects, or a column with its operators [op, val] or [op, list].
Combine(k, objects) == [k |-> k, objects |-> objects, ops |-> <<>>]
On(column, ops)     == [k |-> column, objects |-> <<>>, ops |-> ops]
Op(op, val)         == [op |-> op, val |-> val, list |-> <<>>]
OpList(op, list)    == [op |-> op, val |-> Null, list |-> list]

NoClause == [text |-> <<>>, params |-> <<>>]
NoRows   == [ok |-> TRUE, rows |-> {}]

WhereTypeOK ==
    /\ where \in Wheres
    /\ phase \in {"asked", "compiled", "answered", "refused"}
    /\ found.rows \subseteq Rows

WhereInit ==
    /\ where \in Wheres /\ phase = "asked"
    /\ clause = NoClause /\ found = NoRows

-----------------------------------------------------------------------------
SqlOf == [_eq |-> "=", _ne |-> "<>", _gt |-> ">", _gte |-> ">=", _lt |-> "<", _lte |-> "<="]
\* Mutant: nested objects are written without parentheses.
Parens_None(text) == text

Parens(text) == <<Tok("(")>> \o text \o <<Tok(")")>>

RECURSIVE Joined(_, _)
Joined(texts, glue) ==
    CASE texts = <<>> -> <<>>
      [] Len(texts) = 1 -> Head(texts)
      [] OTHER -> Head(texts) \o <<Tok(glue)>> \o Joined(Tail(texts), glue)

\* compile_operator.  A list is bound as one parameter; here it is spelled out as comparisons.
Operator(column, o, params) ==
    LET word(ts) == <<Tok(column)>> \o ts
        next     == Len(params) + 1
        none(ts) == [text |-> ts, params |-> params]
        each(op, glue) == [text |-> Parens(Joined([i \in 1..Len(o.list) |-> word(<<Tok(op), Mark(Len(params) + i)>>)], glue)),
                           params |-> params \o o.list]
    IN  CASE o.op = "_isNull" -> none(word(IF o.val = Yes THEN <<Tok("IS"), Tok("NULL")>>
                                           ELSE <<Tok("IS"), Tok("NOT"), Tok("NULL")>>))
          [] o.op = "_in"  -> IF o.list = <<>> THEN none(<<Tok("FALSE")>>) ELSE each("=", "OR")
          [] o.op = "_nin" -> IF o.list = <<>> THEN none(<<Tok("TRUE")>>) ELSE each("<>", "AND")
          [] o.val = Null ->
               none(word(CASE o.op = "_eq" -> <<Tok("IS"), Tok("NULL")>>
                           [] o.op = "_ne" -> <<Tok("IS"), Tok("NOT"), Tok("NULL")>>
                           [] OTHER -> <<Tok(SqlOf[o.op]), Tok("NULL")>>))
          [] OTHER -> [text |-> word(<<Tok(SqlOf[o.op]), Mark(next)>>), params |-> Append(params, o.val)]

RECURSIVE Operators(_, _, _), Objects(_, _), Entries(_, _)
\* The texts of one after the other, each starting from the parameters of those before it.
Operators(column, ops, params) ==
    IF ops = <<>> THEN [texts |-> <<>>, params |-> params]
    ELSE LET first == Operator(column, Head(ops), params)
             rest  == Operators(column, Tail(ops), first.params)
         IN  [texts |-> <<first.text>> \o rest.texts, params |-> rest.params]

\* Mutant: an object that says nothing leaves no text.
Compile_Empty(object, params) ==
    LET all == Entries(object, params)
    IN  [text |-> Joined(all.texts, "AND"), params |-> all.params]

\* compile_where on one object: nothing to say is TRUE.
Compile(object, params) ==
    LET all == Entries(object, params)
    IN  [text |-> IF all.texts = <<>> THEN <<Tok("TRUE")>> ELSE Joined(all.texts, "AND"),
         params |-> all.params]

Objects(objects, params) ==
    IF objects = <<>> THEN [texts |-> <<>>, params |-> params]
    ELSE LET first == Compile(Head(objects), params)
             rest  == Objects(Tail(objects), first.params)
         IN  [texts |-> <<first.text>> \o rest.texts, params |-> rest.params]

\* An empty list of operators or of objects leaves no text.
Entry(e, params) ==
    IF e.k \in {"_and", "_or", "_not"}
    THEN LET all == Objects(e.objects, params)
         IN  [params |-> all.params,
              texts |-> IF all.texts = <<>> THEN <<>>
                        ELSE CASE e.k = "_and" -> <<Parens(Joined(all.texts, "AND"))>>
                               [] e.k = "_or" -> <<Parens(Joined(all.texts, "OR"))>>
                               [] OTHER -> <<<<Tok("NOT")>> \o Parens(all.texts[1])>>]
    ELSE LET all == Operators(e.k, e.ops, params)
         IN  [params |-> all.params,
              texts |-> IF all.texts = <<>> THEN <<>> ELSE <<Joined(all.texts, "AND")>>]

Entries(object, params) ==
    IF object = <<>> THEN [texts |-> <<>>, params |-> params]
    ELSE LET first == Entry(Head(object), params)
             rest  == Entries(Tail(object), first.params)
         IN  [texts |-> first.texts \o rest.texts, params |-> rest.params]

\* where_fragment: an empty object at the root is no WHERE at all.
CompileWhere ==
    /\ phase = "asked" /\ phase' = "compiled"
    /\ clause' = IF where = <<>> THEN [text |-> <<Tok("TRUE")>>, params |-> <<>>] ELSE Compile(where, <<>>)
    /\ UNCHANGED <<where, found>>

\* run_list, run_count: the clause alone; nothing is said about deleted rows.
RunList ==
    /\ phase = "compiled" /\ phase' = "answered"
    /\ found' = Select(clause.text, clause.params)
    /\ UNCHANGED <<where, clause>>

WhereNext == CompileWhere \/ RunList
WhereSpec == WhereInit /\ [][WhereNext]_whereVars

-----------------------------------------------------------------------------
(* What the header of filters.rs promises: conditions on one column and entries of one object are
   all required; three-valued, as in SQL. *)
All3(S) == IF No \in S THEN No ELSE IF Null \in S THEN Null ELSE Yes
Any3(S) == IF Yes \in S THEN Yes ELSE IF Null \in S THEN Null ELSE No
Not3(v) == IF v = Null THEN Null ELSE Truth(v = No)
Member(v, list) == Any3({IF v = Null THEN Null ELSE Truth(v = list[i]) : i \in 1..Len(list)})

Holds(v, o) ==
    CASE o.op = "_isNull" -> Truth((v = Null) = (o.val = Yes))
      [] o.op = "_in" -> Member(v, o.list)
      [] o.op = "_nin" -> Not3(Member(v, o.list))
      [] o.val = Null -> CASE o.op = "_eq" -> Truth(v = Null) [] o.op = "_ne" -> Truth(v # Null) [] OTHER -> Null
      [] OTHER -> IF v = Null THEN Null ELSE Compare(SqlOf[o.op], v, o.val)

RECURSIVE Meaning(_, _)
Meaning(object, row) ==
    All3({LET e == object[i]
              parts == {Meaning(e.objects[j], row) : j \in 1..Len(e.objects)}
          IN  CASE e.k = "_and" -> All3(parts)
                [] e.k = "_or" -> IF parts = {} THEN Yes ELSE Any3(parts)
                [] e.k = "_not" -> Not3(All3(parts))
                [] OTHER -> All3({Holds(row[e.k], e.ops[j]) : j \in 1..Len(e.ops)})
          : i \in 1..Len(object)})

(* filters.rs:1-11: whatever is nested in what, the rows a GraphQL list returns and a count counts are
   those the object means, and PostgreSQL never refuses the clause. *)
WhereIsMeant ==
    phase = "answered" => found = [ok |-> TRUE, rows |-> {r \in Rows : Meaning(where, r) = Yes}]
=============================================================================
