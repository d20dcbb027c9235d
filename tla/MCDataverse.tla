------------------------------ MODULE MCDataverse ------------------------------
(* One run for the data of an application: the changes of a row, those of a schema, the migration, the
   secrets, the two languages of queries, and the documentation.  They share no state here; the
   initial state picks the part that moves, so that the numbers of states add up instead of
   multiplying.  All properties are safety properties. *)
EXTENDS DataverseRows, DataverseSchema, DataverseSecrets, DocsIndex, DataverseMigration, TLC

CONSTANTS c1, c2, t1, t2
VARIABLES part
VARIABLES filter, deleted, stage, tree, sql, answer, where, asked, clause, found

-----------------------------------------------------------------------------
(* The filters that are asked for: two operators, in each way of grouping, on operands of each type,
   some with a sign; conditionals; chains of three operators; and some that are refused. *)
Word(t)    == [t |-> t, n |-> 0]
One        == [t |-> "int", n |-> 1]
Binary     == {Word(o) : o \in {"||", "&&", "==", "<", "+", "??"}}
Chained    == Binary \cup {Word("*")}
Operand    == {Word("x"), Word("b"), One, Word("true"), Word("null")}
Signed     == {<<a>> : a \in Operand} \cup {<<Word("!"), Word("b")>>, <<Word("-"), Word("x")>>}
Pair       == {<<a, o, b>> : a \in Operand, o \in Binary, b \in Operand \ {Word("true")}}
Group(s)   == <<Word("(")>> \o s \o <<Word(")")>>
Filters ==
    {<<>>, <<Word("now"), Word("<"), Word("now")>>, <<Word("ghost")>>, <<Word("b"), Word("b")>>,
     <<Word("COALESCE"), Word("("), Word("b"), Word(","), Word("true"), Word(")")>>}
    \cup {a \o <<o>> \o p : a \in Signed, o \in Binary, p \in Pair}
    \cup {Group(p) \o <<o, b>> : p \in Pair, o \in Binary, b \in {Word("x"), Word("b")}}
    \cup {a \o <<o>> \o Group(p) : a \in Signed, o \in Binary, p \in Pair}
    \cup {<<Word("!")>> \o Group(p) : p \in Pair}
    \cup {<<Word("x"), o, Word("x"), p, One, q, One>> : o \in Binary, p \in Chained, q \in Chained}
    \cup {<<Word("if"), Word("(")>> \o p \o <<Word(","), a, Word(","), b, Word(")")>> :
             p \in Pair, a \in Operand, b \in Operand}

Filter == INSTANCE DataverseFilter WITH Sources <- Filters, source <- filter
Where0 == INSTANCE GraphqlWhere WITH Wheres <- {}, phase <- asked

\* The objects that are asked for: conditions on one column or two, in combinators one or two deep.
Conditions ==
    {Where0!Op("_eq", Where0!Num(1)), Where0!Op("_ne", Where0!Null), Where0!Op("_lt", Where0!Num(1)),
     Where0!Op("_gte", Where0!Null), Where0!Op("_isNull", Where0!Yes), Where0!OpList("_in", <<>>),
     Where0!OpList("_in", <<Where0!Num(0), Where0!Num(1)>>), Where0!OpList("_nin", <<Where0!Num(0)>>),
     Where0!OpList("_nin", <<>>)}
OnX == {<<Where0!On("x", <<o>>)>> : o \in Conditions}
       \cup {<<Where0!On("x", <<Where0!Op("_ne", Where0!Num(1)), o>>)>> : o \in Conditions}
       \cup {<<Where0!On("x", <<>>)>>}
OnB == {<<>>, <<Where0!On("b", <<Where0!Op("_eq", Where0!Yes)>>)>>}
Flat == {x \o b : x \in OnX, b \in OnB} \cup OnB
Nested ==
    {<<Where0!Combine(k, <<p, q>>)>> \o r : k \in {"_or", "_and"}, p \in Flat, q \in Flat,
                                       r \in {<<>>, <<Where0!On("x", <<Where0!Op("_gt", Where0!Num(0))>>)>>}}
    \cup {<<Where0!Combine("_not", <<p>>)>> : p \in Flat}
    \cup {<<Where0!Combine(k, <<>>)>> : k \in {"_or", "_and"}}
Negated == {<<Where0!Combine("_not", <<n>>)>> : n \in Nested}

Wheres == Flat \cup Nested \cup Negated

Where == INSTANCE GraphqlWhere WITH Wheres <- Wheres, phase <- asked

-----------------------------------------------------------------------------
filterVars == <<filter, deleted, stage, tree, sql, answer>>
whereVars == <<where, asked, clause, found>>
sumVars == <<part, vars, schemaVars, migrationVars, secretsVars, filterVars, whereVars, docsVars>>

\* The parts that do not move start in one of their initial states.
SumInit ==
    /\ part \in {"rows", "schema", "migration", "secrets", "filter", "where", "docs"}
    /\ Init /\ SchemaInit /\ MigrationInit /\ SecretsInit
    /\ DocsInit
    /\ part # "docs" => meta = "nodir"
    /\ part # "schema" => tables = {}
    /\ part # "migration" => ~db /\ \A t \in {t1, t2} : source[t] = 0
    /\ part # "secrets" => \A t \in {t1, t2} : env[t] = 0 /\ file.apps[t].uuid = 0
    /\ IF part = "filter" THEN Filter!Init
       ELSE /\ filter = <<>> /\ deleted = FALSE /\ stage = "source"
            /\ tree = Filter!Bad /\ sql = Filter!NoSql /\ answer = Filter!NoAnswer
    /\ IF part = "where" THEN Where!WhereInit
       ELSE where = <<>> /\ asked = "asked" /\ clause = Where!NoClause /\ found = Where!NoRows

RowsPart      == part = "rows"      /\ UNCHANGED <<part, schemaVars, migrationVars, secretsVars, filterVars, whereVars, docsVars>>
SchemaPart    == part = "schema"    /\ UNCHANGED <<part, vars, migrationVars, secretsVars, filterVars, whereVars, docsVars>>
MigrationPart == part = "migration" /\ UNCHANGED <<part, vars, schemaVars, secretsVars, filterVars, whereVars, docsVars>>
SecretsPart   == part = "secrets"   /\ UNCHANGED <<part, vars, schemaVars, migrationVars, filterVars, whereVars, docsVars>>
FilterPart    == part = "filter"    /\ UNCHANGED <<part, vars, schemaVars, migrationVars, secretsVars, whereVars, docsVars>>
WherePart     == part = "where"     /\ UNCHANGED <<part, vars, schemaVars, migrationVars, secretsVars, filterVars, docsVars>>
DocsPart      == part = "docs"      /\ UNCHANGED <<part, vars, schemaVars, migrationVars, secretsVars, filterVars, whereVars>>

SumNext ==
    \/ RowsPart /\ Next
    \/ SchemaPart /\ SchemaNext
    \/ MigrationPart /\ MigrationNext
    \/ SecretsPart /\ SecretsNext
    \/ FilterPart /\ Filter!Ask
    \/ WherePart /\ Where!WhereNext
    \/ DocsPart /\ DocsNext

SumSpec == SumInit /\ [][SumNext]_sumVars

\* Requests are interchangeable, and so are tables and applications.
Symmetry == Permutations({c1, c2}) \cup Permutations({t1, t2})

(* The types of the parts; the counts of a schema and the numbers of a row keep their limits. *)
PartsTypeOK ==
    CASE part = "rows" -> TypeOK [] part = "schema" -> SchemaTypeOK
      [] part = "migration" -> MigrationTypeOK [] part = "secrets" -> SecretsTypeOK
      [] part = "filter" -> Filter!TypeOK [] part = "where" -> Where!WhereTypeOK [] OTHER -> DocsTypeOK
(* Queries (hr-dvexpr, build_list_sql, graphql/filters.rs): what is asked for is what is selected. *)
QueriesAreMeant == IF part = "filter" THEN Filter!FiltersHold ELSE part = "where" => Where!WhereIsMeant
=============================================================================
