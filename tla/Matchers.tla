------------------------------- MODULE Matchers --------------------------------
(***************************************************************************)
(* Which responses of a service fire a trigger (MojoMatcher.cpp and        *)
(* MojoWhereMatcher.cpp).                                                  *)
(*                                                                         *)
(* A JSON value is an integer, an array or an object.  A where statement   *)
(* is an array of clauses, an "and", an "or", or a comparison of what a    *)
(* property's path leads to; the path is an array of keys, or one key.     *)
(***************************************************************************)
EXTENDS Integers, Sequences

Number(n)       == [type |-> "int", value |-> n]
ArrayOf(items) == [type |-> "array", items |-> items]
Object(props)  == [type |-> "object", props |-> props]

All(clauses) == [kind |-> "array", of |-> clauses]
And(clause)  == [kind |-> "and", of |-> clause]
Or(clause)   == [kind |-> "or", of |-> clause]
Prop(path, op, val) == [kind |-> "prop", path |-> path, single |-> FALSE, op |-> op, val |-> val]
Key(key, op, val) == [Prop(<<key>>, op, val) EXCEPT !.single = TRUE]

\* MojObject's order: by type, and then by value.
Rank == [object |-> 0, array |-> 1, int |-> 2]

Precedes(x, y) ==
  IF x.type = "int" /\ y.type = "int" THEN x.value < y.value
  ELSE Rank[x.type] < Rank[y.type]

Has(v, key) == v.type = "object" /\ key \in DOMAIN v.props

-----------------------------------------------------------------------------
(* MojoNewWhereMatcher.                                                    *)

Ops == {"<", "<=", "=", "!=", ">=", ">", "where"}

\* ValidateClauses: what the constructor accepts.
RECURSIVE Valid(_)
Valid(c) ==
  CASE c.kind = "array"       -> \A i \in DOMAIN c.of : Valid(c.of[i])
    [] c.kind \in {"and", "or"} -> Valid(c.of)
    [] c.kind = "prop"        -> c.op \in Ops /\ (c.op = "where" => Valid(c.val))
    [] OTHER                  -> FALSE

\* What the results of an array's members come to.
Together(mode, results) ==
  IF (mode = "and" /\ results \subseteq {"Matched"}) \/ (mode = "or" /\ "Matched" \in results)
  THEN "Matched" ELSE "NotMatched"

RECURSIVE CheckClause(_, _, _), CheckProperty(_, _, _, _), CheckMatch(_, _)

\* A nested where passes as long as its clause has a result: NoProperty is the
\* enumerator that counts as false.
CheckMatch(rhs, c) ==
  LET val    == c.val
      result ==
        CASE c.op = "<"  -> Precedes(rhs, val)
          [] c.op = "<=" -> Precedes(rhs, val) \/ rhs = val
          [] c.op = "="  -> rhs = val
          [] c.op = "!=" -> rhs # val
          [] c.op = ">=" -> Precedes(val, rhs) \/ rhs = val
          [] c.op = ">"  -> Precedes(val, rhs)
          [] c.op = "where" -> CheckClause(val, rhs, "and") # "NoProperty"
  IN IF result THEN "Matched" ELSE "NotMatched"

\* Mutant of CheckProperty: of an array the first member decides.
CheckPropertyFirst(path, v, c, mode) ==
  IF path = << >> THEN CheckMatch(v, c)
  ELSE IF v.type = "array" /\ ~c.single
    THEN IF v.items = << >> THEN "NoProperty" ELSE CheckProperty(path, v.items[1], c, mode)
  ELSE IF Has(v, Head(path)) THEN CheckProperty(Tail(path), v.props[Head(path)], c, mode)
  ELSE "NoProperty"

\* Down the path; an array on the way stands for its members.
CheckProperty(path, v, c, mode) ==
  IF path = << >> THEN CheckMatch(v, c)
  ELSE IF v.type = "array" /\ ~c.single
    THEN Together(mode, {CheckProperty(path, v.items[i], c, mode) : i \in DOMAIN v.items})
  ELSE IF Has(v, Head(path)) THEN CheckProperty(Tail(path), v.props[Head(path)], c, mode)
  ELSE "NoProperty"

CheckClause(c, response, mode) ==
  CASE c.kind = "array" ->
         Together(mode, {CheckClause(c.of[i], response, mode) : i \in DOMAIN c.of})
    [] c.kind \in {"and", "or"} -> CheckClause(c.of, response, c.kind)
    [] c.kind = "prop" -> CheckProperty(c.path, response, c, mode)

-----------------------------------------------------------------------------
(* The matchers; simple is MojoSimpleMatcher::m_setupComplete.             *)

Match(m, setupComplete, response) ==
  CASE m.kind = "simple"  -> setupComplete
    [] m.kind = "key"     -> Has(response, m.key)
    [] m.kind = "compare" -> Has(response, m.key) /\ response.props[m.key] # m.value
    [] m.kind = "where"   -> CheckClause(m.where, response, "and") = "Matched"

-----------------------------------------------------------------------------
(* What a where statement asks for, without an order of evaluation and     *)
(* without results that are neither yes nor no.                            *)

\* Where a path leads: values, and "missing" where there is none.
RECURSIVE Leads(_, _, _)
Leads(path, v, single) ==
  IF path = << >> THEN {<< v >>}
  ELSE IF v.type = "array" /\ ~single
    THEN UNION {Leads(path, v.items[i], single) : i \in DOMAIN v.items}
  ELSE IF Has(v, Head(path)) THEN Leads(Tail(path), v.props[Head(path)], single)
  ELSE {<< >>}

RECURSIVE Satisfies(_, _, _)
Satisfies(c, v, mode) ==
  LET Compares(x) ==
        CASE c.op = "where" -> Satisfies(c.val, x, "and")
          [] c.op = "="     -> x = c.val
          [] c.op = "!="    -> x # c.val
          [] c.op = "<"     -> Precedes(x, c.val)
          [] c.op = ">"     -> Precedes(c.val, x)
          [] c.op = "<="    -> x = c.val \/ Precedes(x, c.val)
          [] c.op = ">="    -> x = c.val \/ Precedes(c.val, x)
      Good(leaf) == leaf # << >> /\ Compares(leaf[1])
  IN CASE c.kind = "array" /\ mode = "and" -> \A i \in DOMAIN c.of : Satisfies(c.of[i], v, mode)
       [] c.kind = "array" /\ mode = "or"  -> \E i \in DOMAIN c.of : Satisfies(c.of[i], v, mode)
       [] c.kind \in {"and", "or"}         -> Satisfies(c.of, v, c.kind)
       [] c.kind = "prop" /\ mode = "and"  -> \A leaf \in Leads(c.path, v, c.single) : Good(leaf)
       [] c.kind = "prop" /\ mode = "or"   -> \E leaf \in Leads(c.path, v, c.single) : Good(leaf)
=============================================================================
