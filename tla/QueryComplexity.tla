-------------------------- MODULE QueryComplexity --------------------------
(***************************************************************************)
(* queryComplexity.ts: the cost of a query, and how a client writes one.   *)
(*                                                                         *)
(* A root field is [name, where, offset, order, fields].  A where is a     *)
(* sequence of entries: a filter has operators, _not, _and, _or and the    *)
(* name of a relation have conditions, each of them a where.  A field of a *)
(* selection is [name, arguments, fields]: how many of limit, order_by,    *)
(* offset and where it is given, and what is selected within.  A term of   *)
(* order_by has the same shape, and no arguments.                          *)
(***************************************************************************)
EXTENDS Integers, Sequences, FiniteSets, Sums

CONSTANTS
  Roots,       \* root fields in use
  Operators,   \* comparisons in use: [op, values, points], where values is the length of
               \* the list of _in, and points what a comparison is worth
  Offsets,     \* values in use of offset: an Int, of either sign
  MaxParts     \* bound: parts of a query, and how deep they are nested

Lists == {"_in", "_nin"}
Patterns == {"_ilike", "_like", "_nilike", "_nlike", "_nsimilar", "_similar"}

ASSUME QueryAssumption ==
  /\ Offsets \subseteq Int /\ MaxParts \in Nat \ {0}
  /\ \A o \in Operators :
       /\ o.values \in Nat
       /\ o.points = IF o.op \in Lists THEN o.values ELSE IF o.op \in Patterns THEN 2 ELSE 1

-----------------------------------------------------------------------------
(* The estimators                                                            *)
(*                                                                           *)
(* A definition marked "Mistake" is one the properties are sensitive to: no  *)
(* action uses it.                                                           *)

\* The wheres that are nested n deep at most.
Wheres[n \in 0..MaxParts] ==
  Seq([key : {"filter"}, operators : Seq(Operators)]
        \cup IF n = 0 THEN {}
             ELSE [key : {"_not", "_and", "_or", "relation"}, conditions : Seq(Wheres[n - 1])])

\* Mistake: a list costs as much as a single value.
OperatorCostWithoutLength(o) == IF o.op \in Patterns THEN 2 ELSE 1

OperatorCost(o) ==
  CASE o.op \in Lists -> o.values
    [] o.op \in Patterns -> 2
    [] OTHER -> 1

OperatorCosts(operators) ==
  Added([i \in DOMAIN operators |-> OperatorCost(operators[i])], Len(operators))

\* Mistake: of the conditions of `_or` only the last one counts.
EntryCostOfLast(e, cost) ==
  CASE e.key = "filter" -> OperatorCosts(e.operators)
    [] e.key = "_or" -> cost[e.conditions[Len(e.conditions)]]
    [] OTHER -> (IF e.key = "relation" THEN 1 ELSE 0)
                  + Added([i \in DOMAIN e.conditions |-> cost[e.conditions[i]]],
                          Len(e.conditions))

\* cost: of the conditions
EntryCost(e, cost) ==
  LET Conditions == Added([i \in DOMAIN e.conditions |-> cost[e.conditions[i]]],
                          Len(e.conditions))
  IN  CASE e.key = "filter" -> OperatorCosts(e.operators)
        [] e.key \in {"_not", "_and", "_or"} -> Conditions
        [] OTHER -> 1 + Conditions

WhereCosts[n \in 0..MaxParts] ==
  [where \in Wheres[n] |->
     Added([i \in DOMAIN where |-> EntryCost(where[i], WhereCosts[n - 1])], Len(where))]

WhereCost(where) == WhereCosts[MaxParts][where]

\* Math.ceil(offset / 100): negative from -100 down.
OffsetCost(offset) == (offset + 99) \div 100

\* The fields below a root field in use, and the terms of order_by.
Names == {"aggregate", "count", "max", "min", "sum", "summary", "initialized",
          "syncPercentage", "relation", "term"}

\* The selections, and orders, that are nested n deep at most.
Selections[n \in 0..MaxParts] ==
  IF n = 0 THEN {<<>>}
  ELSE Seq([name : Names, arguments : Nat, fields : Selections[n - 1]])

\* What fields cost that have each its price: nothing for their arguments.
Priced(price, fields) ==
  LET costs[n \in 0..MaxParts] ==
        [within \in Selections[n] |->
           Added([i \in DOMAIN within |->
                    price[within[i].name] + costs[n - 1][within[i].fields]], Len(within))]
  IN  costs[MaxParts][fields]

OrderCost(order) == Priced([name \in Names |-> 1], order)

\* Mistake: a count costs what a sum does.
FieldPriceOfCount(name) ==
  CASE name \in {"count", "max", "min", "sum"} -> 2
    [] name = "summary" -> 0
    [] OTHER -> 1

\* aggregateFieldsCosts; the summary of an address has the estimator of the root fields,
\* and with its one argument, atBlock, costs what is selected within; any other field
\* below the root costs 1.
FieldPrice(name) ==
  CASE name \in {"max", "min", "sum"} -> 2
    [] name = "summary" -> 0
    [] OTHER -> 1

SelectionCost(fields) == Priced([name \in Names |-> FieldPrice(name)], fields)

BaseCost(name) ==
  CASE name = "blocks_aggregate" -> 10
    [] name = "transactions_aggregate" -> 5
    [] name \in {"collateralInputs_aggregate", "collateralOutputs_aggregate",
                 "utxos_aggregate"} -> 4
    [] name = "stakePools_aggregate" -> 3
    [] name \in {"activeStake_aggregate", "assets_aggregate", "delegations_aggregate",
                 "epochs_aggregate", "redeemers_aggregate", "rewards_aggregate",
                 "scripts_aggregate", "stakeDeregistrations_aggregate",
                 "stakeRegistrations_aggregate", "tokenMints_aggregate",
                 "withdrawals_aggregate"} -> 2
    [] OTHER -> 1

RootCost(r) ==
  BaseCost(r.name) * ((SelectionCost(r.fields) + WhereCost(r.where))
                      * (OffsetCost(r.offset) + 1) * (OrderCost(r.order) + 1))

\* What the estimators make of a query, and the plugin compares with the limit: it is
\* negative when a root field's is, and then below any limit.
Cost(roots) == Added([i \in DOMAIN roots |-> RootCost(roots[i])], Len(roots))

Admitted(roots, limit) == Cost(roots) <= limit

-----------------------------------------------------------------------------
(* A client writes a query: the last root field is the one it works on       *)

VARIABLES
  query,       \* the root fields
  weights,     \* of each, what its parts add up to, counted as they are written
  parts        \* how many parts were written

queryVars == <<query, weights, parts>>

Within(name, fields) == [name |-> name, arguments |-> 0, fields |-> fields]
Leaf(name) == Within(name, <<>>)
Filter(o) == [key |-> "filter", operators |-> <<o>>]
Conditional(key, conditions) == [key |-> key, conditions |-> conditions]

QueryInit == query = <<>> /\ weights = <<>> /\ parts = 0

AddRoot(name) ==
  /\ query' = Append(query, [name |-> name, where |-> <<>>, offset |-> 0,
                             order |-> <<>>, fields |-> <<>>])
  /\ weights' = Append(weights, [conditions |-> 0, selected |-> 0, terms |-> 0, skipped |-> 0])

Newest == Len(query)
Part(part) == query[Newest][part]
Becomes(part, new) == query' = [query EXCEPT ![Newest][part] = new]
Counts(weight, n) == weights' = [weights EXCEPT ![Newest][weight] = @ + n]

Narrow(o) ==
  /\ Becomes("where", Append(Part("where"), Filter(o)))
  /\ Counts("conditions", o.points)

\* A second comparison of the attribute that was filtered last.
NarrowAttribute(o) ==
  LET where == Part("where")  n == Len(where) IN
    /\ where # <<>> /\ where[n].key = "filter"
    /\ Becomes("where", [where EXCEPT ![n].operators = Append(@, o)])
    /\ Counts("conditions", o.points)

Negate ==
  /\ Becomes("where", <<Conditional("_not", <<Part("where")>>)>>)
  /\ UNCHANGED weights

Alternate(o) ==
  /\ Becomes("where", <<Conditional("_or", <<Part("where"), <<Filter(o)>>>>)>>)
  /\ Counts("conditions", o.points)

OfRelation ==
  /\ Becomes("where", <<Conditional("relation", <<Part("where")>>)>>)
  /\ Counts("conditions", 1)

Skip(n) ==
  /\ Part("offset") = 0
  /\ Becomes("offset", n)
  /\ Counts("skipped", n)

Sort ==
  /\ Becomes("order", Append(Part("order"), Leaf("term")))
  /\ Counts("terms", 1)

SortByRelation ==
  /\ Becomes("order", <<Within("relation", Part("order"))>>)
  /\ Counts("terms", 1)

Select(name, points) ==
  /\ Becomes("fields", Append(Part("fields"), Leaf(name)))
  /\ Counts("selected", points)

SelectWithin(name, points) ==
  /\ Becomes("fields", <<Within(name, Part("fields"))>>)
  /\ Counts("selected", points)

\* An argument of the field selected last.
GiveArgument ==
  LET fields == Part("fields")  n == Len(fields) IN
    /\ fields # <<>>
    /\ Becomes("fields", [fields EXCEPT ![n].arguments = @ + 1])
    /\ UNCHANGED weights

Write ==
  /\ parts < MaxParts
  /\ parts' = parts + 1
  /\ \/ \E name \in Roots : AddRoot(name)
     \/ /\ query # <<>>
        /\ \/ \E o \in Operators : Narrow(o) \/ NarrowAttribute(o) \/ Alternate(o)
           \/ Negate \/ OfRelation
           \/ \E n \in Offsets : Skip(n)
           \/ Sort \/ SortByRelation
           \/ Select("count", 1) \/ Select("sum", 2)
           \/ SelectWithin("aggregate", 1) \/ SelectWithin("summary", 0) \/ GiveArgument

\* Admitted or refused, the query is over.
Send == query # <<>> /\ query' = <<>> /\ weights' = <<>> /\ parts' = 0

-----------------------------------------------------------------------------
(* Properties                                                                *)

Begun(rows) == {page \in 0..rows : 100 * page < rows}
Whole(rows) == {page \in 1..rows : 100 * page <= rows}

\* The pages begun by an offset; a negative one takes its whole pages off.
Pages(offset) ==
  IF offset >= 0 THEN Cardinality(Begun(offset)) ELSE -Cardinality(Whole(-offset))

\* The cost is what the parts of the query weigh, however they are nested: the
\* recursion of calculateWhereComplexity, calculateOrderByComplexity and of the
\* estimators over the selection weighs every condition, term and field once.  Of
\* arguments it weighs the root fields' alone: those of a field below the root, which
\* may be a list with its own where, offset and order_by, weigh nothing.
CostIsTheWeight ==
  Cost(query) =
    Added([i \in DOMAIN query |->
             BaseCost(query[i].name)
               * ((weights[i].conditions + weights[i].selected)
                  * (Pages(weights[i].skipped) + 1) * (weights[i].terms + 1))],
          Len(query))

\* To ask for more never costs less: no part added to a query, wherever it is put,
\* makes the query cheaper, unless the root field it is put in has an offset of -100 or
\* less, whose cost is negative (calculateOffsetComplexity).
NeverCheaper ==
  [][parts' > parts /\ query'[Len(query')].offset > -100
       => Cost(query) <= Cost(query')]_queryVars
=============================================================================
