---------------------------- MODULE Constraints ----------------------------
(***************************************************************************)
(* Placement constraints: constraints/constraints.go, and the number of    *)
(* instances that "all" stands for, of framework/application.go.           *)
(*                                                                         *)
(* A constraint is a record with the attribute it is about, its kind and   *)
(* its argument: the values a LIKE or UNLIKE pattern matches, the value of *)
(* a CLUSTER (or NoValue), the groups of a GROUP_BY.  Slaves, offers and   *)
(* tasks are functions from attributes to values.  The list of the others  *)
(* is a function on their positions, where those that do not count leave   *)
(* gaps.                                                                   *)
(***************************************************************************)
EXTENDS Integers, Sequences, FiniteSets, Functions

CONSTANT NoValue   \* the value of an attribute a slave does not have

(* How often a value occurs among those of the others. *)
CountOf(values, v) == Cardinality({i \in DOMAIN values : values[i] = v})

Like(c, value) == value \in c.arg

Unlike(c, value) == value \notin c.arg

Unique(value, values) == value \notin Range(values)

First(values) == values[CHOOSE i \in DOMAIN values : \A j \in DOMAIN values : i <= j]

Cluster(c, value, values) ==
  IF c.arg # NoValue THEN value = c.arg ELSE DOMAIN values # {} => First(values) = value

GroupBy(c, value, values) ==
  IF Cardinality(Range(values)) < c.arg
  THEN value \notin Range(values)
  ELSE DOMAIN values # {} =>
         /\ value \in Range(values)
         /\ \A v \in Range(values) : CountOf(values, value) <= CountOf(values, v)

Matches(c, value, values) ==
  CASE c.kind = "LIKE" -> Like(c, value)
    [] c.kind = "UNLIKE" -> Unlike(c, value)
    [] c.kind = "UNIQUE" -> Unique(value, values)
    [] c.kind = "CLUSTER" -> Cluster(c, value, values)
    [] c.kind = "GROUP_BY" -> GroupBy(c, value, values)

OthersAttributes(others, attr) ==
  LET having == {i \in DOMAIN others : others[i][attr] # NoValue}
  IN  [i \in having |-> others[i][attr]]

(* A slave, or an offer, has every constrained attribute and satisfies all *)
(* its constraints.                                                        *)
AllMatch(cs, attributes, others) ==
  \A c \in cs :
    /\ attributes[c.attr] # NoValue
    /\ Matches(c, attributes[c.attr], OthersAttributes(others, c.attr))

(* "instances: all".  Without constraints it is the number of activated    *)
(* slaves; otherwise all slaves of the Mesos state are tried in order, each *)
(* against those that matched before it.                                   *)
CalculateAllInstances(cs, slaves, activated) ==
  IF cs = {} THEN activated
  ELSE LET matching[k \in 0..Len(slaves)] ==
             IF k = 0 THEN {}
             ELSE LET before == matching[k - 1]
                  IN  before \cup
                        (IF AllMatch(cs, slaves[k], Restrict(slaves, before)) THEN {k} ELSE {})
       IN  Cardinality(matching[Len(slaves)])
=============================================================================
