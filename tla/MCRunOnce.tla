----------------------------- MODULE MCRunOnce -----------------------------
(* Instances of RunOnce for TLC. *)
EXTENDS RunOnce, SequencesExt

CONSTANTS s1, s2, h1, h2, h3, app1, app2, rackA, rackB

SameApp == [s \in Stagings |-> app1]

(* Hosts with their name only, and in two racks with one host outside. *)
Named == [h \in Hosts |-> [hostname |-> h]]
InRacks == [h \in Hosts |->
  [hostname |-> h, rack |-> IF h = h1 THEN rackA ELSE rackB]]

(* The slaves in every order, all of them activated or all but one. *)
Clusters == [slaves : SetToSeqs(Hosts), activated : {Cardinality(Hosts) - 1, Cardinality(Hosts)}]
OneCluster == {[slaves |-> SetToSeq(Hosts), activated |-> Cardinality(Hosts)]}

Constraint(attr, kind, arg) == [attr |-> attr, kind |-> kind, arg |-> arg]
UniqueHosts == {Constraint("hostname", "UNIQUE", NoValue)}
OneRack == {Constraint("rack", "CLUSTER", NoValue)}

NoneOrUnique == {{}, UniqueHosts}
EveryKind == {
  UniqueHosts, OneRack,
  {Constraint("rack", "CLUSTER", rackB)},
  {Constraint("rack", "GROUP_BY", 2)},
  {Constraint("rack", "LIKE", {rackB})} \cup UniqueHosts,
  {Constraint("hostname", "UNLIKE", {h2}), Constraint("rack", "GROUP_BY", 1)}}

NoStarting == {"RUNNING", "FINISHED", "FAILED"}
Endings == {"FINISHED", "KILLED", "LOST"}

Symmetry == Permutations(Stagings) \cup Permutations(Hosts)
=============================================================================
