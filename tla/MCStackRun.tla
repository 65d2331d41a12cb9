----------------------------- MODULE MCStackRun -----------------------------
(* Instances of StackRun for TLC. *)
EXTENDS StackRun, TLC

(* A dependency graph has no cycle when every set of applications has one  *)
(* that depends on none of the set.                                        *)
Acyclic(s) == \A S \in SUBSET Apps \ {{}} : \E a \in S : s[a] \cap S = {}
Dags == {s \in [Apps -> SUBSET Apps] : Acyclic(s)}

(* No skip flag, one, two that match different applications, or a bad one. *)
Skips == {<<>>} \cup {<<S>> : S \in SUBSET Apps}
  \cup {<<p[1], p[2]>> : p \in {q \in (SUBSET Apps) \X (SUBSET Apps) : q[1] \cap q[2] = {}}}
  \cup {<<S, BadPattern>> : S \in SUBSET Apps}
FewSkips == {<<>>} \cup {<<{a}>> : a \in Apps}

Symmetry == Permutations(Apps) \cup Permutations(Runs)
=============================================================================
