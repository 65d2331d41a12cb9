---------------------------- MODULE MCServerStart ---------------------------
(* Instances of ServerStart for TLC. *)
EXTENDS ServerStart

(* A first start, or one after an earlier server that was bootstrapped. *)
FirstOrLater == {NoFile, [id |-> 1, context |-> TRUE]}
First == {NoFile}
=============================================================================
