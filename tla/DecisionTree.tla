---------------------------- MODULE DecisionTree ----------------------------
(***************************************************************************)
(* How the decision tree of a YAML document is built.  A document is a     *)
(* record: a leaf as it is, a branch with the set of its keyed children,   *)
(* and a default that may be missing.                                      *)
(***************************************************************************)
EXTENDS Integers, SequencesExt

(* ParseNode: a std::map orders the branches by their key's text and keeps *)
(* the first of two equal keys; every branch must have a default.          *)
Rank == <<"=", "<", "<=", ">", ">=">>
KeyBefore(a, b) ==
  LET r(t) == CHOOSE i \in DOMAIN Rank : Rank[i] = t.op
  IN  r(a.test) < r(b.test) \/ (r(a.test) = r(b.test) /\ a.test.n < b.test.n)
RECURSIVE ParseNode(_)
ParseNode(y) ==
  IF y.kind # "branch" THEN y
  ELSE IF "default" \notin DOMAIN y THEN [kind |-> "error"]
  ELSE LET kids == {[test |-> b.test, node |-> ParseNode(b.node)] : b \in y.branches}
           other == ParseNode(y.default)
       IN  IF other.kind = "error" \/ \E k \in kids : k.node.kind = "error" THEN [kind |-> "error"]
           ELSE [kind |-> "branch", field |-> y.field, branches |-> SetToSortSeq(kids, KeyBefore),
                 default |-> other]
LoadFromYAML(y) == [root |-> ParseNode(y.root), mapping |-> y.mapping]
=============================================================================
