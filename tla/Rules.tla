------------------------------- MODULE Rules --------------------------------
(***************************************************************************)
(* The rule engine: structured YAML conditions become expressions, one     *)
(* task per rule set evaluates them over its own snapshot of the facts     *)
(* with a cache of subexpressions, and overridden rules are eliminated.    *)
(* A value is <<kind, payload>>, numbers are integers; a YAML node is a    *)
(* record with the keys it has, or [null], [scalar], [seq].  Docs are the  *)
(* rule files, Facts the fact bases; SetOrder is the order of the map of   *)
(* rule sets.                                                              *)
(***************************************************************************)
EXTENDS Integers, Sequences, FiniteSets, TLC, SequencesExt, Relation

CONSTANTS Docs, Facts, SetOrder, Flatten

VARIABLES ruleSets, \* rule_sets_: set -> rules; empty before the first load
          phase,    \* idle, running, evaluated, resolved
          snapshot, \* the facts of this evaluation
          batch,    \* set -> results of the tasks that have ended
          evaluated, resolved

ruleVars == <<ruleSets, phase, snapshot, batch, evaluated, resolved>>
Sets == ToSet(SetOrder)

(* Value: arithmetic and order take numbers and Booleans, the rest is Null *)
(* or false.                                                               *)
Null == <<"null">>
Error == <<"error">>
Num(n) == <<"num", n>>
Bool(b) == <<"bool", b>>
IsNumeric(v) == v[1] \in {"num", "bool"}
AsNumeric(v) == IF v[1] = "num" THEN v[2] ELSE IF v[2] THEN 1 ELSE 0
AsBool(v) == v = Bool(TRUE)
Arith(op, a, b) ==
  IF ~IsNumeric(a) \/ ~IsNumeric(b) \/ (op = "div" /\ AsNumeric(b) = 0) THEN Null
  ELSE Num(CASE op = "add" -> AsNumeric(a) + AsNumeric(b) [] op = "sub" -> AsNumeric(a) - AsNumeric(b)
             [] op = "mul" -> AsNumeric(a) * AsNumeric(b) [] op = "div" -> AsNumeric(a) \div AsNumeric(b))
Less(a, b) == IsNumeric(a) /\ IsNumeric(b) /\ AsNumeric(a) < AsNumeric(b)
Apply(op, a, b) ==
  CASE op \in {"add", "sub", "mul", "div"} -> Arith(op, a, b)
    [] op = "eq" -> Bool(a = b)      [] op = "neq" -> Bool(a # b)
    [] op = "lt" -> Bool(Less(a, b)) [] op = "le" -> Bool(Less(a, b) \/ a = b)
    [] op = "gt" -> Bool(Less(b, a)) [] op = "ge" -> Bool(Less(b, a) \/ a = b)
    [] op = "in" -> Bool(b[1] = "list" /\ a \in ToSet(b[2]))
Negate(v) == IF v[1] = "bool" THEN Bool(~v[2]) ELSE Null

(***************************************************************************)
(* The condition builder                                                   *)
(***************************************************************************)
Ops == {"and", "or", "add", "sub", "mul", "div", "eq", "neq", "lt", "le", "gt", "ge", "in"}
Bad == <<"bad">>
NoExpr == <<"none">>
Has(n, key) == key \in DOMAIN n
IsScalar(n, key) == Has(n, key) /\ Has(n[key], "scalar")
BuildComparison(n) ==
  LET lhs == IF IsScalar(n, "field") THEN <<"ref", n.field.scalar>>
             ELSE IF IsScalar(n, "path") THEN <<"path", n.path.scalar>> ELSE Bad
  IN  IF lhs = Bad \/ (~Has(n, "op") /\ ~Has(n, "value")) THEN lhs
      ELSE IF ~IsScalar(n, "op") \/ ~IsScalar(n, "value") THEN Bad
      ELSE IF n.op.scalar \notin Ops THEN Bad
      ELSE <<"cmp", n.op.scalar, lhs, <<"lit", n.value.scalar>>>>
RECURSIVE Build(_)
Junction(op, n) ==
  IF ~Has(n, "seq") THEN Bad ELSE IF n.seq = <<>> THEN Bad
  ELSE FoldLeft(LAMBDA l, c : IF Bad \in {l, Build(c)} THEN Bad ELSE <<op, l, Build(c)>>,
                Build(Head(n.seq)), Tail(n.seq))
Build(n) ==
  CASE Has(n, "null") -> NoExpr
    [] Has(n, "scalar") -> <<"lit", n.scalar>>
    [] Has(n, "seq") -> Bad
    [] Has(n, "field") \/ Has(n, "path") -> BuildComparison(n)
    [] Has(n, "and") -> Junction("and", n.and)
    [] Has(n, "or") -> Junction("or", n.or)
    [] Has(n, "not") -> IF Build(n.not) = Bad THEN Bad ELSE <<"not", Build(n.not)>>
    [] Has(n, "value") -> IF Has(n.value, "scalar") THEN <<"lit", n.value.scalar>> ELSE Bad
    [] OTHER -> Bad

(***************************************************************************)
(* Expressions.  Evaluate goes through the cache of the task's fact base,  *)
(* whose key is the source text: of a negation, always the word "not".     *)
(***************************************************************************)
Key(e) == IF e[1] = "path" THEN Flatten[e[2]] ELSE e[2]
Field(e, facts) == IF Key(e) \in DOMAIN facts THEN facts[Key(e)] ELSE Error
\* Variant of Source: a comparison without its literal.
RECURSIVE SourceWithoutLiteral(_)
SourceWithoutLiteral(e) ==
  CASE e[1] = "cmp" -> <<e[2], e[3][2]>>
    [] e[1] \in {"and", "or"} -> <<e[1], SourceWithoutLiteral(e[2]), SourceWithoutLiteral(e[3])>>
    [] e[1] = "not" -> <<"not">>
    [] OTHER -> <<e[2]>>
RECURSIVE Source(_)
Source(e) == CASE e[1] = "cmp" -> <<e[2], e[3][2], e[4][2]>>
               [] e[1] \in {"and", "or"} -> <<e[1], Source(e[2]), Source(e[3])>>
               [] e[1] = "not" -> <<"not">>
               [] OTHER -> <<e[2]>>
Memo(e, r) == IF r.val = Error THEN r ELSE [r EXCEPT !.memo = (Source(e) :> r.val) @@ @]
RECURSIVE Evaluate(_, _, _)
Compute(e, facts, memo) ==
  IF e[1] \in {"ref", "path"} THEN [val |-> Field(e, facts), memo |-> memo]
  ELSE LET l == Evaluate(IF e[1] = "cmp" THEN e[3] ELSE e[2], facts, memo)
           op == IF e[1] = "cmp" THEN e[2] ELSE e[1]
           r == Evaluate(IF e[1] = "cmp" THEN e[4] ELSE e[3], facts, l.memo)
       IN  IF l.val = Error THEN l
           ELSE IF op = "not" THEN [l EXCEPT !.val = Negate(@)]
           ELSE IF op = "and" /\ ~AsBool(l.val) THEN [l EXCEPT !.val = Bool(FALSE)]
           ELSE IF op = "or" /\ AsBool(l.val) THEN [l EXCEPT !.val = Bool(TRUE)]
           ELSE IF r.val = Error THEN r
           ELSE IF op \in {"and", "or"} THEN [r EXCEPT !.val = Bool(AsBool(@))]
           ELSE [r EXCEPT !.val = Apply(op, l.val, @)]
Evaluate(e, facts, memo) ==
  IF e[1] = "lit" THEN [val |-> e[2], memo |-> memo]
  ELSE IF Source(e) \in DOMAIN memo THEN [val |-> memo[Source(e)], memo |-> memo]
  ELSE Memo(e, Compute(e, facts, memo))

(***************************************************************************)
(* The engine                                                              *)
(***************************************************************************)
RuleInit == /\ ruleSets = <<>> /\ phase = "idle" /\ snapshot = <<>> /\ batch = <<>>
            /\ evaluated = <<>> /\ resolved = <<>>

(* LoadFromYAML: everything is parsed before the rules are replaced.       *)
WellFormed(doc) ==
  \A s \in DOMAIN doc : \A i \in DOMAIN doc[s] :
    doc[s][i].name # "" /\ Build(doc[s][i].condition) # Bad
Load(doc) ==
  /\ phase \in {"idle", "resolved"} /\ phase' = "idle"
  /\ ruleSets' = IF WellFormed(doc)
                 THEN [s \in DOMAIN doc |-> [i \in DOMAIN doc[s] |->
                        [doc[s][i] EXCEPT !.condition = Build(@)]]]
                 ELSE ruleSets
  /\ UNCHANGED <<snapshot, batch, evaluated, resolved>>

(* EvaluateAll: one task per set, each with a copy of the facts.           *)
EvaluateAll(facts) ==
  /\ phase = "idle" /\ ruleSets # <<>> /\ phase' = "running"
  /\ snapshot' = facts /\ batch' = <<>> /\ UNCHANGED <<ruleSets, evaluated, resolved>>
Step(acc, rule) ==
  LET r == IF rule.condition = NoExpr THEN [val |-> Bool(TRUE), memo |-> acc.memo]
           ELSE Evaluate(rule.condition, snapshot, acc.memo)
  IN  [memo |-> r.memo,
       out |-> Append(acc.out, [name |-> rule.name, matched |-> AsBool(r.val)])]
EvaluateRuleSet(s) ==
  /\ phase = "running" /\ s \in DOMAIN ruleSets \ DOMAIN batch
  /\ batch' = (s :> FoldLeft(Step, [memo |-> <<>>, out |-> <<>>], ruleSets[s]).out) @@ batch
  /\ UNCHANGED <<ruleSets, phase, snapshot, evaluated, resolved>>
Collect ==
  /\ phase = "running" /\ DOMAIN batch = DOMAIN ruleSets /\ phase' = "evaluated"
  /\ evaluated' = FlattenSeq([i \in 1..Len(SetOrder) |->
                               IF SetOrder[i] \in DOMAIN batch THEN batch[SetOrder[i]] ELSE <<>>])
  /\ UNCHANGED <<ruleSets, snapshot, batch, resolved>>

(* ResolveOverrideConflicts: the override graph of the rules that matched; *)
(* a cycle leaves the result as it is.  Rules are found by their name, the *)
(* last of a name stands for it.                                           *)
RulesOf == FlattenSeq([i \in 1..Len(SetOrder) |->
                        IF SetOrder[i] \in DOMAIN ruleSets THEN ruleSets[SetOrder[i]] ELSE <<>>])
Rule(name) == RulesOf[CHOOSE i \in DOMAIN RulesOf : RulesOf[i].name = name
                        /\ \A j \in DOMAIN RulesOf : RulesOf[j].name = name => j <= i]
Matched(seq) == {seq[i].name : i \in {j \in DOMAIN seq : seq[j].matched}}
Overrides(seq) ==
  {e \in Matched(seq) \X Matched(seq) : e[2] \in Rule(e[1]).overrides \/ e[1] \in Rule(e[2]).overriddenBy}
Cyclic(seq) ==
  LET closure == TransitiveClosure([e \in Matched(seq) \X Matched(seq) |-> e \in Overrides(seq)], Matched(seq))
  IN  \E n \in Matched(seq) : closure[<<n, n>>]
Eliminate(seq) ==
  [i \in DOMAIN seq |-> IF /\ \A j \in DOMAIN seq : seq[j].name = seq[i].name /\ seq[j].matched => j <= i
                           /\ \E n \in Matched(seq) \ {seq[i].name} : <<n, seq[i].name>> \in Overrides(seq)
                        THEN [seq[i] EXCEPT !.matched = FALSE] ELSE seq[i]]
\* Variant of Resolved: no look for cycles.
ResolvedThoughCyclic == Eliminate(evaluated)
Resolved == IF Cyclic(evaluated) THEN evaluated ELSE Eliminate(evaluated)
ResolveConflicts ==
  /\ phase = "evaluated" /\ phase' = "resolved" /\ resolved' = Resolved
  /\ UNCHANGED <<ruleSets, snapshot, batch, evaluated>>

RuleNext == \/ \E doc \in Docs : Load(doc)
            \/ \E facts \in Facts : EvaluateAll(facts)
            \/ \E s \in Sets : EvaluateRuleSet(s)
            \/ Collect \/ ResolveConflicts
RuleSpec == RuleInit /\ [][RuleNext]_ruleVars

(***************************************************************************)
(* Properties                                                              *)
(***************************************************************************)
RECURSIVE Meaning(_, _)
(* What a condition says, without a cache. *)
Meaning(e, f) ==
  CASE e[1] = "lit" -> e[2]
    [] e[1] \in {"ref", "path"} -> Field(e, f)
    [] e[1] = "not" -> IF Meaning(e[2], f) = Error THEN Error ELSE Negate(Meaning(e[2], f))
    [] e[1] = "cmp" /\ e[2] \notin {"and", "or"} ->
         IF Meaning(e[3], f) = Error THEN Error ELSE Apply(e[2], Meaning(e[3], f), Meaning(e[4], f))
    [] OTHER -> LET l == Meaning(IF e[1] = "cmp" THEN e[3] ELSE e[2], f)
                    r == Meaning(IF e[1] = "cmp" THEN e[4] ELSE e[3], f)
                    op == IF e[1] = "cmp" THEN e[2] ELSE e[1]
                IN  IF l = Error THEN Error
                    ELSE IF AsBool(l) = (op = "or") THEN Bool(AsBool(l))
                    ELSE IF r = Error THEN Error ELSE Bool(AsBool(r))
(* The cache of expression.cpp:14-45 is transparent: whatever the other    *)
(* rules of its set have cached before it, a rule matches when its own     *)
(* condition says so.                                                      *)
CacheTransparent ==
  \A s \in DOMAIN batch : phase # "idle" => \A i \in DOMAIN batch[s] :
    LET c == ruleSets[s][i].condition
    IN  batch[s][i].matched = (c = NoExpr \/ AsBool(Meaning(c, snapshot)))

(* Conflict resolution (conflict_resolver.cpp:15-29): if any rule matched, *)
(* one is left, whatever the overrides say; a rule is dropped only for a   *)
(* rule that matched; without a cycle no rule that is left is overridden   *)
(* by another that is left.                                                *)
VerdictSurvives == phase = "resolved" =>
  /\ (Matched(evaluated) # {}) = (Matched(resolved) # {})
  /\ \A n \in Matched(evaluated) \ Matched(resolved) :
       \E o \in Matched(evaluated) : o # n /\ <<o, n>> \in Overrides(evaluated)
  /\ Cyclic(evaluated) \/ \A e \in Matched(resolved) \X Matched(resolved) :
       e \in Overrides(evaluated) => \E i, j \in DOMAIN evaluated :
                                        i # j /\ evaluated[i].name = e[2] /\ evaluated[j].name = e[2]
=============================================================================
