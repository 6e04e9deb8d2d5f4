------------------------------- MODULE Oracle -------------------------------
(***************************************************************************)
(* The property oracle: specs (core/src/oracle/spec.rs), their evaluation  *)
(* on WAL events (eval.rs) and on runtime facts (cli/src/main.rs), and the *)
(* exit codes of `oracle evaluate` and `observe --verify`.                 *)
(*                                                                         *)
(* A record gives a value, or nothing, to fields a and b; "foreign" is a   *)
(* field of the other source's vocabulary, "unknown" one of neither.  A    *)
(* value is a number or a string; string 0 is contained in every string.   *)
(***************************************************************************)
EXTENDS Naturals, Sequences, FiniteSets

CONSTANTS Records,    \* the records a source may hold: [{"a", "b"} -> Values \cup {Absent}]
          Predicates, \* the predicates a spec may have
          MaxLines    \* bound: lines of the source

VARIABLES
    pc, mode, strict,   \* the process, its command, --strict-verdicts
    spec,               \* [preds, select, quantifier, version]
    lines, admissible,  \* the source, and verify_report's answer for a bundle
    verdict, unobserved, dropped, code,
    evidence            \* history: the records the verdict is about

oracleVars == <<pc, mode, strict, spec, lines, admissible, verdict, unobserved, dropped, code,
                evidence>>

\* A value has the type "number" or "string".
Absent == [type |-> "absent", value |-> 0]
Garbage == [a |-> [type |-> "garbage", value |-> 0], b |-> Absent]

Modes == {"wal", "bundle", "facts", "verify"}
Quantifiers == {[kind |-> k, op |-> "Eq", threshold |-> 0] : k \in {"all", "exists", "none"}}
    \cup {[kind |-> "count", op |-> o, threshold |-> n] : o \in {"Gte", "Lt", "Contains"}, n \in {1}}
ListsOf(set, n) == UNION {[1..k -> set] : k \in 0..n}

OracleTypeOK ==
    /\ pc \in {"args", "parse", "evaluate", "done"}
    /\ verdict \in {"none", "Satisfied", "Violated", "Error"}
    /\ code \in 0..3 /\ dropped \in 0..MaxLines
    /\ pc = "done" => (verdict = "none" => code # 0 \/ mode = "verify")

OracleInit ==
    /\ pc = "args" /\ mode \in Modes
    /\ strict \in BOOLEAN /\ (mode # "verify" => ~ strict)
    /\ spec = [preds |-> <<>>, select |-> <<>>, version |-> 1,
               quantifier |-> [kind |-> "all", op |-> "Eq", threshold |-> 0]]
    /\ lines \in ListsOf(Records \cup {Garbage}, MaxLines)
    /\ admissible \in BOOLEAN
    /\ mode # "verify" \/ (\E i \in DOMAIN lines : lines[i] = Garbage) => ~ admissible
    /\ verdict = "none" /\ unobserved = {} /\ dropped = 0 /\ code = 0
    /\ evidence = <<>>

Exit(n) == pc' = "done" /\ code' = n

-----------------------------------------------------------------------------
(* Comparison                                                              *)

Numeric == {"Gt", "Lt", "Gte", "Lte"}

Ordered(x, op, y) ==
    CASE op = "Gt"  -> x > y
      [] op = "Lt"  -> x < y
      [] op = "Gte" -> x >= y
      [] op = "Lte" -> x <= y
      [] op = "Eq"  -> x = y
      [] op = "Neq" -> x # y

Truth(b) == IF b THEN "yes" ELSE "no"

\* Numbers for an order, strings for Contains and Regex (a substring too), anything for Eq.
CompareValues(v, op, w) ==
    CASE op \in {"Eq", "Neq"} -> Truth((v = w) <=> op = "Eq")
      [] op \in Numeric ->
            IF v.type = "number" /\ w.type = "number" THEN Truth(Ordered(v.value, op, w.value))
            ELSE "mismatch"
      [] op \in {"Contains", "Regex"} ->
            IF v.type = "string" /\ w.type = "string" THEN Truth(w.value \in {0, v.value})
            ELSE "mismatch"

\* extract_field: a field of the other source resolves to nothing.
Extract(rec, field) == IF field \in DOMAIN rec THEN rec[field] ELSE Absent

EvaluatePredicate(rec, p) ==
    LET v == Extract(rec, p.field)
    IN IF v = Absent THEN "missing" ELSE CompareValues(v, p.op, p.value)

\* select: a missing field or a mismatch filters the record out.
Selected(recs, select) ==
    SelectSeq(recs, LAMBDA rec : \A i \in DOMAIN select : EvaluatePredicate(rec, select[i]) = "yes")

\* The first outcome other than "yes" ends a loop over them.
Loop(outcomes) ==
    LET bad == {i \in DOMAIN outcomes : outcomes[i] # "yes"}
    IN IF bad = {} THEN "yes" ELSE outcomes[CHOOSE i \in bad : \A k \in bad : i <= k]

-----------------------------------------------------------------------------
(* Evaluation on events                                                    *)

Undecided == {"missing", "mismatch"}

\* The first version: predicate by predicate over the events.
EvaluateV1(events, preds) ==
    LET Outcome(i) == Loop([k \in DOMAIN events |-> EvaluatePredicate(events[k], preds[i])])
    IN CASE \E i \in DOMAIN preds : Outcome(i) \in Undecided -> "Error"
         [] (\E i \in DOMAIN preds : Outcome(i) = "no") /\ \A i \in DOMAIN preds : Outcome(i) \notin Undecided
            -> "Violated"
         [] OTHER -> "Satisfied"

\* Mutant of Quantified: an existing record need only be selected.
SelectedIsEnough(q, matched, selected) ==
    CASE q.kind = "all"    -> matched = selected
      [] q.kind = "exists" -> selected >= 1
      [] q.kind = "none"   -> matched = 0
      [] q.kind = "count"  -> Ordered(matched, q.op, q.threshold)

Quantified(q, matched, selected) ==
    CASE q.kind = "all"    -> matched = selected
      [] q.kind = "exists" -> matched >= 1
      [] q.kind = "none"   -> matched = 0
      [] q.kind = "count"  -> Ordered(matched, q.op, q.threshold)

Verdict(b) == IF b THEN "Satisfied" ELSE "Violated"

RecordOutcome(rec, preds) == Loop([i \in DOMAIN preds |-> EvaluatePredicate(rec, preds[i])])

\* The second version: event by event over the predicates; without predicates every event
\* matches, and "none" is satisfied like "all".
EvaluateV2(events, s) ==
    LET sel == Selected(events, s.select)
        outcomes == [k \in DOMAIN sel |-> RecordOutcome(sel[k], s.preds)]
        matched == Cardinality({k \in DOMAIN sel : outcomes[k] = "yes"})
    IN CASE s.preds = <<>> /\ s.quantifier.kind = "none" -> "Satisfied"
         [] s.preds # <<>> /\ (\E k \in DOMAIN sel : outcomes[k] \in Undecided) -> "Error"
         [] OTHER -> Verdict(Quantified(s.quantifier, matched, Len(sel)))

\* evaluate_items, for a caller's own records.
EvaluateItems(items, s) ==
    LET sel == Selected(items, s.select)
        outcomes == [k \in DOMAIN sel |-> RecordOutcome(sel[k], s.preds)]
        matched == Cardinality({k \in DOMAIN sel : outcomes[k] = "yes"})
    IN CASE s.preds = <<>> -> "Satisfied"
         [] s.preds # <<>> /\ (\E k \in DOMAIN sel : outcomes[k] \in Undecided) -> "Error"
         [] OTHER -> Verdict(Quantified(s.quantifier, matched, Len(sel)))

UsesV2(s) == s.select # <<>> \/ s.quantifier.kind # "all" \/ s.version = 2

Evaluate(events, s) ==
    IF UsesV2(s) THEN EvaluateV2(events, s) ELSE EvaluateV1(events, s.preds)

-----------------------------------------------------------------------------
(* Evaluation on runtime facts                                             *)

FactsVocabulary == {"a", "b"}

InVocabulary(s) ==
    {s.preds[i].field : i \in DOMAIN s.preds} \cup {s.select[i].field : i \in DOMAIN s.select}
        \subseteq FactsVocabulary

\* An unobserved field is skipped; a mismatch of types fails the record.
FactOutcome(rec, p) ==
    IF EvaluatePredicate(rec, p) = "missing" THEN "yes" ELSE EvaluatePredicate(rec, p)

FactMatches(rec, preds) == \A i \in DOMAIN preds : FactOutcome(rec, preds[i]) = "yes"

\* The fields skipped before the first predicate that fails.
Skipped(rec, preds) ==
    {preds[i].field : i \in {k \in DOMAIN preds :
        /\ EvaluatePredicate(rec, preds[k]) = "missing"
        /\ \A j \in 1..(k - 1) : FactOutcome(rec, preds[j]) = "yes"}}

EvaluateFacts(recs, s) ==
    LET sel == Selected(recs, s.select)
        matched == Cardinality({k \in DOMAIN sel : FactMatches(sel[k], s.preds)})
    IN IF ~ InVocabulary(s) THEN [verdict |-> "Error", unobserved |-> {}]
       ELSE [verdict |-> Verdict(Quantified(s.quantifier, matched, Len(sel))),
             unobserved |-> UNION {Skipped(sel[k], s.preds) : k \in DOMAIN sel}]

-----------------------------------------------------------------------------
(* The commands                                                            *)

\* No source, or several; no properties, or an unreadable file of them.
RefuseArgs ==
    /\ pc = "args" /\ mode # "verify"
    /\ Exit(3) \/ Exit(2)
    /\ UNCHANGED <<mode, strict, spec, lines, admissible, verdict, unobserved, dropped, evidence>>

\* verify without --properties answers for the bundle alone.
VerifyAlone ==
    /\ pc = "args" /\ mode = "verify"
    /\ Exit(IF admissible THEN 0 ELSE 1)
    /\ UNCHANGED <<mode, strict, spec, lines, admissible, verdict, unobserved, dropped, evidence>>

ReadSpec ==
    /\ pc = "args"
    /\ \E preds \in ListsOf(Predicates, 2), select \in ListsOf(Predicates, 1),
          q \in Quantifiers, v \in {1, 2} :
        /\ q.kind # "all" => v = 2
        /\ spec' = [preds |-> preds, select |-> select, quantifier |-> q, version |-> v]
    /\ pc' = "parse"
    /\ UNCHANGED <<mode, strict, lines, admissible, verdict, unobserved, dropped, code, evidence>>

\* A field in neither vocabulary, an order on something that is no number, Contains as count.
ParseOk(s) ==
    /\ \A p \in {s.preds[i] : i \in DOMAIN s.preds} \cup {s.select[i] : i \in DOMAIN s.select} :
        /\ p.field # "unknown"
        /\ p.op \in Numeric => p.value.type = "number"
    /\ s.quantifier.op \notin {"Contains", "Regex"}

ParseSpec ==
    /\ pc = "parse"
    /\ IF ParseOk(spec) THEN pc' = "evaluate" /\ UNCHANGED code
       ELSE Exit(IF mode = "verify" THEN 1 ELSE 2)
    /\ UNCHANGED <<mode, strict, spec, lines, admissible, verdict, unobserved, dropped, evidence>>

Parsed == SelectSeq(lines, LAMBDA l : l # Garbage)

ExitCode(v) == CASE v = "Satisfied" -> 0 [] v = "Violated" -> 1 [] v = "Error" -> 2

\* A line that does not parse is dropped and counted.
EvaluateEvents ==
    /\ pc = "evaluate" /\ mode \in {"wal", "bundle"}
    /\ \/ Exit(3) /\ UNCHANGED <<verdict, dropped, evidence>>
       \/ /\ verdict' = Evaluate(Parsed, spec)
          /\ evidence' = Parsed
          /\ dropped' = Len(lines) - Len(Parsed)
          /\ Exit(ExitCode(verdict'))
    /\ UNCHANGED <<mode, strict, spec, lines, admissible, unobserved>>

\* A line of facts that does not parse ends the command.
OracleEvaluateFacts ==
    /\ pc = "evaluate" /\ mode = "facts"
    /\ IF Parsed # lines THEN Exit(3) /\ UNCHANGED <<verdict, unobserved, evidence>>
       ELSE LET e == EvaluateFacts(lines, spec)
            IN /\ verdict' = e.verdict /\ unobserved' = e.unobserved /\ evidence' = lines
               /\ Exit(ExitCode(e.verdict))
    /\ UNCHANGED <<mode, strict, spec, lines, admissible, dropped>>

VerifyExitCode(v) == IF ~ admissible \/ (strict /\ v # "Satisfied") THEN 1 ELSE 0

\* A bundle that cannot be loaded is evaluated as one without events.
Verify ==
    /\ pc = "evaluate" /\ mode = "verify"
    /\ \E events \in {Parsed, <<>>} :
        /\ verdict' = Evaluate(events, spec)
        /\ evidence' = events
        /\ dropped' = IF events = <<>> THEN 0 ELSE Len(lines) - Len(Parsed)
    /\ Exit(VerifyExitCode(verdict'))
    /\ UNCHANGED <<mode, strict, spec, lines, admissible, unobserved>>

OracleNext ==
    RefuseArgs \/ VerifyAlone \/ ReadSpec \/ ParseSpec \/ EvaluateEvents \/ OracleEvaluateFacts \/ Verify

OracleSpec == OracleInit /\ [][OracleNext]_oracleVars

-----------------------------------------------------------------------------
(* Properties                                                              *)

Holds(rec) == \A i \in DOMAIN spec.preds : EvaluatePredicate(rec, spec.preds[i]) = "yes"

\* A field without a value says neither.
Fails(rec) == \E i \in DOMAIN spec.preds : EvaluatePredicate(rec, spec.preds[i]) \in {"no", "mismatch"}

\* What a quantifier asks of the selected records, read without the loops.
Asked(In(_)) ==
    LET sel == Selected(evidence, spec.select)
        n == Cardinality({k \in DOMAIN sel : In(sel[k])})
    IN CASE spec.quantifier.kind = "all"    -> \A k \in DOMAIN sel : In(sel[k])
         [] spec.quantifier.kind = "exists" -> \E k \in DOMAIN sel : In(sel[k])
         [] spec.quantifier.kind = "none"   -> \A k \in DOMAIN sel : ~ In(sel[k])
         [] spec.quantifier.kind = "count"  -> Ordered(n, spec.quantifier.op, spec.quantifier.threshold)

\* Exit codes 0 and 1 of oracle evaluate, and 0 of a strict verify, say what the property's
\* quantifier says of the records that were read, whichever evaluator and version was taken
\* and wherever its loops stopped early; a spec without predicates that asks for none is
\* satisfied by definition, and a skipped fact counts as held.
AnswerMeansProperty ==
    LET In(rec) == IF mode = "facts" THEN ~ Fails(rec) ELSE Holds(rec)
        trivial == spec.preds = <<>> /\ spec.quantifier.kind = "none" /\ mode # "facts"
    IN pc = "done" /\ verdict # "none" =>
        /\ code = 0 /\ (mode = "verify" => strict) => Asked(In) \/ trivial
        /\ code = 0 /\ mode = "verify" => admissible
        /\ code = 1 /\ mode # "verify" => ~ Asked(In)

\* The three evaluators of the core agree: the first and the second version on when a
\* universal spec is satisfied, the second and the generic one on every spec with predicates.
EvaluatorsAgree ==
    LET universal == spec.select = <<>> /\ spec.quantifier.kind = "all"
        v1 == EvaluateV1(evidence, spec.preds)
        v2 == EvaluateV2(evidence, spec)
    IN pc = "done" /\ verdict # "none" =>
        /\ universal => (v1 = "Satisfied" <=> v2 = "Satisfied")
        /\ spec.preds # <<>> => EvaluateItems(evidence, spec) = v2

\* Runtime facts that are satisfied although a record says nothing of a field name that field
\* among the unobserved ones.
SkipsAreDisclosed ==
    mode = "facts" /\ verdict = "Satisfied" /\ spec.quantifier.kind \in {"all", "exists"} =>
        \/ unobserved # {} \/ spec.preds = <<>>
        \/ Asked(Holds)

=============================================================================
