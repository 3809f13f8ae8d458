------------------------- MODULE SuiteValues_proofs -------------------------
(***************************************************************************)
(* Proofs about the variables of a suite's run: every value that a request *)
(* uses was extracted by an earlier step of the same run, every variable   *)
(* that is missing was to come from a step that ended in an error, and     *)
(* every suite that is saved provides what its requests consume.           *)
(***************************************************************************)
EXTENDS SuiteRun_proofs, FiniteSetTheorems

----------------------------------------------------------------------------
(* The invariant *)

Done == {"passed", "failed", "error"}

\* A step yields a value of a key.
Yields(s, k, v) ==
  /\ s.status \in {"passed", "failed"}
  /\ \E rule \in ToSet(s.extracts), a \in s.answer : rule.key = k /\ v \in ExtractRuntimeValue(rule, a)

\* The variables of a run are the values that its steps have yielded, and a step
\* that has ended well has yielded all of its own.
ValuesOK(run) ==
  /\ \A k \in DOMAIN run.vars :
       run.vars[k] # Null /\ \E j \in DOMAIN run.steps : Yields(run.steps[j], k, run.vars[k])
  /\ \A i \in DOMAIN run.steps :
       run.steps[i].status \in {"passed", "failed"} => Keys(run.steps[i].extracts) \subseteq DOMAIN run.vars

UsedOK(run) ==
  \A i \in DOMAIN run.steps : \A k \in DOMAIN run.steps[i].used :
    \E j \in 1..(i - 1) : Yields(run.steps[j], k, run.steps[i].used[k])

MissingOK(run) ==
  \A i \in DOMAIN run.steps : \A k \in run.steps[i].missing :
    /\ ~run.stop
    /\ \E j \in 1..(i - 1) : k \in Keys(run.steps[j].extracts) /\ run.steps[j].status = "error"

\* Each runtime variable that a step consumes is a key of an earlier step.
Fed(steps) ==
  \A i \in DOMAIN steps : \A k \in RuntimeVariables(Merged(steps[i])) :
    \E j \in 1..(i - 1) : k \in Keys(steps[j].extracts)

Sourced(steps) ==
  \A i \in DOMAIN steps : \A j \in DOMAIN steps[i].extracts :
    steps[i].extracts[j].source \in ExtractionSources

Untouched(s) == s.status = "pending" /\ s.used = Bare /\ s.missing = {}

RunValues(run) ==
  /\ ValuesOK(run) /\ UsedOK(run) /\ Sourced(run.steps)
  /\ Unedited => Fed(run.steps) /\ MissingOK(run)
  /\ run.status = "pending" => run.vars = Bare /\ \A i \in DOMAIN run.steps : Untouched(run.steps[i])

\* The steps before the worker's position are done, those after it untouched, and a
\* run that stops on failures has gone on from passed steps only.
Position ==
  pc # "idle" =>
    /\ pos \in 0..Len(Run.steps)
    /\ pc # "between" => pos > 0 /\ Step.status = "running"
    /\ pc = "between" /\ pos > 0 => Step.status \in Done
    /\ \A j \in 1..(pos - 1) : Run.steps[j].status \in Done /\ (Run.stop => Run.steps[j].status = "passed")
    /\ \A j \in DOMAIN Run.steps : j > pos => Untouched(Run.steps[j])

DisjointKeys(steps) ==
  \A i, j \in DOMAIN steps : Keys(steps[i].extracts) \cap Keys(steps[j].extracts) # {} => i = j

SavedOK == Unedited => \A v \in DOMAIN suites : Fed(suites[v].steps) /\ DisjointKeys(suites[v].steps)

VInv ==
  /\ content \in [Cases -> {1, 2}]
  /\ pc \in {"idle", "between", "prepare", "answer"}
  /\ Position /\ SavedOK
  /\ \A r \in DOMAIN runs : RunValues(runs[r])

----------------------------------------------------------------------------
(* Values and references *)

\* What a rule yields is a value.
LEMMA YieldsValues ==
  ASSUME NEW rule, rule.source \in ExtractionSources, NEW answer,
         NEW v \in ExtractRuntimeValue(rule, answer)
  PROVE  v # Null
<1>1. \A x, y : <<x, y>> = Null => FALSE
  BY DEF Null
<1>2. QED
  BY <1>1 DEF ExtractRuntimeValue, ExtractionSources

\* A step gives all of its values, each by a rule of its own, or none of them.
LEMMA ExtractedFacts ==
  ASSUME NEW rules, NEW answer
  PROVE  /\ FailedRules(rules, answer) = {} => DOMAIN Extracted(rules, answer) = Keys(rules)
         /\ FailedRules(rules, answer) # {} => DOMAIN Extracted(rules, answer) = {}
         /\ \A k \in DOMAIN Extracted(rules, answer) :
              \E rule \in ToSet(rules) :
                rule.key = k /\ Extracted(rules, answer)[k] \in ExtractRuntimeValue(rule, answer)
<1>1. CASE FailedRules(rules, answer) # {}
  BY <1>1 DEF Extracted
<1>2. CASE FailedRules(rules, answer) = {}
  <2> DEFINE RuleOf(k) == CHOOSE x \in ToSet(rules) : x.key = k
             ValueOf(k) == CHOOSE v \in ExtractRuntimeValue(RuleOf(k), answer) : TRUE
  <2>1. Extracted(rules, answer) = [k \in Keys(rules) |-> ValueOf(k)]
    BY <1>2 DEF Extracted
  <2>2. ASSUME NEW k \in Keys(rules)
        PROVE  RuleOf(k) \in ToSet(rules) /\ RuleOf(k).key = k
               /\ ValueOf(k) \in ExtractRuntimeValue(RuleOf(k), answer)
    <3>1. \E x \in ToSet(rules) : x.key = k
      BY <2>2 DEF Keys, ToSet
    <3>2. RuleOf(k) \in ToSet(rules) /\ RuleOf(k).key = k
      BY <3>1
    <3>3. ExtractRuntimeValue(RuleOf(k), answer) # {}
      <4> HIDE DEF RuleOf
      <4> QED BY <1>2, <3>2 DEF FailedRules, ToSet
    <3>4. ValueOf(k) \in ExtractRuntimeValue(RuleOf(k), answer)
      <4> HIDE DEF RuleOf
      <4> QED BY <3>3
    <3>5. QED
      BY <3>2, <3>4
  <2> HIDE DEF RuleOf, ValueOf
  <2>3. QED
    BY <1>2, <2>1, <2>2
<1>3. QED
  BY <1>1, <1>2

\* A template that can be built has a value for each runtime variable, and what is
\* missing otherwise is a runtime variable of the template.
LEMMA BuiltFacts ==
  ASSUME NEW api, NEW template, NEW e, NEW values,
         BuildError(api, template, Namespaces(e, values)) = "none"
  PROVE  RuntimeVariables(template) \subseteq DOMAIN values
<1> DEFINE names == Namespaces(e, values)
<1>1. Missing(References(template), names) = {}
  BY DEF BuildError
<1>2. names["runtime"] = values
  BY DEF Namespaces
<1>3. ASSUME NEW x \in References(template), x[1] = "runtime"
      PROVE  x[2] \in DOMAIN values
  <2>1. Get(names[x[1]], x[2], Null) # Null
    <3> HIDE DEF names
    <3> QED BY <1>1 DEF Missing
  <2>2. QED
    <3> HIDE DEF names
    <3> QED BY <1>2, <1>3, <2>1 DEF Get
<1>4. QED
  BY <1>3 DEF RuntimeVariables

LEMMA MissingFacts ==
  ASSUME NEW template, NEW e, NEW values, NEW names, names = Namespaces(e, values),
         NEW missing,
         missing = {x[2] : x \in {y \in Missing(References(template), names) : y[1] = "runtime"}},
         NEW k \in missing
  PROVE  k \in RuntimeVariables(template) /\ (k \in DOMAIN values => values[k] = Null)
<1>1. PICK x \in Missing(References(template), names) : x[1] = "runtime" /\ k = x[2]
  OBVIOUS
<1>2. names["runtime"] = values
  BY DEF Namespaces
<1>3. x \in References(template) /\ Get(names[x[1]], x[2], Null) = Null
  BY DEF Missing
<1>4. QED
  BY <1>1, <1>2, <1>3 DEF Get, RuntimeVariables

----------------------------------------------------------------------------
(* Saved suites *)

\* _replace_steps as a fold over the steps.
CheckFold(c, acc, step) == CheckStep(acc, step)
Check == INSTANCE FoldFacts WITH Op <- CheckFold

Checked(steps) == FoldLeft(CheckStep, [ok |-> TRUE, keys |-> {}], steps)
KeysUpTo(steps, i) == UNION {Keys(steps[j].extracts) : j \in 1..i}

LEMMA CheckStepFacts ==
  ASSUME NEW acc, NEW step, NEW after, after = CheckStep(acc, step)
  PROVE  /\ after.keys = acc.keys \cup Keys(step.extracts)
         /\ after.ok => /\ acc.ok
                        /\ RuntimeVariables(Merged(step)) \subseteq acc.keys
                        /\ Keys(step.extracts) \cap acc.keys = {}
<1>1. after.keys = acc.keys \cup Keys(step.extracts)
  BY DEF CheckStep
<1>2. after.ok <=> /\ acc.ok
                   /\ DOMAIN step.override \subseteq Sections
                   /\ RuntimeVariables(Merged(step)) \subseteq acc.keys
                   /\ Cardinality(Keys(step.extracts)) = Len(step.extracts)
                   /\ Keys(step.extracts) \cap acc.keys = {}
  BY Zenon DEF CheckStep
<1>3. QED
  BY <1>1, <1>2, Zenon

LEMMA AcceptedFacts ==
  ASSUME NEW steps, IsSequence(steps), Accepts(steps)
  PROVE  Fed(steps) /\ DisjointKeys(steps)
<1> DEFINE n == Len(steps)
           base == [ok |-> TRUE, keys |-> {}]
<1>1. n \in Nat /\ DOMAIN steps = 1..n
  BY SequenceFacts
<1>2. Check!FoldOf(0, base, steps) = Checked(steps)
  BY DEF Checked, CheckFold, Check!FoldOf, Check!Greatest, FoldLeft, MapThenFoldSet, Max
<1>3. PICK acc : /\ acc[0] = base
                 /\ \A i \in 1..n : acc[i] = CheckFold(0, acc[i - 1], steps[i])
                 /\ acc[n] = Checked(steps)
  <2> HIDE DEF n, base
  <2> QED BY <1>1, <1>2, Check!FoldUnfolds
<1>4. Checked(steps).ok
  BY DEF Accepts, Checked
<1>5. ASSUME NEW i \in 1..n
      PROVE  /\ acc[i].keys = acc[i - 1].keys \cup Keys(steps[i].extracts)
             /\ acc[i].ok => /\ acc[i - 1].ok
                             /\ RuntimeVariables(Merged(steps[i])) \subseteq acc[i - 1].keys
                             /\ Keys(steps[i].extracts) \cap acc[i - 1].keys = {}
  <2>1. acc[i] = CheckStep(acc[i - 1], steps[i])
    BY <1>3 DEF CheckFold
  <2>2. QED
    BY <2>1, CheckStepFacts
<1>6. \A i \in 0..n : acc[i].keys = KeysUpTo(steps, i)
  <2> DEFINE T == {i \in 0..n : acc[i].keys = KeysUpTo(steps, i)}
  <2>1. 0 \in T
    BY <1>1, <1>3 DEF KeysUpTo
  <2>2. ASSUME NEW i \in 1..n, i - 1 \in T
        PROVE  i \in T
    <3>1. KeysUpTo(steps, i) = KeysUpTo(steps, i - 1) \cup Keys(steps[i].extracts)
      BY DEF KeysUpTo
    <3>2. acc[i].keys = acc[i - 1].keys \cup Keys(steps[i].extracts)
      BY <1>5
    <3>3. acc[i - 1].keys = KeysUpTo(steps, i - 1) /\ i \in 0..n
      BY <1>1, <2>2
    <3>4. QED
      BY <3>1, <3>2, <3>3
  <2> HIDE DEF T
  <2>3. 0..n \subseteq T
    BY <1>1, <2>1, <2>2, Check!BoundedInduction
  <2>4. QED
    BY <2>3 DEF T
<1>7. \A i \in 0..n : acc[i].ok
  <2> DEFINE T == {i \in 0..n : acc[n - i].ok}
  <2>1. 0 \in T
    BY <1>1, <1>3, <1>4
  <2>2. ASSUME NEW i \in 1..n, i - 1 \in T
        PROVE  i \in T
    <3>1. n - (i - 1) \in 1..n /\ n - (i - 1) - 1 = n - i
      BY <1>1
    <3>2. acc[n - (i - 1)].ok
      BY <2>2
    <3>3. acc[n - i].ok
      BY <1>5, <3>1, <3>2
    <3>4. QED
      BY <1>1, <3>3
  <2> HIDE DEF T
  <2>3. 0..n \subseteq T
    BY <1>1, <2>1, <2>2, Check!BoundedInduction
  <2>4. \A i \in 0..n : n - i \in 0..n /\ n - (n - i) = i
    BY <1>1
  <2>5. QED
    BY <2>3, <2>4 DEF T
<1>8. \A i \in 1..n : /\ RuntimeVariables(Merged(steps[i])) \subseteq KeysUpTo(steps, i - 1)
                      /\ Keys(steps[i].extracts) \cap KeysUpTo(steps, i - 1) = {}
  <2>1. ASSUME NEW i \in 1..n
        PROVE  i \in 0..n /\ i - 1 \in 0..n
    BY <1>1
  <2>2. QED
    BY <1>5, <1>6, <1>7, <2>1
<1>9. Fed(steps)
  BY <1>1, <1>8 DEF Fed, KeysUpTo
<1>10. ASSUME NEW i \in 1..n, NEW j \in 1..n, Keys(steps[i].extracts) \cap Keys(steps[j].extracts) # {}
       PROVE  ~(i < j)
  <2>1. SUFFICES ASSUME i < j PROVE FALSE
    OBVIOUS
  <2>2. i \in 1..(j - 1)
    BY <1>1, <2>1
  <2>3. Keys(steps[i].extracts) \subseteq KeysUpTo(steps, j - 1)
    BY <2>2 DEF KeysUpTo
  <2>4. QED
    BY <1>8, <1>10, <2>3
<1>11. DisjointKeys(steps)
  BY <1>1, <1>10 DEF DisjointKeys
<1>12. QED
  BY <1>9, <1>11

----------------------------------------------------------------------------
(* One step of a run is rewritten *)

Rewritten(new, old, i, s, values) ==
  /\ SameDefinition(new, old) /\ new.status = old.status /\ new.stop = old.stop
  /\ new.vars = values
  /\ \A j \in DOMAIN old.steps : new.steps[j] = IF j = i THEN s ELSE old.steps[j]

SameStep(s, old) ==
  /\ DOMAIN s = StepFields
  /\ s.case = old.case /\ s.override = old.override /\ s.extracts = old.extracts

LEMMA RewrittenRun ==
  ASSUME NEW run, WellFormed(run), NEW i \in DOMAIN run.steps, NEW s, SameStep(s, run.steps[i]),
         NEW values
  PROVE  /\ Rewritten([run EXCEPT !.steps = [run.steps EXCEPT ![i] = s], !.vars = values], run, i, s, values)
         /\ Rewritten([run EXCEPT !.steps = [run.steps EXCEPT ![i] = s]], run, i, s, run.vars)
<1> DEFINE steps == [run.steps EXCEPT ![i] = s]
           one == [run EXCEPT !.steps = steps]
           two == [run EXCEPT !.steps = steps, !.vars = values]
<1>1. /\ IsSequence(steps) /\ DOMAIN steps = DOMAIN run.steps
      /\ \A j \in DOMAIN run.steps : steps[j] = IF j = i THEN s ELSE run.steps[j]
  BY UpdateFacts DEF WellFormed
<1> HIDE DEF steps
<1>2. /\ DOMAIN one = RunFields /\ one.steps = steps /\ one.vars = run.vars /\ one.stop = run.stop
      /\ one.status = run.status /\ one.suite = run.suite /\ one.confirmed = run.confirmed
  BY DEF WellFormed, RunFields
<1>3. /\ DOMAIN two = RunFields /\ two.steps = steps /\ two.vars = values /\ two.stop = run.stop
      /\ two.status = run.status /\ two.suite = run.suite /\ two.confirmed = run.confirmed
  BY DEF WellFormed, RunFields
<1> HIDE DEF one, two
<1>4. \A j \in DOMAIN run.steps : SameStep(steps[j], run.steps[j])
  BY <1>1 DEF WellFormed, SameStep
<1>5. Rewritten(one, run, i, s, run.vars)
  BY <1>1, <1>2, <1>4 DEF Rewritten, SameDefinition, WellFormed, SameStep
<1>6. Rewritten(two, run, i, s, values)
  BY <1>1, <1>3, <1>4 DEF Rewritten, SameDefinition, WellFormed, SameStep
<1>7. QED
  BY <1>5, <1>6 DEF one, two, steps

\* An earlier step that has ended keeps what it has yielded, and the others what
\* they have used and missed.
LEMMA RewriteKeeps ==
  ASSUME NEW old, RunValues(old), old.status # "pending", IsSequence(old.steps),
         NEW i \in DOMAIN old.steps, old.steps[i].status \notin Done,
         NEW new, NEW s, NEW values, Rewritten(new, old, i, s, values),
         \A k \in DOMAIN values :
           values[k] # Null /\ \E j \in DOMAIN new.steps : Yields(new.steps[j], k, values[k]),
         DOMAIN old.vars \subseteq DOMAIN values,
         s.status \in {"passed", "failed"} => Keys(s.extracts) \subseteq DOMAIN values,
         \A k \in DOMAIN s.used : \E j \in 1..(i - 1) : Yields(old.steps[j], k, s.used[k]),
         Unedited => \A k \in s.missing :
           ~old.stop /\ \E j \in 1..(i - 1) : k \in Keys(old.steps[j].extracts) /\ old.steps[j].status = "error"
  PROVE  RunValues(new)
<1>1. /\ DOMAIN new.steps = DOMAIN old.steps /\ new.vars = values /\ new.stop = old.stop
      /\ new.status # "pending" /\ i \in DOMAIN new.steps
      /\ \A j \in DOMAIN old.steps : new.steps[j] = IF j = i THEN s ELSE old.steps[j]
  BY DEF Rewritten, SameDefinition
<1>2. \A j \in DOMAIN old.steps : /\ new.steps[j].case = old.steps[j].case
                                  /\ new.steps[j].override = old.steps[j].override
                                  /\ new.steps[j].extracts = old.steps[j].extracts
  BY DEF Rewritten, SameDefinition
<1>3. /\ \A k, v : ~Yields(old.steps[i], k, v)
      /\ old.steps[i].status # "error"
  BY DEF Yields, Done
<1>4. DOMAIN old.steps = 1..Len(old.steps) /\ Len(old.steps) \in Nat
  BY SequenceFacts
<1>5. \A m \in DOMAIN old.steps : \A j \in 1..(m - 1) : j \in DOMAIN old.steps
  BY <1>4
<1>6. ValuesOK(new)
  BY <1>1, <1>2 DEF ValuesOK, RunValues
<1>7. UsedOK(new)
  <2>1. ASSUME NEW m \in DOMAIN new.steps, NEW k \in DOMAIN new.steps[m].used
        PROVE  \E j \in 1..(m - 1) : Yields(old.steps[j], k, new.steps[m].used[k])
    BY <1>1, <2>1 DEF RunValues, UsedOK
  <2>2. ASSUME NEW j \in DOMAIN old.steps, NEW k, NEW v, Yields(old.steps[j], k, v)
        PROVE  Yields(new.steps[j], k, v)
    BY <1>1, <1>3, <2>2
  <2>3. QED
    BY <1>1, <1>5, <2>1, <2>2 DEF UsedOK
<1>8. ASSUME Unedited
      PROVE  Fed(new.steps) /\ MissingOK(new)
  <2>1. ASSUME NEW m \in DOMAIN new.steps
        PROVE  Merged(new.steps[m]) = Merged(old.steps[m])
    BY <1>1, <1>2 DEF Merged
  <2>2. Fed(new.steps)
    BY <1>1, <1>2, <1>5, <1>8, <2>1 DEF RunValues, Fed
  <2>3. ASSUME NEW m \in DOMAIN new.steps, NEW k \in new.steps[m].missing
        PROVE  /\ ~new.stop
               /\ \E j \in 1..(m - 1) : k \in Keys(old.steps[j].extracts) /\ old.steps[j].status = "error"
    BY <1>1, <1>8, <2>3 DEF RunValues, MissingOK
  <2>4. ASSUME NEW j \in DOMAIN old.steps, old.steps[j].status = "error"
        PROVE  new.steps[j].status = "error"
    BY <1>1, <1>3, <2>4
  <2>5. MissingOK(new)
    BY <1>1, <1>2, <1>5, <2>3, <2>4 DEF MissingOK
  <2>6. QED
    BY <2>2, <2>5
<1>9. Sourced(new.steps)
  BY <1>1, <1>2 DEF Sourced, RunValues
<1>10. QED
  BY <1>1, <1>6, <1>7, <1>8, <1>9 DEF RunValues

----------------------------------------------------------------------------
(* What the worker writes *)

Writes(i, s, values) ==
  OneUpdated(current) /\ Rewritten(runs'[current], runs[current], i, s, values)

LEMMA OneWrite ==
  ASSUME AtRun, NEW i \in DOMAIN runs[current].steps, NEW s, SameStep(s, runs[current].steps[i]),
         runs' = [runs EXCEPT ![current].steps[i] = s]
  PROVE  Writes(i, s, runs[current].vars)
<1> DEFINE run == runs[current]
           new == [run EXCEPT !.steps = [run.steps EXCEPT ![i] = s]]
<1>1. runs' = [runs EXCEPT ![current] = new]
  OBVIOUS
<1>2. Rewritten(new, run, i, s, run.vars)
  BY RewrittenRun DEF AtRun, RunRows
<1> HIDE DEF new
<1>3. Puts(new)
  BY <1>1, <1>2, PutsRun DEF Rewritten
<1>4. QED
  BY <1>2, <1>3 DEF Puts, Writes

LEMMA OneWriteOfValues ==
  ASSUME AtRun, NEW i \in DOMAIN runs[current].steps, NEW s, SameStep(s, runs[current].steps[i]),
         NEW values, runs' = [runs EXCEPT ![current].steps[i] = s, ![current].vars = values]
  PROVE  Writes(i, s, values)
<1> DEFINE run == runs[current]
           new == [run EXCEPT !.steps = [run.steps EXCEPT ![i] = s], !.vars = values]
<1>1. runs' = [runs EXCEPT ![current] = new]
  BY DEF AtRun
<1>2. Rewritten(new, run, i, s, values)
  BY RewrittenRun DEF AtRun, RunRows
<1> HIDE DEF new
<1>3. Puts(new)
  BY <1>1, <1>2, PutsRun DEF Rewritten
<1>4. QED
  BY <1>2, <1>3 DEF Puts, Writes

LEMMA BeginWrites ==
  ASSUME AtRun, BeginStep, pos + 1 \in DOMAIN runs[current].steps,
         NEW s, s = [runs[current].steps[pos + 1] EXCEPT !.status = "running"]
  PROVE  /\ Writes(pos + 1, s, runs[current].vars)
         /\ s.status = "running" /\ s.used = runs[current].steps[pos + 1].used
         /\ s.missing = runs[current].steps[pos + 1].missing
         /\ s.error = runs[current].steps[pos + 1].error
         /\ s.answer = runs[current].steps[pos + 1].answer
<1>1. runs' = [runs EXCEPT ![current].steps[pos + 1] = s]
  BY DEF BeginStep
<1>2. DOMAIN runs[current].steps[pos + 1] = StepFields
  BY DEF AtRun, RunRows, WellFormed
<1>3. /\ SameStep(s, runs[current].steps[pos + 1]) /\ s.status = "running"
      /\ s.used = runs[current].steps[pos + 1].used
      /\ s.missing = runs[current].steps[pos + 1].missing
      /\ s.error = runs[current].steps[pos + 1].error
      /\ s.answer = runs[current].steps[pos + 1].answer
  BY <1>2 DEF SameStep, StepFields
<1>4. QED
  BY <1>1, <1>3, OneWrite

LEMMA RecordErrorWrites ==
  ASSUME AtRun, NEW category, NEW missing, RecordError(category, missing),
         pos \in DOMAIN runs[current].steps
  PROVE  \E s : /\ Writes(pos, s, runs[current].vars)
                /\ s.status = "error" /\ s.error = category
                /\ s.missing = missing /\ s.used = runs[current].steps[pos].used
                /\ s.answer = runs[current].steps[pos].answer
<1> DEFINE old == runs[current].steps[pos]
           s == [[[old EXCEPT !["status"] = "error"] EXCEPT !["error"] = category]
                   EXCEPT !["missing"] = missing]
<1>1. DOMAIN old = StepFields
  BY DEF AtRun, RunRows, WellFormed
<1>2. SameStep(s, old) /\ s.status = "error" /\ s.error = category /\ s.missing = missing
      /\ s.used = old.used /\ s.answer = old.answer
  <2> HIDE DEF old
  <2> QED BY <1>1 DEF SameStep, StepFields
<1>3. runs' = [runs EXCEPT ![current].steps[pos] = s]
  <2>1. "steps" \in DOMAIN runs[current] /\ current \in DOMAIN runs
    BY DEF AtRun, RunRows, WellFormed, RunFields
  <2>2. runs' = [runs EXCEPT ![current].steps[pos]["status"] = "error",
                             ![current].steps[pos]["error"] = category,
                             ![current].steps[pos]["missing"] = missing]
    BY DEF RecordError
  <2> DEFINE two == [[old EXCEPT !["status"] = "error"] EXCEPT !["error"] = category]
             rows == [runs EXCEPT ![current].steps[pos]["status"] = "error",
                                  ![current].steps[pos]["error"] = category]
  <2>3. rows = [runs EXCEPT ![current].steps[pos] = two]
    BY <2>1
  <2>4. runs' = [rows EXCEPT ![current].steps[pos]["missing"] = missing]
    BY <2>2
  <2>5. s = [two EXCEPT !["missing"] = missing]
    OBVIOUS
  <2> HIDE DEF two, s, rows
  <2>6. QED
    BY <2>1, <2>3, <2>4, <2>5
<1> HIDE DEF s
<1>4. QED
  BY <1>2, <1>3, OneWrite

LEMMA SendWrites ==
  ASSUME AtRun, SendRequest, pos \in DOMAIN runs[current].steps
  PROVE  \E s : /\ Writes(pos, s, runs[current].vars)
                /\ s.status = runs[current].steps[pos].status
                /\ s.missing = runs[current].steps[pos].missing
                /\ s.error = runs[current].steps[pos].error
                /\ s.answer = runs[current].steps[pos].answer
                /\ s.used = [k \in RuntimeVariables(Merged(Step)) |-> runs[current].vars[k]]
<1>1. PICK x, u : /\ runs' = [runs EXCEPT ![current].steps[pos].sent = x,
                                         ![current].steps[pos].used = u]
                  /\ u = [k \in RuntimeVariables(Merged(Step)) |-> runs[current].vars[k]]
  BY DEF SendRequest, Run
<1> DEFINE old == runs[current].steps[pos]
           s == [[old EXCEPT !["sent"] = x] EXCEPT !["used"] = u]
<1>2. DOMAIN old = StepFields
  BY DEF AtRun, RunRows, WellFormed
<1>3. SameStep(s, old) /\ s.status = old.status /\ s.missing = old.missing /\ s.error = old.error
      /\ s.answer = old.answer /\ s.used = u
  <2> HIDE DEF old
  <2> QED BY <1>2 DEF SameStep, StepFields
<1>4. runs' = [runs EXCEPT ![current].steps[pos] = s]
  <2>1. "steps" \in DOMAIN runs[current] /\ current \in DOMAIN runs
    BY DEF AtRun, RunRows, WellFormed, RunFields
  <2>2. QED
    BY <1>1, <2>1
<1> HIDE DEF s
<1>5. QED
  BY <1>1, <1>3, <1>4, OneWrite

\* An answer that is judged gives the run the values of its step when no assertion
\* raises, and the step ends well only when all of its rules yield a value.
LEMMA JudgeWrites ==
  ASSUME AtRun, NEW answer, JudgeAnswer(answer), pos \in DOMAIN runs[current].steps
  PROVE  LET old == runs[current].steps[pos]
             values == runs[current].vars
         IN \E s, new :
              /\ Writes(pos, s, new) /\ s.status \in Done /\ s.answer = {answer}
              /\ s.error = Outcome(answer)
              /\ s.used = old.used /\ s.missing = old.missing /\ s.extracts = old.extracts
              /\ \/ new = values /\ s.status = "error"
                 \/ /\ new = Overlay(Extracted(old.extracts, answer), values)
                    /\ s.status \in {"passed", "failed"} <=> FailedRules(old.extracts, answer) = {}
<1> DEFINE old == runs[current].steps[pos]
           values == runs[current].vars
           raised == Raised(answer)
           failed == FailedRules(old.extracts, answer)
           outcome == Outcome(answer)
           status == EndStatus(outcome)
           new == IF raised = {} THEN Overlay(Extracted(old.extracts, answer), values) ELSE values
           rows == [runs EXCEPT ![current].steps[pos].answer = {answer},
                                ![current].steps[pos].error = outcome,
                                ![current].steps[pos].status = status]
<1>1. runs' = [rows EXCEPT ![current].vars = new]
  BY DEF JudgeAnswer, Step, Run
<1>2. /\ raised # {} => status = "error"
      /\ raised = {} => (status \in {"passed", "failed"} <=> failed = {})
      /\ status \in Done
  <2>1. \A code : Category(code) \notin {"none", "assertion"}
    BY DEF Category
  <2>2. /\ raised # {} => outcome \notin {"none", "assertion"}
        /\ raised = {} /\ failed # {} => outcome \notin {"none", "assertion"}
        /\ raised = {} /\ failed = {} => outcome \in {"none", "assertion"}
    BY <2>1 DEF Outcome, Step, Run
  <2> HIDE DEF raised, failed, outcome
  <2>3. QED
    BY <2>2 DEF EndStatus, Done
<1> HIDE DEF raised, failed, outcome, status, new
<1> DEFINE two == [[old EXCEPT !["answer"] = {answer}] EXCEPT !["error"] = outcome]
           s == [two EXCEPT !["status"] = status]
           earlier == [runs EXCEPT ![current].steps[pos]["answer"] = {answer},
                                   ![current].steps[pos]["error"] = outcome]
<1>3. "steps" \in DOMAIN runs[current] /\ current \in DOMAIN runs /\ DOMAIN old = StepFields
  BY DEF AtRun, RunRows, WellFormed, RunFields
<1>4. earlier = [runs EXCEPT ![current].steps[pos] = two]
  BY <1>3
<1>5. rows = [earlier EXCEPT ![current].steps[pos]["status"] = status]
  OBVIOUS
<1>6. /\ SameStep(s, old) /\ s.status = status /\ s.answer = {answer} /\ s.error = outcome
      /\ s.used = old.used /\ s.missing = old.missing /\ s.extracts = old.extracts
  <2> HIDE DEF old
  <2> QED BY <1>3 DEF SameStep, StepFields
<1>7. rows = [runs EXCEPT ![current].steps[pos] = s]
  <2>1. s = [two EXCEPT !["status"] = status]
    OBVIOUS
  <2> HIDE DEF two, s, earlier, rows
  <2>2. QED
    BY <1>3, <1>4, <1>5, <2>1
<1>8. Writes(pos, s, new)
  <2> HIDE DEF rows, s
  <2>1. runs' = [runs EXCEPT ![current].steps[pos] = s, ![current].vars = new]
    BY <1>1, <1>7
  <2>2. QED
    BY <1>6, <2>1, OneWriteOfValues
<1> HIDE DEF s
<1>9. \/ new = values /\ status = "error"
      \/ /\ new = Overlay(Extracted(old.extracts, answer), values)
         /\ status \in {"passed", "failed"} <=> failed = {}
  BY <1>2 DEF new
<1>10. QED
  BY <1>2, <1>6, <1>8, <1>9 DEF failed, outcome

----------------------------------------------------------------------------
(* The worker keeps the invariant *)

\* What holds of the runs depends on the contents of the cases only.
LEMMA SameContent ==
  ASSUME content' = content, NEW r, RunValues(runs'[r])
  PROVE  RunValues(runs[r])'
BY DEF RunValues, ValuesOK, UsedOK, Sourced, Unedited, Fed, Merged, Content, MissingOK, Untouched, Yields

LEMMA StillSaved ==
  ASSUME VInv, content' = content, suites' = suites
  PROVE  SavedOK'
BY DEF VInv, SavedOK, Unedited, Fed, DisjointKeys, Merged, Content

LEMMA RunsKeep ==
  ASSUME VInv, NEW r, OneUpdated(r), r \in DOMAIN runs => RunValues(runs'[r]), content' = content
  PROVE  (\A o \in DOMAIN runs : RunValues(runs[o]))'
<1>1. ASSUME NEW o \in DOMAIN runs'
      PROVE  RunValues(runs[o])'
  <2>1. RunValues(runs'[o])
    <3>1. CASE o = r
      BY <1>1, <3>1 DEF OneUpdated
    <3>2. CASE o # r
      <4>1. runs'[o] = runs[o] /\ o \in DOMAIN runs
        BY <1>1, <3>2 DEF OneUpdated
      <4>2. RunValues(runs[o])
        BY <4>1 DEF VInv
      <4>3. QED
        BY <4>1, <4>2
    <3>3. QED
      BY <3>1, <3>2
  <2>2. QED
    BY <2>1, SameContent
<1>2. QED
  BY <1>1

\* Where the worker is in its run.
LEMMA WorkerFacts ==
  ASSUME IInv, VInv, pc # "idle"
  PROVE  /\ AtRun /\ RunValues(runs[current]) /\ runs[current].status = "running"
         /\ IsSequence(runs[current].steps) /\ pos \in 0..Len(runs[current].steps)
         /\ Len(runs[current].steps) \in Nat
         /\ DOMAIN runs[current].steps = 1..Len(runs[current].steps)
         /\ pc # "between" => pos \in DOMAIN runs[current].steps
                              /\ runs[current].steps[pos].status = "running"
         /\ pc = "between" /\ pos > 0 => runs[current].steps[pos].status \in Done
         /\ \A j \in 1..(pos - 1) :
              /\ runs[current].steps[j].status \in Done
              /\ runs[current].stop => runs[current].steps[j].status = "passed"
         /\ \A j \in DOMAIN runs[current].steps : j > pos => Untouched(runs[current].steps[j])
<1>1. AtRun /\ runs[current].status = "running" /\ current \in DOMAIN runs
  BY AtRunOf DEF IInv, AtWork
<1>2. RunValues(runs[current]) /\ IsSequence(runs[current].steps)
  BY <1>1 DEF VInv, AtRun, RunRows, WellFormed
<1>3. /\ Len(runs[current].steps) \in Nat
      /\ DOMAIN runs[current].steps = 1..Len(runs[current].steps)
  BY <1>2, SequenceFacts
<1>4. QED
  BY <1>1, <1>2, <1>3 DEF VInv, Position, Run, Step

\* The step at which the worker is has been sent, or has ended.
LEMMA StepMoves ==
  ASSUME IInv, VInv, pc \in {"prepare", "answer"}, UNCHANGED <<config, current, pos>>,
         NEW s, NEW values, Writes(pos, s, values), RunValues(runs'[current]),
         \/ pc' = "answer" /\ s.status = "running"
         \/ pc' = "between" /\ s.status \in Done
  PROVE  VInv'
<1> DEFINE old == runs[current]
           new == runs'[current]
<1>1. /\ pos \in 0..Len(old.steps) /\ pos \in DOMAIN old.steps
      /\ Len(old.steps) \in Nat /\ DOMAIN old.steps = 1..Len(old.steps)
      /\ \A j \in 1..(pos - 1) : /\ old.steps[j].status \in Done
                                 /\ old.stop => old.steps[j].status = "passed"
      /\ \A j \in DOMAIN old.steps : j > pos => Untouched(old.steps[j])
  BY WorkerFacts
<1>2. /\ IsSequence(new.steps) /\ DOMAIN new.steps = DOMAIN old.steps /\ new.stop = old.stop
      /\ \A j \in DOMAIN old.steps : new.steps[j] = IF j = pos THEN s ELSE old.steps[j]
  BY DEF Writes, Rewritten, SameDefinition, WellFormed
<1>3. Len(new.steps) \in Nat /\ DOMAIN new.steps = 1..Len(new.steps)
  BY <1>2, SequenceFacts
<1>4. /\ pos \in 0..Len(new.steps) /\ pos > 0 /\ new.steps[pos] = s
      /\ \A j \in 1..(pos - 1) : /\ new.steps[j].status \in Done
                                 /\ new.stop => new.steps[j].status = "passed"
      /\ \A j \in DOMAIN new.steps : j > pos => Untouched(new.steps[j])
  <2> HIDE DEF new, old
  <2>1. Len(new.steps) = Len(old.steps)
    BY <1>1, <1>2, <1>3
  <2>2. ASSUME NEW j \in 1..(pos - 1)
        PROVE  j \in DOMAIN old.steps /\ new.steps[j] = old.steps[j]
    BY <1>1, <1>2
  <2>3. \A j \in DOMAIN new.steps : j > pos => Untouched(new.steps[j])
    BY <1>1, <1>2
  <2>4. \A j \in 1..(pos - 1) : /\ new.steps[j].status \in Done
                                /\ new.stop => new.steps[j].status = "passed"
    BY <1>1, <1>2, <2>2
  <2>5. QED
    BY <1>1, <1>2, <2>1, <2>3, <2>4
<1>5. Position'
  <2>1. Run' = new /\ Step' = s
    BY <1>4 DEF Run, Step
  <2> HIDE DEF new
  <2>2. QED
    BY <1>4, <2>1 DEF Position, Untouched
<1>6. (\A o \in DOMAIN runs : RunValues(runs[o]))'
  BY RunsKeep DEF Writes, config
<1>7. SavedOK'
  BY StillSaved DEF config
<1>8. QED
  BY <1>5, <1>6, <1>7 DEF VInv, config

LEMMA StillValues ==
  ASSUME NEW old, RunValues(old), NEW i, old.steps[i].status \notin Done,
         NEW new, NEW s, NEW values, Rewritten(new, old, i, s, values)
  PROVE  \A k \in DOMAIN old.vars :
           old.vars[k] # Null /\ \E j \in DOMAIN new.steps : Yields(new.steps[j], k, old.vars[k])
<1> SUFFICES ASSUME NEW k \in DOMAIN old.vars
             PROVE  old.vars[k] # Null /\ \E j \in DOMAIN new.steps : Yields(new.steps[j], k, old.vars[k])
  OBVIOUS
<1>1. old.vars[k] # Null /\ \E j \in DOMAIN old.steps : Yields(old.steps[j], k, old.vars[k])
  BY DEF RunValues, ValuesOK
<1>2. PICK j \in DOMAIN old.steps : Yields(old.steps[j], k, old.vars[k])
  BY <1>1
<1>3. j \in DOMAIN new.steps /\ Yields(new.steps[j], k, old.vars[k])
  BY <1>2 DEF Rewritten, SameDefinition, Yields, Done
<1>4. QED
  BY <1>1, <1>3

\* The errors: what is missing was to come from an earlier step that ended in one.
LEMMA RecordErrorStep ==
  ASSUME IInv, VInv, pc \in {"prepare", "answer"}, NEW category, NEW missing,
         RecordError(category, missing),
         Unedited => \A k \in missing :
           /\ ~runs[current].stop
           /\ \E j \in 1..(pos - 1) :
                k \in Keys(runs[current].steps[j].extracts) /\ runs[current].steps[j].status = "error"
  PROVE  VInv'
<1> DEFINE old == runs[current]
           new == runs'[current]
<1>1. /\ AtRun /\ RunValues(old) /\ old.status = "running" /\ IsSequence(old.steps)
      /\ pos \in DOMAIN old.steps /\ old.steps[pos].status \notin Done
  BY WorkerFacts DEF Done
<1>2. PICK s : Writes(pos, s, old.vars) /\ s.status = "error" /\ s.missing = missing
               /\ s.used = old.steps[pos].used
  BY <1>1, RecordErrorWrites
<1>3. Rewritten(new, old, pos, s, old.vars)
  BY <1>2 DEF Writes
<1>4. \A k \in DOMAIN old.vars :
        old.vars[k] # Null /\ \E j \in DOMAIN new.steps : Yields(new.steps[j], k, old.vars[k])
  <2> HIDE DEF old, new
  <2>1. QED
    BY <1>1, <1>3, StillValues
<1>5. \A k \in DOMAIN s.used : \E j \in 1..(pos - 1) : Yields(old.steps[j], k, s.used[k])
  BY <1>1, <1>2 DEF RunValues, UsedOK
<1>6. RunValues(new)
  <2>1. Unedited => \A k \in s.missing : ~old.stop /\ \E j \in 1..(pos - 1) :
                      k \in Keys(old.steps[j].extracts) /\ old.steps[j].status = "error"
    BY <1>2
  <2>2. old.status # "pending" /\ s.status \notin {"passed", "failed"}
    BY <1>1, <1>2
  <2> HIDE DEF old, new
  <2>3. QED
    BY <1>1, <1>3, <1>4, <1>5, <2>1, <2>2, RewriteKeeps
<1>7. QED
  BY <1>2, <1>6, StepMoves DEF RecordError, Done

\* The steps before the worker's are the ones that have yielded a value.
LEMMA YieldedBefore ==
  ASSUME IInv, VInv, pc \in {"prepare", "answer"}, NEW k \in DOMAIN runs[current].vars
  PROVE  \E j \in 1..(pos - 1) : Yields(runs[current].steps[j], k, runs[current].vars[k])
<1>1. PICK j \in DOMAIN runs[current].steps : Yields(runs[current].steps[j], k, runs[current].vars[k])
  BY WorkerFacts DEF RunValues, ValuesOK
<1>2. runs[current].steps[j].status \in {"passed", "failed"}
  BY <1>1 DEF Yields
<1>3. ~(j > pos) /\ j # pos
  BY <1>2, WorkerFacts DEF Untouched
<1>4. j \in 1..(pos - 1)
  BY <1>3, WorkerFacts
<1>5. QED
  BY <1>1, <1>4

LEMMA RefuseStep ==
  ASSUME IInv, VInv, RefuseRequest
  PROVE  VInv'
<1> DEFINE code == BuildError(Library[Step.case], Merged(Step), Building)
           missing == {x[2] : x \in {y \in Missing(References(Merged(Step)), Building) : y[1] = "runtime"}}
           run == runs[current]
<1>1. pc = "prepare"
  BY DEF RefuseRequest
<1>2. \/ RecordError(Category(code), missing)
      \/ RecordError("security", {})
  BY DEF RefuseRequest
<1>3. ASSUME Unedited, NEW k \in missing
      PROVE  /\ ~run.stop
             /\ \E j \in 1..(pos - 1) : k \in Keys(run.steps[j].extracts) /\ run.steps[j].status = "error"
  <2>1. k \in RuntimeVariables(Merged(run.steps[pos])) /\ (k \in DOMAIN run.vars => run.vars[k] = Null)
    <3>1. Building = Namespaces(TargetEnvironment, run.vars) /\ Step = run.steps[pos]
      BY DEF Building, Step, Run
    <3>2. missing = {x[2] : x \in {y \in Missing(References(Merged(run.steps[pos])), Building) : y[1] = "runtime"}}
      BY <3>1
    <3> HIDE DEF run, missing
    <3>3. QED
      BY <1>3, <3>1, <3>2, MissingFacts
  <2>2. k \notin DOMAIN run.vars
    BY <1>1, <2>1, WorkerFacts DEF RunValues, ValuesOK
  <2>3. PICK j \in 1..(pos - 1) : k \in Keys(run.steps[j].extracts)
    BY <1>1, <1>3, <2>1, WorkerFacts DEF RunValues, Fed
  <2>4. /\ run.steps[j].status \in Done /\ (run.stop => run.steps[j].status = "passed")
        /\ j \in DOMAIN run.steps
    BY <1>1, WorkerFacts
  <2>5. run.steps[j].status \notin {"passed", "failed"}
    BY <1>1, <2>2, <2>3, <2>4, WorkerFacts DEF RunValues, ValuesOK
  <2>6. QED
    BY <2>3, <2>4, <2>5 DEF Done
<1>4. CASE RecordError(Category(code), missing)
  <2> HIDE DEF code, missing, run
  <2> QED BY <1>1, <1>3, <1>4, RecordErrorStep DEF run
<1>5. CASE RecordError("security", {})
  BY <1>1, <1>5, RecordErrorStep
<1>6. QED
  BY <1>2, <1>4, <1>5

\* A request is sent when every runtime variable in it has a value, which an
\* earlier step has yielded.
LEMMA SendValuesStep ==
  ASSUME IInv, VInv, SendRequest
  PROVE  VInv'
<1> DEFINE old == runs[current]
           new == runs'[current]
           wanted == RuntimeVariables(Merged(Step))
<1>1. /\ AtRun /\ RunValues(old) /\ old.status = "running" /\ IsSequence(old.steps)
      /\ pos \in DOMAIN old.steps /\ old.steps[pos].status = "running" /\ pc = "prepare"
  BY WorkerFacts DEF SendRequest
<1>2. PICK s : /\ Writes(pos, s, old.vars) /\ s.status = "running"
               /\ s.missing = old.steps[pos].missing
               /\ s.used = [k \in wanted |-> old.vars[k]]
  BY <1>1, SendWrites
<1>3. Rewritten(new, old, pos, s, old.vars)
  BY <1>2 DEF Writes
<1>4. wanted \subseteq DOMAIN old.vars
  <2>1. BuildError(Library[Step.case], Merged(Step), Namespaces(TargetEnvironment, old.vars)) = "none"
    BY DEF SendRequest, Building, Run
  <2> HIDE DEF old
  <2>2. QED
    BY <2>1, BuiltFacts
<1>5. \A k \in DOMAIN old.vars :
        old.vars[k] # Null /\ \E j \in DOMAIN new.steps : Yields(new.steps[j], k, old.vars[k])
  <2>1. old.steps[pos].status \notin Done
    BY <1>1 DEF Done
  <2> HIDE DEF old, new
  <2>2. QED
    BY <1>1, <1>3, <2>1, StillValues
<1>6. ASSUME NEW k \in DOMAIN s.used
      PROVE  \E j \in 1..(pos - 1) : Yields(old.steps[j], k, s.used[k])
  <2>1. k \in DOMAIN old.vars /\ s.used[k] = old.vars[k]
    BY <1>2, <1>4, <1>6
  <2>2. QED
    BY <1>1, <2>1, YieldedBefore
<1>7. RunValues(new)
  <2>1. Unedited => \A k \in s.missing : ~old.stop /\ \E j \in 1..(pos - 1) :
                      k \in Keys(old.steps[j].extracts) /\ old.steps[j].status = "error"
    BY <1>1, <1>2 DEF RunValues, MissingOK
  <2>2. /\ old.status # "pending" /\ s.status \notin {"passed", "failed"}
        /\ old.steps[pos].status \notin Done
    BY <1>1, <1>2 DEF Done
  <2> HIDE DEF old, new
  <2>3. QED
    BY <1>1, <1>3, <1>5, <1>6, <2>1, <2>2, RewriteKeeps
<1>8. QED
  BY <1>1, <1>2, <1>7, StepMoves DEF SendRequest

\* The values that an answer gives join those of the run: all of the step's, and
\* the step has then ended well, or none.
LEMMA JudgeStep ==
  ASSUME IInv, VInv, NEW answer, JudgeAnswer(answer)
  PROVE  VInv'
<1> DEFINE old == runs[current]
           new == runs'[current]
           rules == old.steps[pos].extracts
           gained == Extracted(rules, answer)
<1>1. /\ AtRun /\ RunValues(old) /\ old.status = "running" /\ IsSequence(old.steps)
      /\ pos \in DOMAIN old.steps /\ old.steps[pos].status \notin Done /\ pc = "answer"
  BY WorkerFacts DEF JudgeAnswer, Done
<1>2. PICK s, values :
        /\ Writes(pos, s, values) /\ s.status \in Done /\ s.answer = {answer}
        /\ s.used = old.steps[pos].used /\ s.missing = old.steps[pos].missing /\ s.extracts = rules
        /\ \/ values = old.vars /\ s.status = "error"
           \/ /\ values = Overlay(gained, old.vars)
              /\ s.status \in {"passed", "failed"} <=> FailedRules(rules, answer) = {}
  BY <1>1, JudgeWrites
<1>3. Rewritten(new, old, pos, s, values)
  BY <1>2 DEF Writes
<1>4. \A k \in DOMAIN old.vars :
        old.vars[k] # Null /\ \E j \in DOMAIN new.steps : Yields(new.steps[j], k, old.vars[k])
  <2> HIDE DEF old, new
  <2>1. QED
    BY <1>1, <1>3, StillValues
<1>5. pos \in DOMAIN new.steps /\ new.steps[pos] = s
  BY <1>1, <1>3 DEF Rewritten, SameDefinition
<1>6. ASSUME s.status \in {"passed", "failed"} <=> FailedRules(rules, answer) = {},
             NEW k \in DOMAIN gained
      PROVE  gained[k] # Null /\ Yields(s, k, gained[k]) /\ Keys(rules) \subseteq DOMAIN gained
  <2>1. FailedRules(rules, answer) = {} /\ Keys(rules) = DOMAIN gained
    BY <1>6, ExtractedFacts
  <2>2. PICK rule \in ToSet(rules) : rule.key = k /\ gained[k] \in ExtractRuntimeValue(rule, answer)
    BY <1>6, ExtractedFacts
  <2>3. rule.source \in ExtractionSources
    BY <1>1, <2>2 DEF RunValues, Sourced, ToSet
  <2>4. gained[k] # Null
    BY <2>2, <2>3, YieldsValues
  <2>5. QED
    BY <1>2, <1>6, <2>1, <2>2, <2>4 DEF Yields
<1>7. /\ \A k \in DOMAIN values :
           values[k] # Null /\ \E j \in DOMAIN new.steps : Yields(new.steps[j], k, values[k])
      /\ DOMAIN old.vars \subseteq DOMAIN values
      /\ s.status \in {"passed", "failed"} => Keys(s.extracts) \subseteq DOMAIN values
  <2>1. CASE values = old.vars /\ s.status = "error"
    BY <1>4, <2>1
  <2>2. CASE /\ values = Overlay(gained, old.vars)
             /\ s.status \in {"passed", "failed"} <=> FailedRules(rules, answer) = {}
    <3>1. /\ DOMAIN values = DOMAIN gained \cup DOMAIN old.vars
          /\ \A k \in DOMAIN gained : values[k] = gained[k]
          /\ \A k \in DOMAIN old.vars \ DOMAIN gained : values[k] = old.vars[k]
      <4>1. values = Overlay(gained, old.vars)
        BY <2>2
      <4> HIDE DEF gained, old
      <4>2. QED
        BY <4>1 DEF Overlay
    <3>2. s.status \in {"passed", "failed"} => Keys(rules) \subseteq DOMAIN gained
      BY <2>2, ExtractedFacts
    <3>3. \A k \in DOMAIN gained : gained[k] # Null /\ Yields(new.steps[pos], k, gained[k])
      BY <1>5, <1>6, <2>2
    <3> HIDE DEF gained, new, old, rules
    <3>4. QED
      BY <1>2, <1>4, <1>5, <3>1, <3>2, <3>3
  <2>3. QED
    BY <1>2, <2>1, <2>2
<1>8. RunValues(new)
  <2>1. \A k \in DOMAIN s.used : \E j \in 1..(pos - 1) : Yields(old.steps[j], k, s.used[k])
    BY <1>1, <1>2 DEF RunValues, UsedOK
  <2>2. Unedited => \A k \in s.missing : ~old.stop /\ \E j \in 1..(pos - 1) :
                      k \in Keys(old.steps[j].extracts) /\ old.steps[j].status = "error"
    BY <1>1, <1>2 DEF RunValues, MissingOK
  <2>3. old.status # "pending"
    BY <1>1
  <2> HIDE DEF old, new, rules
  <2>4. QED
    BY <1>1, <1>3, <1>7, <2>1, <2>2, <2>3, RewriteKeeps
<1>9. QED
  BY <1>2, <1>8, StepMoves DEF JudgeAnswer

LEMMA BeginStepStep ==
  ASSUME IInv, VInv, BeginStep
  PROVE  VInv'
<1> DEFINE old == runs[current]
           new == runs'[current]
           s == [old.steps[pos + 1] EXCEPT !.status = "running"]
<1>1. /\ AtRun /\ RunValues(old) /\ old.status = "running" /\ IsSequence(old.steps)
      /\ pos \in 0..Len(old.steps) /\ Len(old.steps) \in Nat /\ DOMAIN old.steps = 1..Len(old.steps)
      /\ pos > 0 => old.steps[pos].status \in Done
      /\ \A j \in 1..(pos - 1) : /\ old.steps[j].status \in Done
                                 /\ old.stop => old.steps[j].status = "passed"
      /\ \A j \in DOMAIN old.steps : j > pos => Untouched(old.steps[j])
  BY WorkerFacts DEF BeginStep
<1>2. pos + 1 \in DOMAIN old.steps /\ pos < Len(old.steps)
  BY <1>1 DEF BeginStep, Run
<1>3. pos > 0 /\ old.stop => old.steps[pos].status = "passed"
  BY <1>1 DEF BeginStep, Halts, Bad, Done, Run, Step
<1>4. Untouched(old.steps[pos + 1])
  BY <1>1, <1>2
<1>5. /\ Writes(pos + 1, s, old.vars) /\ s.status = "running" /\ s.used = Bare /\ s.missing = {}
  BY <1>1, <1>2, <1>4, BeginWrites DEF Untouched
<1> HIDE DEF s
<1>6. Rewritten(new, old, pos + 1, s, old.vars)
  BY <1>5 DEF Writes
<1>7. RunValues(new)
  <2>1. old.status # "pending" /\ old.steps[pos + 1].status \notin Done
    BY <1>1, <1>4 DEF Untouched, Done
  <2>2. \A k \in DOMAIN old.vars :
          old.vars[k] # Null /\ \E j \in DOMAIN new.steps : Yields(new.steps[j], k, old.vars[k])
    <3> HIDE DEF old, new
    <3> QED BY <1>1, <1>6, <2>1, StillValues
  <2>3. s.status \notin {"passed", "failed"} /\ DOMAIN s.used = {} /\ s.missing = {}
    BY <1>5 DEF Bare
  <2> HIDE DEF old, new
  <2>4. QED
    BY <1>1, <1>2, <1>6, <2>1, <2>2, <2>3, RewriteKeeps
<1>8. /\ IsSequence(new.steps) /\ DOMAIN new.steps = DOMAIN old.steps /\ new.stop = old.stop
      /\ \A j \in DOMAIN old.steps : new.steps[j] = IF j = pos + 1 THEN s ELSE old.steps[j]
  BY <1>6 DEF Rewritten, SameDefinition, WellFormed
<1>9. Len(new.steps) = Len(old.steps)
  <2>1. Len(new.steps) \in Nat /\ DOMAIN new.steps = 1..Len(new.steps)
    BY <1>8, SequenceFacts
  <2> HIDE DEF new, old
  <2>2. QED
    BY <1>1, <1>8, <2>1
<1>10. /\ pos + 1 \in 0..Len(new.steps) /\ new.steps[pos + 1] = s
       /\ \A j \in 1..((pos + 1) - 1) : /\ new.steps[j].status \in Done
                                        /\ new.stop => new.steps[j].status = "passed"
       /\ \A j \in DOMAIN new.steps : j > pos + 1 => Untouched(new.steps[j])
  <2> HIDE DEF new, old
  <2>1. ASSUME NEW j \in 1..((pos + 1) - 1)
        PROVE  /\ j \in DOMAIN old.steps /\ new.steps[j] = old.steps[j]
               /\ j = pos \/ j \in 1..(pos - 1)
    <3>1. pos \in Nat /\ j \in Nat /\ 1 <= j /\ j <= pos
      BY <1>1
    <3>2. j \in DOMAIN old.steps /\ j # pos + 1 /\ (j = pos \/ j \in 1..(pos - 1))
      BY <1>1, <3>1
    <3>3. QED
      BY <1>8, <3>2
  <2>2. \A j \in 1..((pos + 1) - 1) : /\ new.steps[j].status \in Done
                                      /\ new.stop => new.steps[j].status = "passed"
    BY <1>1, <1>3, <1>8, <2>1
  <2>3. \A j \in DOMAIN new.steps : j > pos + 1 => Untouched(new.steps[j])
    BY <1>1, <1>8
  <2>4. QED
    BY <1>1, <1>2, <1>8, <1>9, <2>2, <2>3
<1>11. pc' = "prepare" /\ pos' = pos + 1 /\ UNCHANGED <<config, request, current>>
  BY DEF BeginStep
<1>12. Position'
  <2>1. Run' = new /\ Step' = s
    BY <1>10, <1>11 DEF Run, Step
  <2> HIDE DEF new
  <2>2. QED
    BY <1>1, <1>5, <1>10, <1>11, <2>1 DEF Position, Untouched
<1>13. (\A o \in DOMAIN runs : RunValues(runs[o]))'
  BY <1>5, <1>7, <1>11, RunsKeep DEF Writes, config
<1>14. SavedOK'
  BY <1>11, StillSaved DEF config
<1>15. QED
  BY <1>11, <1>12, <1>13, <1>14 DEF VInv, config

\* A run that the worker takes up has not begun.
LEMMA ClaimValuesStep ==
  ASSUME IInv, VInv, Claim
  PROVE  VInv'
<1>1. PICK r \in Pending : current' = r /\ runs' = [runs EXCEPT ![r].status = "running"]
  BY DEF Claim
<1> DEFINE old == runs[r]
           new == [old EXCEPT !.status = "running"]
<1>2. /\ r \in DOMAIN runs /\ old.status = "pending" /\ WellFormed(old) /\ RunValues(old)
      /\ IsSequence(runs)
  BY <1>1 DEF Pending, IInv, RunRows, VInv
<1>3. /\ SameDefinition(new, old) /\ new.steps = old.steps /\ new.vars = old.vars
      /\ new.stop = old.stop /\ new.status = "running"
  <2>1. SameDefinition(new, old)
    <3> HIDE DEF old
    <3> QED BY <1>2, FieldUpdate
  <2>2. QED
    BY <1>2, <2>1 DEF WellFormed, RunFields
<1>4. runs' = [runs EXCEPT ![r] = new]
  BY <1>1
<1> HIDE DEF new
<1>5. OneUpdated(r) /\ runs'[r] = new
  BY <1>2, <1>3, <1>4, RunUpdate, UpdateFacts
<1>6. RunValues(new)
  BY <1>2, <1>3 DEF RunValues, ValuesOK, UsedOK, MissingOK
<1>7. (\A o \in DOMAIN runs : RunValues(runs[o]))'
  BY <1>5, <1>6, RunsKeep DEF Claim, config
<1>8. pc' = "between" /\ pos' = 0 /\ UNCHANGED config
  BY DEF Claim
<1>9. Position'
  <2>1. Run' = new
    BY <1>1, <1>5 DEF Run
  <2>2. \A j \in DOMAIN new.steps : Untouched(new.steps[j])
    BY <1>2, <1>3 DEF RunValues
  <2>3. Len(new.steps) \in Nat
    BY <1>2, <1>3, SequenceFacts DEF WellFormed
  <2>4. QED
    BY <1>8, <2>1, <2>2, <2>3 DEF Position, Untouched
<1>10. SavedOK'
  BY <1>8, StillSaved DEF config
<1>11. QED
  BY <1>7, <1>8, <1>9, <1>10 DEF VInv, config

\* The steps that are skipped have used nothing and miss nothing.
LEMMA FinishValuesStep ==
  ASSUME IInv, VInv, FinishRun
  PROVE  VInv'
<1> DEFINE old == runs[current]
           new == runs'[current]
<1>1. /\ AtRun /\ RunValues(old) /\ IsSequence(old.steps)
      /\ Len(old.steps) \in Nat /\ DOMAIN old.steps = 1..Len(old.steps)
      /\ \A j \in DOMAIN old.steps : j > pos => Untouched(old.steps[j])
  BY WorkerFacts DEF FinishRun
<1>2. /\ OneUpdated(current) /\ SameDefinition(new, old)
      /\ new.vars = old.vars /\ new.stop = old.stop /\ new.status = "completed"
      /\ \A i \in DOMAIN old.steps :
           new.steps[i] = IF i > pos THEN [old.steps[i] EXCEPT !.status = "skipped"] ELSE old.steps[i]
  BY <1>1, FinishUpdate DEF OneUpdated, AtRun
<1>3. /\ DOMAIN new.steps = DOMAIN old.steps
      /\ \A i \in DOMAIN old.steps : /\ new.steps[i].case = old.steps[i].case
                                     /\ new.steps[i].override = old.steps[i].override
                                     /\ new.steps[i].extracts = old.steps[i].extracts
  BY <1>2 DEF SameDefinition
<1>4. \A i \in DOMAIN old.steps : DOMAIN old.steps[i] = StepFields
  BY <1>1 DEF AtRun, RunRows, WellFormed
<1> HIDE DEF old, new
<1>5. \A i \in DOMAIN old.steps :
        /\ new.steps[i].used = old.steps[i].used /\ new.steps[i].missing = old.steps[i].missing
        /\ i > pos => new.steps[i].status = "skipped"
        /\ ~(i > pos) => new.steps[i] = old.steps[i]
  BY <1>2, <1>4 DEF StepFields
<1>6. ASSUME NEW i \in DOMAIN old.steps, old.steps[i].status \in Done
      PROVE  new.steps[i] = old.steps[i]
  BY <1>1, <1>5, <1>6 DEF Untouched, Done
<1>7. \A i \in DOMAIN old.steps : \A j \in 1..(i - 1) : j \in DOMAIN old.steps
  BY <1>1
<1>8. ASSUME NEW i \in DOMAIN old.steps, NEW k, NEW v, Yields(old.steps[i], k, v)
      PROVE  Yields(new.steps[i], k, v)
  <2>1. old.steps[i].status \in Done
    BY <1>8 DEF Yields, Done
  <2>2. QED
    BY <1>6, <1>8, <2>1
<1>9. ValuesOK(new)
  <2>1. \A k \in DOMAIN new.vars :
          new.vars[k] # Null /\ \E j \in DOMAIN new.steps : Yields(new.steps[j], k, new.vars[k])
    <3>1. \A k \in DOMAIN old.vars :
            old.vars[k] # Null /\ \E j \in DOMAIN old.steps : Yields(old.steps[j], k, old.vars[k])
      BY <1>1 DEF RunValues, ValuesOK
    <3>2. QED
      BY <1>2, <1>3, <1>8, <3>1
  <2>2. \A i \in DOMAIN new.steps :
          new.steps[i].status \in {"passed", "failed"} => Keys(new.steps[i].extracts) \subseteq DOMAIN new.vars
    BY <1>1, <1>2, <1>3, <1>5 DEF RunValues, ValuesOK
  <2>3. QED
    BY <2>1, <2>2 DEF ValuesOK
<1>10. UsedOK(new)
  <2>1. \A i \in DOMAIN old.steps : \A k \in DOMAIN old.steps[i].used :
          \E j \in 1..(i - 1) : Yields(old.steps[j], k, old.steps[i].used[k])
    BY <1>1 DEF RunValues, UsedOK
  <2>2. QED
    BY <1>3, <1>5, <1>7, <1>8, <2>1 DEF UsedOK
<1>11. ASSUME Unedited
       PROVE  Fed(new.steps) /\ MissingOK(new)
  <2>1. \A i \in DOMAIN old.steps : Merged(new.steps[i]) = Merged(old.steps[i])
    BY <1>3 DEF Merged
  <2>2. Fed(new.steps)
    BY <1>1, <1>3, <1>7, <1>11, <2>1 DEF RunValues, Fed
  <2>3. \A i \in DOMAIN old.steps : old.steps[i].status = "error" => new.steps[i].status = "error"
    BY <1>6 DEF Done
  <2>4. \A i \in DOMAIN old.steps : \A k \in old.steps[i].missing :
          ~old.stop /\ \E j \in 1..(i - 1) : k \in Keys(old.steps[j].extracts) /\ old.steps[j].status = "error"
    BY <1>1, <1>11 DEF RunValues, MissingOK
  <2>5. MissingOK(new)
    BY <1>2, <1>3, <1>5, <1>7, <2>3, <2>4 DEF MissingOK
  <2>6. QED
    BY <2>2, <2>5
<1>12. RunValues(new)
  <2>1. Sourced(new.steps)
    BY <1>1, <1>3 DEF RunValues, Sourced
  <2>2. QED
    BY <1>2, <1>9, <1>10, <1>11, <2>1 DEF RunValues
<1>13. (\A o \in DOMAIN runs : RunValues(runs[o]))'
  BY <1>2, <1>12, RunsKeep DEF FinishRun, config, new
<1>14. Position' /\ SavedOK'
  BY StillSaved DEF FinishRun, Position, config
<1>15. QED
  BY <1>13, <1>14 DEF VInv, FinishRun, config

----------------------------------------------------------------------------
(* Authors, users and requests keep it *)

LEMMA InitValues == Init => VInv
<1> SUFFICES ASSUME Init PROVE VInv
  OBVIOUS
<1>1. runs = <<>> /\ suites = <<>> /\ pc = "idle" /\ content = [c \in Cases |-> 1]
  BY DEF Init
<1>2. DOMAIN runs = {} /\ DOMAIN suites = {}
  BY <1>1
<1>3. QED
  BY <1>1, <1>2 DEF VInv, Position, SavedOK

\* Neither the suites, the contents and the runs nor the worker change.
LEMMA OthersStep ==
  ASSUME VInv, UNCHANGED <<suites, content, runs, worker>>
  PROVE  VInv'
<1>1. SavedOK'
  BY StillSaved
<1>2. Position'
  BY DEF VInv, Position, worker, Run, Step, Untouched
<1>3. \A r \in DOMAIN runs : RunValues(runs'[r])
  BY DEF VInv
<1>4. (\A r \in DOMAIN runs : RunValues(runs[r]))'
  BY <1>3, SameContent
<1>5. QED
  BY <1>1, <1>2, <1>4 DEF VInv, worker

\* Once a case was edited late, the references of the saved steps say nothing more.
LEMMA LateEditStep ==
  ASSUME VInv, NEW c \in Cases, LateEdit(c)
  PROVE  VInv'
<1>1. content' \in [Cases -> {1, 2}] /\ content'[c] = 2
  BY DEF VInv, LateEdit
<1>2. ~Unedited'
  BY <1>1 DEF Unedited
<1>3. UNCHANGED <<runs, worker, suites>>
  BY DEF LateEdit
<1>4. ASSUME NEW r \in DOMAIN runs
      PROVE  RunValues(runs[r])'
  <2>1. RunValues(runs[r])
    BY <1>4 DEF VInv
  <2>2. (ValuesOK(runs[r]) /\ UsedOK(runs[r]) /\ Sourced(runs[r].steps))'
    BY <1>3, <2>1 DEF RunValues, ValuesOK, UsedOK, Sourced, Yields
  <2>3. (runs[r].status = "pending" =>
           runs[r].vars = Bare /\ \A i \in DOMAIN runs[r].steps : Untouched(runs[r].steps[i]))'
    BY <1>3, <2>1 DEF RunValues, Untouched
  <2>4. QED
    BY <1>2, <2>2, <2>3 DEF RunValues
<1>5. Position'
  BY <1>3 DEF VInv, Position, worker, Run, Step, Untouched
<1>6. QED
  BY <1>1, <1>2, <1>3, <1>4, <1>5 DEF VInv, SavedOK, worker

LEMMA SaveSuiteStep ==
  ASSUME IInv, VInv, NEW payload \in SuitePayloads, SaveSuite(payload)
  PROVE  VInv'
<1>1. /\ suites' = Append(suites, payload) /\ Accepts(payload.steps)
      /\ UNCHANGED <<content, runs, worker>>
  BY DEF SaveSuite
<1>2. IsSequence(payload.steps) /\ IsSequence(suites)
  BY SuitesAssumption DEF IsSequence, IInv
<1>3. Fed(payload.steps) /\ DisjointKeys(payload.steps)
  BY <1>1, <1>2, AcceptedFacts
<1>4. /\ DOMAIN suites' = 1..(Len(suites) + 1) /\ DOMAIN suites = 1..Len(suites) /\ Len(suites) \in Nat
      /\ \A i \in 1..Len(suites) : suites'[i] = suites[i]
      /\ suites'[Len(suites) + 1] = payload
  BY <1>1, <1>2, AppendFacts, SequenceFacts
<1>5. Unedited => \A v \in DOMAIN suites' : Fed(suites'[v].steps) /\ DisjointKeys(suites'[v].steps)
  <2>1. \A v \in DOMAIN suites' : v \in 1..Len(suites) \/ v = Len(suites) + 1
    BY <1>4
  <2>2. QED
    BY <1>3, <1>4, <2>1 DEF VInv, SavedOK
<1>6. SavedOK'
  <2> SUFFICES ASSUME Unedited', NEW v \in DOMAIN suites'
               PROVE  Fed(suites[v].steps)' /\ DisjointKeys(suites[v].steps)'
    BY DEF SavedOK
  <2>1. Unedited
    BY <1>1 DEF Unedited
  <2>2. Fed(suites'[v].steps) /\ DisjointKeys(suites'[v].steps)
    BY <1>5, <2>1
  <2>3. Fed(suites[v].steps)'
    BY <1>1, <2>2 DEF Fed, Merged, Content
  <2>4. DisjointKeys(suites[v].steps)'
    BY <2>2 DEF DisjointKeys
  <2>5. QED
    BY <2>3, <2>4
<1>7. Position'
  <2>1. Position
    BY DEF VInv
  <2>2. QED
    BY <1>1, <2>1 DEF Position, worker, Run, Step, Untouched
<1>8. (\A r \in DOMAIN runs : RunValues(runs[r]))'
  <2>1. \A r \in DOMAIN runs : RunValues(runs'[r])
    BY <1>1 DEF VInv
  <2>2. QED
    BY <1>1, <2>1, SameContent
<1>9. QED
  BY <1>1, <1>6, <1>7, <1>8 DEF VInv, worker

\* A run that has not begun, of steps that are fed.
LEMMA FreshRun ==
  ASSUME NEW steps, \A i \in DOMAIN steps : \E c, o, e : steps[i] = NewStep(c, o, e),
         NEW suite, NEW stop, NEW confirmed, Sourced(steps), Unedited => Fed(steps)
  PROVE  RunValues(NewRun(steps, suite, stop, confirmed))
<1> DEFINE run == NewRun(steps, suite, stop, confirmed)
<1>1. run.steps = steps /\ run.vars = Bare
  BY DEF NewRun, Bare
<1>2. \A i \in DOMAIN steps : Untouched(steps[i])
  BY DEF NewStep, Untouched, Bare
<1>3. DOMAIN Bare = {}
  BY DEF Bare
<1> HIDE DEF run
<1>4. ValuesOK(run) /\ UsedOK(run) /\ MissingOK(run)
  BY <1>1, <1>2, <1>3 DEF ValuesOK, UsedOK, MissingOK, Untouched
<1>5. RunValues(run)
  BY <1>1, <1>2, <1>4 DEF RunValues
<1>6. QED
  BY <1>5 DEF run

LEMMA AppendedRun ==
  ASSUME IInv, VInv, NEW run, RunValues(run), runs' = Append(runs, run),
         UNCHANGED <<suites, content, worker>>
  PROVE  VInv'
<1>1. /\ DOMAIN runs' = 1..(Len(runs) + 1) /\ DOMAIN runs = 1..Len(runs) /\ Len(runs) \in Nat
      /\ \A i \in DOMAIN runs : runs'[i] = runs[i]
      /\ runs'[Len(runs) + 1] = run
  BY AppendFacts, SequenceFacts DEF IInv, RunRows
<1>2. \A r \in DOMAIN runs' : RunValues(runs'[r])
  <2>1. \A r \in DOMAIN runs' : r \in DOMAIN runs \/ r = Len(runs) + 1
    BY <1>1
  <2>2. QED
    BY <1>1, <2>1 DEF VInv
<1>3. (\A r \in DOMAIN runs : RunValues(runs[r]))'
  BY <1>2, SameContent
<1>4. pc # "idle" => Run' = Run /\ Step' = Step
  BY <1>1 DEF IInv, AtWork, Run, Step, worker
<1>5. Position'
  BY <1>4 DEF VInv, Position, worker, Untouched
<1>6. SavedOK'
  BY StillSaved
<1>7. QED
  BY <1>3, <1>5, <1>6 DEF VInv, worker

\* The steps of a start are those of a saved definition.
LEMMA CreateRunValues ==
  ASSUME IInv, VInv, NEW q \in Requests, CreateRun(q)
  PROVE  VInv'
<1> DEFINE v == request[q].version
           steps == QueuedSteps(q)
           saved == suites[v].steps
<1>1. CASE UNCHANGED runs
  BY <1>1, OthersStep DEF CreateRun, config
<1>2. CASE /\ StepsExist(v)
           /\ runs' = Append(runs, NewRun(steps, v, request[q].stop, request[q].confirmed))
  <2>1. v \in 1..Len(suites) /\ suites[v] \in SuitePayloads /\ v \in DOMAIN suites
    BY LenProperties DEF IInv, Asking, CreateRun
  <2>2. /\ DOMAIN steps = DOMAIN saved
        /\ \A i \in DOMAIN saved :
             steps[i] = NewStep(saved[i].case, saved[i].override, saved[i].extracts)
    BY <1>2 DEF QueuedSteps, StepsExist, Extractions
  <2>3. \A i \in DOMAIN saved : /\ steps[i].case = saved[i].case
                                /\ steps[i].override = saved[i].override
                                /\ steps[i].extracts = saved[i].extracts
    <3>1. \A c, o, e : LET s == NewStep(c, o, e) IN s.case = c /\ s.override = o /\ s.extracts = e
      BY DEF NewStep
    <3> HIDE DEF steps, saved, v
    <3>2. QED
      BY <2>2, <3>1
  <2>4. \A i \in DOMAIN saved : \A j \in DOMAIN saved[i].extracts :
          saved[i].extracts[j].source \in ExtractionSources
    BY <2>1, SuitesAssumption
  <2>5. IsSequence(saved)
    BY <2>1, SuitesAssumption DEF IsSequence
  <2>6. Unedited => Fed(saved)
    BY <2>1 DEF VInv, SavedOK
  <2> HIDE DEF steps, saved, v
  <2>7. Sourced(steps)
    BY <2>2, <2>3, <2>4 DEF Sourced
  <2>8. ASSUME Unedited
        PROVE  Fed(steps)
    <3>1. \A i \in DOMAIN saved : \A j \in 1..(i - 1) : j \in DOMAIN saved
      BY <2>5, SequenceFacts
    <3>2. \A i \in DOMAIN saved : Merged(steps[i]) = Merged(saved[i])
      BY <2>3 DEF Merged
    <3>3. QED
      BY <2>2, <2>3, <2>6, <2>8, <3>1, <3>2 DEF Fed
  <2>9. RunValues(NewRun(steps, v, request[q].stop, request[q].confirmed))
    BY <2>2, <2>7, <2>8, FreshRun
  <2>10. QED
    BY <1>2, <2>9, AppendedRun DEF CreateRun, config
<1>3. QED
  BY <1>1, <1>2 DEF CreateRun

\* No step of a retry gives a value, so that none of them may want one.
LEMMA RetryValues ==
  ASSUME IInv, VInv, NEW q \in Requests, NEW r \in DOMAIN runs, NEW c, RetryCases(q, r, c)
  PROVE  VInv'
<1> DEFINE steps == RetriedSteps(r)
<1>1. \A i \in DOMAIN steps : IsRetry(steps[i])
  BY RetriedFacts DEF IInv, RunRows, WellFormed
<1>2. /\ Startable(steps, environment, c) /\ UNCHANGED <<suites, content, worker>>
      /\ runs' = Append(runs, NewRun(steps, 0, runs[r].stop, c))
  BY DEF RetryCases, config
<1> HIDE DEF steps
<1>3. \A i \in DOMAIN steps : steps[i].extracts = <<>>
  BY <1>1 DEF IsRetry, NewStep
<1>4. Sourced(steps)
  BY <1>3 DEF Sourced
<1>5. Produced(steps) = {}
  BY <1>3 DEF Produced, Keys
<1>6. ASSUME NEW i \in DOMAIN steps
      PROVE  RuntimeVariables(Merged(steps[i])) = {}
  <2> DEFINE none == Precheck(Produced(steps))
  <2>1. DOMAIN none = {}
    BY <1>5 DEF Precheck
  <2>2. BuildError(Library[steps[i].case], Merged(steps[i]), Namespaces(environment, none)) = "none"
    BY <1>2, <1>6 DEF Startable
  <2> HIDE DEF none
  <2>3. RuntimeVariables(Merged(steps[i])) \subseteq DOMAIN none
    BY <2>2, BuiltFacts
  <2>4. QED
    BY <2>1, <2>3
<1>7. Fed(steps)
  BY <1>6 DEF Fed
<1>8. RunValues(NewRun(steps, 0, runs[r].stop, c))
  BY <1>1, <1>4, <1>7, FreshRun DEF IsRetry
<1>9. QED
  BY <1>2, <1>8, AppendedRun

LEMMA NextValues == IInv /\ VInv /\ [Next]_vars => VInv'
<1> SUFFICES ASSUME IInv, VInv, [Next]_vars PROVE VInv'
  OBVIOUS
<1>1. CASE \E category \in NetworkErrors : NoAnswer(category)
  <2>1. PICK category : NoAnswer(category)
    BY <1>1
  <2>2. pc = "answer" /\ RecordError(category, {})
    BY <2>1 DEF NoAnswer
  <2>3. QED
    BY <2>2, RecordErrorStep
<1>2. CASE \E answer \in Responses : JudgeAnswer(answer)
  BY <1>2, JudgeStep
<1>3. CASE \E e \in Environments : UpdateEnvironment(e)
  BY <1>3, OthersStep DEF UpdateEnvironment
<1>4. CASE \E v \in VariableEdits : SetVariable(v)
  BY <1>4, OthersStep DEF SetVariable
<1>5. CASE \E q \in Requests : \/ \E c \in Confirmations \cup {NoHost} : ReadSuite(q, c)
                               \/ ReadSteps(q)
  BY <1>5, OthersStep DEF ReadSuite, ReadSteps, config
<1>6. CASE UNCHANGED vars
  BY <1>6, OthersStep DEF vars, config
<1>7. QED
  BY <1>1, <1>2, <1>3, <1>4, <1>5, <1>6, SaveSuiteStep, LateEditStep, CreateRunValues, RetryValues,
     ClaimValuesStep, BeginStepStep, RefuseStep, SendValuesStep, FinishValuesStep
  DEF Next, WorkerNext

LEMMA ValuesInvariant == Spec => []VInv
<1>1. IInv /\ VInv /\ [Next]_vars => VInv'
  BY NextValues
<1>2. QED
  BY <1>1, InitValues, Invariant, PTL DEF Spec

----------------------------------------------------------------------------
(* The theorems *)

\* Whatever the answers, a runtime value in a request was extracted by an earlier
\* step of the same run, by a rule of that step for the variable, from the answer
\* that this step received, and the step yielded all of its values
\* (service.py 440-442, 675-688).
THEOREM ValuesAreExtracted == Spec => []UsedIsExtracted
<1>1. IInv /\ VInv => UsedIsExtracted
  <2> SUFFICES ASSUME IInv, VInv, NEW r \in DOMAIN runs, NEW i \in DOMAIN runs[r].steps,
                      NEW k \in DOMAIN runs[r].steps[i].used
               PROVE  \E j \in Producers(runs[r].steps, i, k) :
                        /\ runs[r].steps[j].status \in {"passed", "failed"}
                        /\ \E rule \in ToSet(runs[r].steps[j].extracts), a \in runs[r].steps[j].answer :
                             rule.key = k /\ runs[r].steps[i].used[k] \in ExtractRuntimeValue(rule, a)
    BY DEF UsedIsExtracted
  <2>1. PICK j \in 1..(i - 1) : Yields(runs[r].steps[j], k, runs[r].steps[i].used[k])
    BY DEF VInv, RunValues, UsedOK
  <2>2. k \in Keys(runs[r].steps[j].extracts)
    BY <2>1 DEF Yields, Keys, ToSet
  <2>3. QED
    BY <2>1, <2>2 DEF Producers, Yields
<1>2. QED
  BY <1>1, Invariant, ValuesInvariant, PTL

\* Unless a case was edited after its approval, a step lacks a runtime variable only
\* when the step that was to give it ended in an error and the run goes on after
\* one: neither the order of the steps nor a retry leaves a request without a value
\* (test_suites/service.py 92-98, service.py 146-151, 442).
THEOREM MissingComesFromErrors == Spec => []MissingIsUpstream
<1>1. VInv => MissingIsUpstream
  BY DEF VInv, RunValues, MissingOK, MissingIsUpstream, Producers
<1>2. QED
  BY <1>1, ValuesInvariant, PTL

\* In every suite that is saved, each runtime variable that a request consumes has
\* exactly one producer, which comes earlier (_replace_steps).
THEOREM SavedSuitesAreSound == Spec => []SuiteIsSound
<1>1. IInv /\ VInv => SuiteIsSound
  <2> SUFFICES ASSUME IInv, VInv, Unedited, NEW v \in DOMAIN suites
               PROVE  /\ \A i \in DOMAIN suites[v].steps :
                           \A k \in RuntimeVariables(Merged(suites[v].steps[i])) :
                             Cardinality(Producers(suites[v].steps, i, k)) = 1
                      /\ DisjointKeys(suites[v].steps)
    BY DEF SuiteIsSound, DisjointKeys
  <2> DEFINE steps == suites[v].steps
  <2>1. Fed(steps) /\ DisjointKeys(steps)
    BY DEF VInv, SavedOK
  <2>2. IsSequence(steps)
    BY LenProperties, SuitesAssumption DEF IInv, IsSequence
  <2> HIDE DEF steps
  <2>3. \A i \in DOMAIN steps : \A j \in 1..(i - 1) : j \in DOMAIN steps
    BY <2>2, SequenceFacts
  <2>4. ASSUME NEW i \in DOMAIN steps, NEW k \in RuntimeVariables(Merged(steps[i]))
        PROVE  Cardinality(Producers(steps, i, k)) = 1
    <3>1. PICK j \in 1..(i - 1) : k \in Keys(steps[j].extracts)
      BY <2>1, <2>4 DEF Fed
    <3>2. \A m \in Producers(steps, i, k) : m = j
      BY <2>1, <2>3, <3>1 DEF Producers, DisjointKeys
    <3>3. Producers(steps, i, k) = {j}
      BY <3>1, <3>2 DEF Producers
    <3>4. QED
      BY <3>3, FS_Singleton
  <2>5. QED
    BY <2>1, <2>4 DEF steps
<1>2. QED
  BY <1>1, Invariant, ValuesInvariant, PTL

----------------------------------------------------------------------------
(* Types *)

RunStatus == {"pending", "running", "completed"}
Answered == {q \in Requests : request[q].pc = "done"}

TypedSteps(run) ==
  \A i \in DOMAIN run.steps :
    /\ run.steps[i].status \in StepStatus /\ run.steps[i].error \in Categories
    /\ run.steps[i].answer \subseteq Responses
Typed(run) == run.status \in RunStatus /\ TypedSteps(run)

\* Each run answers a request of its own.
TInv ==
  /\ Len(suites) <= MaxSaves /\ edits \in 0..MaxEdits
  /\ environment \in Environments \cup {FirstEnvironment} /\ ValidEnvironment(environment)
  /\ \A q \in Requests : request[q].pc \in {"new", "suite", "steps", "done", "refused"}
  /\ Len(runs) = Cardinality(Answered)
  /\ \A r \in DOMAIN runs : Typed(runs[r])
  /\ pc = "idle" => current = 0

LEMMA InitTyped == Init => TInv
<1> SUFFICES ASSUME Init PROVE TInv
  OBVIOUS
<1>1. /\ Len(suites) = 0 /\ Len(runs) = 0 /\ DOMAIN runs = {}
      /\ environment = FirstEnvironment /\ edits = 0 /\ pc = "idle" /\ current = 0
  BY DEF Init
<1>2. \A q \in Requests : request[q].pc = "new"
  BY DEF Init, NewRequest
<1>3. Answered = {}
  BY <1>2 DEF Answered
<1>4. Cardinality(Answered) = 0
  BY <1>3, FS_EmptySet
<1>5. QED
  BY <1>1, <1>2, <1>4, BoundsAssumption, EnvironmentAssumption DEF TInv

\* The rest of the invariant does not depend on the worker's run.
LEMMA OneTyped ==
  ASSUME IInv, TInv, NEW r \in DOMAIN runs, OneUpdated(r), Typed(runs'[r]),
         UNCHANGED <<config, request>>, pc' = "idle" => current' = 0
  PROVE  TInv'
<1>1. \A o \in DOMAIN runs' : Typed(runs'[o])
  BY DEF OneUpdated, TInv
<1>2. Len(runs') = Len(runs)
  <2>1. /\ Len(runs) \in Nat /\ DOMAIN runs = 1..Len(runs)
        /\ Len(runs') \in Nat /\ DOMAIN runs' = 1..Len(runs')
    BY SequenceFacts DEF IInv, RunRows, OneUpdated
  <2>2. QED
    BY <2>1 DEF OneUpdated
<1>3. Answered' = Answered
  BY DEF Answered
<1>4. QED
  BY <1>1, <1>2, <1>3 DEF TInv, config, Typed, TypedSteps

\* A step that is rewritten with a status and an error of its type.
LEMMA WriteTyped ==
  ASSUME IInv, VInv, TInv, pc # "idle", NEW i, NEW s, NEW values, Writes(i, s, values),
         s.status \in StepStatus, s.error \in Categories, s.answer \subseteq Responses,
         UNCHANGED <<config, request>>, pc' # "idle"
  PROVE  TInv'
<1> DEFINE old == runs[current]
           new == runs'[current]
<1>1. current \in DOMAIN runs /\ Typed(old)
  BY WorkerFacts DEF AtRun, TInv
<1>2. /\ OneUpdated(current) /\ new.status = old.status /\ DOMAIN new.steps = DOMAIN old.steps
      /\ \A j \in DOMAIN old.steps : new.steps[j] = IF j = i THEN s ELSE old.steps[j]
  BY DEF Writes, Rewritten, SameDefinition
<1>3. Typed(new)
  <2> HIDE DEF old, new
  <2> QED BY <1>1, <1>2 DEF Typed, TypedSteps
<1>4. QED
  BY <1>1, <1>2, <1>3, OneTyped

LEMMA CategoryTypes == \A code : Category(code) \in Categories
BY DEF Category, Categories

LEMMA WorkerTyped ==
  ASSUME IInv, VInv, TInv,
         \/ BeginStep \/ RefuseRequest \/ SendRequest
         \/ \E category \in NetworkErrors : NoAnswer(category)
         \/ \E answer \in Responses : JudgeAnswer(answer)
  PROVE  TInv'
<1> DEFINE old == runs[current]
<1>1. CASE BeginStep
  <2>1. /\ AtRun /\ pos \in 0..Len(old.steps) /\ Len(old.steps) \in Nat
        /\ DOMAIN old.steps = 1..Len(old.steps) /\ Typed(old) /\ pc # "idle"
    BY <1>1, WorkerFacts DEF BeginStep, TInv, AtRun
  <2>2. pos + 1 \in DOMAIN old.steps
    BY <1>1, <2>1 DEF BeginStep, Run
  <2> DEFINE s == [old.steps[pos + 1] EXCEPT !.status = "running"]
  <2>3. Writes(pos + 1, s, old.vars) /\ s.status = "running" /\ s.error = old.steps[pos + 1].error
        /\ s.answer = old.steps[pos + 1].answer
    BY <1>1, <2>1, <2>2, BeginWrites
  <2>4. s.status \in StepStatus /\ s.error \in Categories /\ s.answer \subseteq Responses
    BY <2>1, <2>2, <2>3 DEF Typed, TypedSteps, StepStatus
  <2>5. UNCHANGED <<config, request>> /\ pc' # "idle"
    BY <1>1 DEF BeginStep
  <2> HIDE DEF s
  <2>6. QED
    BY <2>1, <2>3, <2>4, <2>5, WriteTyped
<1>2. ASSUME NEW category \in Categories, NEW missing, RecordError(category, missing),
             pc \in {"prepare", "answer"}
      PROVE  TInv'
  <2>1. AtRun /\ pos \in DOMAIN old.steps /\ Typed(old)
    BY <1>2, WorkerFacts DEF AtRun, TInv
  <2>2. PICK s : /\ Writes(pos, s, old.vars) /\ s.status = "error" /\ s.error = category
                 /\ s.answer = old.steps[pos].answer
    BY <1>2, <2>1, RecordErrorWrites
  <2>3. UNCHANGED <<config, request>> /\ pc' # "idle" /\ pc # "idle"
    BY <1>2 DEF RecordError
  <2>4. QED
    BY <2>1, <2>2, <2>3, WriteTyped DEF StepStatus, Typed, TypedSteps
<1>3. CASE RefuseRequest
  <2>1. pc = "prepare" /\ \E code, missing : RecordError(Category(code), missing) \/ RecordError("security", missing)
    BY <1>3 DEF RefuseRequest
  <2>2. "security" \in Categories
    BY DEF Categories
  <2>3. QED
    BY <1>2, <2>1, <2>2, CategoryTypes
<1>4. CASE \E category \in NetworkErrors : NoAnswer(category)
  BY <1>2, <1>4 DEF NoAnswer, Categories
<1>5. CASE SendRequest
  <2>1. /\ AtRun /\ pos \in DOMAIN old.steps /\ old.steps[pos].status = "running" /\ Typed(old)
        /\ pc = "prepare"
    BY <1>5, WorkerFacts DEF SendRequest, TInv, AtRun
  <2>2. PICK s : /\ Writes(pos, s, old.vars) /\ s.status = "running" /\ s.error = old.steps[pos].error
                 /\ s.answer = old.steps[pos].answer
    BY <1>5, <2>1, SendWrites
  <2>3. s.status \in StepStatus /\ s.error \in Categories /\ s.answer \subseteq Responses
    BY <2>1, <2>2 DEF Typed, TypedSteps, StepStatus
  <2>4. UNCHANGED <<config, request>> /\ pc' # "idle" /\ pc # "idle"
    BY <1>5, <2>1 DEF SendRequest
  <2>5. QED
    BY <2>2, <2>3, <2>4, WriteTyped
<1>6. CASE \E answer \in Responses : JudgeAnswer(answer)
  <2>1. PICK answer \in Responses : JudgeAnswer(answer)
    BY <1>6
  <2>2. UNCHANGED <<config, request>> /\ pc' # "idle" /\ pc = "answer"
    BY <2>1 DEF JudgeAnswer
  <2>3. AtRun /\ pos \in DOMAIN old.steps
    BY <2>2, WorkerFacts
  <2>4. PICK s, values : /\ Writes(pos, s, values) /\ s.status \in Done /\ s.error = Outcome(answer)
                         /\ s.answer = {answer}
    BY <2>1, <2>3, JudgeWrites
  <2>5. Outcome(answer) \in Categories
    <3>1. {"none", "assertion"} \subseteq Categories
      BY DEF Categories
    <3>2. QED
      BY <3>1, CategoryTypes DEF Outcome
  <2>6. QED
    BY <2>2, <2>4, <2>5, WriteTyped DEF Done, StepStatus
<1>7. QED
  BY <1>1, <1>3, <1>4, <1>5, <1>6

LEMMA ClaimTyped ==
  ASSUME IInv, TInv, Claim
  PROVE  TInv'
<1>1. PICK r \in Pending : runs' = [runs EXCEPT ![r].status = "running"]
  BY DEF Claim
<1> DEFINE new == [runs[r] EXCEPT !.status = "running"]
<1>2. r \in DOMAIN runs /\ WellFormed(runs[r]) /\ IsSequence(runs) /\ Typed(runs[r])
  BY <1>1 DEF Pending, IInv, RunRows, TInv
<1>3. SameDefinition(new, runs[r]) /\ new.steps = runs[r].steps /\ new.status = "running"
  BY <1>2, FieldUpdate DEF WellFormed, RunFields
<1>4. runs' = [runs EXCEPT ![r] = new]
  BY <1>1
<1> HIDE DEF new
<1>5. OneUpdated(r) /\ runs'[r] = new
  BY <1>2, <1>3, <1>4, RunUpdate, UpdateFacts
<1>6. Typed(new)
  BY <1>2, <1>3 DEF Typed, TypedSteps, RunStatus
<1>7. UNCHANGED <<config, request>> /\ pc' # "idle"
  BY DEF Claim
<1>8. QED
  BY <1>2, <1>5, <1>6, <1>7, OneTyped

LEMMA FinishTyped ==
  ASSUME IInv, VInv, TInv, FinishRun
  PROVE  TInv'
<1> DEFINE old == runs[current]
           new == runs'[current]
<1>1. AtRun /\ current \in DOMAIN runs /\ Typed(old)
  BY WorkerFacts DEF FinishRun, AtRun, TInv
<1>2. /\ OneUpdated(current) /\ DOMAIN new.steps = DOMAIN old.steps /\ new.status = "completed"
      /\ \A i \in DOMAIN old.steps :
           new.steps[i] = IF i > pos THEN [old.steps[i] EXCEPT !.status = "skipped"] ELSE old.steps[i]
  BY <1>1, FinishUpdate DEF OneUpdated, SameDefinition
<1>3. \A i \in DOMAIN old.steps : DOMAIN old.steps[i] = StepFields
  BY <1>1 DEF AtRun, RunRows, WellFormed
<1>4. Typed(new)
  <2> HIDE DEF old, new
  <2>1. ASSUME NEW i \in DOMAIN old.steps
        PROVE  /\ new.steps[i].status \in {"skipped", old.steps[i].status}
               /\ new.steps[i].error = old.steps[i].error
               /\ new.steps[i].answer = old.steps[i].answer
    BY <1>2, <1>3 DEF StepFields
  <2>2. QED
    BY <1>1, <1>2, <2>1 DEF Typed, TypedSteps, RunStatus, StepStatus
<1>5. UNCHANGED <<config, request>> /\ current' = 0
  BY DEF FinishRun
<1>6. QED
  BY <1>1, <1>2, <1>4, <1>5, OneTyped

\* A request that gets no run, or none yet.
LEMMA UnansweredTyped ==
  ASSUME IInv, TInv, NEW q \in Requests, NEW next, request' = [request EXCEPT ![q] = next],
         next.pc \in {"suite", "steps", "refused"}, request[q].pc # "done",
         UNCHANGED <<config, runs, worker>>
  PROVE  TInv'
<1>1. \A o \in Requests : request'[o] = IF o = q THEN next ELSE request[o]
  BY DEF IInv, Asking
<1>2. Answered' = Answered
  BY <1>1 DEF Answered
<1>3. \A o \in Requests : request'[o].pc \in {"new", "suite", "steps", "done", "refused"}
  BY <1>1 DEF TInv
<1>4. QED
  BY <1>2, <1>3 DEF TInv, config, worker, Typed, TypedSteps

\* A request that is answered with a run.
LEMMA AnsweredTyped ==
  ASSUME IInv, TInv, NEW q \in Requests, request' = [request EXCEPT ![q] = Ended("done")],
         request[q].pc # "done", NEW run, Typed(run), runs' = Append(runs, run),
         UNCHANGED <<config, worker>>
  PROVE  TInv'
<1>1. Ended("done").pc = "done"
  BY DEF Ended, NewRequest
<1>2. \A o \in Requests : request'[o] = IF o = q THEN Ended("done") ELSE request[o]
  BY DEF IInv, Asking
<1>3. Answered' = Answered \cup {q} /\ q \notin Answered
  BY <1>1, <1>2 DEF Answered
<1>4. IsFiniteSet(Answered)
  BY RequestsAssumption, FS_Subset DEF Answered
<1>5. Cardinality(Answered') = Cardinality(Answered) + 1
  BY <1>3, <1>4, FS_AddElement
<1>6. /\ Len(runs') = Len(runs) + 1 /\ DOMAIN runs' = 1..(Len(runs) + 1) /\ DOMAIN runs = 1..Len(runs)
      /\ Len(runs) \in Nat /\ \A i \in DOMAIN runs : runs'[i] = runs[i]
      /\ runs'[Len(runs) + 1] = run
  BY AppendFacts, SequenceFacts DEF IInv, RunRows
<1>7. \A r \in DOMAIN runs' : Typed(runs'[r])
  <2>1. \A r \in DOMAIN runs' : r \in DOMAIN runs \/ r = Len(runs) + 1
    BY <1>6
  <2>2. QED
    BY <1>6, <2>1 DEF TInv
<1>8. \A o \in Requests : request'[o].pc \in {"new", "suite", "steps", "done", "refused"}
  BY <1>1, <1>2 DEF TInv
<1>9. QED
  BY <1>5, <1>6, <1>7, <1>8 DEF TInv, config, worker, Typed, TypedSteps

LEMMA FreshTyped ==
  ASSUME NEW steps, \A i \in DOMAIN steps : \E c, o, e : steps[i] = NewStep(c, o, e),
         NEW suite, NEW stop, NEW confirmed
  PROVE  Typed(NewRun(steps, suite, stop, confirmed))
BY DEF NewRun, NewStep, Typed, TypedSteps, RunStatus, StepStatus, Categories

LEMMA RequestTyped ==
  ASSUME IInv, TInv, NEW q \in Requests,
         \/ \E c : ReadSuite(q, c)
         \/ ReadSteps(q) \/ CreateRun(q)
         \/ \E r \in DOMAIN runs : \E c : RetryCases(q, r, c)
  PROVE  TInv'
<1>1. CASE \E c : ReadSuite(q, c)
  BY <1>1, UnansweredTyped DEF ReadSuite
<1>2. CASE ReadSteps(q)
  <2> DEFINE next == [request[q] EXCEPT !.pc = "steps", !.version = Len(suites)]
  <2>1. DOMAIN request[q] = RequestFields /\ "pc" \in RequestFields
    BY DEF IInv, Asking, RequestFields
  <2>2. next.pc = "steps"
    BY <2>1
  <2>3. request' = [request EXCEPT ![q] = next] /\ request[q].pc # "done" /\ UNCHANGED <<config, runs, worker>>
    BY <1>2 DEF ReadSteps
  <2> HIDE DEF next
  <2>4. QED
    BY <2>2, <2>3, UnansweredTyped
<1>3. CASE CreateRun(q)
  <2> DEFINE v == request[q].version
             steps == QueuedSteps(q)
  <2>1. request[q].pc # "done" /\ UNCHANGED <<config, worker>>
    BY <1>3 DEF CreateRun
  <2>2. CASE request' = [request EXCEPT ![q] = Ended("refused")] /\ UNCHANGED runs
    <3>1. Ended("refused").pc = "refused"
      BY DEF Ended, NewRequest
    <3>2. QED
      BY <2>1, <2>2, <3>1, UnansweredTyped
  <2>3. CASE /\ runs' = Append(runs, NewRun(steps, v, request[q].stop, request[q].confirmed))
             /\ request' = [request EXCEPT ![q] = Ended("done")]
    <3>1. \A i \in DOMAIN steps : \E c, o, e : steps[i] = NewStep(c, o, e)
      BY DEF QueuedSteps
    <3> HIDE DEF steps, v
    <3>2. Typed(NewRun(steps, v, request[q].stop, request[q].confirmed))
      BY <3>1, FreshTyped
    <3>3. QED
      BY <2>1, <2>3, <3>2, AnsweredTyped
  <2>4. QED
    BY <1>3, <2>2, <2>3 DEF CreateRun
<1>4. CASE \E r \in DOMAIN runs : \E c : RetryCases(q, r, c)
  <2>0. PICK r \in DOMAIN runs : \E c : RetryCases(q, r, c)
    BY <1>4
  <2>1. PICK c : RetryCases(q, r, c)
    BY <2>0
  <2> DEFINE steps == RetriedSteps(r)
  <2>2. \A i \in DOMAIN steps : IsRetry(steps[i])
    BY RetriedFacts DEF IInv, RunRows, WellFormed
  <2>3. /\ runs' = Append(runs, NewRun(steps, 0, runs[r].stop, c))
        /\ request' = [request EXCEPT ![q] = Ended("done")]
        /\ request[q].pc # "done" /\ UNCHANGED <<config, worker>>
    BY <2>1 DEF RetryCases
  <2> HIDE DEF steps
  <2>4. Typed(NewRun(steps, 0, runs[r].stop, c))
    BY <2>2, FreshTyped DEF IsRetry
  <2>5. QED
    BY <2>3, <2>4, AnsweredTyped
<1>5. QED
  BY <1>1, <1>2, <1>3, <1>4

\* Edits of the other rows.
LEMMA EditTyped ==
  ASSUME IInv, TInv, UNCHANGED <<request, runs, worker>>,
         \/ \E payload \in SuitePayloads : SaveSuite(payload)
         \/ \E e \in Environments : UpdateEnvironment(e)
         \/ \E v \in VariableEdits : SetVariable(v)
         \/ \E c \in Cases : LateEdit(c)
         \/ UNCHANGED config
  PROVE  TInv'
<1>1. Len(suites') <= MaxSaves
  <2>1. CASE \E payload \in SuitePayloads : SaveSuite(payload)
    <3>1. PICK payload \in SuitePayloads : suites' = Append(suites, payload) /\ Len(suites) < MaxSaves
      BY <2>1 DEF SaveSuite
    <3>2. Len(suites') = Len(suites) + 1 /\ Len(suites) \in Nat
      BY <3>1 DEF IInv
    <3>3. QED
      BY <3>1, <3>2, BoundsAssumption
  <2>2. CASE UNCHANGED suites
    BY <2>2 DEF TInv
  <2>3. QED
    BY <2>1, <2>2 DEF UpdateEnvironment, SetVariable, LateEdit, config
<1>2. edits' \in 0..MaxEdits
  <2>1. CASE MayEdit
    BY <2>1, BoundsAssumption DEF TInv, MayEdit
  <2>2. CASE UNCHANGED edits
    BY <2>2 DEF TInv
  <2>3. QED
    BY <2>1, <2>2 DEF SaveSuite, UpdateEnvironment, SetVariable, LateEdit, config
<1>3. environment' \in Environments \cup {FirstEnvironment} /\ ValidEnvironment(environment')
  BY DEF TInv, SaveSuite, UpdateEnvironment, SetVariable, LateEdit, config
<1>4. Answered' = Answered
  BY DEF Answered
<1>5. QED
  BY <1>1, <1>2, <1>3, <1>4 DEF TInv, worker, Typed, TypedSteps

LEMMA NextTyped == IInv /\ VInv /\ TInv /\ [Next]_vars => TInv'
<1> SUFFICES ASSUME IInv, VInv, TInv, [Next]_vars PROVE TInv'
  OBVIOUS
<1>1. CASE WorkerNext
  BY <1>1, ClaimTyped, WorkerTyped, FinishTyped DEF WorkerNext
<1>2. CASE \/ \E payload \in SuitePayloads : SaveSuite(payload)
           \/ \E e \in Environments : UpdateEnvironment(e)
           \/ \E v \in VariableEdits : SetVariable(v)
           \/ \E c \in Cases : LateEdit(c)
           \/ UNCHANGED vars
  <2>1. UNCHANGED <<request, runs, worker>>
    BY <1>2 DEF SaveSuite, UpdateEnvironment, SetVariable, LateEdit, vars
  <2>2. UNCHANGED vars => UNCHANGED config
    BY DEF vars
  <2>3. QED
    BY <1>2, <2>1, <2>2, EditTyped
<1>3. QED
  BY <1>1, <1>2, RequestTyped DEF Next

LEMMA TypesInvariant == Spec => []TInv
<1>1. IInv /\ VInv /\ TInv /\ [Next]_vars => TInv'
  BY NextTyped
<1>2. QED
  BY <1>1, InitTyped, Invariant, ValuesInvariant, PTL DEF Spec

\* At any time the rows and the worker's copies hold what the code can put there: no
\* environment lets writes reach a production system, no request is answered with
\* two runs, each step has a status and an error of their kinds, and the worker is
\* at a step of a run that it has claimed (environments/router.py 50-55,
\* executions/service.py 100-210, 396-520).
THEOREM TypesHold == Spec => []TypeOK
<1>1. IInv /\ VInv /\ TInv => TypeOK
  <2> SUFFICES ASSUME IInv, VInv, TInv PROVE TypeOK
    OBVIOUS
  <2>1. \A i \in DOMAIN suites : suites[i] \in SuitePayloads
    BY SequenceFacts DEF IInv
  <2>2. Len(runs) <= Cardinality(Requests)
    <3>1. Answered \subseteq Requests
      BY DEF Answered
    <3>2. Cardinality(Answered) <= Cardinality(Requests)
      BY <3>1, RequestsAssumption, FS_Subset
    <3>3. QED
      BY <3>2 DEF TInv
  <2>3. \A r \in DOMAIN runs :
          /\ runs[r].status \in {"pending", "running", "completed"}
          /\ \A i \in DOMAIN runs[r].steps :
               runs[r].steps[i].status \in StepStatus /\ runs[r].steps[i].error \in Categories
    BY DEF TInv, Typed, TypedSteps, RunStatus
  <2>4. IF pc = "idle" THEN current = 0
        ELSE /\ Run.status = "running" /\ pos \in 0..Len(Run.steps)
             /\ pc # "between" => Step.status = "running"
    BY DEF TInv, IInv, AtWork, VInv, Position, Run
  <2>5. ~(environment.production /\ environment.writes)
    BY Zenon DEF TInv, ValidEnvironment
  <2>6. QED
    BY <2>1, <2>2, <2>3, <2>4, <2>5 DEF TInv, VInv, TypeOK
<1>2. QED
  BY <1>1, Invariant, ValuesInvariant, TypesInvariant, PTL

----------------------------------------------------------------------------
(* Assertions and extraction *)

\* The values of a path are found by a fold over its tokens, those of a token by a
\* fold over the values so far.
FollowFold(token, found, item) == found \o Children(item, token)
Found == INSTANCE FoldFacts WITH Op <- FollowFold
PathFold(c, items, token) == Follow(items, token)
Paths == INSTANCE FoldFacts WITH Op <- PathFold

IsToken(token) == token[1] = "index" => token[2] \in Nat

LEMMA ChildrenFacts ==
  ASSUME NEW item \in Json, NEW token, IsToken(token)
  PROVE  /\ Children(item, token) \in Seq(Json)
         /\ token = <<"bad">> => Children(item, token) = <<>>
<1>1. CASE token[1] = "key" /\ item[1] = "object" /\ token[2] \in DOMAIN item[2]
  <2>1. item[2][token[2]] \in Json
    BY <1>1, ResponsesAssumption
  <2>2. Children(item, token) = <<item[2][token[2]]>>
    BY <1>1 DEF Children
  <2>3. token # <<"bad">>
    BY <1>1
  <2>4. QED
    BY <2>1, <2>2, <2>3
<1>2. CASE token[1] = "all" /\ item[1] = "array"
  <2>1. item[2] \in Seq(Json)
    BY <1>2, ResponsesAssumption
  <2>2. Children(item, token) = item[2]
    BY <1>2 DEF Children
  <2>3. token # <<"bad">>
    BY <1>2
  <2>4. QED
    BY <2>1, <2>2, <2>3
<1>3. CASE token[1] = "index" /\ item[1] = "array" /\ token[2] < Len(item[2])
  <2>1. item[2] \in Seq(Json) /\ token[2] \in Nat
    BY <1>3, ResponsesAssumption DEF IsToken
  <2>2. item[2][token[2] + 1] \in Json
    BY <1>3, <2>1
  <2>3. Children(item, token) = <<item[2][token[2] + 1]>>
    BY <1>3 DEF Children
  <2>4. token # <<"bad">>
    BY <1>3
  <2>5. QED
    BY <2>2, <2>3, <2>4
<1>4. CASE /\ ~(token[1] = "key" /\ item[1] = "object" /\ token[2] \in DOMAIN item[2])
           /\ ~(token[1] = "all" /\ item[1] = "array")
           /\ ~(token[1] = "index" /\ item[1] = "array" /\ token[2] < Len(item[2]))
  <2>1. Children(item, token) = <<>>
    BY <1>4 DEF Children
  <2>2. QED
    BY <2>1
<1>5. QED
  BY <1>1, <1>2, <1>3, <1>4

LEMMA FollowFacts ==
  ASSUME NEW items \in Seq(Json), NEW token, IsToken(token)
  PROVE  /\ Follow(items, token) \in Seq(Json)
         /\ token = <<"bad">> \/ items = <<>> => Follow(items, token) = <<>>
<1> DEFINE n == Len(items)
<1>1. n \in Nat /\ DOMAIN items = 1..n /\ \A i \in 1..n : items[i] \in Json
  OBVIOUS
<1>2. Found!FoldOf(token, <<>>, items) = Follow(items, token)
  BY DEF Follow, FollowFold, Found!FoldOf, Found!Greatest, FoldLeft, MapThenFoldSet, Max
<1> HIDE DEF n
<1>3. Follow(items, token) \in Seq(Json)
  <2> DEFINE S == Seq(Json)
  <2>1. <<>> \in S /\ \A x \in S : \A i \in 1..n : FollowFold(token, x, items[i]) \in S
    BY <1>1, ChildrenFacts DEF FollowFold
  <2> HIDE DEF S
  <2>2. Found!FoldOf(token, <<>>, items) \in S
    BY <1>1, <2>1, Found!FoldStays
  <2>3. QED
    BY <1>2, <2>2 DEF S
<1>4. ASSUME token = <<"bad">> \/ items = <<>>
      PROVE  Follow(items, token) = <<>>
  <2> DEFINE S == {<<>>}
  <2>1. <<>> \in S /\ \A x \in S : \A i \in 1..n : FollowFold(token, x, items[i]) \in S
    <3>1. ASSUME NEW i \in 1..n PROVE FollowFold(token, <<>>, items[i]) = <<>>
      <4>1. items # <<>>
        BY <1>1 DEF n
      <4>2. Children(items[i], token) = <<>>
        BY <1>1, <1>4, <4>1, ChildrenFacts
      <4>3. QED
        BY <4>2 DEF FollowFold
    <3>2. QED
      BY <3>1
  <2> HIDE DEF S
  <2>2. Found!FoldOf(token, <<>>, items) \in S
    BY <1>1, <2>1, Found!FoldStays
  <2>3. QED
    BY <1>2, <2>2 DEF S
<1>5. QED
  BY <1>3, <1>4

\* A path with text that is no token selects nothing.
LEMMA PathFacts ==
  ASSUME NEW json \in Json, NEW path \in AskedPaths
  PROVE  /\ JsonPathValues(json, path) \in Seq(Json)
         /\ Malformed(json, path) => JsonPathValues(json, path) = <<>>
<1> DEFINE tokens == path.tokens
           n == Len(tokens)
<1>1. CASE json = Null \/ ~path.rooted
  BY <1>1 DEF JsonPathValues, Malformed
<1>2. CASE ~(json = Null \/ ~path.rooted)
  <2>1. n \in Nat /\ DOMAIN tokens = 1..n /\ \A i \in 1..n : IsToken(tokens[i])
    <3>1. tokens \in Seq(ToSet(tokens)) /\ \A t \in ToSet(tokens) : IsToken(t)
      BY ResponsesAssumption DEF IsToken
    <3>2. n \in Nat /\ DOMAIN tokens = 1..n
      BY <3>1
    <3>3. \A i \in DOMAIN tokens : tokens[i] \in ToSet(tokens)
      BY DEF ToSet
    <3>4. QED
      BY <3>1, <3>2, <3>3
  <2> DEFINE base == <<json>>
  <2>2. Paths!FoldOf(0, base, tokens) = JsonPathValues(json, path)
    BY <1>2 DEF JsonPathValues, PathFold, Paths!FoldOf, Paths!Greatest, FoldLeft, MapThenFoldSet, Max
  <2>3. PICK acc : /\ acc[0] = base
                   /\ \A i \in 1..n : acc[i] = PathFold(0, acc[i - 1], tokens[i])
                   /\ acc[n] = JsonPathValues(json, path)
    <3> HIDE DEF n, tokens, base
    <3> QED BY <2>1, <2>2, Paths!FoldUnfolds
  <2> DEFINE bad(i) == \E j \in 1..i : tokens[j] = <<"bad">>
             T == {i \in 0..n : acc[i] \in Seq(Json) /\ (bad(i) => acc[i] = <<>>)}
  <2> HIDE DEF n, tokens
  <2>4. 0 \in T
    <3>1. acc[0] \in Seq(Json)
      BY <2>3
    <3>2. 0 \in 0..n /\ ~bad(0)
      BY <2>1
    <3> HIDE DEF bad
    <3>3. QED
      BY <3>1, <3>2
  <2>5. ASSUME NEW i \in 1..n, i - 1 \in T
        PROVE  i \in T
    <3>1. acc[i] = Follow(acc[i - 1], tokens[i]) /\ acc[i - 1] \in Seq(Json)
      BY <2>3, <2>5 DEF PathFold
    <3>2. /\ acc[i] \in Seq(Json)
          /\ tokens[i] = <<"bad">> \/ acc[i - 1] = <<>> => acc[i] = <<>>
      BY <2>1, <3>1, FollowFacts
    <3>3. bad(i) => bad(i - 1) \/ tokens[i] = <<"bad">>
      <4>1. \A j \in 1..i : j \in 1..(i - 1) \/ j = i
        BY <2>1
      <4>2. QED
        BY <4>1
    <3>4. QED
      BY <2>5, <3>2, <3>3
  <2>6. 0..n \subseteq T
    <3> HIDE DEF T
    <3> QED BY <2>1, <2>4, <2>5, Paths!BoundedInduction
  <2>7. acc[n] \in Seq(Json) /\ (bad(n) => acc[n] = <<>>)
    BY <2>1, <2>6
  <2>8. Malformed(json, path) => bad(n)
    BY <2>1 DEF Malformed, ToSet, tokens
  <2>9. QED
    BY <2>3, <2>7, <2>8
<1>3. QED
  BY <1>1, <1>2

\* What an assertion with a path says.
LEMMA PathVerdict ==
  ASSUME NEW type \in PathTypes, NEW path, NEW more, NEW response
  PROVE  LET c == Overlay([path |-> path], more)
         IN Evaluate([type |-> type, config |-> c], response) =
              IF Malformed(response.json, path) THEN "ASSERTION_JSON_PATH_INVALID"
              ELSE IF Holds(type, c, JsonPathValues(response.json, path), response) THEN "passed" ELSE "failed"
<1> DEFINE c == Overlay([path |-> path], more)
           a == [type |-> type, config |-> c]
<1>1. Get(Aliases, type, type) = type
  BY DEF Get, Aliases, PathTypes
<1>2. "path" \in DOMAIN c /\ c.path = path
  BY DEF Overlay
<1> HIDE DEF c
<1>3. ConfigPath(type, c) = {path}
  BY <1>2 DEF ConfigPath
<1> DEFINE values == {JsonPathValues(response.json, p) : p \in ConfigPath(type, c)}
<1>4. (CHOOSE seq \in values : TRUE) = JsonPathValues(response.json, path)
  BY <1>3
<1>5. a.type = type /\ a.config = c
  OBVIOUS
<1>6. Evaluate(a, response) =
        IF \E p \in ConfigPath(type, c) : Malformed(response.json, p) THEN "ASSERTION_JSON_PATH_INVALID"
        ELSE IF Holds(type, c, CHOOSE seq \in values : TRUE, response) THEN "passed" ELSE "failed"
  <2>1. ConfigPath(type, c) # {}
    BY <1>3
  <2> HIDE DEF a
  <2>2. QED
    BY <1>1, <1>5, <2>1 DEF Evaluate
<1>7. QED
  BY <1>3, <1>4, <1>6 DEF c

LEMMA EqualFacts ==
  /\ \A v : PyEqual(v, v)
  /\ \A values, v : v[1] # "array" /\ Len(values) # 1 => ~PyEqual(Unwrapped(values), v)
<1>1. \A v : PyEqual(v, v)
  BY DEF PyEqual
<1>2. ASSUME NEW values, NEW v, v[1] # "array", Len(values) # 1, PyEqual(Unwrapped(values), v)
      PROVE  FALSE
  <2> DEFINE list == [i \in DOMAIN values |-> Plain(values[i])]
  <2>1. Unwrapped(values) = <<"array", values>>
    BY <1>2 DEF Unwrapped
  <2>2. PyEqual(<<"array", values>>, v)
    BY <1>2, <2>1
  <2>3. <<"array", list>> = Plain(v)
    BY <1>2, <2>2 DEF PyEqual
  <2>4. Plain(v)[1] # "array"
    BY <1>2 DEF Plain
  <2> HIDE DEF list
  <2>5. QED
    BY <2>3, <2>4
<1>3. QED
  BY <1>1, <1>2

\* What the assertions and an extraction say of one answer and one path.
LEMMA Agreement ==
  ASSUME NEW a \in Responses, NEW path \in AskedPaths
  PROVE  LET Ask(type, more) == Evaluate([type |-> type, config |-> Overlay([path |-> path], more)], a)
         IN /\ \A v \in ExtractRuntimeValue([source |-> "json_path", expression |-> path], a) :
                 /\ Ask("json_path_exists", Bare) = "passed"
                 /\ Ask("json_path_not_exists", Bare) = "failed"
                 /\ Ask("json_path_equals", [expected |-> v]) = "passed"
                 /\ Ask("json_path_type", [expected |-> <<"string", v[1]>>]) = "passed"
            /\ \A v \in AskedScalars :
                 Ask("json_path_equals", [expected |-> v]) = "passed" => Len(JsonPathValues(a.json, path)) = 1
            /\ Ask("number_range", Bare) = "passed" =>
                 Ask("json_path_type", [expected |-> <<"string", "number">>]) = "passed"
<1> DEFINE Config(more) == Overlay([path |-> path], more)
           Ask(type, more) == Evaluate([type |-> type, config |-> Config(more)], a)
           values == JsonPathValues(a.json, path)
<1>1. values \in Seq(Json) /\ (Malformed(a.json, path) => values = <<>>)
  BY PathFacts, ResponsesAssumption
<1>2. \A type \in PathTypes : \A more :
        Ask(type, more) = IF Malformed(a.json, path) THEN "ASSERTION_JSON_PATH_INVALID"
                          ELSE IF Holds(type, Config(more), values, a) THEN "passed" ELSE "failed"
  BY PathVerdict
<1>3. \A v : Get(Config([expected |-> v]), "expected", Null) = v
  BY DEF Get, Overlay
<1> HIDE DEF Config, Ask, values
<1>4. /\ \A c : Holds("json_path_exists", c, values, a) <=> values # <<>>
      /\ \A c : Holds("json_path_not_exists", c, values, a) <=> values = <<>>
      /\ \A c : Holds("json_path_equals", c, values, a) <=> PyEqual(Unwrapped(values), Get(c, "expected", Null))
      /\ \A c : Holds("json_path_type", c, values, a) <=>
                  Len(values) = 1 /\ Get(c, "expected", Null) = <<"string", values[1][1]>>
      /\ \A c : Holds("number_range", c, values, a) => Len(values) = 1 /\ values[1][1] = "number"
  BY DEF Holds
<1>5. {"json_path_exists", "json_path_not_exists", "json_path_equals", "json_path_type", "number_range"}
        \subseteq PathTypes
  BY DEF PathTypes
<1>6. ASSUME NEW v \in ExtractRuntimeValue([source |-> "json_path", expression |-> path], a)
      PROVE  /\ Ask("json_path_exists", Bare) = "passed"
             /\ Ask("json_path_not_exists", Bare) = "failed"
             /\ Ask("json_path_equals", [expected |-> v]) = "passed"
             /\ Ask("json_path_type", [expected |-> <<"string", v[1]>>]) = "passed"
  <2>1. Len(values) = 1 /\ v \in ToSet(values)
    BY <1>6 DEF ExtractRuntimeValue, values
  <2>2. values # <<>> /\ values[1] = v /\ ~Malformed(a.json, path)
    <3>1. DOMAIN values = 1..1
      BY <1>1, <2>1
    <3>2. values[1] = v /\ 1 \in DOMAIN values
      BY <2>1, <3>1 DEF ToSet
    <3>3. values # <<>>
      BY <3>2
    <3>4. QED
      BY <1>1, <3>2, <3>3
  <2>3. PyEqual(Unwrapped(values), v)
    BY <2>1, <2>2, EqualFacts DEF Unwrapped
  <2>4. /\ Holds("json_path_exists", Config(Bare), values, a)
        /\ ~Holds("json_path_not_exists", Config(Bare), values, a)
        /\ Holds("json_path_equals", Config([expected |-> v]), values, a)
        /\ Holds("json_path_type", Config([expected |-> <<"string", v[1]>>]), values, a)
    BY <1>3, <1>4, <2>1, <2>2, <2>3
  <2>5. QED
    BY <1>2, <1>5, <2>2, <2>4
<1>7. ASSUME NEW v \in AskedScalars, Ask("json_path_equals", [expected |-> v]) = "passed"
      PROVE  Len(values) = 1
  <2>1. Holds("json_path_equals", Config([expected |-> v]), values, a)
    BY <1>2, <1>5, <1>7
  <2>2. PyEqual(Unwrapped(values), v) /\ v[1] # "array"
    BY <1>3, <1>4, <2>1, ResponsesAssumption
  <2>3. QED
    BY <2>2, EqualFacts
<1>8. ASSUME Ask("number_range", Bare) = "passed"
      PROVE  Ask("json_path_type", [expected |-> <<"string", "number">>]) = "passed"
  <2>1. Holds("number_range", Config(Bare), values, a) /\ ~Malformed(a.json, path)
    BY <1>2, <1>5, <1>8
  <2>2. Holds("json_path_type", Config([expected |-> <<"string", "number">>]), values, a)
    BY <1>3, <1>4, <2>1
  <2>3. QED
    BY <1>2, <1>5, <2>1, <2>2
<1>9. QED
  BY <1>6, <1>7, <1>8 DEF Ask, Config, values

\* Whatever a tested service answers, the extraction and the assertions read it
\* alike: a value that is extracted from a path exists there, equals itself there and
\* has a type, and an equality with a scalar passes on one match only
\* (assertion_engine.py 86-121, extractions.py 44-47).
THEOREM ReadAlike == Spec => []ChecksAgree
<1>1. IInv /\ VInv /\ TInv => ChecksAgree
  <2> SUFFICES ASSUME IInv, VInv, TInv, pc = "between", pos > 0 PROVE ChecksAgree
    BY DEF ChecksAgree
  <2>1. AtRun /\ pos \in 0..Len(Run.steps) /\ Len(Run.steps) \in Nat /\ DOMAIN Run.steps = 1..Len(Run.steps)
    BY WorkerFacts DEF Run
  <2>2. Step.answer \subseteq Responses
    BY <2>1 DEF AtRun, TInv, Typed, TypedSteps, Run, Step
  <2>3. QED
    BY <2>2, Agreement DEF ChecksAgree, Bare
<1>2. QED
  BY <1>1, Invariant, ValuesInvariant, TypesInvariant, PTL

=============================================================================
