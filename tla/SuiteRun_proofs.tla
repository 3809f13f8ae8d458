-------------------------- MODULE SuiteRun_proofs --------------------------
(***************************************************************************)
(* Proofs about SuiteRun for every library of cases, every set of suites,  *)
(* environments, variables, answers and requests, and every bound.         *)
(***************************************************************************)
EXTENDS SuiteRun, SequenceTheorems, TLAPS

----------------------------------------------------------------------------
(* Rows *)

\* Runs and steps are sequences, of whatever elements.
IsSequence(s) == \E S : s \in Seq(S)

LEMMA SequenceFacts ==
  ASSUME NEW s, IsSequence(s)
  PROVE  Len(s) \in Nat /\ DOMAIN s = 1..Len(s)
BY LenProperties DEF IsSequence

LEMMA AppendFacts ==
  ASSUME NEW s, NEW e, IsSequence(s)
  PROVE  /\ IsSequence(Append(s, e)) /\ Len(Append(s, e)) = Len(s) + 1
         /\ DOMAIN Append(s, e) = 1..(Len(s) + 1)
         /\ \A i \in 1..Len(s) : Append(s, e)[i] = s[i]
         /\ Append(s, e)[Len(s) + 1] = e
<1>1. PICK S : s \in Seq(S)
  BY DEF IsSequence
<1>2. s \in Seq(S \cup {e})
  BY <1>1, SeqMonotonic
<1>3. /\ Append(s, e) \in Seq(S \cup {e}) /\ Len(Append(s, e)) = Len(s) + 1
      /\ \A i \in 1..Len(s) : Append(s, e)[i] = s[i]
      /\ Append(s, e)[Len(s) + 1] = e
  BY <1>2, AppendProperties
<1>4. QED
  BY <1>3, LenProperties DEF IsSequence

LEMMA UpdateFacts ==
  ASSUME NEW s, NEW r, NEW e, IsSequence(s)
  PROVE  /\ IsSequence([s EXCEPT ![r] = e])
         /\ DOMAIN [s EXCEPT ![r] = e] = DOMAIN s
         /\ \A i \in DOMAIN s : [s EXCEPT ![r] = e][i] = IF i = r THEN e ELSE s[i]
<1>1. PICK S : s \in Seq(S)
  BY DEF IsSequence
<1>2. /\ Len(s) \in Nat /\ s \in [1..Len(s) -> S]
  BY <1>1, LenProperties
<1>3. [s EXCEPT ![r] = e] \in [1..Len(s) -> S \cup {e}]
  BY <1>2
<1>4. [s EXCEPT ![r] = e] \in Seq(S \cup {e})
  BY <1>2, <1>3, SeqDef
<1>5. QED
  BY <1>2, <1>4 DEF IsSequence

LEMMA MappedFacts ==
  ASSUME NEW s, IsSequence(s), NEW t, t = [i \in DOMAIN s |-> t[i]]
  PROVE  IsSequence(t)
<1>1. Len(s) \in Nat /\ DOMAIN s = 1..Len(s)
  BY SequenceFacts
<1>2. t \in [1..Len(s) -> {t[i] : i \in 1..Len(s)}]
  BY <1>1
<1>3. t \in Seq({t[i] : i \in 1..Len(s)})
  BY <1>1, <1>2, SeqDef
<1>4. QED
  BY <1>3 DEF IsSequence

RunFields == {"status", "suite", "stop", "confirmed", "steps", "vars"}
StepFields == {"case", "override", "extracts", "version", "status", "error", "missing", "used",
               "sent", "answer"}
RequestFields == {"pc", "environment", "version", "stop", "confirmed"}

WellFormed(run) ==
  /\ DOMAIN run = RunFields /\ IsSequence(run.steps)
  /\ \A i \in DOMAIN run.steps : DOMAIN run.steps[i] = StepFields

\* What a run takes from its suite does not change.
SameDefinition(new, old) ==
  /\ WellFormed(new) /\ new.suite = old.suite /\ new.confirmed = old.confirmed
  /\ DOMAIN new.steps = DOMAIN old.steps
  /\ \A i \in DOMAIN old.steps :
       /\ new.steps[i].case = old.steps[i].case
       /\ new.steps[i].override = old.steps[i].override
       /\ new.steps[i].extracts = old.steps[i].extracts

----------------------------------------------------------------------------
(* What the worker does to its run *)

\* A change of the run's own fields other than its steps.
LEMMA FieldUpdate ==
  ASSUME NEW run, WellFormed(run), NEW v
  PROVE  /\ SameDefinition([run EXCEPT !.status = v], run)
         /\ SameDefinition([run EXCEPT !.vars = v], run)
         /\ [run EXCEPT !.status = v].steps = run.steps /\ [run EXCEPT !.vars = v].steps = run.steps
BY DEF WellFormed, SameDefinition, RunFields

\* A change of the result of one of its steps.
ResultFields == {"status", "error", "missing", "used", "sent", "answer"}

LEMMA StepUpdate ==
  ASSUME NEW run, WellFormed(run), NEW i, NEW f \in ResultFields, NEW v
  PROVE  SameDefinition([run EXCEPT !.steps[i][f] = v], run)
<1> DEFINE new == [run EXCEPT !.steps[i][f] = v]
<1>1. DOMAIN new = RunFields /\ new.suite = run.suite /\ new.confirmed = run.confirmed
  BY DEF WellFormed, RunFields
<1>2. new.steps = [run.steps EXCEPT ![i] = [run.steps[i] EXCEPT ![f] = v]]
  BY DEF WellFormed, RunFields
<1>3. \A j \in DOMAIN run.steps :
        new.steps[j] = IF j = i THEN [run.steps[j] EXCEPT ![f] = v] ELSE run.steps[j]
  BY <1>2
<1>4. DOMAIN new.steps = DOMAIN run.steps
  BY <1>2
<1>5. \A j \in DOMAIN run.steps :
        /\ DOMAIN new.steps[j] = StepFields
        /\ new.steps[j].case = run.steps[j].case
        /\ new.steps[j].override = run.steps[j].override
        /\ new.steps[j].extracts = run.steps[j].extracts
  BY <1>3 DEF WellFormed, StepFields, ResultFields
<1>6. IsSequence(new.steps)
  BY <1>2, UpdateFacts DEF WellFormed
<1>7. QED
  BY <1>1, <1>4, <1>5, <1>6 DEF SameDefinition, WellFormed

\* One run is updated, or none.
OneUpdated(r) ==
  /\ IsSequence(runs') /\ DOMAIN runs' = DOMAIN runs
  /\ \A o \in DOMAIN runs : o # r => runs'[o] = runs[o]
  /\ r \in DOMAIN runs => SameDefinition(runs'[r], runs[r])

LEMMA RunUpdate ==
  ASSUME IsSequence(runs), NEW r, NEW new, runs' = [runs EXCEPT ![r] = new],
         r \in DOMAIN runs => SameDefinition(new, runs[r])
  PROVE  OneUpdated(r)
BY UpdateFacts DEF OneUpdated

RunRows == IsSequence(runs) /\ \A r \in DOMAIN runs : WellFormed(runs[r])

\* The new form of a run has the requests of the old one.
KeepsSent(new, old) == \A i \in DOMAIN old.steps : new.steps[i].sent = old.steps[i].sent
Calm(new, old) == SameDefinition(new, old) /\ KeepsSent(new, old) /\ new.status = old.status

\* Two changes of one element.
LEMMA OverwriteFacts ==
  ASSUME NEW s, NEW r \in DOMAIN s, NEW x, NEW t, t = [s EXCEPT ![r] = x],
         NEW y, NEW u, u = [t EXCEPT ![r] = y]
  PROVE  t[r] = x /\ u = [s EXCEPT ![r] = y] /\ u[r] = y
OBVIOUS

LEMMA Transitive ==
  ASSUME NEW a, NEW b, NEW c, SameDefinition(b, a), SameDefinition(c, b)
  PROVE  SameDefinition(c, a) /\ (Calm(b, a) /\ Calm(c, b) => Calm(c, a))
BY DEF SameDefinition, KeepsSent, Calm

\* What a change of a result leaves as it was.
LEMMA ResultChange ==
  ASSUME NEW run, WellFormed(run), NEW i, NEW f \in ResultFields \ {"sent"}, NEW v
  PROVE  LET new == [run EXCEPT !.steps[i][f] = v]
         IN WellFormed(new) /\ Calm(new, run)
<1> DEFINE new == [run EXCEPT !.steps[i][f] = v]
<1>1. SameDefinition(new, run)
  BY StepUpdate
<1>2. new.status = run.status
  BY DEF WellFormed, RunFields
<1>3. new.steps = [run.steps EXCEPT ![i] = [run.steps[i] EXCEPT ![f] = v]]
  BY DEF WellFormed, RunFields
<1>4. \A j \in DOMAIN run.steps :
        new.steps[j] = IF j = i THEN [run.steps[j] EXCEPT ![f] = v] ELSE run.steps[j]
  BY <1>3
<1>5. KeepsSent(new, run)
  BY <1>4 DEF WellFormed, StepFields, ResultFields, KeepsSent
<1>6. QED
  BY <1>1, <1>2, <1>5 DEF Calm, SameDefinition

LEMMA VarsChange ==
  ASSUME NEW run, WellFormed(run), NEW v
  PROVE  LET new == [run EXCEPT !.vars = v]
         IN WellFormed(new) /\ Calm(new, run)
BY DEF WellFormed, SameDefinition, RunFields, KeepsSent, Calm

LEMMA SentChange ==
  ASSUME NEW run, WellFormed(run), NEW i, NEW v, NEW new, new = [run EXCEPT !.steps[i].sent = v]
  PROVE  /\ WellFormed(new) /\ SameDefinition(new, run) /\ new.status = run.status
         /\ \A j \in DOMAIN run.steps :
              new.steps[j].sent = IF j = i THEN v ELSE run.steps[j].sent
<1>1. SameDefinition(new, run)
  BY StepUpdate DEF ResultFields
<1>2. new.status = run.status
  BY DEF WellFormed, RunFields
<1>3. new.steps = [run.steps EXCEPT ![i] = [run.steps[i] EXCEPT !.sent = v]]
  BY DEF WellFormed, RunFields
<1>4. \A j \in DOMAIN run.steps :
        new.steps[j] = IF j = i THEN [run.steps[j] EXCEPT !.sent = v] ELSE run.steps[j]
  BY <1>3
<1>5. \A j \in DOMAIN run.steps :
        new.steps[j].sent = IF j = i THEN v ELSE run.steps[j].sent
  BY <1>4 DEF WellFormed, StepFields
<1>6. QED
  BY <1>1, <1>2, <1>5 DEF SameDefinition

----------------------------------------------------------------------------
(* The actions of the worker *)

AtRun == RunRows /\ current \in DOMAIN runs

\* The worker puts a new form of its run in the place of the old one.
Puts(new) == OneUpdated(current) /\ runs'[current] = new

LEMMA PutsRun ==
  ASSUME AtRun, NEW new, runs' = [runs EXCEPT ![current] = new],
         SameDefinition(new, runs[current])
  PROVE  Puts(new)
BY RunUpdate, UpdateFacts DEF Puts, RunRows, AtRun

\* A change of the worker's run that sends nothing.
Quiet == OneUpdated(current) /\ Calm(runs'[current], runs[current])

LEMMA CalmIsQuiet ==
  ASSUME AtRun, NEW new, runs' = [runs EXCEPT ![current] = new], Calm(new, runs[current])
  PROVE  Quiet
BY PutsRun DEF Puts, Quiet, Calm

LEMMA BeginStepUpdate ==
  ASSUME AtRun, BeginStep
  PROVE  Quiet
<1> DEFINE new == [runs[current] EXCEPT !.steps[pos + 1].status = "running"]
<1>1. runs' = [runs EXCEPT ![current] = new]
  BY DEF BeginStep
<1>2. Calm(new, runs[current])
  BY ResultChange DEF AtRun, RunRows, ResultFields
<1>3. QED
  BY <1>1, <1>2, CalmIsQuiet

LEMMA RecordErrorUpdate ==
  ASSUME AtRun, NEW category, NEW missing, RecordError(category, missing)
  PROVE  Quiet
<1> DEFINE a == runs[current]
           b == [a EXCEPT !.steps[pos].status = "error"]
           c == [b EXCEPT !.steps[pos].error = category]
           d == [c EXCEPT !.steps[pos].missing = missing]
<1>1. WellFormed(b) /\ Calm(b, a)
  BY ResultChange DEF AtRun, RunRows, ResultFields
<1>2. WellFormed(c) /\ Calm(c, b)
  <2> HIDE DEF b
  <2> QED BY <1>1, ResultChange DEF ResultFields
<1>3. Calm(d, c)
  <2> HIDE DEF c
  <2> QED BY <1>2, ResultChange DEF ResultFields
<1>4. Calm(d, a)
  <2> HIDE DEF a, b, c, d
  <2> QED BY <1>1, <1>2, <1>3, Transitive DEF Calm
<1>5. runs' = [runs EXCEPT ![current] = d]
  <2> DEFINE r1 == [runs EXCEPT ![current].steps[pos].status = "error"]
             r2 == [r1 EXCEPT ![current].steps[pos].error = category]
  <2>1. r1 = [runs EXCEPT ![current] = b]
    OBVIOUS
  <2>2. r2 = [r1 EXCEPT ![current] = [r1[current] EXCEPT !.steps[pos].error = category]]
    OBVIOUS
  <2>3. runs' = [r2 EXCEPT ![current] = [r2[current] EXCEPT !.steps[pos].missing = missing]]
    BY DEF RecordError
  <2> HIDE DEF a, b, r1, r2
  <2>4. r1[current] = b
    BY <2>1 DEF AtRun
  <2>5. r2 = [r1 EXCEPT ![current] = c]
    BY <2>2, <2>4
  <2> HIDE DEF c
  <2>6. r2 = [runs EXCEPT ![current] = c] /\ r2[current] = c
    BY <2>1, <2>5, OverwriteFacts DEF AtRun
  <2>7. runs' = [r2 EXCEPT ![current] = d]
    BY <2>3, <2>6
  <2> HIDE DEF d
  <2>8. QED
    BY <2>6, <2>7, OverwriteFacts DEF AtRun
<1>6. QED
  <2> HIDE DEF d
  <2> QED BY <1>4, <1>5, CalmIsQuiet

LEMMA RefuseUpdate ==
  ASSUME AtRun, RefuseRequest
  PROVE  Quiet /\ UNCHANGED <<config, request, current, loaded>>
<1> DEFINE code == BuildError(Library[Step.case], Merged(Step), Building)
           missing == {x[2] : x \in {y \in Missing(References(Merged(Step)), Building) : y[1] = "runtime"}}
<1>1. \/ RecordError(Category(code), missing)
      \/ RecordError("security", {})
  BY DEF RefuseRequest
<1> HIDE DEF code, missing
<1>2. PICK category, m : RecordError(category, m)
  BY <1>1
<1>3. QED
  BY <1>2, RecordErrorUpdate DEF RecordError

LEMMA JudgeUpdate ==
  ASSUME AtRun, NEW answer, JudgeAnswer(answer)
  PROVE  Quiet
<1>1. PICK outcome, status, values :
        runs' = [runs EXCEPT ![current].steps[pos].answer = {answer},
                             ![current].steps[pos].error = outcome,
                             ![current].steps[pos].status = status,
                             ![current].vars = values]
  BY DEF JudgeAnswer
<1> DEFINE a == runs[current]
           b == [a EXCEPT !.steps[pos].answer = {answer}]
           c == [b EXCEPT !.steps[pos].error = outcome]
           d == [c EXCEPT !.steps[pos].status = status]
           e == [d EXCEPT !.vars = values]
<1>2. WellFormed(b) /\ Calm(b, a)
  BY ResultChange DEF AtRun, RunRows, ResultFields
<1>3. WellFormed(c) /\ Calm(c, b)
  <2> HIDE DEF b
  <2> QED BY <1>2, ResultChange DEF ResultFields
<1>4. WellFormed(d) /\ Calm(d, c)
  <2> HIDE DEF c
  <2> QED BY <1>3, ResultChange DEF ResultFields
<1>5. Calm(e, d)
  <2> HIDE DEF d
  <2> QED BY <1>4, VarsChange
<1>6. Calm(e, a)
  <2> HIDE DEF a, b, c, d, e
  <2>1. Calm(c, a)
    BY <1>2, <1>3, Transitive DEF Calm
  <2>2. Calm(d, a)
    BY <2>1, <1>4, Transitive DEF Calm
  <2>3. QED
    BY <2>2, <1>5, Transitive DEF Calm
<1>7. runs' = [runs EXCEPT ![current] = e]
  <2> DEFINE r1 == [runs EXCEPT ![current].steps[pos].answer = {answer}]
             r2 == [r1 EXCEPT ![current].steps[pos].error = outcome]
             r3 == [r2 EXCEPT ![current].steps[pos].status = status]
  <2>1. r1 = [runs EXCEPT ![current] = b]
    OBVIOUS
  <2>2. r2 = [r1 EXCEPT ![current] = [r1[current] EXCEPT !.steps[pos].error = outcome]]
    OBVIOUS
  <2>3. r3 = [r2 EXCEPT ![current] = [r2[current] EXCEPT !.steps[pos].status = status]]
    OBVIOUS
  <2>4. runs' = [r3 EXCEPT ![current] = [r3[current] EXCEPT !.vars = values]]
    BY <1>1
  <2> HIDE DEF a, b, r1, r2, r3
  <2>5. r1[current] = b
    BY <2>1 DEF AtRun
  <2>6. r2 = [r1 EXCEPT ![current] = c]
    BY <2>2, <2>5
  <2> HIDE DEF c
  <2>7. r2 = [runs EXCEPT ![current] = c] /\ r2[current] = c
    BY <2>1, <2>6, OverwriteFacts DEF AtRun
  <2>8. r3 = [r2 EXCEPT ![current] = d]
    BY <2>3, <2>7
  <2> HIDE DEF d
  <2>9. r3 = [runs EXCEPT ![current] = d] /\ r3[current] = d
    BY <2>7, <2>8, OverwriteFacts DEF AtRun
  <2>10. runs' = [r3 EXCEPT ![current] = e]
    BY <2>4, <2>9
  <2> HIDE DEF e
  <2>11. QED
    BY <2>9, <2>10, OverwriteFacts DEF AtRun
<1>8. QED
  <2> HIDE DEF e
  <2> QED BY <1>6, <1>7, CalmIsQuiet

\* The end of a run sends nothing either.
LEMMA FinishUpdate ==
  ASSUME AtRun, FinishRun
  PROVE  /\ OneUpdated(current) /\ KeepsSent(runs'[current], runs[current])
         /\ runs'[current].status = "completed"
         /\ runs'[current].vars = runs[current].vars /\ runs'[current].stop = runs[current].stop
         /\ \A i \in DOMAIN runs[current].steps :
              runs'[current].steps[i] =
                IF i > pos THEN [runs[current].steps[i] EXCEPT !.status = "skipped"]
                ELSE runs[current].steps[i]
<1> DEFINE a == runs[current]
           b == [a EXCEPT !.status = "completed"]
           skipped == [i \in DOMAIN b.steps |->
                         IF i > pos THEN [b.steps[i] EXCEPT !.status = "skipped"] ELSE b.steps[i]]
           c == [b EXCEPT !.steps = skipped]
<1>1. WellFormed(a)
  BY DEF AtRun, RunRows
<1>2. WellFormed(b) /\ b.steps = a.steps /\ b.status = "completed"
      /\ b.suite = a.suite /\ b.confirmed = a.confirmed /\ b.vars = a.vars /\ b.stop = a.stop
  BY <1>1 DEF WellFormed, RunFields
<1>3. c.steps = skipped /\ c.status = "completed" /\ DOMAIN c = RunFields
      /\ c.suite = a.suite /\ c.confirmed = a.confirmed /\ c.vars = a.vars /\ c.stop = a.stop
  <2> HIDE DEF b, skipped
  <2> QED BY <1>2 DEF WellFormed, RunFields
<1>4. \A i \in DOMAIN a.steps : /\ DOMAIN skipped[i] = StepFields
                                /\ skipped[i].case = a.steps[i].case
                                /\ skipped[i].override = a.steps[i].override
                                /\ skipped[i].extracts = a.steps[i].extracts
                                /\ skipped[i].sent = a.steps[i].sent
  <2> HIDE DEF a, b
  <2> QED BY <1>1, <1>2 DEF WellFormed, StepFields
<1>5. DOMAIN skipped = DOMAIN a.steps /\ IsSequence(skipped)
  <2>1. DOMAIN skipped = DOMAIN a.steps /\ skipped = [i \in DOMAIN a.steps |-> skipped[i]]
    BY <1>2
  <2> HIDE DEF skipped, a
  <2>2. QED
    BY <1>1, <2>1, MappedFacts DEF WellFormed
<1>6. SameDefinition(c, a) /\ KeepsSent(c, a) /\ c.status = "completed"
  <2> HIDE DEF a, b, c, skipped
  <2> QED BY <1>1, <1>3, <1>4, <1>5 DEF SameDefinition, KeepsSent, WellFormed
<1>7. runs' = [runs EXCEPT ![current] = c]
  <2> DEFINE r1 == [runs EXCEPT ![current].status = "completed"]
  <2>1. r1 = [runs EXCEPT ![current] = b]
    OBVIOUS
  <2>2. runs' = [r1 EXCEPT ![current] = [r1[current] EXCEPT !.steps =
                  [i \in DOMAIN r1[current].steps |->
                     IF i > pos THEN [r1[current].steps[i] EXCEPT !.status = "skipped"]
                     ELSE r1[current].steps[i]]]]
    BY DEF FinishRun
  <2> HIDE DEF a, b, r1
  <2>3. r1[current] = b
    BY <2>1 DEF AtRun
  <2>4. runs' = [r1 EXCEPT ![current] = c]
    BY <2>2, <2>3
  <2> HIDE DEF c
  <2>5. QED
    BY <2>1, <2>4, OverwriteFacts DEF AtRun
<1>8. \A i \in DOMAIN a.steps :
        c.steps[i] = IF i > pos THEN [a.steps[i] EXCEPT !.status = "skipped"] ELSE a.steps[i]
  <2>1. \A i \in DOMAIN a.steps :
          skipped[i] = IF i > pos THEN [a.steps[i] EXCEPT !.status = "skipped"] ELSE a.steps[i]
    <3> HIDE DEF b
    <3> QED BY <1>2
  <2> HIDE DEF c, skipped, a
  <2>2. QED
    BY <1>3, <2>1
<1>9. Puts(c)
  <2> HIDE DEF c
  <2> QED BY <1>6, <1>7, PutsRun
<1>10. QED
  <2> HIDE DEF c
  <2> QED BY <1>3, <1>6, <1>8, <1>9 DEF Puts

\* What is sent goes to the host of the environment that the worker holds, and the
\* check before it ties a write to the confirmed host.
LEMMA SendUpdate ==
  ASSUME AtRun, SendRequest
  PROVE  /\ OneUpdated(current) /\ runs'[current].status = runs[current].status
         /\ \E x : /\ x = BuildRequest(Library[Step.case], TargetEnvironment, Merged(Step), Building)
                   /\ x.host = loaded.host
                   /\ x.method \in WriteMethods => x.host = runs[current].confirmed
                   /\ \A j \in DOMAIN runs[current].steps :
                        runs'[current].steps[j].sent =
                          IF j = pos THEN {x} ELSE runs[current].steps[j].sent
<1> DEFINE x == BuildRequest(Library[Step.case], TargetEnvironment, Merged(Step), Building)
<1>1. PICK used : runs' = [runs EXCEPT ![current].steps[pos].sent = {x},
                                       ![current].steps[pos].used = used]
  BY DEF SendRequest
<1>2. x.host = loaded.host
  BY DEF BuildRequest, TargetEnvironment
<1>3. x.method \in WriteMethods => x.host = runs[current].confirmed
  <2>1. Allowed(TargetEnvironment, IsWrite(Step.case), Run.confirmed)
    BY DEF SendRequest
  <2>2. x.method \in WriteMethods => IsWrite(Step.case)
    BY DEF BuildRequest, IsWrite
  <2> HIDE DEF x
  <2>3. QED
    BY <1>2, <2>1, <2>2 DEF Allowed, TargetEnvironment, Run
<1> HIDE DEF x
<1> DEFINE a == runs[current]
           b == [a EXCEPT !.steps[pos].sent = {x}]
           c == [b EXCEPT !.steps[pos].used = used]
<1>4. /\ WellFormed(b) /\ SameDefinition(b, a) /\ b.status = a.status
      /\ \A j \in DOMAIN a.steps : b.steps[j].sent = IF j = pos THEN {x} ELSE a.steps[j].sent
  <2>1. WellFormed(a)
    BY DEF AtRun, RunRows
  <2>2. b = [a EXCEPT !.steps[pos].sent = {x}]
    OBVIOUS
  <2> HIDE DEF a, b
  <2>3. QED
    BY <2>1, <2>2, SentChange, SMTT(30)
<1>5. Calm(c, b)
  <2>1. "used" \in ResultFields \ {"sent"}
    BY DEF ResultFields
  <2>2. c = [b EXCEPT !.steps[pos]["used"] = used]
    OBVIOUS
  <2> HIDE DEF b, c
  <2>3. QED
    BY <1>4, <2>1, <2>2, ResultChange
<1>6. /\ SameDefinition(c, a) /\ c.status = a.status
      /\ \A j \in DOMAIN a.steps : c.steps[j].sent = IF j = pos THEN {x} ELSE a.steps[j].sent
  <2> HIDE DEF a, b, c
  <2>1. SameDefinition(c, a)
    BY <1>4, <1>5, Transitive DEF Calm
  <2>2. QED
    BY <1>4, <1>5, <2>1 DEF Calm, KeepsSent, SameDefinition
<1>7. runs' = [runs EXCEPT ![current] = c]
  <2> DEFINE r1 == [runs EXCEPT ![current].steps[pos].sent = {x}]
  <2>1. r1 = [runs EXCEPT ![current] = b]
    OBVIOUS
  <2>2. runs' = [r1 EXCEPT ![current] = [r1[current] EXCEPT !.steps[pos].used = used]]
    BY <1>1
  <2> HIDE DEF a, b, r1
  <2>3. r1[current] = b
    BY <2>1 DEF AtRun
  <2>4. runs' = [r1 EXCEPT ![current] = c]
    BY <2>2, <2>3
  <2> HIDE DEF c
  <2>5. QED
    BY <2>1, <2>4, OverwriteFacts DEF AtRun
<1>8. Puts(c)
  <2> HIDE DEF c
  <2> QED BY <1>6, <1>7, PutsRun
<1>9. x = BuildRequest(Library[Step.case], TargetEnvironment, Merged(Step), Building)
  BY DEF x
<1>10. QED
  <2> HIDE DEF c
  <2> QED BY <1>2, <1>3, <1>6, <1>8, <1>9 DEF Puts

----------------------------------------------------------------------------
(* The invariant *)

\* A start that has read a suite has read one that is saved.
Asking ==
  /\ DOMAIN request = Requests
  /\ \A q \in Requests :
       /\ DOMAIN request[q] = RequestFields
       /\ request[q].pc = "suite" => suites # <<>>
       /\ request[q].pc = "steps" => request[q].version \in 1..Len(suites)

\* The steps of a run are those of one saved definition.
Follows(steps, saved) ==
  /\ DOMAIN steps = DOMAIN saved
  /\ \A i \in DOMAIN saved : /\ steps[i].case = saved[i].case
                             /\ steps[i].override = saved[i].override
                             /\ steps[i].extracts = saved[i].extracts

Copied(run, saved) ==
  run.suite \in 0..Len(saved) /\ (run.suite # 0 => Follows(run.steps, saved[run.suite].steps))

Targets(run) ==
  /\ \A i, j \in DOMAIN run.steps :
       \A x \in run.steps[i].sent, y \in run.steps[j].sent : x.host = y.host
  /\ \A i \in DOMAIN run.steps : \A x \in run.steps[i].sent :
       x.method \in WriteMethods => x.host = run.confirmed

Silent(run) == \A i \in DOMAIN run.steps : run.steps[i].sent = {}
SentTo(run, host) == \A i \in DOMAIN run.steps : \A x \in run.steps[i].sent : x.host = host

RunOK(run, saved) ==
  Copied(run, saved) /\ Targets(run) /\ (run.status = "pending" => Silent(run))

\* The run at work has sent to the environment that the worker holds and to no other.
AtWork ==
  pc # "idle" => /\ current \in DOMAIN runs /\ runs[current].status = "running"
                 /\ SentTo(runs[current], loaded.host)

IInv ==
  /\ suites \in Seq(SuitePayloads) /\ Asking
  /\ RunRows /\ AtWork
  /\ \A r \in DOMAIN runs : RunOK(runs[r], suites)

LEMMA InitInv == Init => IInv
<1> SUFFICES ASSUME Init PROVE IInv
  OBVIOUS
<1>1. suites \in Seq(SuitePayloads) /\ runs = <<>> /\ pc = "idle"
  BY DEF Init
<1>2. Asking
  BY DEF Init, Asking, NewRequest, RequestFields
<1>3. IsSequence(runs) /\ DOMAIN runs = {}
  BY <1>1 DEF IsSequence
<1>4. QED
  BY <1>1, <1>2, <1>3 DEF IInv, RunRows, AtWork

\* A run that keeps its definition still follows its suite.
LEMMA StillCopied ==
  ASSUME NEW new, NEW old, NEW saved, SameDefinition(new, old), Copied(old, saved)
  PROVE  Copied(new, saved)
BY DEF SameDefinition, Copied, Follows

\* What the steps of a run send depends on its steps and its confirmed host only.
LEMMA StillTargets ==
  ASSUME NEW new, NEW old, SameDefinition(new, old), KeepsSent(new, old)
  PROVE  /\ Targets(old) => Targets(new)
         /\ Silent(old) => Silent(new)
         /\ \A host : SentTo(old, host) => SentTo(new, host)
BY DEF SameDefinition, KeepsSent, Targets, Silent, SentTo

\* The worker changes its run and nothing else.
LEMMA WorkerStep ==
  ASSUME IInv, NEW r \in DOMAIN runs, OneUpdated(r), RunOK(runs'[r], suites'), AtWork',
         UNCHANGED <<suites, request>>
  PROVE  IInv'
<1>1. RunRows'
  BY DEF IInv, RunRows, OneUpdated, SameDefinition
<1>2. Asking'
  BY DEF IInv, Asking
<1>3. ASSUME NEW o \in DOMAIN runs'
      PROVE  RunOK(runs'[o], suites')
  <2>1. CASE o = r
    BY <2>1
  <2>2. CASE o # r
    <3>1. runs'[o] = runs[o] /\ RunOK(runs[o], suites)
      BY <2>2, <1>3 DEF OneUpdated, IInv
    <3>2. QED
      BY <3>1
  <2>3. QED
    BY <2>1, <2>2
<1>4. QED
  BY <1>1, <1>2, <1>3 DEF IInv

LEMMA QuietStep ==
  ASSUME IInv, pc # "idle", Quiet, UNCHANGED <<suites, request, current, loaded>>
  PROVE  IInv'
<1>1. current \in DOMAIN runs /\ runs[current].status = "running"
      /\ SentTo(runs[current], loaded.host) /\ RunOK(runs[current], suites)
  BY DEF IInv, AtWork
<1>2. /\ OneUpdated(current) /\ SameDefinition(runs'[current], runs[current])
      /\ KeepsSent(runs'[current], runs[current]) /\ runs'[current].status = "running"
  BY <1>1 DEF Quiet, Calm
<1>3. Copied(runs'[current], suites')
  <2>1. Copied(runs[current], suites)
    BY <1>1 DEF RunOK
  <2>2. QED
    BY <2>1, <1>2, StillCopied
<1>4. Targets(runs'[current]) /\ SentTo(runs'[current], loaded.host)
  BY <1>1, <1>2, StillTargets DEF RunOK
<1>5. RunOK(runs'[current], suites')
  BY <1>2, <1>3, <1>4 DEF RunOK
<1>6. AtWork'
  BY <1>1, <1>2, <1>4 DEF AtWork, OneUpdated, SentTo
<1>7. QED
  BY <1>1, <1>2, <1>5, <1>6, WorkerStep

LEMMA AtRunOf ==
  ASSUME IInv, pc # "idle"
  PROVE  AtRun
BY DEF IInv, AtWork, AtRun

LEMMA ClaimStep ==
  ASSUME IInv, Claim
  PROVE  IInv'
<1>1. PICK r \in Pending : current' = r /\ runs' = [runs EXCEPT ![r].status = "running"]
  BY DEF Claim
<1> DEFINE new == [runs[r] EXCEPT !.status = "running"]
<1>2. r \in DOMAIN runs /\ runs[r].status = "pending" /\ RunOK(runs[r], suites) /\ WellFormed(runs[r])
  BY <1>1 DEF Pending, IInv, RunRows
<1>3. SameDefinition(new, runs[r]) /\ new.steps = runs[r].steps /\ new.status = "running"
  BY <1>2, FieldUpdate DEF WellFormed, RunFields
<1>4. runs' = [runs EXCEPT ![r] = new]
  BY <1>1
<1>5. OneUpdated(r) /\ runs'[r] = new
  <2> HIDE DEF new
  <2> QED BY <1>2, <1>3, <1>4, RunUpdate, UpdateFacts DEF IInv, RunRows
<1> HIDE DEF new
<1>6. KeepsSent(new, runs[r]) /\ Silent(new) /\ Targets(new)
  BY <1>2, <1>3, StillTargets DEF KeepsSent, RunOK
<1>7. Copied(new, suites')
  BY <1>2, <1>3, StillCopied DEF RunOK, Claim, config
<1>8. RunOK(runs'[r], suites')
  BY <1>3, <1>5, <1>6, <1>7 DEF RunOK
<1>9. AtWork'
  BY <1>1, <1>2, <1>3, <1>5, <1>6 DEF AtWork, OneUpdated, Silent, SentTo
<1>10. QED
  BY <1>2, <1>5, <1>8, <1>9, WorkerStep DEF Claim, config

LEMMA SendStep ==
  ASSUME IInv, SendRequest
  PROVE  IInv'
<1>1. AtRun /\ pc # "idle"
  BY AtRunOf DEF SendRequest
<1>2. current \in DOMAIN runs /\ runs[current].status = "running"
      /\ SentTo(runs[current], loaded.host) /\ RunOK(runs[current], suites)
  BY <1>1 DEF IInv, AtWork
<1>3. /\ OneUpdated(current) /\ runs'[current].status = "running"
      /\ SameDefinition(runs'[current], runs[current])
  BY <1>1, <1>2, SendUpdate DEF OneUpdated
<1>4. UNCHANGED <<suites, request, current, loaded>>
  BY DEF SendRequest, config
<1>5. PICK x : /\ x.host = loaded.host
               /\ x.method \in WriteMethods => x.host = runs[current].confirmed
               /\ \A j \in DOMAIN runs[current].steps :
                    runs'[current].steps[j].sent =
                      IF j = pos THEN {x} ELSE runs[current].steps[j].sent
  BY <1>1, SendUpdate
<1> DEFINE new == runs'[current]
<1>6. \A j \in DOMAIN new.steps : \A y \in new.steps[j].sent :
        y.host = loaded.host /\ (y.method \in WriteMethods => y.host = new.confirmed)
  <2>1. DOMAIN new.steps = DOMAIN runs[current].steps /\ new.confirmed = runs[current].confirmed
    BY <1>3 DEF SameDefinition
  <2>2. ASSUME NEW j \in DOMAIN new.steps, NEW y \in new.steps[j].sent
        PROVE  y = x \/ y \in runs[current].steps[j].sent
    BY <2>1, <2>2, <1>5
  <2> HIDE DEF new
  <2>3. QED
    BY <1>2, <1>5, <2>1, <2>2 DEF SentTo, RunOK, Targets
<1>7. Copied(new, suites')
  <2>1. Copied(runs[current], suites)
    BY <1>2 DEF RunOK
  <2>2. QED
    BY <2>1, <1>3, <1>4, StillCopied
<1>8. RunOK(new, suites')
  <2>1. Targets(new)
    <3> HIDE DEF new
    <3> QED BY <1>6 DEF Targets
  <2>2. QED
    BY <1>3, <1>7, <2>1 DEF RunOK
<1>9. AtWork'
  BY <1>2, <1>3, <1>4, <1>6 DEF AtWork, OneUpdated, SentTo
<1>10. QED
  BY <1>2, <1>3, <1>4, <1>8, <1>9, WorkerStep

LEMMA FinishStep ==
  ASSUME IInv, FinishRun
  PROVE  IInv'
<1>1. AtRun /\ current \in DOMAIN runs /\ RunOK(runs[current], suites)
  BY AtRunOf DEF FinishRun, AtRun, IInv
<1>2. /\ OneUpdated(current) /\ KeepsSent(runs'[current], runs[current])
      /\ runs'[current].status = "completed" /\ SameDefinition(runs'[current], runs[current])
  BY <1>1, FinishUpdate DEF OneUpdated
<1>3. Copied(runs'[current], suites')
  <2>1. Copied(runs[current], suites) /\ UNCHANGED suites
    BY <1>1 DEF RunOK, FinishRun, config
  <2>2. QED
    BY <2>1, <1>2, StillCopied
<1>4. Targets(runs'[current])
  BY <1>1, <1>2, StillTargets DEF RunOK
<1>5. RunOK(runs'[current], suites')
  BY <1>2, <1>3, <1>4 DEF RunOK
<1>6. AtWork'
  BY DEF AtWork, FinishRun
<1>7. QED
  BY <1>1, <1>2, <1>5, <1>6, WorkerStep DEF FinishRun, config

\* A start whose request is answered, or that has read one more row.
LEMMA RequestStep ==
  ASSUME IInv, Asking', UNCHANGED <<suites, runs, worker>>
  PROVE  IInv'
BY DEF IInv, RunRows, AtWork, worker

\* A new run has sent nothing, and the worker has not begun it.
LEMMA NewRunStep ==
  ASSUME IInv, Asking', UNCHANGED <<suites, worker>>,
         NEW run, WellFormed(run), RunOK(run, suites), runs' = Append(runs, run)
  PROVE  IInv'
<1>1. /\ IsSequence(runs) /\ Len(runs) \in Nat /\ DOMAIN runs = 1..Len(runs)
      /\ IsSequence(runs') /\ DOMAIN runs' = 1..(Len(runs) + 1)
      /\ \A i \in DOMAIN runs : runs'[i] = runs[i]
      /\ runs'[Len(runs) + 1] = run
  BY SequenceFacts, AppendFacts DEF IInv, RunRows
<1>2. \A r \in DOMAIN runs' : r \in DOMAIN runs \/ r = Len(runs) + 1
  BY <1>1
<1>3. RunRows'
  BY <1>1, <1>2 DEF RunRows, IInv
<1>4. \A r \in DOMAIN runs' : RunOK(runs'[r], suites')
  BY <1>1, <1>2 DEF IInv
<1>5. AtWork'
  BY <1>1 DEF IInv, AtWork, worker
<1>6. QED
  BY <1>3, <1>4, <1>5 DEF IInv

LEMMA QueuedRun ==
  ASSUME NEW steps, NEW suite, NEW stop, NEW confirmed, IsSequence(steps),
         \A i \in DOMAIN steps : \E c, o, e : steps[i] = NewStep(c, o, e)
  PROVE  LET run == NewRun(steps, suite, stop, confirmed)
         IN /\ WellFormed(run) /\ run.steps = steps /\ run.suite = suite /\ run.status = "pending"
            /\ Silent(run) /\ Targets(run)
<1> DEFINE run == NewRun(steps, suite, stop, confirmed)
<1>1. /\ DOMAIN run = RunFields /\ run.steps = steps /\ run.suite = suite
      /\ run.status = "pending"
  BY DEF NewRun, RunFields
<1>2. \A i \in DOMAIN steps : DOMAIN steps[i] = StepFields /\ steps[i].sent = {}
  BY DEF NewStep, StepFields
<1> HIDE DEF run
<1>3. WellFormed(run) /\ Silent(run) /\ Targets(run)
  BY <1>1, <1>2 DEF WellFormed, Silent, Targets
<1>4. QED
  BY <1>1, <1>3 DEF run

\* The steps of a start are those of the saved definition that it has read: they
\* exist only while this is the last definition.
LEMMA CreateRunStep ==
  ASSUME IInv, NEW q \in Requests, CreateRun(q)
  PROVE  IInv'
<1> DEFINE v == request[q].version
<1>1. v \in 1..Len(suites) /\ DOMAIN request = Requests
  BY DEF IInv, Asking, CreateRun
<1>2. ASSUME NEW how \in {"done", "refused"}, request' = [request EXCEPT ![q] = Ended(how)],
             UNCHANGED suites
      PROVE  Asking'
  <2>1. DOMAIN Ended(how) = RequestFields /\ Ended(how).pc = how
    BY DEF Ended, NewRequest, RequestFields
  <2>2. QED
    BY <1>1, <1>2, <2>1 DEF IInv, Asking
<1>3. CASE request' = [request EXCEPT ![q] = Ended("refused")] /\ UNCHANGED runs
  BY <1>2, <1>3, RequestStep DEF CreateRun, config
<1>4. CASE /\ StepsExist(v) /\ request' = [request EXCEPT ![q] = Ended("done")]
           /\ runs' = Append(runs, NewRun(QueuedSteps(q), v, request[q].stop, request[q].confirmed))
  <2> DEFINE run == NewRun(QueuedSteps(q), v, request[q].stop, request[q].confirmed)
             saved == suites[v].steps
  <2>1. Asking'
    BY <1>2, <1>4 DEF CreateRun, config
  <2>2. /\ DOMAIN QueuedSteps(q) = DOMAIN saved
        /\ \A i \in DOMAIN saved :
             QueuedSteps(q)[i] = NewStep(saved[i].case, saved[i].override, saved[i].extracts)
    BY <1>4 DEF QueuedSteps, StepsExist, Extractions
  <2>3. \A i \in DOMAIN QueuedSteps(q) : \E c, o, e : QueuedSteps(q)[i] = NewStep(c, o, e)
    BY <2>2
  <2>4. /\ WellFormed(run) /\ run.steps = QueuedSteps(q) /\ run.suite = v
        /\ run.status = "pending" /\ Silent(run) /\ Targets(run)
    <3>1. IsSequence(saved)
      BY <1>1, LenProperties, SuitesAssumption DEF IInv, IsSequence
    <3>2. QueuedSteps(q) = [i \in DOMAIN saved |-> QueuedSteps(q)[i]]
      BY DEF QueuedSteps
    <3>3. IsSequence(QueuedSteps(q))
      <4> HIDE DEF saved
      <4> QED BY <3>1, <3>2, MappedFacts
    <3>4. QED
      BY <2>3, <3>3, QueuedRun
  <2>5. Follows(QueuedSteps(q), saved)
    <3> HIDE DEF saved, v
    <3>1. \A c, o, e : LET s == NewStep(c, o, e) IN s.case = c /\ s.override = o /\ s.extracts = e
      BY DEF NewStep
    <3>2. QED
      BY <2>2, <3>1 DEF Follows
  <2>6. Len(suites) \in Nat
    BY LenProperties DEF IInv
  <2>7. RunOK(run, suites)
    <3>1. Follows(run.steps, suites[run.suite].steps)
      BY <2>4, <2>5
    <3> HIDE DEF run
    <3>2. QED
      BY <1>1, <2>4, <2>6, <3>1 DEF RunOK, Copied
  <2>8. runs' = Append(runs, run) /\ UNCHANGED <<suites, worker>>
    BY <1>4 DEF CreateRun, config
  <2> HIDE DEF run
  <2>9. QED
    BY <2>1, <2>4, <2>7, <2>8, NewRunStep
<1>5. QED
  BY <1>3, <1>4 DEF CreateRun

\* The steps of a retry are new ones: the fold over the steps of the failed run
\* appends one at a time.
RetryFold(c, steps, s) == AddFailed(steps, s)
Retry == INSTANCE FoldFacts WITH Op <- RetryFold

Bare == [x \in {} |-> Null]
IsRetry(s) == \E c : s = NewStep(c, Bare, <<>>)

LEMMA RetriedFacts ==
  ASSUME NEW r, IsSequence(runs[r].steps)
  PROVE  /\ IsSequence(RetriedSteps(r))
         /\ \A i \in DOMAIN RetriedSteps(r) : IsRetry(RetriedSteps(r)[i])
<1> DEFINE s == runs[r].steps
           n == Len(s)
           New(steps) == IsSequence(steps) /\ \A i \in DOMAIN steps : IsRetry(steps[i])
<1>1. n \in Nat /\ DOMAIN s = 1..n
  BY SequenceFacts
<1>2. Retry!FoldOf(0, <<>>, s) = RetriedSteps(r)
  BY DEF RetriedSteps, RetryFold, Retry!FoldOf, Retry!Greatest, FoldLeft, MapThenFoldSet, Max
<1>3. PICK acc : /\ acc[0] = <<>>
                 /\ \A i \in 1..n : acc[i] = RetryFold(0, acc[i - 1], s[i])
                 /\ acc[n] = RetriedSteps(r)
  <2> HIDE DEF s, n
  <2> QED BY <1>1, <1>2, Retry!FoldUnfolds
<1>4. New(acc[0])
  BY <1>3 DEF IsSequence
<1>5. ASSUME NEW i \in 1..n, New(acc[i - 1])
      PROVE  New(acc[i])
  <2>1. acc[i] = acc[i - 1] \/ acc[i] = Append(acc[i - 1], NewStep(s[i].case, Bare, <<>>))
    BY <1>3 DEF RetryFold, AddFailed, Bare
  <2> DEFINE t == acc[i - 1]
             x == NewStep(s[i].case, Bare, <<>>)
  <2>2. IsSequence(t) /\ (\A j \in DOMAIN t : IsRetry(t[j])) /\ IsRetry(x)
    BY <1>5 DEF IsRetry
  <2> HIDE DEF t, x
  <2>3. /\ Len(t) \in Nat /\ DOMAIN t = 1..Len(t)
        /\ IsSequence(Append(t, x)) /\ DOMAIN Append(t, x) = 1..(Len(t) + 1)
        /\ \A j \in 1..Len(t) : Append(t, x)[j] = t[j]
        /\ Append(t, x)[Len(t) + 1] = x
    BY <2>2, AppendFacts, SequenceFacts
  <2>4. New(Append(t, x))
    <3>1. \A j \in 1..(Len(t) + 1) : j \in 1..Len(t) \/ j = Len(t) + 1
      BY <2>3
    <3>2. \A j \in DOMAIN Append(t, x) : IsRetry(Append(t, x)[j])
      BY <2>2, <2>3, <3>1
    <3>3. QED
      BY <2>3, <3>2
  <2>5. QED
    BY <1>5, <2>1, <2>4 DEF t, x
<1>6. New(acc[n])
  <2> DEFINE T == {i \in 0..n : New(acc[i])}
  <2>1. 0 \in T /\ \A i \in 1..n : i - 1 \in T => i \in T
    BY <1>1, <1>4, <1>5
  <2> HIDE DEF T, n
  <2>2. 0..n \subseteq T
    BY <1>1, <2>1, Retry!BoundedInduction
  <2>3. QED
    BY <1>1, <2>2 DEF T
<1>7. QED
  BY <1>3, <1>6

LEMMA RetryStep ==
  ASSUME IInv, NEW q \in Requests, NEW r \in DOMAIN runs, NEW c, RetryCases(q, r, c)
  PROVE  IInv'
<1> DEFINE steps == RetriedSteps(r)
           run == NewRun(steps, 0, runs[r].stop, c)
<1>1. IsSequence(steps) /\ \A i \in DOMAIN steps : \E x, o, e : steps[i] = NewStep(x, o, e)
  BY RetriedFacts DEF IsRetry, IInv, RunRows, WellFormed
<1>2. /\ WellFormed(run) /\ run.suite = 0 /\ Silent(run) /\ Targets(run)
  <2> HIDE DEF steps
  <2> QED BY <1>1, QueuedRun
<1>3. Len(suites) \in Nat
  BY LenProperties DEF IInv
<1>4. RunOK(run, suites)
  <2> HIDE DEF run
  <2> QED BY <1>2, <1>3 DEF RunOK, Copied
<1>5. Asking'
  <2>1. DOMAIN Ended("done") = RequestFields /\ Ended("done").pc = "done"
    BY DEF Ended, NewRequest, RequestFields
  <2>2. request' = [request EXCEPT ![q] = Ended("done")] /\ UNCHANGED suites
    BY DEF RetryCases, config
  <2>3. QED
    BY <2>1, <2>2 DEF IInv, Asking
<1>6. runs' = Append(runs, run) /\ UNCHANGED <<suites, worker>>
  BY DEF RetryCases, config
<1> HIDE DEF run
<1>7. QED
  BY <1>2, <1>4, <1>5, <1>6, NewRunStep

LEMMA ReadSuiteStep ==
  ASSUME IInv, NEW q \in Requests, NEW c, ReadSuite(q, c)
  PROVE  IInv'
<1>1. Asking'
  BY DEF ReadSuite, IInv, Asking, RequestFields, config
<1>2. QED
  BY <1>1, RequestStep DEF ReadSuite, config

LEMMA ReadStepsStep ==
  ASSUME IInv, NEW q \in Requests, ReadSteps(q)
  PROVE  IInv'
<1>1. suites \in Seq(SuitePayloads) /\ suites # <<>> /\ DOMAIN request = Requests
      /\ DOMAIN request[q] = RequestFields
  BY DEF IInv, Asking, ReadSteps
<1>2. Len(suites) \in 1..Len(suites)
  BY <1>1, EmptySeq, LenProperties
<1> DEFINE one == [request EXCEPT ![q].pc = "steps"]
           read == [request[q] EXCEPT !.pc = "steps", !.version = Len(suites)]
<1>3. DOMAIN read = RequestFields /\ read.pc = "steps" /\ read.version = Len(suites)
  BY <1>1 DEF RequestFields
<1>4. request' = [request EXCEPT ![q] = read]
  BY <1>1 DEF ReadSteps
<1> HIDE DEF read
<1>5. Asking'
  BY <1>1, <1>2, <1>3, <1>4 DEF ReadSteps, IInv, Asking, config
<1>6. QED
  BY <1>5, RequestStep DEF ReadSteps, config

LEMMA SaveStep ==
  ASSUME IInv, NEW payload \in SuitePayloads, SaveSuite(payload)
  PROVE  IInv'
<1>1. /\ suites' \in Seq(SuitePayloads) /\ Len(suites) \in Nat /\ Len(suites') = Len(suites) + 1
      /\ \A i \in 1..Len(suites) : suites'[i] = suites[i]
  BY AppendProperties, LenProperties DEF IInv, SaveSuite
<1>2. suites' # <<>>
  BY <1>1
<1>3. Asking'
  BY <1>1, <1>2 DEF IInv, Asking, SaveSuite
<1>4. \A r \in DOMAIN runs : RunOK(runs[r], suites')
  BY <1>1 DEF IInv, RunOK, Copied
<1>5. QED
  BY <1>1, <1>3, <1>4 DEF SaveSuite, worker, IInv, RunRows, AtWork

LEMMA NextInv == IInv /\ [Next]_vars => IInv'
<1> SUFFICES ASSUME IInv, [Next]_vars PROVE IInv'
  OBVIOUS
<1>1. CASE BeginStep
  BY <1>1, AtRunOf, BeginStepUpdate, QuietStep DEF BeginStep, config
<1>2. CASE RefuseRequest
  BY <1>2, AtRunOf, RefuseUpdate, QuietStep DEF RefuseRequest, config
<1>3. CASE \E category \in NetworkErrors : NoAnswer(category)
  BY <1>3, AtRunOf, RecordErrorUpdate, QuietStep DEF NoAnswer, RecordError, config
<1>4. CASE \E answer \in Responses : JudgeAnswer(answer)
  <2>1. PICK answer : JudgeAnswer(answer)
    BY <1>4
  <2>2. pc # "idle" /\ UNCHANGED <<suites, request, current, loaded>>
    BY <2>1 DEF JudgeAnswer, config
  <2>3. QED
    BY <2>1, <2>2, AtRunOf, JudgeUpdate, QuietStep
<1>5. CASE \E payload \in SuitePayloads : SaveSuite(payload)
  BY <1>5, SaveStep
<1>6. CASE \E e \in Environments : UpdateEnvironment(e)
  BY <1>6, RequestStep DEF UpdateEnvironment, IInv, Asking, worker
<1>7. CASE \E v \in VariableEdits : SetVariable(v)
  BY <1>7, RequestStep DEF SetVariable, IInv, Asking, worker
<1>8. CASE \E c \in Cases : LateEdit(c)
  BY <1>8, RequestStep DEF LateEdit, IInv, Asking, worker
<1>9. CASE UNCHANGED vars
  BY <1>9, RequestStep DEF vars, config, IInv, Asking
<1>10. QED
  BY <1>1, <1>2, <1>3, <1>4, <1>5, <1>6, <1>7, <1>8, <1>9,
     ClaimStep, SendStep, FinishStep, ReadSuiteStep, ReadStepsStep, CreateRunStep, RetryStep
  DEF Next, WorkerNext

LEMMA Invariant == Spec => []IInv
<1>1. QED
  BY InitInv, NextInv, PTL DEF Spec

\* However an update of the suite falls between the statements of a start, the run
\* has the steps, overrides and extraction rules of one saved definition: steps of
\* an older one cannot be inserted (service.py 123, test_suites/service.py).
THEOREM OneSuite == Spec => []RunIsOneSuite
<1>1. IInv => RunIsOneSuite
  BY DEF IInv, RunOK, Copied, Follows, RunIsOneSuite
<1>2. QED
  BY <1>1, Invariant, PTL

\* Whatever becomes of the environment, a run sends to one host, and writes only to
\* the host that its user confirmed (service.py 193, 400-405, runner.py 46-53).
THEOREM SingleTarget == Spec => []OneTarget
<1>1. IInv => OneTarget
  BY DEF IInv, RunOK, Targets, OneTarget
<1>2. QED
  BY <1>1, Invariant, PTL

----------------------------------------------------------------------------
(* What a request keeps of its case *)

\* A section of the case that the override does not replace is an object of the
\* merged template, with the fields of the case.
LEMMA MergedFields ==
  ASSUME NEW own, NEW override, NEW section \in Mergeable, ~Replaced(override, section),
         section \in DOMAIN own, IsObject(own[section]),
         NEW merged, merged = MergeTemplate(own, override)
  PROVE  /\ section \in DOMAIN merged /\ IsObject(merged[section])
         /\ DOMAIN own[section][2] \subseteq DOMAIN merged[section][2]
<1>1. CASE section \notin DOMAIN override
  BY <1>1 DEF MergeTemplate
<1>2. CASE section \in DOMAIN override
  <2>1. IsObject(override[section])
    BY <1>2 DEF Replaced
  <2>2. section \in DOMAIN merged
    BY DEF MergeTemplate
  <2>3. merged[section] = <<"object", Overlay(override[section][2], own[section][2])>>
    BY <1>2, <2>1 DEF MergeTemplate
  <2>4. IsObject(merged[section])
        /\ merged[section][2] = Overlay(override[section][2], own[section][2])
    BY <2>3 DEF IsObject
  <2>5. QED
    BY <2>2, <2>4 DEF Overlay
<1>3. QED
  BY <1>1, <1>2

LEMMA ResolvedFields ==
  ASSUME NEW template, NEW names, NEW section \in DOMAIN template, IsObject(template[section]),
         NEW resolved, resolved = ResolveTemplate(template, names)
  PROVE  /\ section \in DOMAIN resolved /\ IsObject(resolved[section])
         /\ DOMAIN resolved[section][2] = DOMAIN template[section][2]
<1>1. section \in DOMAIN resolved /\ resolved[section] = ResolvePart(template[section], names)
  BY DEF ResolveTemplate
<1>2. QED
  BY <1>1 DEF ResolvePart, IsObject

LEMMA RequestKeeps ==
  ASSUME NEW own, NEW override, NEW api, NEW e, NEW names, NEW x,
         x = BuildRequest(api, e, MergeTemplate(own, override), names)
  PROVE  KeepsRest(own, override, x)
<1> DEFINE merged == MergeTemplate(own, override)
           resolved == ResolveTemplate(merged, names)
<1>1. ASSUME NEW section \in {"query", "headers", "body"}, ~Replaced(override, section),
             Fields(own, section) # {}
      PROVE  /\ section \in DOMAIN resolved /\ IsObject(resolved[section])
             /\ Fields(own, section) \subseteq DOMAIN resolved[section][2]
  <2>1. section \in DOMAIN own /\ IsObject(own[section]) /\ Fields(own, section) = DOMAIN own[section][2]
    BY <1>1 DEF Fields
  <2>2. section \in Mergeable
    BY DEF Mergeable
  <2>3. /\ section \in DOMAIN merged /\ IsObject(merged[section])
        /\ DOMAIN own[section][2] \subseteq DOMAIN merged[section][2]
    BY <1>1, <2>1, <2>2, MergedFields
  <2> HIDE DEF merged
  <2>4. QED
    BY <2>1, <2>3, ResolvedFields
<1> DEFINE auth == CHOOSE a \in AuthFields(Get(resolved, "auth", Null)) : TRUE
<1>2. /\ x.query = Overlay(auth.query, StringMapping(Get(resolved, "query", NoFields)))
      /\ x.headers = Overlay(auth.headers,
                       Overlay(StringMapping(Get(resolved, "headers", NoFields)), e.headers))
      /\ x.body = Get(resolved, "body", Null)
  <2> HIDE DEF merged
  <2>1. x = BuildRequest(api, e, merged, names)
    BY DEF merged
  <2>2. QED
    BY <2>1 DEF BuildRequest
<1> HIDE DEF resolved, auth
<1>3. \A section \in DOMAIN resolved :
        DOMAIN StringMapping(Get(resolved, section, NoFields)) = DOMAIN resolved[section][2]
  BY DEF StringMapping, Get
<1>4. ~Replaced(override, "query") => Fields(own, "query") \subseteq DOMAIN x.query
  BY <1>1, <1>2, <1>3 DEF Overlay
<1>5. ~Replaced(override, "headers") => Fields(own, "headers") \subseteq DOMAIN x.headers
  BY <1>1, <1>2, <1>3 DEF Overlay
<1>6. ~Replaced(override, "body") /\ Fields(own, "body") # {} =>
        IsObject(x.body) /\ Fields(own, "body") \subseteq DOMAIN x.body[2]
  BY <1>1, <1>2 DEF Get
<1>7. QED
  BY <1>4, <1>5, <1>6 DEF KeepsRest

KeptOK(run) ==
  Unedited => \A i \in DOMAIN run.steps : \A x \in run.steps[i].sent :
    KeepsRest(Content(run.steps[i].case).template, run.steps[i].override, x)

KInv == DOMAIN content = Cases /\ \A r \in DOMAIN runs : KeptOK(runs[r])

LEMMA SameContentKept ==
  ASSUME KInv, content' = content, \A r \in DOMAIN runs' : KeptOK(runs'[r])
  PROVE  KInv'
BY DEF KInv, KeptOK, Unedited, Content

\* A worker's step that sends nothing.
LEMMA QuietKept ==
  ASSUME KInv, NEW r, OneUpdated(r), r \in DOMAIN runs => KeepsSent(runs'[r], runs[r]),
         content' = content
  PROVE  KInv'
<1>1. ASSUME NEW o \in DOMAIN runs'
      PROVE  KeptOK(runs'[o])
  <2>1. o \in DOMAIN runs /\ KeptOK(runs[o])
    BY <1>1 DEF OneUpdated, KInv
  <2>2. CASE o = r
    <3>1. SameDefinition(runs'[r], runs[r]) /\ KeepsSent(runs'[r], runs[r])
      BY <2>1, <2>2 DEF OneUpdated
    <3>2. QED
      BY <2>1, <2>2, <3>1 DEF KeptOK, SameDefinition, KeepsSent
  <2>3. CASE o # r
    BY <2>1, <2>3 DEF OneUpdated
  <2>4. QED
    BY <2>2, <2>3
<1>2. QED
  BY <1>1, SameContentKept

LEMMA SendKept ==
  ASSUME IInv, KInv, SendRequest
  PROVE  KInv'
<1> DEFINE old == runs[current]
           new == runs'[current]
<1>1. AtRun /\ OneUpdated(current) /\ current \in DOMAIN runs
  BY AtRunOf, SendUpdate DEF SendRequest, AtRun
<1>2. PICK x : /\ x = BuildRequest(Library[Step.case], TargetEnvironment, Merged(Step), Building)
               /\ \A j \in DOMAIN old.steps :
                    new.steps[j].sent = IF j = pos THEN {x} ELSE old.steps[j].sent
  BY <1>1, SendUpdate
<1>3. SameDefinition(new, old) /\ KeptOK(old) /\ content' = content
  BY <1>1 DEF OneUpdated, KInv, SendRequest, config
<1>4. KeepsRest(Content(old.steps[pos].case).template, old.steps[pos].override, x)
  <2>1. Merged(Step) = MergeTemplate(Content(old.steps[pos].case).template, old.steps[pos].override)
    BY DEF Merged, Step, Run
  <2> HIDE DEF old, new
  <2>2. QED
    BY <1>2, <2>1, RequestKeeps
<1>5. KeptOK(new)
  <2> HIDE DEF old, new
  <2>1. ASSUME Unedited, NEW i \in DOMAIN new.steps, NEW y \in new.steps[i].sent
        PROVE  KeepsRest(Content(new.steps[i].case).template, new.steps[i].override, y)
    <3>1. /\ i \in DOMAIN old.steps /\ new.steps[i].case = old.steps[i].case
          /\ new.steps[i].override = old.steps[i].override
      BY <1>3, <2>1 DEF SameDefinition
    <3>2. CASE i = pos
      <4>1. y = x
        BY <1>2, <2>1, <3>1, <3>2
      <4>2. QED
        BY <1>4, <3>1, <3>2, <4>1
    <3>3. CASE i # pos
      <4>1. y \in old.steps[i].sent
        BY <1>2, <2>1, <3>1, <3>3
      <4>2. QED
        BY <1>3, <2>1, <3>1, <4>1 DEF KeptOK
    <3>4. QED
      BY <3>2, <3>3
  <2>2. QED
    BY <2>1 DEF KeptOK
<1>6. ASSUME NEW o \in DOMAIN runs'
      PROVE  KeptOK(runs'[o])
  BY <1>1, <1>5, <1>6 DEF OneUpdated, KInv
<1>7. QED
  BY <1>3, <1>6, SameContentKept

\* A new run has sent nothing.
LEMMA NewRunKept ==
  ASSUME IInv, IInv', KInv, content' = content, NEW run, run.status = "pending",
         runs' = Append(runs, run)
  PROVE  KInv'
<1>1. /\ DOMAIN runs = 1..Len(runs) /\ Len(runs) \in Nat /\ DOMAIN runs' = 1..(Len(runs) + 1)
      /\ \A i \in DOMAIN runs : runs'[i] = runs[i]
      /\ runs'[Len(runs) + 1] = run
  BY AppendFacts, SequenceFacts DEF IInv, RunRows
<1>2. KeptOK(run)
  <2>1. Len(runs) + 1 \in DOMAIN runs'
    BY <1>1
  <2>2. Silent(runs'[Len(runs) + 1])
    BY <1>1, <2>1 DEF IInv, RunOK, Silent
  <2>3. QED
    BY <1>1, <2>2 DEF KeptOK, Silent
<1>3. \A r \in DOMAIN runs' : r \in DOMAIN runs \/ r = Len(runs) + 1
  BY <1>1
<1>4. \A r \in DOMAIN runs' : KeptOK(runs'[r])
  BY <1>1, <1>2, <1>3 DEF KInv
<1>5. QED
  BY <1>4, SameContentKept

LEMMA UnchangedKept ==
  ASSUME KInv, UNCHANGED <<runs, content>>
  PROVE  KInv'
BY DEF KInv, KeptOK, Unedited, Content

LEMMA NextKept == IInv /\ IInv' /\ KInv /\ [Next]_vars => KInv'
<1> SUFFICES ASSUME IInv, IInv', KInv, [Next]_vars PROVE KInv'
  OBVIOUS
<1>1. ASSUME Quiet, content' = content
      PROVE  KInv'
  BY <1>1, QuietKept DEF Quiet, Calm
<1>2. CASE Claim
  <2>1. PICK r \in Pending : runs' = [runs EXCEPT ![r].status = "running"]
    BY <1>2 DEF Claim
  <2>2. r \in DOMAIN runs /\ WellFormed(runs[r]) /\ IsSequence(runs)
    BY <2>1 DEF Pending, IInv, RunRows
  <2> DEFINE new == [runs[r] EXCEPT !.status = "running"]
  <2>3. SameDefinition(new, runs[r]) /\ new.steps = runs[r].steps
    BY <2>2, FieldUpdate
  <2>4. runs' = [runs EXCEPT ![r] = new]
    BY <2>1
  <2> HIDE DEF new
  <2>5. OneUpdated(r) /\ runs'[r] = new
    BY <2>2, <2>3, <2>4, RunUpdate, UpdateFacts
  <2>6. KeepsSent(runs'[r], runs[r]) /\ content' = content
    BY <1>2, <2>3, <2>5 DEF KeepsSent, Claim, config
  <2>7. QED
    BY <2>5, <2>6, QuietKept
<1>3. CASE BeginStep
  BY <1>1, <1>3, AtRunOf, BeginStepUpdate DEF BeginStep, config
<1>4. CASE RefuseRequest
  BY <1>1, <1>4, AtRunOf, RefuseUpdate DEF RefuseRequest, config
<1>5. CASE \E category \in NetworkErrors : NoAnswer(category)
  BY <1>1, <1>5, AtRunOf, RecordErrorUpdate DEF NoAnswer, RecordError, config
<1>6. CASE \E answer \in Responses : JudgeAnswer(answer)
  <2>1. PICK answer : JudgeAnswer(answer)
    BY <1>6
  <2>2. pc # "idle" /\ content' = content
    BY <2>1 DEF JudgeAnswer, config
  <2>3. QED
    BY <1>1, <2>1, <2>2, AtRunOf, JudgeUpdate
<1>7. CASE FinishRun
  BY <1>7, AtRunOf, FinishUpdate, QuietKept DEF FinishRun, config
<1>8. CASE \E c \in Cases : LateEdit(c)
  <2>1. PICK c \in Cases : LateEdit(c)
    BY <1>8
  <2>2. content[c] = 1 /\ content' = [content EXCEPT ![c] = 2] /\ runs' = runs
    BY <2>1 DEF LateEdit
  <2>3. content'[c] = 2
    BY <2>2 DEF KInv
  <2>4. ~Unedited'
    BY <2>3 DEF Unedited
  <2>5. QED
    BY <2>2, <2>4 DEF KInv, KeptOK
<1>9. CASE \E q \in Requests : CreateRun(q)
  <2>1. PICK q \in Requests : CreateRun(q)
    BY <1>9
  <2>2. content' = content
    BY <2>1 DEF CreateRun, config
  <2> DEFINE run == NewRun(QueuedSteps(q), request[q].version, request[q].stop, request[q].confirmed)
  <2>3. run.status = "pending"
    BY DEF NewRun
  <2>4. runs' = runs \/ runs' = Append(runs, run)
    BY <2>1 DEF CreateRun
  <2> HIDE DEF run
  <2>5. QED
    BY <2>2, <2>3, <2>4, NewRunKept, UnchangedKept
<1>10. CASE \E q \in Requests : \E r \in DOMAIN runs, c \in Confirmations \cup {NoHost} : RetryCases(q, r, c)
  <2>1. PICK q, r, c : RetryCases(q, r, c)
    BY <1>10
  <2> DEFINE run == NewRun(RetriedSteps(r), 0, runs[r].stop, c)
  <2>2. run.status = "pending"
    BY DEF NewRun
  <2>3. content' = content /\ runs' = Append(runs, run)
    BY <2>1 DEF RetryCases, config
  <2> HIDE DEF run
  <2>4. QED
    BY <2>2, <2>3, NewRunKept
<1>11. CASE UNCHANGED <<runs, content>>
  BY <1>11, UnchangedKept
<1>12. \/ Claim \/ BeginStep \/ RefuseRequest \/ SendRequest \/ FinishRun
       \/ \E category \in NetworkErrors : NoAnswer(category)
       \/ \E answer \in Responses : JudgeAnswer(answer)
       \/ \E c \in Cases : LateEdit(c)
       \/ \E q \in Requests : CreateRun(q)
       \/ \E q \in Requests : \E r \in DOMAIN runs, c \in Confirmations \cup {NoHost} : RetryCases(q, r, c)
       \/ UNCHANGED <<runs, content>>
  BY DEF Next, WorkerNext, SaveSuite, UpdateEnvironment, SetVariable, ReadSuite, ReadSteps, vars, config
<1>13. QED
  BY <1>2, <1>3, <1>4, <1>5, <1>6, <1>7, <1>8, <1>9, <1>10, <1>11, <1>12, SendKept

LEMMA KeptInvariant == Spec => []KInv
<1>1. Init => KInv
  <2> SUFFICES ASSUME Init PROVE KInv
    OBVIOUS
  <2>1. DOMAIN runs = {} /\ DOMAIN content = Cases
    BY DEF Init
  <2>2. QED
    BY <2>1 DEF KInv
<1>2. IInv /\ IInv' /\ KInv /\ [Next]_vars => KInv'
  BY NextKept
<1>3. QED
  BY <1>1, <1>2, Invariant, PTL DEF Spec

\* However the override and the case are merged, and whatever the variables are, a
\* field of the case that the override does not replace is in the request that is
\* sent (_merge_request_template, _build_request).
THEOREM OverridesKeepTheRest == Spec => []OverrideKeepsRest
<1>1. KInv => OverrideKeepsRest
  BY DEF KInv, KeptOK, OverrideKeepsRest
<1>2. QED
  BY <1>1, KeptInvariant, PTL

=============================================================================
