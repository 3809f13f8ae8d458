-------------------------- MODULE CodeIndex_proofs --------------------------
(***************************************************************************)
(* Proofs about CodeIndex for every set of sources and documents that the  *)
(* parsers can return, every distance, limit and answer of the model.      *)
(***************************************************************************)
EXTENDS CodeIndex, SequenceTheorems, FiniteSetTheorems, TLAPS

----------------------------------------------------------------------------
(* Sequences *)

IsSequence(s) == \E S : s \in Seq(S)

LEMMA SequenceFacts ==
  ASSUME NEW s, IsSequence(s)
  PROVE  Len(s) \in Nat /\ DOMAIN s = 1..Len(s)
BY LenProperties DEF IsSequence

LEMMA ElementsOf ==
  ASSUME NEW s, NEW e
  PROVE  e \in ToSet(s) <=> \E i \in DOMAIN s : e = s[i]
BY DEF ToSet

LEMMA IsSequenceOf ==
  ASSUME NEW s, NEW n \in Nat, NEW S, s \in [1..n -> S]
  PROVE  IsSequence(s) /\ Len(s) = n /\ DOMAIN s = 1..n
<1>1. s \in Seq(S)
  BY SeqDef
<1>2. QED
  BY <1>1, LenProperties DEF IsSequence

LEMMA MappedFacts ==
  ASSUME NEW s, IsSequence(s), NEW t, t = [i \in DOMAIN s |-> t[i]]
  PROVE  IsSequence(t) /\ DOMAIN t = DOMAIN s /\ Len(t) = Len(s)
<1>1. Len(s) \in Nat /\ DOMAIN s = 1..Len(s)
  BY SequenceFacts
<1>2. t \in [1..Len(s) -> {t[i] : i \in 1..Len(s)}]
  BY <1>1
<1>3. QED
  BY <1>1, <1>2, IsSequenceOf

LEMMA ConcatFacts ==
  ASSUME NEW s, NEW t, IsSequence(s), IsSequence(t)
  PROVE  /\ IsSequence(s \o t) /\ Len(s \o t) = Len(s) + Len(t)
         /\ ToSet(s \o t) = ToSet(s) \cup ToSet(t)
<1>1. PICK S : s \in Seq(S)
  BY DEF IsSequence
<1>2. PICK T : t \in Seq(T)
  BY DEF IsSequence
<1>3. s \in Seq(S \cup T) /\ t \in Seq(S \cup T)
  BY <1>1, <1>2, SeqMonotonic
<1>4. /\ s \o t \in Seq(S \cup T) /\ Len(s \o t) = Len(s) + Len(t)
      /\ \A i \in 1..(Len(s) + Len(t)) : (s \o t)[i] = IF i <= Len(s) THEN s[i] ELSE t[i - Len(s)]
  BY <1>3, ConcatProperties
<1>5. /\ Len(s) \in Nat /\ DOMAIN s = 1..Len(s) /\ Len(t) \in Nat /\ DOMAIN t = 1..Len(t)
      /\ DOMAIN (s \o t) = 1..(Len(s) + Len(t))
  BY <1>1, <1>2, <1>4, LenProperties
<1> DEFINE u == s \o t
<1>6. \A i \in DOMAIN u : u[i] \in ToSet(s) \cup ToSet(t)
  <2>1. \A i \in DOMAIN u : IF i <= Len(s) THEN i \in DOMAIN s ELSE i - Len(s) \in DOMAIN t
    BY <1>5
  <2> HIDE DEF u
  <2>2. QED
    BY <1>4, <1>5, <2>1 DEF ToSet, u
<1>7. \A i \in DOMAIN s : i \in DOMAIN u /\ u[i] = s[i]
  BY <1>4, <1>5
<1>8. \A i \in DOMAIN t : i + Len(s) \in DOMAIN u /\ u[i + Len(s)] = t[i]
  BY <1>4, <1>5
<1>9. ToSet(u) = ToSet(s) \cup ToSet(t)
  <2> HIDE DEF u
  <2> QED BY <1>6, <1>7, <1>8 DEF ToSet
<1>10. QED
  BY <1>4, <1>9 DEF IsSequence

----------------------------------------------------------------------------
(* Lists of lists *)

RoundFold(relations, acc, n) ==
  LET found == Neighbours(relations, acc.frontier) \ acc.selected
  IN [selected |-> acc.selected \cup found, frontier |-> found]
Rounds == INSTANCE FoldFacts WITH Op <- RoundFold

Joins(f, seqs, n) == f = [i \in 1..n |-> IF i = 1 THEN seqs[i] ELSE f[i - 1] \o seqs[i]]

LEMMA JoinsNext ==
  ASSUME NEW seqs, NEW n \in Nat, NEW g, Joins(g, seqs, n)
  PROVE  \E h : Joins(h, seqs, n + 1)
<1> DEFINE h == [i \in 1..(n + 1) |->
                   IF i = 1 THEN seqs[i] ELSE IF i = n + 1 THEN g[n] \o seqs[n + 1] ELSE g[i]]
<1>1. ASSUME NEW i \in 1..n
      PROVE  h[i] = g[i] /\ g[i] = IF i = 1 THEN seqs[i] ELSE g[i - 1] \o seqs[i]
  <2>1. g[i] = IF i = 1 THEN seqs[i] ELSE g[i - 1] \o seqs[i]
    BY DEF Joins
  <2>2. i \in 1..(n + 1) /\ i # n + 1
    OBVIOUS
  <2>3. h[i] = IF i = 1 THEN seqs[i] ELSE g[i]
    BY <2>2
  <2>4. QED
    BY <2>1, <2>3
<1>2. ASSUME NEW i \in 1..(n + 1)
      PROVE  h[i] = IF i = 1 THEN seqs[i] ELSE h[i - 1] \o seqs[i]
  <2>1. CASE i = 1
    BY <2>1
  <2>2. CASE i # 1 /\ i = n + 1
    <3>1. h[i] = g[n] \o seqs[n + 1]
      BY <2>2
    <3>2. n \in 1..n /\ i - 1 = n
      BY <2>2
    <3>3. h[n] = g[n]
      BY <1>1, <3>2
    <3> HIDE DEF h
    <3>4. QED
      BY <2>2, <3>1, <3>2, <3>3
  <2>3. CASE i # 1 /\ i # n + 1
    <3>1. i \in 1..n /\ i - 1 \in 1..n
      BY <2>3
    <3>2. h[i] = g[i] /\ g[i] = g[i - 1] \o seqs[i] /\ h[i - 1] = g[i - 1]
      BY <1>1, <2>3, <3>1
    <3>3. QED
      BY <2>3, <3>2
  <2>4. QED
    BY <2>1, <2>2, <2>3
<1>3. h = [i \in 1..(n + 1) |-> h[i]]
  OBVIOUS
<1> HIDE DEF h
<1>4. Joins(h, seqs, n + 1)
  BY <1>2, <1>3 DEF Joins
<1>5. QED
  BY <1>4

LEMMA JoinsUpTo ==
  ASSUME NEW seqs, NEW n \in Nat
  PROVE  \E f : Joins(f, seqs, n)
<1> DEFINE Good == {m \in Nat : \E f : Joins(f, seqs, m)}
<1>1. 0 \in Good
  <2>1. Joins([i \in 1..0 |-> seqs], seqs, 0)
    BY DEF Joins
  <2>2. QED
    BY <2>1
<1>2. \A m \in Nat : m \in Good => m + 1 \in Good
  BY JoinsNext
<1>3. n \in Good
  <2> HIDE DEF Good
  <2> QED BY <1>1, <1>2, Rounds!SetInduction
<1>4. QED
  BY <1>3

\* FlattenSeq joins lists into one that has the elements of all.
LEMMA FlattenFacts ==
  ASSUME NEW seqs, IsSequence(seqs), \A i \in DOMAIN seqs : IsSequence(seqs[i])
  PROVE  /\ IsSequence(FlattenSeq(seqs))
         /\ ToSet(FlattenSeq(seqs)) = UNION {ToSet(seqs[i]) : i \in DOMAIN seqs}
<1> DEFINE n == Len(seqs)
           Elements(m) == UNION {ToSet(seqs[i]) : i \in 1..m}
<1>1. n \in Nat /\ DOMAIN seqs = 1..n
  BY SequenceFacts
<1>2. CASE n = 0
  <2>1. FlattenSeq(seqs) = seqs /\ DOMAIN seqs = {}
    BY <1>1, <1>2 DEF FlattenSeq
  <2>2. QED
    BY <2>1 DEF ToSet
<1>3. CASE n # 0
  <2> DEFINE f == CHOOSE g : Joins(g, seqs, n)
  <2>1. Joins(f, seqs, n)
    BY <1>1, JoinsUpTo
  <2>2. FlattenSeq(seqs) = f[n]
    BY <1>3 DEF FlattenSeq, Joins
  <2> DEFINE T == {i \in 0..n : i # 0 => IsSequence(f[i]) /\ ToSet(f[i]) = Elements(i)}
  <2>3. 0 \in T
    BY <1>1
  <2> HIDE DEF f
  <2>4. ASSUME NEW i \in 1..n, i - 1 \in T
        PROVE  i \in T
    <3>1. f[i] = IF i = 1 THEN seqs[i] ELSE f[i - 1] \o seqs[i]
      BY <2>1 DEF Joins
    <3>2. IsSequence(seqs[i]) /\ i \in 0..n
      BY <1>1
    <3>3. CASE i = 1
      <4>1. Elements(i) = ToSet(seqs[i])
        BY <3>3
      <4>2. QED
        BY <3>1, <3>2, <3>3, <4>1
    <3>4. CASE i # 1
      <4>1. i - 1 # 0 /\ IsSequence(f[i - 1]) /\ ToSet(f[i - 1]) = Elements(i - 1)
        BY <1>1, <2>4, <3>4
      <4>2. f[i] = f[i - 1] \o seqs[i]
        BY <3>1, <3>4
      <4>3. IsSequence(f[i]) /\ ToSet(f[i]) = Elements(i - 1) \cup ToSet(seqs[i])
        BY <3>2, <4>1, <4>2, ConcatFacts
      <4>4. 1..i = 1..(i - 1) \cup {i}
        BY <1>1
      <4>5. Elements(i) = Elements(i - 1) \cup ToSet(seqs[i])
        BY <4>4
      <4> HIDE DEF Elements
      <4>6. QED
        BY <3>2, <4>3, <4>5
    <3>5. QED
      BY <3>3, <3>4
  <2> HIDE DEF T, n
  <2>5. 0..n \subseteq T
    BY <1>1, <2>3, <2>4, Rounds!BoundedInduction
  <2>6. n \in T
    BY <1>1, <2>5
  <2>7. QED
    BY <1>1, <1>3, <2>2, <2>6 DEF T
<1>4. QED
  BY <1>2, <1>3

----------------------------------------------------------------------------
(* Symbols *)

TypeSymbol(d) == Symbol(TypeName(d), d.name, TypeSymbolType(d), {}, d.line, d.size)
FieldSymbol(d, f) == Symbol(FieldName(d, f), f.name, "field", {TypeName(d)}, f.line, 0)
MethodSymbol(d, m) == Symbol(MethodName(d, m), m.name, "method", {TypeName(d)}, m.line, m.size)

\* The symbols of a declaration.
Declares(d, s) ==
  \/ s = TypeSymbol(d)
  \/ \E f \in ToSet(Fields(d)) : s = FieldSymbol(d, f)
  \/ \E m \in ToSet(Methods(d)) : s = MethodSymbol(d, m)

IsDeclaration(d) ==
  /\ d.kind \in {"class", "interface", "enum"}
  /\ IsSequence(d.fields) /\ IsSequence(d.methods) /\ IsSequence(d.paths) /\ IsSequence(d.sql)
  /\ \A m \in ToSet(d.methods) : IsSequence(m.routes) /\ \A r \in ToSet(m.routes) : IsSequence(r.paths)

LEMMA SourceFacts ==
  ASSUME NEW s \in Sources
  PROVE  IsSequence(s) /\ \A d \in ToSet(s) : IsDeclaration(d)
<1>1. \A list : IsList(list) => IsSequence(list)
  BY DEF IsList, IsSequence
<1>2. QED
  BY <1>1, SourcesAssumption DEF IsDeclaration

LEMMA SymbolsFacts ==
  ASSUME NEW d, IsDeclaration(d)
  PROVE  IsSequence(Symbols(d)) /\ \A s : s \in ToSet(Symbols(d)) <=> Declares(d, s)
<1> DEFINE head == <<TypeSymbol(d)>>
           fields == [i \in DOMAIN Fields(d) |-> FieldSymbol(d, Fields(d)[i])]
           methods == [i \in DOMAIN Methods(d) |-> MethodSymbol(d, Methods(d)[i])]
<1>1. IsSequence(Fields(d)) /\ IsSequence(Methods(d))
  BY DEF IsDeclaration, Fields, Methods, IsSequence
<1>2. IsSequence(head) /\ ToSet(head) = {TypeSymbol(d)}
  <2>1. head \in Seq({TypeSymbol(d)}) /\ DOMAIN head = {1} /\ head[1] = TypeSymbol(d)
    OBVIOUS
  <2> HIDE DEF head
  <2>2. QED
    BY <2>1 DEF IsSequence, ToSet
<1>3. IsSequence(fields) /\ \A s : s \in ToSet(fields) <=> \E f \in ToSet(Fields(d)) : s = FieldSymbol(d, f)
  <2>1. DOMAIN fields = DOMAIN Fields(d) /\ \A i \in DOMAIN Fields(d) : fields[i] = FieldSymbol(d, Fields(d)[i])
    OBVIOUS
  <2>2. fields = [i \in DOMAIN Fields(d) |-> fields[i]]
    OBVIOUS
  <2> HIDE DEF fields
  <2>3. IsSequence(fields)
    BY <1>1, <2>2, MappedFacts
  <2>4. QED
    BY <2>1, <2>3 DEF ToSet
<1>4. IsSequence(methods) /\ \A s : s \in ToSet(methods) <=> \E m \in ToSet(Methods(d)) : s = MethodSymbol(d, m)
  <2>1. DOMAIN methods = DOMAIN Methods(d) /\ \A i \in DOMAIN Methods(d) : methods[i] = MethodSymbol(d, Methods(d)[i])
    OBVIOUS
  <2>2. methods = [i \in DOMAIN Methods(d) |-> methods[i]]
    OBVIOUS
  <2> HIDE DEF methods
  <2>3. IsSequence(methods)
    BY <1>1, <2>2, MappedFacts
  <2>4. QED
    BY <2>1, <2>3 DEF ToSet
<1>5. Symbols(d) = head \o fields \o methods
  BY DEF Symbols, TypeSymbol, FieldSymbol, MethodSymbol
<1> HIDE DEF head, fields, methods
<1>6. IsSequence(head \o fields) /\ ToSet(head \o fields) = ToSet(head) \cup ToSet(fields)
  BY <1>2, <1>3, ConcatFacts
<1>7. /\ IsSequence((head \o fields) \o methods)
      /\ ToSet((head \o fields) \o methods) = ToSet(head \o fields) \cup ToSet(methods)
  BY <1>4, <1>6, ConcatFacts
<1>8. QED
  BY <1>2, <1>3, <1>4, <1>5, <1>6, <1>7 DEF Declares

\* The symbols of a source are those of its declarations.
LEMMA AllSymbolsFacts ==
  ASSUME NEW src \in Sources
  PROVE  /\ IsSequence(AllSymbols(src))
         /\ \A s : s \in ToSet(AllSymbols(src)) <=> \E d \in ToSet(src) : Declares(d, s)
<1> DEFINE all == [i \in DOMAIN src |-> Symbols(src[i])]
<1>1. IsSequence(src) /\ \A i \in DOMAIN src : IsDeclaration(src[i])
  BY SourceFacts DEF ToSet
<1>2. DOMAIN all = DOMAIN src /\ \A i \in DOMAIN src : all[i] = Symbols(src[i])
  OBVIOUS
<1>3. all = [i \in DOMAIN src |-> all[i]]
  OBVIOUS
<1>4. AllSymbols(src) = FlattenSeq(all)
  BY DEF AllSymbols
<1> HIDE DEF all
<1>5. IsSequence(all)
  BY <1>1, <1>3, MappedFacts
<1>6. \A i \in DOMAIN all : IsSequence(all[i]) /\ \A s : s \in ToSet(all[i]) <=> Declares(src[i], s)
  BY <1>1, <1>2, SymbolsFacts
<1>7. /\ IsSequence(FlattenSeq(all))
      /\ ToSet(FlattenSeq(all)) = UNION {ToSet(all[i]) : i \in DOMAIN all}
  BY <1>5, <1>6, FlattenFacts
<1>8. \A s : s \in ToSet(FlattenSeq(all)) <=> \E i \in DOMAIN src : Declares(src[i], s)
  BY <1>2, <1>6, <1>7
<1>9. QED
  BY <1>4, <1>7, <1>8 DEF ToSet

\* In a source that is published a name is the name of one symbol.
LEMMA OneName ==
  ASSUME NEW src \in Sources, ~NamesClash(src),
         NEW s \in ToSet(AllSymbols(src)), NEW t \in ToSet(AllSymbols(src)), s.qname = t.qname
  PROVE  s = t
<1> DEFINE all == AllSymbols(src)
<1>1. Len(all) \in Nat /\ DOMAIN all = 1..Len(all)
  BY AllSymbolsFacts, SequenceFacts
<1>2. PICK i \in DOMAIN all, j \in DOMAIN all : s = all[i] /\ t = all[j]
  BY DEF ToSet
<1>3. ~(i < j) /\ ~(j < i)
  BY <1>2 DEF NamesClash
<1> HIDE DEF all
<1>4. i = j
  BY <1>1, <1>3
<1>5. QED
  BY <1>2, <1>4

LEMMA FiniteImage ==
  ASSUME NEW S, IsFiniteSet(S), NEW f, DOMAIN f = S
  PROVE  IsFiniteSet({f[x] : x \in S})
<1> DEFINE T == {f[x] : x \in S}
           g == [x \in S |-> f[x]]
<1>1. g \in Surjection(S, T)
  BY DEF Surjection
<1>2. QED
  BY <1>1, FS_Surjection

LEMMA FiniteElements ==
  ASSUME NEW s, IsSequence(s)
  PROVE  IsFiniteSet(ToSet(s))
<1>1. Len(s) \in Nat /\ DOMAIN s = 1..Len(s)
  BY SequenceFacts
<1>2. IsFiniteSet(DOMAIN s)
  BY <1>1, FS_Interval
<1>3. QED
  BY <1>2, FiniteImage DEF ToSet

----------------------------------------------------------------------------
(* Relations *)

\* What the kind of a symbol says of it.
LEMMA KindFacts ==
  ASSUME NEW d, IsDeclaration(d), NEW s, Declares(d, s)
  PROVE  /\ s.type \in Types
         /\ s.parent = {} \/ s.parent = {TypeName(d)}
         /\ s.parent = {} <=> s = TypeSymbol(d)
         /\ s.parent = {} <=> s.type \notin {"field", "method"}
<1>1. TypeSymbolType(d) \in Types \ {"field", "method"}
  BY DEF IsDeclaration, TypeSymbolType, ClassRole, Types
<1>2. /\ TypeSymbol(d).type = TypeSymbolType(d) /\ TypeSymbol(d).parent = {}
      /\ \A f : FieldSymbol(d, f).type = "field" /\ FieldSymbol(d, f).parent = {TypeName(d)}
      /\ \A m : MethodSymbol(d, m).type = "method" /\ MethodSymbol(d, m).parent = {TypeName(d)}
  BY DEF TypeSymbol, FieldSymbol, MethodSymbol, Symbol
<1>3. QED
  BY <1>1, <1>2 DEF Declares, Types

NamesOf(symbols) == {s.qname : s \in symbols}

LEMMA NameFacts ==
  ASSUME NEW d
  PROVE  /\ TypeSymbol(d).qname = TypeName(d) /\ Declares(d, TypeSymbol(d))
         /\ \A f \in ToSet(Fields(d)) : /\ FieldSymbol(d, f).qname = FieldName(d, f)
                                        /\ Declares(d, FieldSymbol(d, f))
         /\ \A m \in ToSet(Methods(d)) : /\ MethodSymbol(d, m).qname = MethodName(d, m)
                                         /\ Declares(d, MethodSymbol(d, m))
BY DEF TypeSymbol, FieldSymbol, MethodSymbol, Symbol, Declares

RelationTypes == {"calls", "references", "throws", "uses_dto"}

\* A relation of a declaration starts at one of its symbols.
LEMMA RelationFacts ==
  ASSUME NEW d, NEW r \in Relations(d)
  PROVE  /\ r = Relation(r.source, r.target, r.type) /\ r.type \in RelationTypes
         /\ r.source = TypeName(d) \/ \E m \in ToSet(Methods(d)) : r.source = MethodName(d, m)
         /\ r.type = "uses_dto" => \E m \in ToSet(Methods(d)) : r.source = MethodName(d, m)
<1>1. \A a, b, c : LET x == Relation(a, b, c) IN x.source = a /\ x.target = b /\ x.type = c
  BY DEF Relation
<1>2. CASE r \in FieldRelations(d)
  <2>1. PICK t : r = Relation(TypeName(d), t, "references")
    BY <1>2 DEF FieldRelations
  <2>2. QED
    BY <1>1, <2>1 DEF RelationTypes
<1>3. ASSUME NEW m \in ToSet(Methods(d)), r \in MethodRelations(d, m)
      PROVE  r = Relation(r.source, r.target, r.type) /\ r.type \in RelationTypes /\ r.source = MethodName(d, m)
  <2>1. PICK t : \E type \in {"calls", "throws", "uses_dto"} : r = Relation(MethodName(d, m), t, type)
    BY <1>3 DEF MethodRelations
  <2>2. QED
    BY <1>1, <2>1 DEF RelationTypes
<1>4. r \in FieldRelations(d) \/ \E m \in ToSet(Methods(d)) : r \in MethodRelations(d, m)
  BY DEF Relations
<1>5. r \in FieldRelations(d) => r.type # "uses_dto"
  <2>1. ASSUME r \in FieldRelations(d) PROVE \E t : r = Relation(TypeName(d), t, "references")
    BY <2>1 DEF FieldRelations
  <2>2. QED
    BY <1>1, <2>1
<1>6. QED
  BY <1>2, <1>3, <1>4, <1>5

\* A relation of the index has one target, the only type of its name.
LEMMA ResolvedFacts ==
  ASSUME NEW src \in Sources, ~NamesClash(src), NEW x \in ResolvedRelations(src)
  PROVE  \E d \in ToSet(src) : \E r \in Relations(d), t \in ToSet(AllSymbols(src)) :
           /\ x = Relation(r.source, t.qname, r.type) /\ x.source # x.target
           /\ Candidates(ToSet(AllSymbols(src)), r.target) = {t} /\ t.name = r.target
           /\ t.type \notin {"field", "method"}
           /\ r.type = "uses_dto" => t.type = "dto"
           /\ r.type = "throws" => t.type = "exception"
<1> DEFINE symbols == ToSet(AllSymbols(src))
           Resolve(r) == {[r EXCEPT !.target = s.qname] : s \in Candidates(symbols, r.target)}
           Fits(r) == \/ r.type \notin DOMAIN TargetTypes
                      \/ \A s \in Candidates(symbols, r.target) : s.type \in TargetTypes[r.type]
<1>a. PICK i \in DOMAIN src : \E r \in Relations(src[i]) :
        x \in Resolve(r) /\ Cardinality(Resolve(r)) = 1 /\ Fits(r) /\ x.source # x.target
  BY DEF ResolvedRelations
<1>1. PICK r \in Relations(src[i]) :
        x \in Resolve(r) /\ Cardinality(Resolve(r)) = 1 /\ Fits(r) /\ x.source # x.target
  BY <1>a
<1> HIDE DEF Fits
<1>2. src[i] \in ToSet(src)
  BY DEF ToSet
<1>3. r = Relation(r.source, r.target, r.type)
  BY RelationFacts
<1>4. PICK t \in Candidates(symbols, r.target) : x = [r EXCEPT !.target = t.qname]
  BY <1>1
<1>5. \A q : [r EXCEPT !.target = q] = Relation(r.source, q, r.type)
  BY <1>3 DEF Relation
<1>6. IsFiniteSet(Resolve(r))
  <2> DEFINE f == [s \in Candidates(symbols, r.target) |-> [r EXCEPT !.target = s.qname]]
  <2>1. IsFiniteSet(Candidates(symbols, r.target))
    <3>1. IsFiniteSet(symbols)
      BY AllSymbolsFacts, FiniteElements
    <3>2. Candidates(symbols, r.target) \in SUBSET symbols
      BY DEF Candidates
    <3>3. QED
      BY <3>1, <3>2, FS_Subset
  <2>2. Resolve(r) = {f[s] : s \in Candidates(symbols, r.target)}
    OBVIOUS
  <2>3. DOMAIN f = Candidates(symbols, r.target)
    OBVIOUS
  <2> HIDE DEF f, Resolve, symbols
  <2>4. QED
    BY <2>1, <2>2, <2>3, FiniteImage
<1>7. PICK only : Resolve(r) = {only}
  <2> HIDE DEF Resolve
  <2> QED BY <1>1, <1>6, FS_Singleton
<1>8. \A s \in Candidates(symbols, r.target) : s.qname = t.qname
  <2>1. \A s \in Candidates(symbols, r.target) : [r EXCEPT !.target = s.qname] = x
    BY <1>4, <1>7
  <2>2. \A s \in Candidates(symbols, r.target) : Relation(r.source, s.qname, r.type).target = x.target
    BY <1>5, <2>1
  <2>3. QED
    BY <1>4, <2>2 DEF Relation
<1>9. \A s \in Candidates(symbols, r.target) : s = t
  <2>1. \A s \in Candidates(symbols, r.target) : s \in symbols
    BY DEF Candidates
  <2>2. QED
    BY <1>8, <2>1, OneName
<1>10. Candidates(symbols, r.target) = {t}
  BY <1>9
<1>11. t \in symbols /\ t.name = r.target /\ t.type \notin {"field", "method"}
  BY DEF Candidates
<1>12. (r.type = "uses_dto" => t.type = "dto") /\ (r.type = "throws" => t.type = "exception")
  BY <1>1 DEF Fits, TargetTypes
<1>13. QED
  BY <1>1, <1>2, <1>4, <1>5, <1>10, <1>11, <1>12

----------------------------------------------------------------------------
(* Interfaces *)

\* A route of a method.
RouteOf(d, m, x) ==
  x = [method |-> x.method, path |-> x.path, controller |-> TypeName(d),
       handler |-> MethodName(d, m), parameters |-> m.parameters]

LEMMA MethodRoutesFacts ==
  ASSUME NEW d, IsDeclaration(d), NEW m \in ToSet(d.methods)
  PROVE  IsSequence(MethodRoutes(d, m)) /\ \A x \in ToSet(MethodRoutes(d, m)) : RouteOf(d, m, x)
<1> DEFINE classPaths == IF d.paths = <<>> THEN <<<<>>>> ELSE d.paths
           Definition(http, c, p) ==
             [method |-> http, path |-> SourcePath(c, p), controller |-> TypeName(d),
              handler |-> MethodName(d, m), parameters |-> m.parameters]
           Inner(route, i) == [j \in DOMAIN route.paths |-> Definition(route.http, classPaths[i], route.paths[j])]
           Outer(route) == [i \in DOMAIN classPaths |-> Inner(route, i)]
           all == [i \in DOMAIN m.routes |-> FlattenSeq(Outer(m.routes[i]))]
<1>1. /\ IsSequence(classPaths) /\ IsSequence(m.routes)
      /\ \A i \in DOMAIN m.routes : IsSequence(m.routes[i].paths)
  <2>1. ASSUME NEW e
        PROVE  IsSequence(<<e>>)
    <3>1. <<e>> \in Seq({e})
      OBVIOUS
    <3>2. QED
      BY <3>1 DEF IsSequence
  <2>2. QED
    BY <2>1 DEF IsDeclaration, ToSet
<1>2. MethodRoutes(d, m) = FlattenSeq(all)
  BY DEF MethodRoutes
<1>3. \A h, c, p : RouteOf(d, m, Definition(h, c, p))
  BY DEF RouteOf
<1> HIDE DEF classPaths, Definition
<1>4. ASSUME NEW k \in DOMAIN m.routes, NEW i \in DOMAIN classPaths
      PROVE  LET x == Inner(m.routes[k], i) IN IsSequence(x) /\ \A y \in ToSet(x) : RouteOf(d, m, y)
  <2> DEFINE x == Inner(m.routes[k], i)
  <2>1. DOMAIN x = DOMAIN m.routes[k].paths /\ \A j \in DOMAIN x : RouteOf(d, m, x[j])
    BY <1>3
  <2>2. x = [j \in DOMAIN m.routes[k].paths |-> x[j]]
    OBVIOUS
  <2> HIDE DEF Inner
  <2> HIDE DEF x
  <2>3. IsSequence(x)
    BY <1>1, <2>2, MappedFacts
  <2>4. \A y \in ToSet(x) : RouteOf(d, m, y)
    BY <2>1 DEF ToSet
  <2>5. QED
    BY <2>3, <2>4 DEF x
<1> HIDE DEF Inner
<1>5. ASSUME NEW k \in DOMAIN m.routes
      PROVE  LET x == FlattenSeq(Outer(m.routes[k])) IN IsSequence(x) /\ \A y \in ToSet(x) : RouteOf(d, m, y)
  <2> DEFINE o == Outer(m.routes[k])
  <2>1. DOMAIN o = DOMAIN classPaths /\ \A i \in DOMAIN o : o[i] = Inner(m.routes[k], i)
    OBVIOUS
  <2>2. o = [i \in DOMAIN classPaths |-> o[i]]
    OBVIOUS
  <2> HIDE DEF Outer
  <2> HIDE DEF o
  <2>3. IsSequence(o)
    BY <1>1, <2>2, MappedFacts
  <2>4. \A i \in DOMAIN o : IsSequence(o[i]) /\ \A y \in ToSet(o[i]) : RouteOf(d, m, y)
    BY <1>4, <2>1
  <2>5. IsSequence(FlattenSeq(o)) /\ ToSet(FlattenSeq(o)) = UNION {ToSet(o[i]) : i \in DOMAIN o}
    BY <2>3, <2>4, FlattenFacts
  <2>6. QED
    BY <2>4, <2>5 DEF o
<1> HIDE DEF Outer
<1>6. DOMAIN all = DOMAIN m.routes /\ \A i \in DOMAIN all : all[i] = FlattenSeq(Outer(m.routes[i]))
  OBVIOUS
<1>7. all = [i \in DOMAIN m.routes |-> all[i]]
  OBVIOUS
<1> HIDE DEF all
<1>8. IsSequence(all)
  BY <1>1, <1>7, MappedFacts
<1>9. \A i \in DOMAIN all : IsSequence(all[i]) /\ \A y \in ToSet(all[i]) : RouteOf(d, m, y)
  BY <1>5, <1>6
<1>10. IsSequence(FlattenSeq(all)) /\ ToSet(FlattenSeq(all)) = UNION {ToSet(all[i]) : i \in DOMAIN all}
  BY <1>8, <1>9, FlattenFacts
<1>11. QED
  BY <1>2, <1>9, <1>10

\* A route of a source is one of a method that is a symbol.
SourceRoute(src, x) == \E d \in ToSet(src) : \E m \in ToSet(Methods(d)) : RouteOf(d, m, x)

LEMMA RoutesFacts ==
  ASSUME NEW d, IsDeclaration(d)
  PROVE  IsSequence(Routes(d)) /\ \A x \in ToSet(Routes(d)) : \E m \in ToSet(Methods(d)) : RouteOf(d, m, x)
<1> DEFINE all == [i \in DOMAIN Methods(d) |-> MethodRoutes(d, Methods(d)[i])]
<1>1. CASE "RestController" \notin d.annotations
  <2>1. Routes(d) = <<>>
    BY <1>1 DEF Routes
  <2>2. QED
    BY <2>1 DEF IsSequence, ToSet
<1>2. CASE "RestController" \in d.annotations
  <2>1. IsSequence(Methods(d)) /\ \A i \in DOMAIN Methods(d) : Methods(d)[i] \in ToSet(d.methods) /\ Methods(d)[i] \in ToSet(Methods(d))
    BY DEF Methods, IsDeclaration, IsSequence, ToSet
  <2>2. Routes(d) = FlattenSeq(all)
    BY <1>2 DEF Routes
  <2>3. DOMAIN all = DOMAIN Methods(d) /\ \A i \in DOMAIN all : all[i] = MethodRoutes(d, Methods(d)[i])
    OBVIOUS
  <2>4. all = [i \in DOMAIN Methods(d) |-> all[i]]
    OBVIOUS
  <2> HIDE DEF all
  <2>5. IsSequence(all)
    BY <2>1, <2>4, MappedFacts
  <2>6. \A i \in DOMAIN all : IsSequence(all[i]) /\ \A y \in ToSet(all[i]) : RouteOf(d, Methods(d)[i], y)
    BY <2>1, <2>3, MethodRoutesFacts
  <2>7. IsSequence(FlattenSeq(all)) /\ ToSet(FlattenSeq(all)) = UNION {ToSet(all[i]) : i \in DOMAIN all}
    BY <2>5, <2>6, FlattenFacts
  <2>8. QED
    BY <2>1, <2>2, <2>3, <2>6, <2>7
<1>3. QED
  BY <1>1, <1>2

AddRoute(c, kept, r) == IF \E i \in DOMAIN kept : Key(kept[i]) = Key(r) THEN kept ELSE Append(kept, r)
First == INSTANCE FoldFacts WITH Op <- AddRoute

Distinct(list) == \A i, j \in DOMAIN list : Key(list[i]) = Key(list[j]) => i = j

LEMMA AppendFacts ==
  ASSUME NEW s, NEW e, IsSequence(s)
  PROVE  /\ IsSequence(Append(s, e)) /\ Len(Append(s, e)) = Len(s) + 1
         /\ DOMAIN Append(s, e) = 1..(Len(s) + 1)
         /\ \A i \in 1..Len(s) : Append(s, e)[i] = s[i]
         /\ Append(s, e)[Len(s) + 1] = e
<1>1. PICK S : s \in Seq(S)
  BY DEF IsSequence
<1>2. s \in Seq(S \cup {e})
  BY <1>1, SeqMonotonic
<1>3. /\ Append(s, e) \in Seq(S \cup {e}) /\ Len(Append(s, e)) = Len(s) + 1
      /\ \A i \in 1..Len(s) : Append(s, e)[i] = s[i]
      /\ Append(s, e)[Len(s) + 1] = e
  BY <1>2, AppendProperties
<1>4. QED
  BY <1>3, LenProperties DEF IsSequence

\* Of the definitions of a route one is kept.
LEMMA FirstRoutesFacts ==
  ASSUME NEW routes, IsSequence(routes)
  PROVE  /\ IsSequence(FirstRoutes(routes)) /\ Distinct(FirstRoutes(routes))
         /\ ToSet(FirstRoutes(routes)) \subseteq ToSet(routes)
<1> DEFINE n == Len(routes)
           Good(kept) == IsSequence(kept) /\ Distinct(kept) /\ ToSet(kept) \subseteq ToSet(routes)
<1>1. n \in Nat /\ DOMAIN routes = 1..n
  BY SequenceFacts
<1>2. First!FoldOf(0, <<>>, routes) = FirstRoutes(routes)
  BY DEF FirstRoutes, AddRoute, First!FoldOf, First!Greatest, FoldLeft, MapThenFoldSet, Max
<1>3. PICK acc : /\ acc[0] = <<>>
                 /\ \A i \in 1..n : acc[i] = AddRoute(0, acc[i - 1], routes[i])
                 /\ acc[n] = FirstRoutes(routes)
  <2> HIDE DEF n
  <2> QED BY <1>1, <1>2, First!FoldUnfolds
<1>4. Good(acc[0])
  BY <1>3 DEF IsSequence, Distinct, ToSet
<1>5. ASSUME NEW i \in 1..n, Good(acc[i - 1])
      PROVE  Good(acc[i])
  <2> DEFINE kept == acc[i - 1]
             r == routes[i]
             next == Append(kept, r)
  <2>1. acc[i] = AddRoute(0, kept, r)
    BY <1>3
  <2>2. r \in ToSet(routes) /\ Good(kept)
    BY <1>1, <1>5 DEF ToSet
  <2> HIDE DEF kept, r
  <2>3. CASE \E j \in DOMAIN kept : Key(kept[j]) = Key(r)
    BY <2>1, <2>2, <2>3 DEF AddRoute
  <2>4. CASE \A j \in DOMAIN kept : Key(kept[j]) # Key(r)
    <3>1. acc[i] = next
      BY <2>1, <2>4 DEF AddRoute
    <3>2. /\ IsSequence(next) /\ DOMAIN next = 1..(Len(kept) + 1) /\ next[Len(kept) + 1] = r
          /\ Len(kept) \in Nat /\ DOMAIN kept = 1..Len(kept)
          /\ \A j \in DOMAIN kept : next[j] = kept[j]
      BY <2>2, AppendFacts, SequenceFacts
    <3>3. \A j \in DOMAIN next : j \in DOMAIN kept \/ j = Len(kept) + 1
      BY <3>2
    <3> HIDE DEF next
    <3>4. Distinct(next)
      BY <2>2, <2>4, <3>2, <3>3 DEF Distinct
    <3>5. ToSet(next) \subseteq ToSet(routes)
      BY <2>2, <3>2, <3>3 DEF ToSet
    <3>6. QED
      BY <3>1, <3>2, <3>4, <3>5
  <2>5. QED
    BY <2>3, <2>4
<1>6. Good(acc[n])
  <2> DEFINE T == {i \in 0..n : Good(acc[i])}
  <2>1. 0 \in T /\ \A i \in 1..n : i - 1 \in T => i \in T
    BY <1>1, <1>4, <1>5
  <2> HIDE DEF T, n
  <2>2. 0..n \subseteq T
    BY <1>1, <2>1, First!BoundedInduction
  <2>3. QED
    BY <1>1, <2>2 DEF T
<1>7. QED
  BY <1>3, <1>6

\* The interfaces of the sources, each of a route of its own.
LEMMA SourceApisFacts ==
  ASSUME NEW src \in Sources
  PROVE  /\ IsSequence(SourceApis(src)) /\ Distinct(SourceApis(src))
         /\ \A i \in DOMAIN SourceApis(src) : LET a == SourceApis(src)[i] IN
              /\ DOMAIN a = {"method", "path", "controller", "handler", "source", "openapi", "conflicts"}
              /\ \E d \in ToSet(src) : \E m \in ToSet(Methods(d)) :
                   a.controller = {TypeName(d)} /\ a.handler = {MethodName(d, m)}
<1> DEFINE all == [i \in DOMAIN src |-> Routes(src[i])]
           routes == FirstRoutes(FlattenSeq(all))
           apis == SourceApis(src)
<1>1. IsSequence(src) /\ \A i \in DOMAIN src : IsDeclaration(src[i]) /\ src[i] \in ToSet(src)
  BY SourceFacts DEF ToSet
<1>2. /\ DOMAIN apis = DOMAIN routes /\ apis = [i \in DOMAIN routes |-> apis[i]]
      /\ \A i \in DOMAIN apis : apis[i] =
           [method |-> routes[i].method, path |-> routes[i].path, controller |-> {routes[i].controller},
            handler |-> {routes[i].handler}, source |-> routes[i].parameters, openapi |-> {}, conflicts |-> {}]
  BY DEF SourceApis
<1>3. DOMAIN all = DOMAIN src /\ \A i \in DOMAIN all : all[i] = Routes(src[i])
  OBVIOUS
<1>4. all = [i \in DOMAIN src |-> all[i]]
  OBVIOUS
<1> HIDE DEF all
<1>5. IsSequence(all)
  BY <1>1, <1>4, MappedFacts
<1>6. \A i \in DOMAIN all : IsSequence(all[i]) /\ \A y \in ToSet(all[i]) : SourceRoute(src, y)
  BY <1>1, <1>3, RoutesFacts DEF SourceRoute
<1>7. IsSequence(FlattenSeq(all)) /\ \A y \in ToSet(FlattenSeq(all)) : SourceRoute(src, y)
  BY <1>5, <1>6, FlattenFacts
<1>8. IsSequence(routes) /\ Distinct(routes) /\ \A i \in DOMAIN routes : SourceRoute(src, routes[i])
  <2>1. IsSequence(routes) /\ Distinct(routes) /\ ToSet(routes) \subseteq ToSet(FlattenSeq(all))
    BY <1>7, FirstRoutesFacts
  <2> HIDE DEF routes
  <2>2. QED
    BY <1>7, <2>1 DEF ToSet
<1> HIDE DEF routes, apis
<1>9. IsSequence(apis)
  BY <1>2, <1>8, MappedFacts
<1>10. \A i \in DOMAIN apis : Key(apis[i]) = Key(routes[i])
  BY <1>2 DEF Key
<1>11. Distinct(apis)
  BY <1>2, <1>8, <1>10 DEF Distinct
<1>12. ASSUME NEW i \in DOMAIN apis
       PROVE  /\ DOMAIN apis[i] = {"method", "path", "controller", "handler", "source", "openapi", "conflicts"}
              /\ \E d \in ToSet(src) : \E m \in ToSet(Methods(d)) :
                   apis[i].controller = {TypeName(d)} /\ apis[i].handler = {MethodName(d, m)}
  <2>1. PICK d \in ToSet(src) : \E m \in ToSet(Methods(d)) : RouteOf(d, m, routes[i])
    BY <1>2, <1>8 DEF SourceRoute
  <2>2. PICK m \in ToSet(Methods(d)) : RouteOf(d, m, routes[i])
    BY <2>1
  <2>3. routes[i].controller = TypeName(d) /\ routes[i].handler = MethodName(d, m)
    BY <2>2 DEF RouteOf
  <2>4. QED
    BY <1>2, <2>3
<1>13. QED
  BY <1>9, <1>11, <1>12 DEF apis

MergeInto(c, apis, o) ==
  [i \in DOMAIN apis |-> IF Key(apis[i]) = OperationKey(o) THEN Merge(apis[i], o) ELSE apis[i]]
Merged == INSTANCE FoldFacts WITH Op <- MergeInto

\* The operations of a document change what the interfaces take, not what they are.
SameApi(a, b) ==
  /\ DOMAIN a = DOMAIN b
  /\ a.method = b.method /\ a.path = b.path /\ a.controller = b.controller /\ a.handler = b.handler

LEMMA MergeKeeps ==
  ASSUME NEW a, NEW o,
         DOMAIN a = {"method", "path", "controller", "handler", "source", "openapi", "conflicts"}
  PROVE  SameApi(Merge(a, o), a)
BY DEF Merge, SameApi

LEMMA ApisFacts ==
  ASSUME NEW src \in Sources, NEW doc \in Documents
  PROVE  /\ IsSequence(Apis(src, doc)) /\ Distinct(Apis(src, doc))
         /\ \A a \in ToSet(Apis(src, doc)) : \E d \in ToSet(src) : \E m \in ToSet(Methods(d)) :
              a.controller = {TypeName(d)} /\ a.handler = {MethodName(d, m)}
<1> DEFINE base == SourceApis(src)
           apis == Apis(src, doc)
           n == Len(doc)
           Good(x) == DOMAIN x = DOMAIN base /\ \A i \in DOMAIN base : SameApi(x[i], base[i])
<1>1. n \in Nat /\ DOMAIN doc = 1..n
  BY DocumentsAssumption, SequenceFacts DEF IsList, IsSequence
<1>2. Merged!FoldOf(0, base, doc) = apis
  BY DEF Apis, MergeInto, Merged!FoldOf, Merged!Greatest, FoldLeft, MapThenFoldSet, Max
<1> HIDE DEF apis
<1>3. PICK acc : /\ acc[0] = base
                 /\ \A i \in 1..n : acc[i] = MergeInto(0, acc[i - 1], doc[i])
                 /\ acc[n] = apis
  <2> HIDE DEF n, base
  <2> QED BY <1>1, <1>2, Merged!FoldUnfolds
<1> HIDE DEF base
<1>4. Good(acc[0])
  BY <1>3 DEF SameApi
<1>5. /\ IsSequence(base) /\ Distinct(base)
      /\ \A i \in DOMAIN base :
           /\ DOMAIN base[i] = {"method", "path", "controller", "handler", "source", "openapi", "conflicts"}
           /\ \E d \in ToSet(src) : \E m \in ToSet(Methods(d)) :
                base[i].controller = {TypeName(d)} /\ base[i].handler = {MethodName(d, m)}
  BY SourceApisFacts DEF base
<1>6. ASSUME NEW k \in 1..n, Good(acc[k - 1])
      PROVE  Good(acc[k])
  <2> DEFINE x == acc[k - 1]
             o == doc[k]
  <2>1. acc[k] = MergeInto(0, x, o) /\ Good(x)
    BY <1>3, <1>6
  <2> HIDE DEF x, o
  <2>2. ASSUME NEW i \in DOMAIN base
        PROVE  i \in DOMAIN acc[k] /\ SameApi(acc[k][i], base[i])
    <3>1. acc[k][i] = Merge(x[i], o) \/ acc[k][i] = x[i]
      BY <2>1 DEF MergeInto
    <3>2. SameApi(x[i], base[i])
      BY <2>1
    <3>3. SameApi(Merge(x[i], o), x[i])
      BY <1>5, <3>2, MergeKeeps DEF SameApi
    <3>4. QED
      BY <2>1, <3>1, <3>2, <3>3 DEF SameApi, MergeInto
  <2>3. DOMAIN acc[k] = DOMAIN base
    BY <2>1 DEF MergeInto
  <2>4. QED
    BY <2>2, <2>3
<1>7. Good(acc[n])
  <2> DEFINE T == {i \in 0..n : Good(acc[i])}
  <2>1. 0 \in T /\ \A i \in 1..n : i - 1 \in T => i \in T
    BY <1>1, <1>4, <1>6
  <2> HIDE DEF T, n
  <2>2. 0..n \subseteq T
    BY <1>1, <2>1, Merged!BoundedInduction
  <2>3. QED
    BY <1>1, <2>2 DEF T
<1>8. DOMAIN apis = DOMAIN base /\ \A i \in DOMAIN base : SameApi(apis[i], base[i])
  BY <1>3, <1>7
<1>9. IsSequence(apis)
  <2>1. CASE n = 0
    BY <1>3, <1>5, <2>1
  <2>2. CASE n # 0
    <3>1. n \in 1..n /\ apis = MergeInto(0, acc[n - 1], doc[n])
      BY <1>1, <1>3, <2>2
    <3>2. DOMAIN acc[n - 1] = DOMAIN apis
      BY <3>1 DEF MergeInto
    <3>3. apis = [i \in DOMAIN base |-> apis[i]]
      BY <1>8, <3>1, <3>2 DEF MergeInto
    <3>4. QED
      BY <1>5, <3>3, MappedFacts
  <2>3. QED
    BY <2>1, <2>2
<1>10. Distinct(apis)
  BY <1>5, <1>8 DEF Distinct, Key, SameApi
<1>11. QED
  BY <1>5, <1>8, <1>9, <1>10 DEF apis, ToSet, SameApi

----------------------------------------------------------------------------
(* What is published *)

SymbolsOf(src) == ToSet(AllSymbols(src))

LEMMA SymbolFacts ==
  ASSUME NEW src \in Sources, NEW s \in SymbolsOf(src)
  PROVE  s.type \in Types /\ s.parent \subseteq NamesOf(SymbolsOf(src))
<1>1. PICK d \in ToSet(src) : Declares(d, s)
  BY AllSymbolsFacts DEF SymbolsOf
<1>2. IsDeclaration(d)
  BY SourceFacts
<1>3. TypeSymbol(d) \in SymbolsOf(src) /\ TypeSymbol(d).qname = TypeName(d)
  BY AllSymbolsFacts, NameFacts DEF SymbolsOf
<1>4. s.type \in Types /\ (s.parent = {} \/ s.parent = {TypeName(d)})
  BY <1>1, <1>2, KindFacts
<1>5. QED
  BY <1>3, <1>4 DEF NamesOf

\* The method of an interface and its controller.
LEMMA MethodFacts ==
  ASSUME NEW src \in Sources, NEW d \in ToSet(src), NEW m \in ToSet(Methods(d))
  PROVE  /\ TypeSymbol(d) \in SymbolsOf(src) /\ MethodSymbol(d, m) \in SymbolsOf(src)
         /\ TypeSymbol(d).qname = TypeName(d) /\ TypeSymbol(d).parent = {}
         /\ MethodSymbol(d, m).qname = MethodName(d, m) /\ MethodSymbol(d, m).type = "method"
         /\ MethodSymbol(d, m).parent = {TypeName(d)}
<1>1. TypeSymbol(d) \in SymbolsOf(src) /\ MethodSymbol(d, m) \in SymbolsOf(src)
  BY AllSymbolsFacts, NameFacts DEF SymbolsOf
<1>2. QED
  BY <1>1 DEF TypeSymbol, MethodSymbol, Symbol

LEMMA EndFacts ==
  ASSUME NEW src \in Sources, ~NamesClash(src), NEW x \in ResolvedRelations(src)
  PROVE  {x.source, x.target} \subseteq NamesOf(SymbolsOf(src)) /\ x.type \in RelationTypes
<1>1. PICK d \in ToSet(src) : \E r \in Relations(d), t \in SymbolsOf(src) :
        x = Relation(r.source, t.qname, r.type)
  BY ResolvedFacts DEF SymbolsOf
<1>2. PICK r \in Relations(d), t \in SymbolsOf(src) : x = Relation(r.source, t.qname, r.type)
  BY <1>1
<1>3. x.source = r.source /\ x.target = t.qname /\ x.type = r.type
  BY <1>2 DEF Relation
<1>4. r.type \in RelationTypes /\ (r.source = TypeName(d) \/ \E m \in ToSet(Methods(d)) : r.source = MethodName(d, m))
  BY RelationFacts
<1>5. r.source \in NamesOf(SymbolsOf(src))
  BY <1>4, NameFacts, AllSymbolsFacts DEF NamesOf, SymbolsOf
<1>6. QED
  BY <1>3, <1>4, <1>5 DEF NamesOf

\* The chunk of a symbol.
ChunkOf(s) ==
  [id |-> s.qname, symbol |-> {s.qname}, type |-> CHOOSE t \in ChunkType(s.type) : TRUE,
   line |-> s.line, size |-> s.size]

LEMMA ChunkFacts ==
  ASSUME NEW src \in Sources, NEW c
  PROVE  c \in Chunks(src) <=>
           \/ \E s \in SymbolsOf(src) : s.type # "field" /\ c = ChunkOf(s)
           \/ \E i \in DOMAIN src : c \in SqlChunks(src[i])
<1>1. \A type : ChunkType(type) = {} <=> type = "field"
  <2>1. ASSUME NEW type PROVE ChunkType(type) = {} <=> type = "field"
    <3>1. CASE type = "field"
      BY <3>1 DEF ChunkType
    <3>2. CASE type \in {"method", "dto", "exception"}
      BY <3>2 DEF ChunkType
    <3>3. CASE type \notin {"field", "method", "dto", "exception"}
      BY <3>3 DEF ChunkType
    <3>4. QED
      BY <3>1, <3>2, <3>3
  <2>2. QED
    BY <2>1
<1>2. Chunks(src) =
        {ChunkOf(s) : s \in {x \in SymbolsOf(src) : ChunkType(x.type) # {}}}
        \cup UNION {SqlChunks(src[i]) : i \in DOMAIN src}
  BY DEF Chunks, ChunkOf, SymbolsOf
<1>3. QED
  BY <1>1, <1>2

LEMMA SqlFacts ==
  ASSUME NEW d, NEW c \in SqlChunks(d)
  PROVE  c.symbol = {}
BY DEF SqlChunks

----------------------------------------------------------------------------
(* The invariant *)

IndexOf(src, doc) ==
  [symbols |-> SymbolsOf(src), relations |-> ResolvedRelations(src), apis |-> Apis(src, doc),
   chunks |-> Chunks(src)]

\* The index is that of the inputs, or there is none yet.
ScanOK ==
  /\ source \in Sources /\ document \in Documents /\ scan \in {"running", "published", "raised"}
  /\ scan # "published" => index = NoIndex
  /\ scan = "published" => ~NamesClash(source) /\ index = IndexOf(source, document)
  /\ embedded \subseteq {c.id : c \in index.chunks}

Retrieved == UNION {{contexts[r][i].hit.chunk.id : i \in DOMAIN contexts[r]} : r \in DOMAIN contexts}

\* A run works on interfaces of a published index; it holds what the checks of its
\* nodes have let through.
RunOK ==
  /\ DOMAIN state = {"apis", "chunks", "rules", "scenarios", "cases"}
  /\ node = "none" => DOMAIN state.apis = {}
  /\ node # "none" => scan = "published"
  /\ DOMAIN state.apis \subseteq RoutesOf(index.apis) /\ DOMAIN contexts \subseteq DOMAIN state.apis
  /\ \A r \in DOMAIN state.apis : state.apis[r] = ToolApi(Api(r), index)
  /\ node \notin {"none", "load_api_definition", "failed"} => state.chunks = Retrieved
  /\ node \in {"analyze_business_rules", "generate_test_scenarios", "generate_structured_cases", "persist_drafts"}
       => ValidRules(state.rules, state)
  /\ node \in {"generate_test_scenarios", "generate_structured_cases", "persist_drafts"}
       => ValidScenarios(state.scenarios, state)
  /\ IF node = "persist_drafts"
     THEN saved.rules = state.rules /\ saved.cases = state.cases /\ ValidCases(state.cases, state)
     ELSE saved.rules = <<>> /\ saved.cases = <<>>

CInv == ScanOK /\ RunOK

LEMMA InitC == Init => CInv
<1> SUFFICES ASSUME Init PROVE CInv
  OBVIOUS
<1>1. ScanOK
  BY DEF Init, ScanOK, NoIndex
<1>2. RunOK
  BY DEF Init, RunOK, NoState
<1>3. QED
  BY <1>1, <1>2 DEF CInv

LEMMA ScanStep ==
  ASSUME CInv, Publish \/ PublicationRaises \/ \E chunk \in index.chunks : Embed(chunk)
  PROVE  CInv'
<1>1. CASE Publish
  <2>1. /\ scan' = "published" /\ index' = IndexOf(source, document) /\ ~NamesClash(source)
        /\ UNCHANGED <<source, document, embedded, node, state, contexts, saved>>
    BY <1>1 DEF Publish, Publishes, IndexOf, SymbolsOf
  <2>2. /\ index = NoIndex /\ node = "none" /\ DOMAIN state.apis = {} /\ DOMAIN contexts = {}
        /\ embedded = {}
    <3>1. scan = "running"
      BY <1>1 DEF Publish
    <3>2. index = NoIndex /\ node = "none"
      BY <3>1 DEF CInv, ScanOK, RunOK
    <3>3. NoIndex.chunks = {}
      BY DEF NoIndex
    <3>4. embedded = {}
      BY <3>2, <3>3 DEF CInv, ScanOK
    <3>5. QED
      BY <3>2, <3>4 DEF CInv, RunOK
  <2>3. ScanOK'
    BY <2>1, <2>2 DEF CInv, ScanOK
  <2>4. RunOK'
    BY <2>1, <2>2 DEF CInv, RunOK
  <2>5. QED
    BY <2>3, <2>4 DEF CInv
<1>2. CASE UNCHANGED <<source, document, index, node, state, contexts, saved>>
          /\ (scan = "published" <=> scan' = "published") /\ scan' \in {"running", "published", "raised"}
          /\ embedded' \subseteq {c.id : c \in index.chunks}
  <2>1. ScanOK'
    BY <1>2 DEF CInv, ScanOK
  <2>2. RunOK'
    BY <1>2 DEF CInv, RunOK, Api, Retrieved
  <2>3. QED
    BY <2>1, <2>2 DEF CInv
<1>3. CASE PublicationRaises
  BY <1>2, <1>3 DEF PublicationRaises, CInv, ScanOK
<1>4. CASE \E chunk \in index.chunks : Embed(chunk)
  BY <1>2, <1>4 DEF Embed, scanned, CInv, ScanOK
<1>5. QED
  BY <1>1, <1>3, <1>4

LEMMA LoadStep ==
  ASSUME CInv, NEW routes, LoadApis(routes)
  PROVE  CInv'
<1>1. /\ node = "none" /\ node' = "load_api_definition" /\ routes # {} /\ routes \subseteq RoutesOf(index.apis)
      /\ UNCHANGED <<source, document, scan, index, embedded, contexts, saved>>
      /\ state' = [state EXCEPT !.apis = [r \in routes |-> ToolApi(Api(r), index)]]
  BY DEF LoadApis, scanned
<1>2. scan = "published"
  <2>1. RoutesOf(NoIndex.apis) = {}
    BY DEF RoutesOf, NoIndex
  <2>2. QED
    BY <1>1, <2>1 DEF CInv, ScanOK
<1>3. /\ DOMAIN state' = DOMAIN state /\ DOMAIN state'.apis = routes
      /\ \A r \in routes : state'.apis[r] = ToolApi(Api(r), index)
  BY <1>1 DEF CInv, RunOK
<1>4. DOMAIN contexts = {}
  BY <1>1 DEF CInv, RunOK
<1>5. RunOK'
  BY <1>1, <1>2, <1>3, <1>4 DEF CInv, RunOK, Api
<1>6. ScanOK'
  BY <1>1 DEF CInv, ScanOK
<1>7. QED
  BY <1>5, <1>6 DEF CInv

LEMMA RetrieveStep ==
  ASSUME CInv, \/ \E route \in DOMAIN state.apis, available \in BOOLEAN : RetrieveContext(route, available)
               \/ ContextsRetrieved
  PROVE  CInv'
<1>1. CASE \E route \in DOMAIN state.apis, available \in BOOLEAN : RetrieveContext(route, available)
  <2>1. PICK route \in DOMAIN state.apis : \E available \in BOOLEAN : RetrieveContext(route, available)
    BY <1>1
  <2>2. /\ node = "load_api_definition" /\ DOMAIN contexts' = DOMAIN contexts \cup {route}
        /\ UNCHANGED <<source, document, scan, index, embedded, node, state, saved>>
    BY <2>1 DEF RetrieveContext, scanned
  <2>3. RunOK'
    BY <2>2 DEF CInv, RunOK, Api
  <2>4. QED
    BY <2>2, <2>3 DEF CInv, ScanOK
<1>2. CASE ContextsRetrieved
  <2>1. /\ node = "load_api_definition" /\ node' = "retrieve_code_context"
        /\ state' = [state EXCEPT !.chunks = Retrieved]
        /\ UNCHANGED <<source, document, scan, index, embedded, contexts, saved>>
    BY <1>2 DEF ContextsRetrieved, scanned, Retrieved
  <2>2. DOMAIN state' = DOMAIN state /\ state'.apis = state.apis /\ state'.chunks = Retrieved
    BY <2>1 DEF CInv, RunOK
  <2>3. Retrieved' = Retrieved
    BY <2>1 DEF Retrieved
  <2>4. RunOK'
    BY <2>1, <2>2, <2>3 DEF CInv, RunOK, Api
  <2>5. QED
    BY <2>1, <2>4 DEF CInv, ScanOK
<1>3. QED
  BY <1>1, <1>2

LEMMA ModelStep ==
  ASSUME CInv, \/ \E rules : AnalyzeRules(rules)
               \/ \E scenarios : GenerateScenarios(scenarios)
               \/ \E cases : GenerateCases(cases)
  PROVE  CInv'
<1>1. UNCHANGED <<source, document, scan, index, embedded, contexts, saved>>
  BY DEF AnalyzeRules, GenerateScenarios, GenerateCases, scanned
<1>2. ScanOK' /\ Retrieved' = Retrieved
  BY <1>1 DEF CInv, ScanOK, Retrieved
<1>3. CASE \E rules : AnalyzeRules(rules)
  <2>1. PICK rules : AnalyzeRules(rules)
    BY <1>3
  <2>2. /\ DOMAIN state' = DOMAIN state /\ state'.apis = state.apis /\ state'.chunks = state.chunks
        /\ state'.rules = rules /\ ValidRules(rules, state)
        /\ node = "retrieve_code_context" /\ node' = "analyze_business_rules"
    BY <2>1 DEF AnalyzeRules, CInv, RunOK
  <2>3. ValidRules(rules, state')
    BY <2>2 DEF ValidRules, ValidRule
  <2>4. RunOK'
    BY <1>1, <1>2, <2>2, <2>3 DEF CInv, RunOK, Api
  <2>5. QED
    BY <1>2, <2>4 DEF CInv
<1>4. CASE \E scenarios : GenerateScenarios(scenarios)
  <2>1. PICK scenarios : GenerateScenarios(scenarios)
    BY <1>4
  <2>2. /\ DOMAIN state' = DOMAIN state /\ state'.apis = state.apis /\ state'.chunks = state.chunks
        /\ state'.rules = state.rules /\ state'.scenarios = scenarios /\ ValidScenarios(scenarios, state)
        /\ ValidRules(state.rules, state)
        /\ node = "analyze_business_rules" /\ node' = "generate_test_scenarios"
    BY <2>1 DEF GenerateScenarios, CInv, RunOK
  <2>3. ValidRules(state'.rules, state') /\ ValidScenarios(scenarios, state')
    BY <2>2 DEF ValidRules, ValidRule, ValidScenarios
  <2>4. RunOK'
    BY <1>1, <1>2, <2>2, <2>3 DEF CInv, RunOK, Api
  <2>5. QED
    BY <1>2, <2>4 DEF CInv
<1>5. CASE \E cases : GenerateCases(cases)
  <2>1. PICK cases : GenerateCases(cases)
    BY <1>5
  <2>2. /\ DOMAIN state' = DOMAIN state /\ state'.apis = state.apis /\ state'.chunks = state.chunks
        /\ state'.rules = state.rules /\ state'.scenarios = state.scenarios
        /\ ValidRules(state.rules, state) /\ ValidScenarios(state.scenarios, state)
        /\ node = "generate_test_scenarios" /\ node' = "generate_structured_cases"
    BY <2>1 DEF GenerateCases, CInv, RunOK
  <2>3. ValidRules(state'.rules, state') /\ ValidScenarios(state'.scenarios, state')
    BY <2>2 DEF ValidRules, ValidRule, ValidScenarios
  <2>4. RunOK'
    BY <1>1, <1>2, <2>2, <2>3 DEF CInv, RunOK, Api
  <2>5. QED
    BY <1>2, <2>4 DEF CInv
<1>6. QED
  BY <1>3, <1>4, <1>5

LEMMA EndStep ==
  ASSUME CInv, ModelFails \/ PersistDrafts \/ UNCHANGED vars
  PROVE  CInv'
<1>1. UNCHANGED <<source, document, scan, index, embedded, contexts, state>>
  BY DEF ModelFails, PersistDrafts, vars, scanned
<1>2. ScanOK' /\ Retrieved' = Retrieved
  BY <1>1 DEF CInv, ScanOK, Retrieved
<1>3. CASE ModelFails
  BY <1>1, <1>2, <1>3 DEF ModelFails, CInv, RunOK, Api
<1>4. CASE PersistDrafts
  BY <1>1, <1>2, <1>4 DEF PersistDrafts, CInv, RunOK, Api
<1>5. CASE UNCHANGED vars
  BY <1>1, <1>2, <1>5 DEF vars, CInv, RunOK, Api
<1>6. QED
  BY <1>3, <1>4, <1>5

LEMMA NextC == CInv /\ [Next]_vars => CInv'
BY ScanStep, LoadStep, RetrieveStep, ModelStep, EndStep DEF Next

LEMMA IndexInvariant == Spec => []CInv
BY InitC, NextC, PTL DEF Spec

----------------------------------------------------------------------------
(* The theorems *)

LEMMA NothingIndexed ==
  /\ NoIndex.symbols = {} /\ NoIndex.relations = {} /\ NoIndex.chunks = {}
  /\ NoIndex.apis = <<>> /\ DOMAIN NoIndex.apis = {} /\ ToSet(NoIndex.apis) = {}
<1>1. NoIndex.symbols = {} /\ NoIndex.relations = {} /\ NoIndex.chunks = {} /\ NoIndex.apis = <<>>
  BY DEF NoIndex
<1>2. QED
  BY <1>1 DEF ToSet

LEMMA WhatIsIndexed ==
  ASSUME ScanOK, index # NoIndex
  PROVE  /\ source \in Sources /\ document \in Documents /\ ~NamesClash(source)
         /\ index.symbols = SymbolsOf(source) /\ index.relations = ResolvedRelations(source)
         /\ index.apis = Apis(source, document) /\ index.chunks = Chunks(source)
BY DEF ScanOK, IndexOf

\* Whatever sources and operations are scanned, the rows that are published refer to
\* rows of the same scan, vectors belong to its chunks, and a run has contexts of
\* its own interfaces only (task_worker.py 145-202, java_parser.py 137-200).
THEOREM RowsRefer == Spec => []TypeOK
<1>1. CInv => TypeOK
  <2> SUFFICES ASSUME CInv PROVE TypeOK
    OBVIOUS
  <2> DEFINE names == NamesOf(index.symbols)
  <2>1. CASE index = NoIndex
    BY <2>1, NothingIndexed DEF TypeOK, CInv, ScanOK, RunOK
  <2>2. CASE index # NoIndex
    <3>1. /\ source \in Sources /\ document \in Documents /\ ~NamesClash(source)
          /\ index.symbols = SymbolsOf(source) /\ index.relations = ResolvedRelations(source)
          /\ index.apis = Apis(source, document) /\ index.chunks = Chunks(source)
      BY <2>2, WhatIsIndexed DEF CInv
    <3>2. \A s \in index.symbols : s.type \in Types /\ s.parent \subseteq names
      BY <3>1, SymbolFacts
    <3>3. \A r \in index.relations : {r.source, r.target} \subseteq names /\ r.type \in RelationTypes
      BY <3>1, EndFacts
    <3>4. ASSUME NEW a \in ToSet(index.apis)
          PROVE  a.controller \cup a.handler \subseteq names
      <4>1. PICK d \in ToSet(source) : \E m \in ToSet(Methods(d)) :
              a.controller = {TypeName(d)} /\ a.handler = {MethodName(d, m)}
        BY <3>1, <3>4, ApisFacts
      <4>2. PICK m \in ToSet(Methods(d)) : a.controller = {TypeName(d)} /\ a.handler = {MethodName(d, m)}
        BY <4>1
      <4>3. TypeName(d) \in names /\ MethodName(d, m) \in names
        BY <3>1, MethodFacts DEF NamesOf
      <4>4. QED
        BY <4>2, <4>3
    <3>5. ASSUME NEW c \in index.chunks
          PROVE  c.symbol \subseteq names
      <4>1. CASE \E s \in SymbolsOf(source) : c = ChunkOf(s)
        BY <3>1, <4>1 DEF ChunkOf, NamesOf
      <4>2. CASE \E i \in DOMAIN source : c \in SqlChunks(source[i])
        BY <4>2, SqlFacts
      <4>3. QED
        BY <3>1, <3>5, <4>1, <4>2, ChunkFacts
    <3>6. QED
      BY <2>2, <3>2, <3>3, <3>4, <3>5 DEF TypeOK, CInv, ScanOK, RunOK, NamesOf, RelationTypes
  <2>3. QED
    BY <2>1, <2>2
<1>2. QED
  BY <1>1, IndexInvariant, PTL

\* Whatever is scanned, the index says what the sources say: a relation leads to the
\* one type of its name, of the kind it asks for, a route has one interface with a
\* method of its controller, and every symbol but a field has one chunk
\* (task_worker.py 145-202, chunker.py 31-46).
THEOREM IndexSaysTheSources == Spec => []IndexIsSound
<1>1. CInv => IndexIsSound
  <2> SUFFICES ASSUME CInv PROVE IndexIsSound
    OBVIOUS
  <2> DEFINE Of(name) == CHOOSE s \in index.symbols : s.qname = name
             types == {s \in index.symbols : s.parent = {}}
  <2>1. CASE index = NoIndex
    BY <2>1, NothingIndexed DEF IndexIsSound
  <2>2. CASE index # NoIndex
    <3>1. /\ source \in Sources /\ document \in Documents /\ ~NamesClash(source)
          /\ index.symbols = SymbolsOf(source) /\ index.relations = ResolvedRelations(source)
          /\ index.apis = Apis(source, document) /\ index.chunks = Chunks(source)
      BY <2>2, WhatIsIndexed DEF CInv
    <3>2. \A s, t \in index.symbols : s.qname = t.qname => s = t
      BY <3>1, OneName DEF SymbolsOf
    <3>3. \A s \in index.symbols : Of(s.qname) = s
      BY <3>2
    <3> HIDE DEF Of
    <3>4. \A s \in index.symbols : s.parent = {} <=> s.type \notin {"field", "method"}
      <4>1. \A s \in index.symbols : \E d \in ToSet(source) : IsDeclaration(d) /\ Declares(d, s)
        BY <3>1, AllSymbolsFacts, SourceFacts DEF SymbolsOf
      <4>2. QED
        BY <4>1, KindFacts
    <3>5. ASSUME NEW r \in index.relations
          PROVE  LET t == Of(r.target) IN
                   /\ {s \in types : s.name = t.name} = {t}
                   /\ r.type = "uses_dto" => t.type = "dto"
                   /\ r.type = "throws" => t.type = "exception"
      <4>1. PICK d \in ToSet(source) : \E y \in Relations(d), t \in SymbolsOf(source) :
              /\ r = Relation(y.source, t.qname, y.type)
              /\ Candidates(SymbolsOf(source), y.target) = {t} /\ t.name = y.target
              /\ y.type = "uses_dto" => t.type = "dto"
              /\ y.type = "throws" => t.type = "exception"
        BY <3>1, <3>5, ResolvedFacts DEF SymbolsOf
      <4>2. PICK y \in Relations(d), t \in SymbolsOf(source) :
              /\ r = Relation(y.source, t.qname, y.type)
              /\ Candidates(SymbolsOf(source), y.target) = {t} /\ t.name = y.target
              /\ y.type = "uses_dto" => t.type = "dto"
              /\ y.type = "throws" => t.type = "exception"
        BY <4>1
      <4>3. r.target = t.qname /\ r.type = y.type
        BY <4>2 DEF Relation
      <4>4. Of(r.target) = t
        BY <3>1, <3>3, <4>3
      <4>5. {s \in types : s.name = t.name} = Candidates(SymbolsOf(source), y.target)
        BY <3>1, <3>4, <4>2 DEF Candidates
      <4>6. QED
        BY <4>2, <4>3, <4>4, <4>5
    <3>6. \A i, j \in DOMAIN index.apis : Key(index.apis[i]) = Key(index.apis[j]) => i = j
      BY <3>1, ApisFacts DEF Distinct
    <3>7. ASSUME NEW i \in DOMAIN index.apis, NEW h \in index.apis[i].handler
          PROVE  Of(h).type = "method" /\ Of(h).parent = index.apis[i].controller
      <4>1. index.apis[i] \in ToSet(index.apis)
        BY DEF ToSet
      <4>2. PICK d \in ToSet(source) : \E m \in ToSet(Methods(d)) :
              index.apis[i].controller = {TypeName(d)} /\ index.apis[i].handler = {MethodName(d, m)}
        BY <3>1, <4>1, ApisFacts
      <4>3. PICK m \in ToSet(Methods(d)) :
              index.apis[i].controller = {TypeName(d)} /\ index.apis[i].handler = {MethodName(d, m)}
        BY <4>2
      <4>4. /\ MethodSymbol(d, m) \in index.symbols /\ MethodSymbol(d, m).qname = h
            /\ MethodSymbol(d, m).type = "method" /\ MethodSymbol(d, m).parent = {TypeName(d)}
        BY <3>1, <4>3, MethodFacts
      <4>5. Of(h) = MethodSymbol(d, m)
        BY <3>3, <4>4
      <4>6. QED
        BY <4>3, <4>4, <4>5
    <3>8. ASSUME NEW s \in index.symbols
          PROVE  s.type # "field" <=> Cardinality({c \in index.chunks : c.symbol = {s.qname}}) = 1
      <4> DEFINE own == {c \in index.chunks : c.symbol = {s.qname}}
      <4>1. \A t : ChunkOf(t).symbol = {t.qname}
        BY DEF ChunkOf
      <4>2. \A c \in own : s.type # "field" /\ c = ChunkOf(s)
        <5>1. ASSUME NEW c \in own
              PROVE  \E t \in SymbolsOf(source) : t.type # "field" /\ c = ChunkOf(t)
          BY <3>1, ChunkFacts, SqlFacts
        <5>2. \A c \in own : \A t \in SymbolsOf(source) : c = ChunkOf(t) => t.qname = s.qname
          BY <4>1
        <5>3. QED
          BY <3>1, <3>2, <5>1, <5>2
      <4>3. CASE s.type = "field"
        <5>1. own = {}
          BY <4>2, <4>3
        <5>2. QED
          BY <4>3, <5>1, FS_EmptySet
      <4>4. CASE s.type # "field"
        <5>1. ChunkOf(s) \in own
          BY <3>1, <4>1, <4>4, ChunkFacts
        <5>2. own = {ChunkOf(s)}
          BY <4>2, <5>1
        <5>3. QED
          BY <4>4, <5>2, FS_Singleton
      <4>5. QED
        BY <4>3, <4>4
    <3>9. QED
      BY <3>5, <3>6, <3>7, <3>8 DEF IndexIsSound, Of
  <2>3. QED
    BY <2>1, <2>2
<1>2. QED
  BY <1>1, IndexInvariant, PTL

Start(seeds, symbols) == seeds \cup UNION {s.parent : s \in {x \in symbols : x.qname \in seeds}}

\* The expansion makes two rounds.
LEMMA ExpandFacts ==
  ASSUME NEW seeds, NEW symbols, NEW relations
  PROVE  LET start == Start(seeds, symbols)
             first == Neighbours(relations, start) \ start
             second == Neighbours(relations, first) \ (start \cup first)
         IN Expand(seeds, symbols, relations) = (start \cup first) \cup second
<1> DEFINE start == Start(seeds, symbols)
           first == Neighbours(relations, start) \ start
           second == Neighbours(relations, first) \ (start \cup first)
           base == [selected |-> start, frontier |-> start]
           s == [n \in 1..2 |-> n]
           two == 2
           expanded == Rounds!FoldOf(relations, base, s)
<1>1. Expand(seeds, symbols, relations) = expanded.selected
  BY DEF Expand, Start, MaxRelationDepth, RoundFold, Rounds!FoldOf, Rounds!Greatest, FoldLeft, MapThenFoldSet, Max
<1>2. DOMAIN s = 1..two /\ two \in Nat
  OBVIOUS
<1> HIDE DEF base, s, expanded, two
<1>3. PICK acc : /\ acc[0] = base
                 /\ \A i \in 1..two : acc[i] = RoundFold(relations, acc[i - 1], s[i])
                 /\ acc[two] = expanded
  BY <1>2, Rounds!FoldUnfolds DEF expanded
<1>4. base.selected = start /\ base.frontier = start
  BY DEF base
<1>5. acc[1] = RoundFold(relations, acc[0], s[1]) /\ acc[2] = RoundFold(relations, acc[1], s[2])
  BY <1>3 DEF two
<1> HIDE DEF start
<1>6. acc[1].selected = start \cup first /\ acc[1].frontier = first
  BY <1>3, <1>4, <1>5 DEF RoundFold
<1> HIDE DEF first
<1>7. acc[2].selected = (start \cup first) \cup second
  BY <1>5, <1>6 DEF RoundFold
<1>8. QED
  BY <1>1, <1>3, <1>7 DEF start, first, two

\* Whatever the relations, the context of an interface is expanded to exactly the
\* symbols that are at most two relations away from its method or its controller
\* (exact_retrieval.py 15, 68-89).
THEOREM TwoHops == Spec => []ExpansionIsTwoHops
<1>1. CInv => ExpansionIsTwoHops
  <2> SUFFICES ASSUME CInv, NEW a \in ToSet(index.apis)
               PROVE  LET Adjacent(x, y) == \E r \in index.relations : {x, y} = {r.source, r.target}
                          names == {s.qname : s \in index.symbols}
                          seeds == a.controller \cup a.handler
                      IN Selected(a, index) =
                           {x \in names : \E s \in seeds : \/ x = s \/ Adjacent(x, s)
                                                           \/ \E y \in names : Adjacent(s, y) /\ Adjacent(y, x)}
    BY DEF ExpansionIsTwoHops
  <2> DEFINE Adjacent(x, y) == \E r \in index.relations : {x, y} = {r.source, r.target}
             names == {s.qname : s \in index.symbols}
             seeds == a.controller \cup a.handler
             first == Neighbours(index.relations, seeds) \ seeds
             second == Neighbours(index.relations, first) \ (seeds \cup first)
  <2>1. /\ source \in Sources /\ document \in Documents /\ ~NamesClash(source)
        /\ index.symbols = SymbolsOf(source) /\ index.relations = ResolvedRelations(source)
        /\ index.apis = Apis(source, document)
    BY NothingIndexed, WhatIsIndexed DEF CInv
  <2>2. PICK d \in ToSet(source) : \E m \in ToSet(Methods(d)) :
          a.controller = {TypeName(d)} /\ a.handler = {MethodName(d, m)}
    BY <2>1, ApisFacts
  <2>3. PICK m \in ToSet(Methods(d)) : a.controller = {TypeName(d)} /\ a.handler = {MethodName(d, m)}
    BY <2>2
  <2>4. seeds \subseteq names
    BY <2>1, <2>3, MethodFacts
  <2>5. Start(seeds, index.symbols) = seeds
    <3>1. \A s \in index.symbols : s.qname = TypeName(d) => s = TypeSymbol(d)
      BY <2>1, MethodFacts, OneName DEF SymbolsOf
    <3>2. \A s \in index.symbols : s.qname = MethodName(d, m) => s = MethodSymbol(d, m)
      BY <2>1, MethodFacts, OneName DEF SymbolsOf
    <3>3. TypeSymbol(d).parent = {} /\ MethodSymbol(d, m).parent = {TypeName(d)}
      BY <2>1, MethodFacts
    <3>4. \A s \in index.symbols : s.qname \in seeds => s.parent \subseteq seeds
      BY <2>3, <3>1, <3>2, <3>3
    <3>5. QED
      BY <3>4 DEF Start
  <2>6. \A r \in index.relations : r.source \in names /\ r.target \in names
    BY <2>1, EndFacts DEF NamesOf
  <2> HIDE DEF seeds, names
  <2>7. Selected(a, index) = (seeds \cup first) \cup second
    BY <2>5, ExpandFacts DEF Selected, seeds
  <2>8. \A S, x : x \in Neighbours(index.relations, S) <=> \E s \in S : Adjacent(x, s)
    BY DEF Neighbours
  <2>9. \A x, y : Adjacent(x, y) => Adjacent(y, x) /\ x \in names /\ y \in names
    BY <2>6
  <2> HIDE DEF Adjacent
  <2>10. \A x : x \in (seeds \cup first) \cup second <=>
              x \in names /\ \E s \in seeds : \/ x = s \/ Adjacent(x, s)
                                              \/ \E y \in names : Adjacent(s, y) /\ Adjacent(y, x)
    <3>1. \A x : x \in first <=> x \notin seeds /\ \E s \in seeds : Adjacent(x, s)
      BY <2>8
    <3>2. \A x : x \in second <=> x \notin seeds /\ x \notin first /\ \E y \in first : Adjacent(x, y)
      BY <2>8
    <3> HIDE DEF first, second
    <3>3. QED
      BY <2>4, <2>9, <3>1, <3>2
  <2>11. Selected(a, index) =
           {x \in names : \E s \in seeds : \/ x = s \/ Adjacent(x, s)
                                           \/ \E y \in names : Adjacent(s, y) /\ Adjacent(y, x)}
    <3> HIDE DEF first, second
    <3> QED BY <2>7, <2>10
  <2>12. QED
    BY <2>11 DEF Adjacent, seeds, names
<1>2. QED
  BY <1>1, IndexInvariant, PTL

LEMMA AppendedName ==
  ASSUME NEW p, NEW n, NEW x
  PROVE  Append(<<p, n>>, x) = <<p, n, x>>
<1> DEFINE s == <<p, n>>
           w == <<p, n, x>>
           S == {p, n, x}
<1>1. s \in Seq(S) /\ Len(s) = 2 /\ s[1] = p /\ s[2] = n
  OBVIOUS
<1>2. w \in Seq(S) /\ Len(w) = 3 /\ w[1] = p /\ w[2] = n /\ w[3] = x
  OBVIOUS
<1>3. x \in S
  OBVIOUS
<1> HIDE DEF s, w, S
<1>4. /\ Append(s, x) \in Seq(S) /\ Len(Append(s, x)) = Len(s) + 1
      /\ \A i \in 1..Len(s) : Append(s, x)[i] = s[i]
      /\ Append(s, x)[Len(s) + 1] = x
  <2>1. s \in Seq(S)
    BY <1>1
  <2>2. Append(s, x) \in Seq(S)
    BY <1>3, <2>1
  <2>3. IsSequence(s)
    BY <2>1 DEF IsSequence
  <2>4. QED
    BY <2>2, <2>3, AppendFacts
<1>5. /\ Len(Append(s, x)) = Len(w)
      /\ \A i \in 1..Len(w) : Append(s, x)[i] = w[i]
  BY <1>1, <1>2, <1>4
<1>6. Append(s, x) = w
  BY <1>2, <1>4, <1>5, SeqEqual
<1>7. QED
  BY <1>6 DEF s, w

\* The name of a field is that of its type with its own.
LEMMA FieldFacts ==
  ASSUME NEW src \in Sources, NEW s \in SymbolsOf(src), s.type = "field", NEW t \in s.parent
  PROVE  s.qname = Append(t, <<s.name>>)
<1>1. PICK d \in ToSet(src) : Declares(d, s)
  BY AllSymbolsFacts DEF SymbolsOf
<1>2. IsDeclaration(d)
  BY SourceFacts
<1>3. s.type # TypeSymbol(d).type
  <2>1. TypeSymbol(d).parent = {}
    BY DEF TypeSymbol, Symbol
  <2>2. TypeSymbol(d).type # "field"
    BY <1>2, <2>1, KindFacts, NameFacts
  <2>3. QED
    BY <2>2
<1>4. \A m : MethodSymbol(d, m).type = "method"
  BY DEF MethodSymbol, Symbol
<1>5. PICK f \in ToSet(Fields(d)) : s = FieldSymbol(d, f)
  BY <1>1, <1>3, <1>4 DEF Declares
<1>6. /\ s.qname = FieldName(d, f) /\ s.name = f.name /\ s.parent = {TypeName(d)}
  BY <1>5 DEF FieldSymbol, Symbol
<1>7. FieldName(d, f) = Append(TypeName(d), <<f.name>>)
  BY AppendedName DEF FieldName, TypeName
<1>8. QED
  BY <1>6, <1>7

\* What a template may fill is known of the interface.
LEMMA TemplateFacts ==
  ASSUME ScanOK, NEW template, NEW a, ValidTemplate(template, ToolApi(a, index)),
         NEW s \in DOMAIN template \ {"auth"}, NEW f \in template[s].fields
  PROVE  IF s = "body" THEN InBody(a, f) ELSE Given(a, f)
<1>1. /\ s \in DOMAIN Known \cup {"body"}
      /\ f \in IF s = "body" THEN BodyFields(a, index) ELSE ParameterGroup(a, Known[s])
  BY DEF ValidTemplate, ToolApi, Sections
<1>2. CASE s = "body"
  <2>1. PICK x \in index.symbols : /\ x.type = "field" /\ f = x.name
                                   /\ \E t \in x.parent : \E r \in index.relations :
                                        {r.source} = a.handler /\ r.type = "uses_dto" /\ r.target = t
    BY <1>1, <1>2 DEF BodyFields
  <2>2. PICK t \in x.parent, r \in index.relations :
          {r.source} = a.handler /\ r.type = "uses_dto" /\ r.target = t
    BY <2>1
  <2>3. x.qname = Append(t, <<x.name>>)
    <3>1. source \in Sources /\ index.symbols = SymbolsOf(source)
      BY <2>1, NothingIndexed, WhatIsIndexed
    <3>2. QED
      BY <2>1, <3>1, FieldFacts
  <2>4. QED
    BY <1>2, <2>1, <2>2, <2>3 DEF InBody, HasField
<1>3. CASE s # "body"
  <2>1. PICK b \in SourceBindings(a.source) \cup UNION {o.parameters : o \in a.openapi} : f = b[2]
    BY <1>1, <1>3 DEF ParameterGroup
  <2>2. CASE b \in SourceBindings(a.source)
    <3>1. PICK p \in ToSet(a.source) : b = Binding(p)
      BY <2>2 DEF SourceBindings
    <3>2. f \in {p.name, p.binding}
      BY <2>1, <3>1 DEF Binding
    <3>3. QED
      BY <1>3, <3>2 DEF Given
  <2>3. CASE \E o \in a.openapi : b \in o.parameters
    BY <1>3, <2>1, <2>3 DEF Given
  <2>4. QED
    BY <2>1, <2>2, <2>3
<1>4. QED
  BY <1>2, <1>3

\* Whatever the model answers, the cases that are stored fill only what the sources or
\* the document give, are marked if they rest on an inferred rule, and cite what the
\* run retrieved, in all categories (graph.py 216-217, 253-338, schemas.py 30-45).
THEOREM DraftsHaveGround == Spec => []DraftsAreGrounded
<1>1. CInv => DraftsAreGrounded
  <2> SUFFICES ASSUME CInv PROVE DraftsAreGrounded
    OBVIOUS
  <2>1. CASE node # "persist_drafts"
    <3>1. saved.rules = <<>> /\ saved.cases = <<>>
      BY <2>1 DEF CInv, RunOK
    <3>2. QED
      BY <3>1 DEF DraftsAreGrounded
  <2>2. CASE node = "persist_drafts"
    <3>1. /\ saved.rules = state.rules /\ saved.cases = state.cases /\ state.chunks = Retrieved
          /\ ValidRules(state.rules, state) /\ ValidScenarios(state.scenarios, state)
          /\ ValidCases(state.cases, state)
      BY <2>2 DEF CInv, RunOK
    <3>2. ASSUME NEW i \in DOMAIN saved.cases
          PROVE  /\ FillsKnown(saved.cases[i].template, Api(saved.cases[i].api))
                 /\ \A k \in saved.cases[i].rules : saved.rules[k + 1].confirmed \/ saved.cases[i].inferred
      <4> DEFINE c == saved.cases[i]
      <4>1. ValidCase(c, state)
        BY <3>1, <3>2 DEF ValidCases
      <4> HIDE DEF c
      <4>2. /\ c.api \in DOMAIN state.apis /\ ValidTemplate(c.template, state.apis[c.api])
            /\ (\E k \in c.rules : ~state.rules[k + 1].confirmed) => c.inferred
        BY <4>1 DEF ValidCase
      <4>3. ValidTemplate(c.template, ToolApi(Api(c.api), index))
        BY <4>2 DEF CInv, RunOK
      <4>4. \A k \in c.rules : saved.rules[k + 1].confirmed \/ c.inferred
        BY Zenon, <3>1, <4>2
      <4>5. FillsKnown(c.template, Api(c.api))
        BY <4>3, TemplateFacts DEF CInv, FillsKnown
      <4>6. QED
        BY <4>4, <4>5 DEF c
    <3>3. ASSUME NEW i \in DOMAIN saved.rules, saved.rules[i].confirmed,
                 NEW id \in saved.rules[i].evidence
          PROVE  \E r \in DOMAIN contexts : id \in {contexts[r][j].hit.chunk.id : j \in DOMAIN contexts[r]}
      <4>1. ValidRule(saved.rules[i], state)
        BY <3>1, <3>3 DEF ValidRules
      <4>2. id \in Retrieved
        BY <3>1, <3>3, <4>1 DEF ValidRule
      <4>3. QED
        BY <4>2 DEF Retrieved
    <3>4. \A r \in DOMAIN state.apis :
            Categories = {s.category : s \in {x \in ToSet(state.scenarios) : x.api = r}}
      BY <3>1 DEF ValidScenarios
    <3>5. QED
      BY <3>2, <3>3, <3>4 DEF DraftsAreGrounded
  <2>3. QED
    BY <2>1, <2>2
<1>2. QED
  BY <1>1, IndexInvariant, PTL

----------------------------------------------------------------------------
(* The context of an interface *)

\* In a strict order of a finite set the elements are told apart by how many are
\* before them, and each number up to the size occurs.
LEMMA Positions ==
  ASSUME NEW S, IsFiniteSet(S), NEW before,
         \A c \in S : before[c] \subseteq S \ {c},
         \A c, o \in S : c = o \/ c \in before[o] \/ o \in before[c],
         \A c, o \in S : c \in before[o] => before[c] \subseteq before[o]
  PROVE  /\ Cardinality(S) \in Nat
         /\ \A c, o \in S : c \in before[o] => Cardinality(before[c]) < Cardinality(before[o])
         /\ \A c, o \in S : Cardinality(before[c]) = Cardinality(before[o]) => c = o
         /\ \A i \in 1..Cardinality(S) : \E c \in S : Cardinality(before[c]) = i - 1
<1> DEFINE n == Cardinality(S)
           count == [c \in S |-> Cardinality(before[c])]
<1>1. n \in Nat
  BY FS_CardinalityType
<1>2. ASSUME NEW c \in S
      PROVE  IsFiniteSet(before[c]) /\ Cardinality(before[c]) \in 0..(n - 1)
  <2>1. IsFiniteSet(S \ {c}) /\ Cardinality(S \ {c}) = n - 1
    BY FS_RemoveElement
  <2>2. before[c] \in SUBSET (S \ {c})
    OBVIOUS
  <2>3. IsFiniteSet(before[c]) /\ Cardinality(before[c]) <= n - 1
    BY <2>1, <2>2, FS_Subset
  <2>4. Cardinality(before[c]) \in Nat
    BY <2>3, FS_CardinalityType
  <2>5. QED
    BY <1>1, <2>3, <2>4
<1>3. ASSUME NEW c \in S, NEW o \in S, c \in before[o]
      PROVE  Cardinality(before[c]) < Cardinality(before[o])
  <2>1. before[c] \in SUBSET before[o] /\ before[c] # before[o]
    BY <1>3
  <2>2. Cardinality(before[c]) <= Cardinality(before[o]) /\ Cardinality(before[c]) # Cardinality(before[o])
    BY <1>2, <2>1, FS_Subset
  <2>3. QED
    BY <1>1, <1>2, <2>2
<1>4. ASSUME NEW c \in S, NEW o \in S, Cardinality(before[c]) = Cardinality(before[o])
      PROVE  c = o
  <2>1. Cardinality(before[c]) \in Int
    BY <1>1, <1>2
  <2>2. ~(c \in before[o]) /\ ~(o \in before[c])
    BY <1>3, <1>4, <2>1
  <2>3. QED
    BY <2>2
<1>5. ASSUME NEW i \in 1..n
      PROVE  \E c \in S : Cardinality(before[c]) = i - 1
  <2>1. count \in Injection(S, 0..(n - 1))
    BY <1>2, <1>4 DEF Injection, IsInjective
  <2>2. IsFiniteSet(0..(n - 1)) /\ Cardinality(0..(n - 1)) = n
    <3>1. /\ IsFiniteSet(0..(n - 1))
          /\ Cardinality(0..(n - 1)) = IF 0 > n - 1 THEN 0 ELSE (n - 1) - 0 + 1
      <4> HIDE DEF n
      <4> QED BY <1>1, FS_Interval
    <3>2. QED
      BY <1>1, <3>1
  <2> HIDE DEF count
  <2>3. count \in Surjection(S, 0..(n - 1))
    BY <2>1, <2>2, FS_Injection
  <2>4. \A t \in 0..(n - 1) : \E c \in S : count[c] = t
    BY <2>3 DEF Surjection
  <2>5. i - 1 \in 0..(n - 1)
    BY <1>1
  <2>6. QED
    BY <2>4, <2>5 DEF count
<1>6. QED
  BY <1>1, <1>3, <1>4, <1>5

LEMMA FiniteChunks ==
  ASSUME NEW src \in Sources
  PROVE  IsFiniteSet(Chunks(src))
<1> DEFINE kept == {x \in ToSet(AllSymbols(src)) : ChunkType(x.type) # {}}
           ofSymbol == [s \in kept |-> ChunkOf(s)]
           ofSql == [i \in DOMAIN src |-> SqlChunks(src[i])]
<1>1. IsFiniteSet({ofSymbol[s] : s \in kept})
  <2>1. IsFiniteSet(ToSet(AllSymbols(src))) /\ kept \in SUBSET ToSet(AllSymbols(src))
    BY AllSymbolsFacts, FiniteElements
  <2>2. IsFiniteSet(kept)
    <3> HIDE DEF kept
    <3> QED BY <2>1, FS_Subset
  <2>3. DOMAIN ofSymbol = kept
    OBVIOUS
  <2> HIDE DEF kept, ofSymbol
  <2>4. QED
    BY <2>2, <2>3, FiniteImage
<1>2. IsFiniteSet({ofSql[i] : i \in DOMAIN src})
  <2>1. IsFiniteSet(DOMAIN src)
    <3>1. Len(src) \in Nat /\ DOMAIN src = 1..Len(src)
      BY SourceFacts, SequenceFacts
    <3>2. QED
      BY <3>1, FS_Interval
  <2>2. DOMAIN ofSql = DOMAIN src
    OBVIOUS
  <2> HIDE DEF ofSql
  <2>3. QED
    BY <2>1, <2>2, FiniteImage
<1>3. ASSUME NEW i \in DOMAIN src
      PROVE  IsFiniteSet(SqlChunks(src[i]))
  <2> DEFINE d == src[i]
             closed == {x \in ToSet(d.sql) : x.closed}
             chunk == [s \in closed |->
                         [id |-> <<d.package, d.name, <<"sql", <<>>, s.line>>>>, symbol |-> {}, type |-> "sql",
                          line |-> s.line, size |-> s.size]]
  <2>1. IsSequence(d.sql)
    BY SourceFacts, ElementsOf DEF IsDeclaration
  <2>2. IsFiniteSet(ToSet(d.sql)) /\ closed \in SUBSET ToSet(d.sql)
    BY <2>1, FiniteElements
  <2>3. IsFiniteSet(closed)
    <3> HIDE DEF closed
    <3> QED BY <2>2, FS_Subset
  <2>4. DOMAIN chunk = closed
    OBVIOUS
  <2>5. SqlChunks(d) = {chunk[s] : s \in closed}
    BY DEF SqlChunks
  <2> HIDE DEF chunk, closed
  <2>6. IsFiniteSet({chunk[s] : s \in closed})
    BY <2>3, <2>4, FiniteImage
  <2>7. QED
    BY <2>5, <2>6
<1>4. IsFiniteSet(UNION {ofSql[i] : i \in DOMAIN src})
  <2>1. \A T \in {ofSql[i] : i \in DOMAIN src} : IsFiniteSet(T)
    BY <1>3
  <2> HIDE DEF ofSql
  <2>2. QED
    BY <1>2, <2>1, FS_UNION
<1> DEFINE symbols == {ofSymbol[s] : s \in kept}
           sql == UNION {ofSql[i] : i \in DOMAIN src}
<1>5. Chunks(src) = symbols \cup sql
  BY DEF Chunks, ChunkOf
<1>6. IsFiniteSet(symbols) /\ IsFiniteSet(sql)
  BY <1>1, <1>4
<1> HIDE DEF symbols, sql
<1>7. IsFiniteSet(symbols \cup sql)
  BY <1>6, FS_Union
<1>8. QED
  BY <1>5, <1>7

\* The scores of hits: an exact one has more than any other, the method most.
LEMMA ScoreFacts ==
  /\ \A a, c : ExactScore(a, c) \in {85, 95, 100} /\ (ExactScore(a, c) = 100 <=> c.symbol = a.handler)
  /\ \A distance \in Nat : VectorScore(distance) \in 0..80
<1>1. ASSUME NEW a, NEW c
      PROVE  ExactScore(a, c) \in {85, 95, 100} /\ (ExactScore(a, c) = 100 <=> c.symbol = a.handler)
  BY DEF ExactScore
<1>2. ASSUME NEW distance \in Nat
      PROVE  VectorScore(distance) \in 0..80
  BY DEF VectorScore
<1>3. QED
  BY <1>1, <1>2

\* A ranking has each hit once, the exact ones first, and the method's chunk before
\* all others.
IsRanking(ranked, chunks, exact, handler) ==
  /\ IsSequence(ranked)
  /\ \A i \in DOMAIN ranked : ranked[i].chunk \in chunks
  /\ \A i, j \in DOMAIN ranked : /\ ranked[i].chunk = ranked[j].chunk => i = j
                                 /\ i < j /\ ranked[j].exact => ranked[i].exact
  /\ \A c \in exact : \E i \in DOMAIN ranked : ranked[i].chunk = c
  /\ \A h \in exact : h.symbol = handler /\ (\A o \in chunks : o.symbol = handler => o = h) => ranked[1].chunk = h

LEMMA RankedFacts ==
  ASSUME NEW src \in Sources, NEW indexed, indexed.chunks = Chunks(src), NEW a,
         NEW distance, \A id \in DOMAIN distance : distance[id] \in Nat, NEW limit
  PROVE  IsRanking(Ranked(a, indexed, distance, limit), Chunks(src), ExactChunks(a, indexed), a.handler)
<1> DEFINE exact == ExactChunks(a, indexed)
           near == Nearest(indexed.chunks, distance, limit)
           Exact(c) == IF c \in exact THEN ExactScore(a, c) ELSE 0
           Vector(c) == IF c \in near THEN VectorScore(distance[c.id]) ELSE 0
           Score(c) == IF Exact(c) >= Vector(c) THEN Exact(c) ELSE Vector(c)
           Earlier(o, c) == o.line < c.line \/ (o.line = c.line /\ Uuid(o) < Uuid(c))
           Before(c) == {o \in exact \cup near : Score(o) > Score(c) \/ (Score(o) = Score(c) /\ Earlier(o, c))}
           At(i) == CHOOSE c \in exact \cup near : Cardinality(Before(c)) = i - 1
           found == exact \cup near
           n == Cardinality(found)
           before == [c \in found |-> Before(c)]
           R == [i \in 1..n |-> [chunk |-> At(i), score |-> Score(At(i)), exact |-> At(i) \in exact]]
<1>1. Ranked(a, indexed, distance, limit) = R
  BY DEF Ranked
<1>2. exact \subseteq Chunks(src) /\ near \subseteq Chunks(src) /\ \A c \in near : c.id \in DOMAIN distance
  BY DEF ExactChunks, Nearest
<1> HIDE DEF exact, near
<1>3. IsFiniteSet(found)
  <2>1. IsFiniteSet(Chunks(src)) /\ found \in SUBSET Chunks(src)
    BY <1>2, FiniteChunks
  <2> HIDE DEF found
  <2>2. QED
    BY <2>1, FS_Subset
<1>4. ASSUME NEW c \in found
      PROVE  /\ Score(c) \in 0..100
             /\ c \in exact => Score(c) > 80 /\ (c.symbol = a.handler => Score(c) = 100)
             /\ c \notin exact => Score(c) <= 80
             /\ Score(c) = 100 => c.symbol = a.handler
  <2>1. Vector(c) \in 0..80
    <3>1. CASE c \in near
      <4>1. distance[c.id] \in Nat
        BY <1>2, <3>1
      <4>2. VectorScore(distance[c.id]) \in 0..80
        BY <4>1, ScoreFacts
      <4>3. QED
        BY <3>1, <4>2
    <3>2. CASE c \notin near
      BY <3>2
    <3>3. QED
      BY <3>1, <3>2
  <2>2. /\ c \in exact => Exact(c) \in {85, 95, 100} /\ (Exact(c) = 100 <=> c.symbol = a.handler)
        /\ c \notin exact => Exact(c) = 0
    BY ScoreFacts
  <2> HIDE DEF Exact, Vector
  <2>3. QED
    BY <2>1, <2>2
<1> HIDE DEF Exact, Vector, Score
<1>5. /\ \A c \in found : c.line \in Nat /\ Uuid(c) \in Nat
      /\ \A c, o \in found : Uuid(c) = Uuid(o) => c = o
  BY <1>2, ChunksAssumption
<1>6. /\ \A c \in found : before[c] \subseteq found \ {c}
      /\ \A c, o \in found : c = o \/ c \in before[o] \/ o \in before[c]
      /\ \A c, o \in found : c \in before[o] => before[c] \subseteq before[o]
  <2>1. \A c, o \in found : c \in before[o] <=>
          Score(c) > Score(o) \/ (Score(c) = Score(o) /\ (c.line < o.line \/ (c.line = o.line /\ Uuid(c) < Uuid(o))))
    OBVIOUS
  <2>2. \A c \in found : before[c] \subseteq found
    OBVIOUS
  <2>3. \A c \in found : Score(c) \in Nat
    BY <1>4
  <2> HIDE DEF before, found
  <2>4. \A c \in found : c \notin before[c]
    BY <1>5, <2>1, <2>3
  <2>5. ASSUME NEW c \in found, NEW o \in found
        PROVE  c = o \/ c \in before[o] \/ o \in before[c]
    BY <1>5, <2>1, <2>3
  <2>6. ASSUME NEW c \in found, NEW o \in found, c \in before[o], NEW x \in before[c]
        PROVE  x \in before[o]
    <3>1. x \in found
      BY <2>2
    <3>2. QED
      BY <1>5, <2>1, <2>3, <2>6, <3>1
  <2>7. QED
    BY <2>2, <2>4, <2>5, <2>6
<1>7. /\ n \in Nat
      /\ \A c, o \in found : c \in before[o] => Cardinality(before[c]) < Cardinality(before[o])
      /\ \A c, o \in found : Cardinality(before[c]) = Cardinality(before[o]) => c = o
      /\ \A i \in 1..n : \E c \in found : Cardinality(before[c]) = i - 1
  <2> HIDE DEF before, found
  <2> QED BY <1>3, <1>6, Positions
<1>8. \A i \in 1..n : At(i) \in found /\ Cardinality(before[At(i)]) = i - 1
  <2>1. ASSUME NEW i \in 1..n
        PROVE  At(i) \in found /\ Cardinality(before[At(i)]) = i - 1
    <3>1. \E c \in found : Cardinality(Before(c)) = i - 1
      BY <1>7
    <3>2. At(i) \in found /\ Cardinality(Before(At(i))) = i - 1
      <4> HIDE DEF Before
      <4> QED BY <3>1
    <3>3. QED
      <4> HIDE DEF Before, At
      <4> QED BY <3>2
  <2>2. QED
    BY <2>1
<1>9. /\ DOMAIN R = 1..n
      /\ \A i \in 1..n : R[i].chunk = At(i) /\ (R[i].exact <=> At(i) \in exact)
  <2> HIDE DEF At, n
  <2> QED BY Zenon
<1>10. IsSequence(R)
  <2>1. R \in [1..n -> {R[i] : i \in 1..n}]
    <3> HIDE DEF At
    <3> QED OBVIOUS
  <2>2. QED
    BY <1>7, <2>1, IsSequenceOf
<1>11. ASSUME NEW i \in 1..n, NEW j \in 1..n
       PROVE  /\ At(i) = At(j) => i = j
              /\ i < j /\ At(j) \in exact => At(i) \in exact
  <2>1. At(i) = At(j) => i = j
    <3> HIDE DEF At, before, n
    <3> QED BY <1>7, <1>8
  <2>2. ASSUME i < j, At(j) \in exact, At(i) \notin exact
        PROVE  FALSE
    <3>1. Score(At(j)) > Score(At(i))
      <4>1. At(i) \in found /\ At(j) \in found
        BY <1>8
      <4> HIDE DEF At, found
      <4>2. Score(At(j)) > 80 /\ Score(At(i)) <= 80
        BY <1>4, <2>2, <4>1
      <4>3. Score(At(j)) \in 0..100 /\ Score(At(i)) \in 0..100
        BY <1>4, <4>1
      <4>4. QED
        BY <4>2, <4>3
    <3>2. At(j) \in before[At(i)]
      <4>1. \A c, o \in found : Score(c) > Score(o) => c \in before[o]
        OBVIOUS
      <4> HIDE DEF At, before, found
      <4>2. QED
        BY <1>8, <3>1, <4>1
    <3>3. j - 1 < i - 1
      <4> HIDE DEF At, before, found
      <4> QED BY <1>7, <1>8, <3>2
    <3>4. QED
      BY <1>7, <2>2, <3>3
  <2>3. QED
    BY <2>1, <2>2
<1>12. ASSUME NEW c \in found
       PROVE  \E i \in 1..n : At(i) = c /\ Cardinality(before[c]) = i - 1
  <2>1. Cardinality(before[c]) \in Nat /\ Cardinality(before[c]) <= n - 1
    <3>1. before[c] \in SUBSET (found \ {c})
      BY <1>6
    <3>2. IsFiniteSet(found \ {c}) /\ Cardinality(found \ {c}) = n - 1
      <4> HIDE DEF found
      <4> QED BY <1>3, FS_RemoveElement
    <3> HIDE DEF before, found, n
    <3>3. IsFiniteSet(before[c]) /\ Cardinality(before[c]) <= n - 1
      BY <3>1, <3>2, FS_Subset
    <3>4. QED
      BY <3>3, FS_CardinalityType
  <2> DEFINE i == Cardinality(before[c]) + 1
  <2>2. i \in 1..n /\ Cardinality(before[c]) = i - 1
    <3> HIDE DEF before, n
    <3> QED BY <1>7, <2>1
  <2> HIDE DEF i, At, before
  <2>3. At(i) = c
    BY <1>7, <1>8, <2>2
  <2>4. QED
    BY <2>2, <2>3
<1>13. ASSUME NEW h \in exact, h.symbol = a.handler, \A o \in Chunks(src) : o.symbol = a.handler => o = h
       PROVE  1 \in 1..n /\ At(1) = h
  <2>1. h \in found
    OBVIOUS
  <2>2. ASSUME NEW o \in before[h]
        PROVE  FALSE
    <3>1. o \in found /\ Score(o) >= Score(h)
      BY <1>4, <2>1
    <3>2. Score(h) = 100
      BY <1>4, <1>13, <2>1
    <3>3. Score(o) = 100
      BY <1>4, <3>1, <3>2
    <3>4. o = h
      BY <1>2, <1>4, <1>13, <3>1, <3>3
    <3>5. QED
      BY <1>6, <2>1, <2>2, <3>4
  <2>3. before[h] = {} /\ Cardinality(before[h]) = 0
    BY <2>2, FS_EmptySet
  <2>4. PICK i \in 1..n : At(i) = h /\ Cardinality(before[h]) = i - 1
    <3> HIDE DEF At, before
    <3> QED BY <1>12, <2>1
  <2>5. i = 1
    BY <1>7, <2>3, <2>4
  <2>6. QED
    BY <2>4, <2>5
<1> HIDE DEF R, At, n
<1>14. QED
  <2>1. \A i \in DOMAIN R : At(i) \in Chunks(src)
    BY <1>2, <1>8, <1>9
  <2> HIDE DEF before, found
  <2>2. \A c \in exact : \E i \in DOMAIN R : R[i].chunk = c
    BY <1>9, <1>12 DEF found
  <2>3. IsRanking(R, Chunks(src), exact, a.handler)
    BY <1>9, <1>10, <1>11, <1>13, <2>1, <2>2 DEF IsRanking
  <2>4. QED
    BY <1>1, <2>3 DEF exact

SumFold(c, sum, hit) == sum + hit.size
Sums == INSTANCE FoldFacts WITH Op <- SumFold

TakeFold(limit, acc, hit) == Take(acc, hit, limit)
Takes == INSTANCE FoldFacts WITH Op <- TakeFold

\* The characters that a context uses.
Used(context) == Sums!FoldOf(0, 0, context)

LEMMA UsedFacts ==
  /\ Used(<<>>) = 0
  /\ \A t, hit : IsSequence(t) => Used(Append(t, hit)) = Used(t) + hit.size
<1>1. Used(<<>>) = 0
  <2> DEFINE s == <<>>
             none == 0
  <2>1. none \in Nat /\ DOMAIN s = 1..none
    OBVIOUS
  <2> HIDE DEF s, none
  <2>2. PICK acc : acc[0] = 0 /\ acc[none] = Sums!FoldOf(0, 0, s)
    BY <2>1, Sums!FoldUnfolds
  <2>3. QED
    BY <2>2 DEF Used, s, none
<1>2. ASSUME NEW t, NEW hit, IsSequence(t)
      PROVE  Used(Append(t, hit)) = Used(t) + hit.size
  <2> DEFINE u == Append(t, hit)
             n == Len(t)
  <2>1. /\ n \in Nat /\ DOMAIN t = 1..n /\ DOMAIN u = 1..(n + 1)
        /\ \A i \in 1..n : u[i] = t[i]
        /\ u[n + 1] = hit
    BY <1>2, SequenceFacts, AppendFacts
  <2> HIDE DEF u, n
  <2>2. Sums!FoldOf(0, 0, u) = SumFold(0, Sums!FoldOf(0, 0, t), u[n + 1])
    BY <2>1, Sums!FoldExtends
  <2>3. QED
    BY <2>1, <2>2 DEF Used, SumFold, u
<1>3. QED
  BY <1>1, <1>2

\* What has been taken of a ranking after its first k hits.
Taken(ranked, k, acc) ==
  /\ IsSequence(acc.taken) /\ Len(acc.taken) <= k /\ Len(acc.taken) <= Limits.results
  /\ acc.remaining \in Nat /\ Used(acc.taken) \in Nat
  /\ Used(acc.taken) + acc.remaining = Limits.characters
  /\ \A i \in DOMAIN acc.taken :
       /\ acc.taken[i].hit = ranked[i]
       /\ acc.taken[i].size = ranked[i].chunk.size \/ (i = Len(acc.taken) /\ acc.remaining = 0)
  /\ Len(acc.taken) = k \/ Len(acc.taken) = Limits.results \/ acc.remaining = 0

LEMMA TakeKeeps ==
  ASSUME NEW ranked, NEW k \in Nat \ {0}, NEW acc, Taken(ranked, k - 1, acc), ranked[k].chunk.size \in Nat
  PROVE  Taken(ranked, k, TakeFold(Limits.results, acc, ranked[k]))
<1> DEFINE t == acc.taken
           hit == ranked[k]
           size == IF hit.chunk.size > acc.remaining THEN acc.remaining ELSE hit.chunk.size
           entry == [hit |-> hit, size |-> size]
           next == [taken |-> Append(t, entry), remaining |-> acc.remaining - size]
           u == Append(t, entry)
<1>1. Limits.results \in Nat \ {0} /\ Limits.characters \in Nat \ {0}
  BY LimitsAssumption
<1>2. Len(t) \in Nat /\ DOMAIN t = 1..Len(t)
  BY SequenceFacts DEF Taken
<1>3. CASE Len(t) >= Limits.results \/ acc.remaining <= 0
  <2>1. TakeFold(Limits.results, acc, hit) = acc
    BY <1>3 DEF TakeFold, Take
  <2>2. Len(t) = Limits.results \/ acc.remaining = 0
    BY <1>1, <1>2, <1>3 DEF Taken
  <2>3. Taken(ranked, k, acc)
    BY <1>2, <2>2 DEF Taken
  <2>4. QED
    BY <2>1, <2>3
<1>4. CASE ~(Len(t) >= Limits.results \/ acc.remaining <= 0)
  <2>1. TakeFold(Limits.results, acc, hit) = next
    BY <1>4 DEF TakeFold, Take
  <2>2. Len(t) = k - 1
    BY <1>1, <1>2, <1>4 DEF Taken
  <2>3. /\ size \in Nat /\ acc.remaining - size \in Nat
        /\ size = hit.chunk.size \/ acc.remaining - size = 0
    BY DEF Taken
  <2>4. entry.hit = hit /\ entry.size = size
    OBVIOUS
  <2>5. next.taken = u /\ next.remaining = acc.remaining - size
    OBVIOUS
  <2>6. IsSequence(t) /\ \A i \in DOMAIN t : t[i].hit = ranked[i] /\ t[i].size = ranked[i].chunk.size
    BY <1>4 DEF Taken
  <2>7. Used(t) \in Nat /\ acc.remaining \in Nat /\ Used(t) + acc.remaining = Limits.characters
    BY DEF Taken
  <2> HIDE DEF t, hit, size, entry, next
  <2>8. /\ IsSequence(u) /\ Len(u) = k /\ DOMAIN u = 1..k /\ u[k] = entry
        /\ \A i \in 1..(k - 1) : u[i] = t[i]
    BY <1>2, <2>2, <2>6, AppendFacts
  <2>9. Used(u) = Used(t) + size
    BY <2>4, <2>6, UsedFacts
  <2> HIDE DEF u
  <2>10. k <= Limits.results
    BY <1>1, <1>2, <1>4, <2>2
  <2>11. ASSUME NEW i \in DOMAIN u
         PROVE  /\ u[i].hit = ranked[i]
                /\ u[i].size = ranked[i].chunk.size \/ (i = Len(u) /\ next.remaining = 0)
    <3>1. CASE i = k
      BY <2>3, <2>4, <2>5, <2>8, <3>1 DEF hit
    <3>2. CASE i # k
      <4>1. i \in 1..(k - 1) /\ i \in DOMAIN t
        BY <1>2, <2>2, <2>8, <3>2
      <4>2. QED
        BY <2>6, <2>8, <4>1
    <3>3. QED
      BY <3>1, <3>2
  <2>12. /\ next.remaining \in Nat /\ Used(u) \in Nat
         /\ Used(u) + next.remaining = Limits.characters
    BY <2>3, <2>5, <2>7, <2>9
  <2>13. Taken(ranked, k, next)
    BY <2>5, <2>8, <2>10, <2>11, <2>12 DEF Taken
  <2>14. QED
    BY <2>1, <2>13 DEF hit
<1>5. QED
  BY <1>3, <1>4

\* The context of an interface is a beginning of its ranking, cut where a limit is
\* reached.
LEMMA ContextFacts ==
  ASSUME NEW src \in Sources, NEW indexed, indexed.chunks = Chunks(src), NEW a,
         NEW distance, \A id \in DOMAIN distance : distance[id] \in Nat
  PROVE  LET ranked == Ranked(a, indexed, distance, Limits.candidates)
         IN  \E remaining : Taken(ranked, Len(ranked),
               [taken |-> Context(a, indexed, distance, Limits), remaining |-> remaining])
<1> DEFINE ranked == Ranked(a, indexed, distance, Limits.candidates)
           base == [taken |-> <<>>, remaining |-> Limits.characters]
           end == Takes!FoldOf(Limits.results, base, ranked)
           n == Len(ranked)
<1>1. Context(a, indexed, distance, Limits) = end.taken
  BY DEF Context, TakeFold, Takes!FoldOf, Takes!Greatest, FoldLeft, MapThenFoldSet, Max
<1>2. /\ n \in Nat /\ DOMAIN ranked = 1..n
      /\ \A i \in 1..n : ranked[i].chunk.size \in Nat
  <2>1. IsRanking(ranked, Chunks(src), ExactChunks(a, indexed), a.handler)
    BY RankedFacts
  <2> HIDE DEF ranked
  <2>2. n \in Nat /\ DOMAIN ranked = 1..n
    BY <2>1, SequenceFacts DEF IsRanking
  <2>3. QED
    BY <2>1, <2>2, ChunksAssumption DEF IsRanking
<1>3. Taken(ranked, 0, base)
  <2>1. /\ Limits.characters \in Nat /\ Limits.results \in Nat
    BY LimitsAssumption
  <2>2. base.taken = <<>> /\ base.remaining = Limits.characters
    OBVIOUS
  <2>3. IsSequence(<<>>) /\ Len(<<>>) = 0 /\ DOMAIN <<>> = {}
    BY DEF IsSequence
  <2> HIDE DEF base, ranked
  <2>4. QED
    BY <2>1, <2>2, <2>3, UsedFacts DEF Taken
<1> HIDE DEF ranked, base, n
<1>4. PICK acc : /\ acc[0] = base
                 /\ \A i \in 1..n : acc[i] = TakeFold(Limits.results, acc[i - 1], ranked[i])
                 /\ acc[n] = end
  <2> DEFINE limit == Limits.results
  <2>1. end = Takes!FoldOf(limit, base, ranked)
    OBVIOUS
  <2> HIDE DEF limit, end
  <2>2. \E acc : /\ acc[0] = base
                 /\ \A i \in 1..n : acc[i] = TakeFold(limit, acc[i - 1], ranked[i])
                 /\ acc[n] = Takes!FoldOf(limit, base, ranked)
    BY <1>2, Takes!FoldUnfolds
  <2>3. QED
    BY <2>1, <2>2 DEF limit
<1> HIDE DEF end
<1> DEFINE S == {i \in 0..n : Taken(ranked, i, acc[i])}
<1>5. 0 \in S
  BY <1>2, <1>3, <1>4
<1>6. ASSUME NEW i \in 1..n, i - 1 \in S
      PROVE  i \in S
  <2>1. Taken(ranked, i - 1, acc[i - 1]) /\ ranked[i].chunk.size \in Nat /\ i \in Nat \ {0} /\ i \in 0..n
    BY <1>2, <1>6
  <2>2. Taken(ranked, i, TakeFold(Limits.results, acc[i - 1], ranked[i]))
    BY <2>1, TakeKeeps
  <2>3. QED
    BY <1>4, <2>1, <2>2
<1>7. Taken(ranked, n, end)
  <2> HIDE DEF S
  <2>1. 0..n \subseteq S
    BY <1>2, <1>5, <1>6, Takes!BoundedInduction
  <2>2. n \in S
    BY <1>2, <2>1
  <2>3. QED
    BY <1>4, <2>2 DEF S
<1>8. Taken(ranked, n, [taken |-> end.taken, remaining |-> end.remaining])
  BY <1>7 DEF Taken
<1>9. QED
  BY <1>1, <1>8 DEF ranked, n

\* Each context was computed from the index, with some set of distances.
ContextsOK ==
  \A route \in DOMAIN contexts : \E distance :
    /\ \A id \in DOMAIN distance : distance[id] \in Nat
    /\ contexts[route] = Context(Api(route), index, distance, Limits)

LEMMA ContextsComputed == Spec => [](CInv /\ ContextsOK)
<1>1. Init => ContextsOK
  BY DEF Init, ContextsOK
<1>2. ASSUME CInv, ContextsOK, [Next]_vars
      PROVE  ContextsOK'
  <2>1. CASE UNCHANGED <<index, contexts>>
    BY <1>2, <2>1 DEF ContextsOK, Api
  <2>2. CASE Publish
    <3>1. scan = "running" /\ contexts' = contexts
      BY <2>2 DEF Publish
    <3>2. DOMAIN contexts = {}
      BY <1>2, <3>1 DEF CInv, RunOK
    <3>3. QED
      BY <3>1, <3>2 DEF ContextsOK
  <2>3. CASE \E route \in DOMAIN state.apis, available \in BOOLEAN : RetrieveContext(route, available)
    <3>1. PICK route \in DOMAIN state.apis : \E available \in BOOLEAN : RetrieveContext(route, available)
      BY <2>3
    <3>2. PICK available \in BOOLEAN : RetrieveContext(route, available)
      BY <3>1
    <3> DEFINE distance == [id \in IF available THEN embedded ELSE {} |->
                              Distance(CHOOSE c \in index.chunks : c.id = id)]
    <3>3. /\ index' = index /\ DOMAIN contexts' = DOMAIN contexts \cup {route}
          /\ contexts'[route] = Context(Api(route), index, distance, Limits)
          /\ \A r \in DOMAIN contexts \ {route} : contexts'[r] = contexts[r]
      BY <3>2 DEF RetrieveContext, scanned
    <3>4. \A id \in DOMAIN distance : distance[id] \in Nat
      <4>1. index.chunks = {} \/ (source \in Sources /\ index.chunks = Chunks(source))
        BY <1>2, NothingIndexed, WhatIsIndexed DEF CInv
      <4>2. ASSUME NEW id \in embedded
            PROVE  Distance(CHOOSE c \in index.chunks : c.id = id) \in Nat
        <5>1. \E c \in index.chunks : c.id = id
          BY <1>2 DEF CInv, ScanOK
        <5>2. (CHOOSE c \in index.chunks : c.id = id) \in index.chunks
          BY <5>1
        <5>3. QED
          BY <4>1, <5>2, ChunksAssumption
      <4>3. QED
        BY <4>2
    <3> HIDE DEF distance
    <3>5. ASSUME NEW r \in DOMAIN contexts'
          PROVE  \E d : /\ \A id \in DOMAIN d : d[id] \in Nat
                        /\ contexts'[r] = Context(Api(r), index, d, Limits)
      <4>1. CASE r = route
        BY <3>3, <3>4, <4>1
      <4>2. CASE r # route
        BY <1>2, <3>3, <4>2 DEF ContextsOK
      <4>3. QED
        BY <4>1, <4>2
    <3>6. QED
      BY <3>3, <3>5 DEF ContextsOK, Api
  <2>4. QED
    BY <1>2, <2>1, <2>2, <2>3
       DEF Next, vars, scanned, PublicationRaises, Embed, LoadApis, ContextsRetrieved, AnalyzeRules,
           GenerateScenarios, GenerateCases, ModelFails, PersistDrafts
<1>3. QED
  BY <1>1, <1>2, InitC, NextC, PTL DEF Spec

\* Of an interface that is indexed: its method has one chunk, which is an exact hit.
LEMMA MethodChunk ==
  ASSUME CInv, NEW a \in ToSet(index.apis)
  PROVE  \E h \in ExactChunks(a, index) :
           h.symbol = a.handler /\ \A o \in Chunks(source) : o.symbol = a.handler => o = h
<1>1. /\ source \in Sources /\ document \in Documents /\ ~NamesClash(source)
      /\ index.symbols = SymbolsOf(source) /\ index.apis = Apis(source, document)
      /\ index.chunks = Chunks(source)
  BY NothingIndexed, WhatIsIndexed DEF CInv
<1>2. PICK d \in ToSet(source) : \E m \in ToSet(Methods(d)) :
        a.controller = {TypeName(d)} /\ a.handler = {MethodName(d, m)}
  BY <1>1, ApisFacts
<1>3. PICK m \in ToSet(Methods(d)) : a.controller = {TypeName(d)} /\ a.handler = {MethodName(d, m)}
  BY <1>2
<1> DEFINE s == MethodSymbol(d, m)
           h == ChunkOf(s)
<1>4. s \in SymbolsOf(source) /\ s.qname = MethodName(d, m) /\ s.type = "method"
  BY <1>1, MethodFacts
<1> HIDE DEF s
<1>5. h \in Chunks(source) /\ h.symbol = a.handler
  <2>1. h.symbol = {s.qname}
    BY DEF ChunkOf
  <2> HIDE DEF h
  <2>2. h \in Chunks(source)
    BY <1>1, <1>4, ChunkFacts DEF h
  <2>3. QED
    BY <1>3, <1>4, <2>1, <2>2
<1>6. ASSUME NEW o \in Chunks(source), o.symbol = a.handler
      PROVE  o = h
  <2>1. CASE \E t \in SymbolsOf(source) : t.type # "field" /\ o = ChunkOf(t)
    <3>1. PICK t \in SymbolsOf(source) : o = ChunkOf(t)
      BY <2>1
    <3>2. o.symbol = {t.qname}
      BY <3>1 DEF ChunkOf
    <3>3. t.qname = s.qname
      BY <1>3, <1>4, <1>6, <3>2
    <3>4. t = s
      BY <1>1, <1>4, <3>3, OneName DEF SymbolsOf
    <3>5. QED
      BY <3>1, <3>4
  <2>2. CASE \E i \in DOMAIN source : o \in SqlChunks(source[i])
    BY <1>3, <1>6, <2>2, SqlFacts
  <2>3. QED
    BY <1>1, <2>1, <2>2, ChunkFacts
<1>7. h \in ExactChunks(a, index)
  <2> DEFINE seeds == a.controller \cup a.handler
  <2>1. seeds \subseteq Selected(a, index)
    <3>1. Start(seeds, index.symbols) \subseteq Selected(a, index)
      BY ExpandFacts DEF Selected
    <3>2. seeds \subseteq Start(seeds, index.symbols)
      BY DEF Start
    <3> HIDE DEF seeds
    <3>3. QED
      BY <3>1, <3>2
  <2> HIDE DEF h
  <2>2. h.symbol # {} /\ h.symbol \subseteq Selected(a, index)
    BY <1>3, <1>5, <2>1
  <2>3. QED
    BY <1>1, <1>5, <2>2 DEF ExactChunks
<1> HIDE DEF h
<1>8. QED
  BY <1>5, <1>6, <1>7

\* Whatever vectors there are while a run retrieves: a context keeps its limits, holds
\* no chunk twice, starts with the method of the interface, has the exact hits before
\* the others, cuts its last chunk only, and leaves an exact hit out only when a limit
\* is reached (hybrid_retrieval.py 31, 40, 98, 131, 153).
THEOREM ContextsRanked == Spec => []ContextIsRanked
<1> SUFFICES CInv /\ ContextsOK => ContextIsRanked
  BY ContextsComputed, PTL
<1> SUFFICES ASSUME CInv, ContextsOK, NEW route \in DOMAIN contexts
             PROVE  LET context == contexts[route]
                        api == Api(route)
                        used == FoldLeft(LAMBDA sum, hit : sum + hit.size, 0, context)
                        taken == {context[i].hit.chunk : i \in DOMAIN context}
                    IN /\ Len(context) <= Limits.results /\ used <= Limits.characters
                       /\ Cardinality(taken) = Len(context)
                       /\ context[1].hit.chunk.symbol = api.handler
                       /\ \A i, j \in DOMAIN context : i < j /\ context[j].hit.exact => context[i].hit.exact
                       /\ \A i \in DOMAIN context : context[i].size = context[i].hit.chunk.size \/ i = Len(context)
                       /\ ExactChunks(api, index) \subseteq taken \/ Len(context) = Limits.results \/ used = Limits.characters
  BY DEF ContextIsRanked
<1> DEFINE context == contexts[route]
           a == Api(route)
           used == FoldLeft(LAMBDA sum, hit : sum + hit.size, 0, context)
           taken == {context[i].hit.chunk : i \in DOMAIN context}
<1>1. used = Used(context)
  BY DEF Used, SumFold, Sums!FoldOf, Sums!Greatest, FoldLeft, MapThenFoldSet, Max
<1>2. a \in ToSet(index.apis)
  <2>1. route \in RoutesOf(index.apis)
    BY DEF CInv, RunOK
  <2>2. \E x \in ToSet(index.apis) : Key(x) = route
    BY <2>1, ElementsOf DEF RoutesOf
  <2>3. QED
    BY <2>2 DEF Api
<1>3. source \in Sources /\ index.chunks = Chunks(source)
  BY <1>2, NothingIndexed, WhatIsIndexed DEF CInv
<1>4. PICK distance : /\ \A id \in DOMAIN distance : distance[id] \in Nat
                      /\ context = Context(a, index, distance, Limits)
  BY DEF ContextsOK
<1> HIDE DEF a
<1> DEFINE ranked == Ranked(a, index, distance, Limits.candidates)
           n == Len(ranked)
<1>5. IsRanking(ranked, Chunks(source), ExactChunks(a, index), a.handler)
  BY <1>3, <1>4, RankedFacts
<1>6. PICK remaining : Taken(ranked, n, [taken |-> context, remaining |-> remaining])
  BY <1>3, <1>4, ContextFacts
<1> HIDE DEF ranked, n, context, used
<1>7. n \in Nat /\ DOMAIN ranked = 1..n
  BY <1>5, SequenceFacts DEF n, IsRanking
<1>8. /\ IsSequence(context) /\ Len(context) <= n /\ Len(context) <= Limits.results
      /\ Used(context) \in Nat /\ Used(context) <= Limits.characters
      /\ \A i \in DOMAIN context :
           /\ context[i].hit = ranked[i]
           /\ context[i].size = ranked[i].chunk.size \/ i = Len(context)
      /\ Len(context) = n \/ Len(context) = Limits.results \/ Used(context) = Limits.characters
  <2> DEFINE acc == [taken |-> context, remaining |-> remaining]
  <2>1. acc.taken = context /\ Taken(ranked, n, acc)
    BY <1>6
  <2> HIDE DEF acc
  <2>2. Limits.characters \in Nat
    BY LimitsAssumption
  <2>3. acc.remaining = 0 => Used(context) = Limits.characters
    BY <2>1, <2>2 DEF Taken
  <2>4. Used(context) <= Limits.characters
    BY <2>1, <2>2 DEF Taken
  <2>5. QED
    BY <2>1, <2>3, <2>4 DEF Taken
<1>9. Len(context) \in Nat /\ DOMAIN context = 1..Len(context) /\ DOMAIN context \subseteq DOMAIN ranked
  <2>0. IsSequence(context) /\ Len(context) <= n
    BY <1>8
  <2>1. Len(context) \in Nat /\ DOMAIN context = 1..Len(context)
    BY <2>0, SequenceFacts
  <2>2. \A i \in 1..Len(context) : i \in 1..n
    BY <1>7, <2>0, <2>1
  <2>3. QED
    BY <1>7, <2>1, <2>2
<1>10. Cardinality(taken) = Len(context)
  <2> DEFINE f == [i \in 1..Len(context) |-> context[i].hit.chunk]
  <2>1. \A i, j \in 1..Len(context) : f[i] = f[j] => i = j
    BY <1>5, <1>8, <1>9 DEF IsRanking
  <2>2. f \in Bijection(1..Len(context), taken)
    <3>1. f \in [1..Len(context) -> taken]
      BY <1>9
    <3>2. \A t \in taken : \E i \in 1..Len(context) : f[i] = t
      BY <1>9
    <3> HIDE DEF f, taken
    <3>3. QED
      BY <2>1, <3>1, <3>2 DEF Bijection, Injection, Surjection, IsInjective
  <2> HIDE DEF f, taken
  <2>3. IsFiniteSet(1..Len(context)) /\ Cardinality(1..Len(context)) = Len(context)
    <3>1. /\ IsFiniteSet(1..Len(context))
          /\ Cardinality(1..Len(context)) = IF 1 > Len(context) THEN 0 ELSE Len(context) - 1 + 1
      BY <1>9, FS_Interval
    <3>2. QED
      BY <1>9, <3>1
  <2>4. ExistsBijection(1..Len(context), taken)
    BY <2>2 DEF ExistsBijection
  <2>5. QED
    BY <2>3, <2>4, FS_Bijection
<1>11. context[1].hit.chunk.symbol = a.handler
  <2>1. PICK h \in ExactChunks(a, index) :
          h.symbol = a.handler /\ \A o \in Chunks(source) : o.symbol = a.handler => o = h
    BY <1>2, MethodChunk
  <2>2. ranked[1].chunk = h
    BY <1>5, <2>1 DEF IsRanking
  <2>3. n >= 1
    BY <1>5, <1>7, <2>1 DEF IsRanking
  <2>4. Len(context) # 0
    <3>1. ASSUME Len(context) = 0
          PROVE  Used(context) = 0
      <4>1. context = <<>>
        BY <1>8, <3>1, EmptySeq DEF IsSequence
      <4>2. QED
        BY <4>1, UsedFacts
    <3>2. Limits.results \in Nat \ {0} /\ Limits.characters \in Nat \ {0}
      BY LimitsAssumption
    <3>3. QED
      BY <1>7, <1>8, <2>3, <3>1, <3>2
  <2>5. 1 \in DOMAIN context
    BY <1>9, <2>4
  <2>6. QED
    BY <1>8, <2>1, <2>2, <2>5
<1>12. \A i, j \in DOMAIN context : i < j /\ context[j].hit.exact => context[i].hit.exact
  BY <1>5, <1>8, <1>9 DEF IsRanking
<1>13. \A i \in DOMAIN context : context[i].size = context[i].hit.chunk.size \/ i = Len(context)
  BY <1>8
<1>14. ASSUME Len(context) = n, NEW c \in ExactChunks(a, index)
       PROVE  c \in taken
  <2>1. PICK i \in DOMAIN ranked : ranked[i].chunk = c
    BY <1>5 DEF IsRanking
  <2>2. i \in DOMAIN context
    BY <1>7, <1>9, <1>14, <2>1
  <2>3. QED
    BY <1>8, <2>1, <2>2
<1>15. ExactChunks(a, index) \subseteq taken \/ Len(context) = Limits.results \/ used = Limits.characters
  BY <1>1, <1>8, <1>14
<1> HIDE DEF taken
<1>16. /\ Len(context) <= Limits.results /\ used <= Limits.characters
       /\ Cardinality(taken) = Len(context)
       /\ context[1].hit.chunk.symbol = a.handler
       /\ \A i, j \in DOMAIN context : i < j /\ context[j].hit.exact => context[i].hit.exact
       /\ \A i \in DOMAIN context : context[i].size = context[i].hit.chunk.size \/ i = Len(context)
       /\ ExactChunks(a, index) \subseteq taken \/ Len(context) = Limits.results \/ used = Limits.characters
  BY <1>1, <1>8, <1>10, <1>11, <1>12, <1>13, <1>15
<1>17. QED
  BY <1>16 DEF a, context, used, taken

=============================================================================
