--------------------------- MODULE ProjectsProofs ---------------------------
(***************************************************************************)
(* Theorems about Projects, for any services and any number of requests:   *)
(* the depth-first search finds every cycle; a release starts each service *)
(* after what it depends on; requests that do not overlap keep the         *)
(* document sound; a save that reports success is stored; a deleted        *)
(* project leaves no container but those Docker refused to remove.         *)
(***************************************************************************)
EXTENDS MCProject, FiniteSetTheorems, WellFoundedInduction, TLAPS

-----------------------------------------------------------------------------
(***************************************************************************)
(* Folds over finite sets.                                                 *)
(***************************************************************************)
\* Induction on the numbers.
LEMMA AllNumbers ==
  ASSUME NEW A, 0 \in A, \A n0 \in Nat : n0 \in A => n0 + 1 \in A
  PROVE  Nat \subseteq A
<1> DEFINE Less == OpToRel(<, Nat)
           T == Nat \ A
<1>1. IsWellFoundedOn(Less, Nat)  BY NatLessThanWellFounded
<1>2. SUFFICES ASSUME T # {} PROVE FALSE
  OBVIOUS
<1>3. PICK x \in T : \A y \in T : <<y, x>> \notin Less  BY <1>1, <1>2, WFMin
<1>4. x \in Nat /\ x # 0  BY <1>3
<1>5. x - 1 \in Nat /\ x - 1 + 1 = x  BY <1>4
<1>6. <<x - 1, x>> \in Less
  BY <1>4, <1>5 DEF OpToRel
<1>7. x - 1 \in A  BY <1>3, <1>5, <1>6
<1> QED BY <1>3, <1>5, <1>7

Elem(T) == CHOOSE x \in T : TRUE

\* What the fold of a set goes through, f being what it makes of the smaller sets.
IterAt(V, b, f, T) == IF T = {} THEN b ELSE V[<<Elem(T), f[T \ {Elem(T)}]>>]
Iter(V, b, S, f) == [T \in SUBSET S |-> IterAt(V, b, f, T)]
Fold(V, b, S) == P!FoldSet(LAMBDA d, acc : V[<<d, acc>>], b, S)

\* The fold of the community modules as a function of the subsets.
LEMMA FoldDefined ==
  ASSUME NEW V, NEW b, NEW S
  PROVE  Fold(V, b, S) = (CHOOSE f : f = Iter(V, b, S, f))[S]
BY DEF Fold, P!FoldSet, P!MapThenFoldSet, Iter, IterAt, Elem

\* The element chosen from a set is one of its elements.
LEMMA ElemIn ==
  ASSUME NEW T, T # {} PROVE Elem(T) \in T
BY DEF Elem

\* The iteration over the subsets of a finite set exists, by induction on their size.
LEMMA IterExists ==
  ASSUME NEW V, NEW b, NEW S, IsFiniteSet(S)
  PROVE  \E f : f = Iter(V, b, S, f)
<1> DEFINE Upto(k, f) == /\ f = [T \in SUBSET S |-> f[T]]
                         /\ \A T \in SUBSET S : Cardinality(T) <= k => f[T] = IterAt(V, b, f, T)
           A == {k \in Nat : \E f : Upto(k, f)}
<1>0. \A T \in SUBSET S : IsFiniteSet(T) /\ Cardinality(T) \in Nat
                          /\ Cardinality(T) <= Cardinality(S)
  BY FS_Subset, FS_CardinalityType
<1>1. 0 \in A
  <2>1. PICK f : f = [T \in SUBSET S |-> b]  OBVIOUS
  <2>2. ASSUME NEW T \in SUBSET S, Cardinality(T) <= 0 PROVE f[T] = IterAt(V, b, f, T)
    <3>1. T = {}  BY <1>0, <2>2, FS_EmptySet
    <3> QED BY <2>1, <3>1 DEF IterAt
  <2>3. f = [T \in SUBSET S |-> f[T]]  BY <2>1
  <2> QED BY <2>2, <2>3
<1>2. ASSUME NEW k \in Nat, k \in A PROVE k + 1 \in A
  <2>1. PICK f : Upto(k, f)  BY <1>2
  <2>2. PICK g : g = Iter(V, b, S, f)  OBVIOUS
  <2>3. \A T \in SUBSET S : g[T] = IterAt(V, b, f, T)  BY <2>2 DEF Iter
  <2>4. ASSUME NEW T \in SUBSET S, Cardinality(T) <= k + 1 PROVE g[T] = IterAt(V, b, g, T)
    <3>1. CASE T = {}  BY <2>3, <3>1 DEF IterAt
    <3>2. CASE T # {}
      <4>1. PICK e \in T : e = Elem(T)  BY <3>2, ElemIn
      <4>2. PICK U \in SUBSET S : U = T \ {e}  OBVIOUS
      <4>3. Cardinality(U) = Cardinality(T) - 1  BY <1>0, <4>1, <4>2, FS_RemoveElement
      <4>4. Cardinality(U) <= k  BY <1>0, <2>4, <4>3
      <4>5. f[U] = IterAt(V, b, f, U)  BY <2>1, <4>4
      <4>6. g[U] = f[U]  BY <2>3, <4>5
      <4>7. IterAt(V, b, g, T) = V[<<e, g[U]>>]  BY <3>2, <4>1, <4>2 DEF IterAt
      <4>8. IterAt(V, b, f, T) = V[<<e, f[U]>>]  BY <3>2, <4>1, <4>2 DEF IterAt
      <4> QED BY <2>3, <4>6, <4>7, <4>8
    <3> QED BY <3>1, <3>2
  <2>5. g = [T \in SUBSET S |-> g[T]]  BY <2>2 DEF Iter
  <2>6. k + 1 \in Nat  OBVIOUS
  <2>7. \E h : Upto(k + 1, h)
    <3>1. Upto(k + 1, g)  BY <2>4, <2>5
    <3> HIDE DEF Upto
    <3> QED BY <3>1
  <2> HIDE DEF Upto
  <2> QED BY <2>6, <2>7
<1>3. Nat \subseteq A
  <2> HIDE DEF A
  <2> QED BY <1>1, <1>2, AllNumbers
<1>4. Cardinality(S) \in A  BY <1>0, <1>3
<1>5. PICK f : Upto(Cardinality(S), f)  BY <1>4
<1>6. \A T \in SUBSET S : f[T] = IterAt(V, b, f, T)  BY <1>0, <1>5
<1>7. f = Iter(V, b, S, f)
  <2>1. f = [T \in SUBSET S |-> f[T]]  BY <1>5
  <2> HIDE DEF Upto
  <2> QED BY <1>6, <2>1 DEF Iter
<1> QED BY <1>7

\* f is what the fold makes of the parts of its set it goes through.
Folding(V, b, S, f) ==
  /\ Fold(V, b, S) = f[S]
  /\ \A T \in SUBSET S : f[T] = IterAt(V, b, f, T)

\* The fold is that iteration.
LEMMA FoldIter ==
  ASSUME NEW V, NEW b, NEW S, IsFiniteSet(S)
  PROVE  \E f : Folding(V, b, S, f)
<1>1. PICK f : f = (CHOOSE g : g = Iter(V, b, S, g))  OBVIOUS
<1>2. f = Iter(V, b, S, f)  BY <1>1, IterExists
<1>3. \A T \in SUBSET S : f[T] = IterAt(V, b, f, T)  BY <1>2 DEF Iter
<1>4. Fold(V, b, S) = f[S]  BY <1>1, FoldDefined
<1>5. Folding(V, b, S, f)  BY <1>3, <1>4 DEF Folding
<1> QED BY <1>5

\* G holds pairs of a set and what a fold has made of it.
Folds(V, b, S, G) ==
  /\ <<{}, b>> \in G
  /\ \A T \in SUBSET S : \A x \in S \ T : \A v :
       <<T, v>> \in G => <<T \cup {x}, V[<<x, v>>]>> \in G

\* A fold stays among the pairs that its steps do not leave, and one whose steps are the
\* same there comes to the same.
LEMMA FoldRule ==
  ASSUME NEW V, NEW W, NEW b, NEW S, IsFiniteSet(S), NEW G, Folds(V, b, S, G),
         \A T \in SUBSET S : \A x \in S \ T : \A v : <<T, v>> \in G => W[<<x, v>>] = V[<<x, v>>]
  PROVE  /\ <<S, Fold(V, b, S)>> \in G
         /\ Fold(W, b, S) = Fold(V, b, S)
<1>1. PICK f : Folding(V, b, S, f)  BY FoldIter
<1>2. PICK g : Folding(W, b, S, g)  BY FoldIter
<1> DEFINE A == {k \in Nat : \A T \in SUBSET S : Cardinality(T) <= k =>
                               <<T, f[T]>> \in G /\ g[T] = f[T]}
<1>3. \A T \in SUBSET S : IsFiniteSet(T) /\ Cardinality(T) \in Nat
                          /\ Cardinality(T) <= Cardinality(S)
  BY FS_Subset, FS_CardinalityType
<1>4. <<{}, f[{}]>> \in G /\ g[{}] = f[{}]
  <2>1. {} \in SUBSET S  OBVIOUS
  <2>2. f[{}] = b /\ g[{}] = b  BY <1>1, <1>2, <2>1 DEF IterAt, Folding
  <2> QED BY <2>2 DEF Folds
<1>5. 0 \in A
  <2>1. ASSUME NEW T \in SUBSET S, Cardinality(T) <= 0
        PROVE  <<T, f[T]>> \in G /\ g[T] = f[T]
    <3>1. T = {}  BY <1>3, <2>1, FS_EmptySet
    <3> QED BY <1>4, <3>1
  <2> QED BY <2>1
<1>6. ASSUME NEW k \in Nat, k \in A PROVE k + 1 \in A
  <2>1. ASSUME NEW T \in SUBSET S, Cardinality(T) <= k + 1
        PROVE  <<T, f[T]>> \in G /\ g[T] = f[T]
    <3>1. CASE T = {}  BY <1>4, <3>1
    <3>2. CASE T # {}
      <4>1. PICK e \in T : e = Elem(T)  BY <3>2, ElemIn
      <4>2. PICK U \in SUBSET S : U = T \ {e}  OBVIOUS
      <4>3. Cardinality(U) = Cardinality(T) - 1  BY <1>3, <4>1, <4>2, FS_RemoveElement
      <4>4. Cardinality(U) <= k  BY <1>3, <2>1, <4>3
      <4>5. <<U, f[U]>> \in G /\ g[U] = f[U]  BY <1>6, <4>4
      <4>6. f[T] = V[<<e, f[U]>>]  BY <1>1, <3>2, <4>1, <4>2 DEF IterAt, Folding
      <4>7. g[T] = W[<<e, g[U]>>]  BY <1>2, <3>2, <4>1, <4>2 DEF IterAt, Folding
      <4>8. e \in S \ U /\ U \cup {e} = T  BY <4>1, <4>2
      <4>9. W[<<e, f[U]>>] = V[<<e, f[U]>>]  BY <4>5, <4>8
      <4>10. <<U \cup {e}, V[<<e, f[U]>>]>> \in G  BY <4>5, <4>8 DEF Folds
      <4> QED BY <4>5, <4>6, <4>7, <4>8, <4>9, <4>10
    <3> QED BY <3>1, <3>2
  <2> QED BY <2>1
<1>7. Nat \subseteq A
  <2> HIDE DEF A
  <2> QED BY <1>5, <1>6, AllNumbers
<1>8. Cardinality(S) \in A /\ S \in SUBSET S  BY <1>3, <1>7
<1>9. <<S, f[S]>> \in G /\ g[S] = f[S]  BY <1>3, <1>8
<1> QED BY <1>1, <1>2, <1>9 DEF Folding

-----------------------------------------------------------------------------
(***************************************************************************)
(* The depth-first search.  Its recursive function exists, because each    *)
(* call below a service visits one service more, and what it has ordered   *)
(* comes after all that it depends on.                                     *)
(***************************************************************************)
Topology(E) ==
  /\ DOMAIN E \subseteq Services
  /\ \A s \in DOMAIN E : E[s] \subseteq DOMAIN E

VisitBody(V, E, s, st) ==
  IF st.cycle \/ s \in st.visiting THEN [st EXCEPT !.cycle = TRUE]
  ELSE IF s \in P!Range(st.ordered) THEN st
  ELSE LET below == P!FoldSet(LAMBDA d, acc : V[<<d, acc>>],
                              [st EXCEPT !.visiting = @ \cup {s}], E[s])
       IN  IF below.cycle THEN below
           ELSE [below EXCEPT !.visiting = @ \ {s}, !.ordered = Append(@, s)]

VisitFcn(V, E) == [p \in (DOMAIN E) \X P!States |-> VisitBody(V, E, p[1], p[2])]

\* The recursive function is a function that satisfies its equation.
LEMMA VisitChosen ==
  ASSUME NEW E PROVE P!Visit(E) = CHOOSE f : f = VisitFcn(f, E)
BY DEF P!Visit, VisitFcn, VisitBody

\* Its value where it is defined.
LEMMA VisitAt ==
  ASSUME NEW V, NEW E, NEW s \in DOMAIN E, NEW st \in P!States
  PROVE  VisitFcn(V, E)[<<s, st>>] = VisitBody(V, E, s, st)
BY DEF VisitFcn

Cycled(st) == [st EXCEPT !.cycle = TRUE]
Entered(st, s) == [st EXCEPT !.visiting = @ \cup {s}]
Left(st, s) == IF st.cycle THEN st
               ELSE [st EXCEPT !.visiting = @ \ {s}, !.ordered = Append(@, s)]

\* A service that is being visited is a cycle.
LEMMA BodyCycled ==
  ASSUME NEW V, NEW E, NEW s, NEW st, st.cycle \/ s \in st.visiting
  PROVE  VisitBody(V, E, s, st) = Cycled(st)
BY DEF VisitBody, Cycled

\* A service that is ordered is passed over.
LEMMA BodyDone ==
  ASSUME NEW V, NEW E, NEW s, NEW st, ~st.cycle, s \notin st.visiting, s \in P!Range(st.ordered)
  PROVE  VisitBody(V, E, s, st) = st
BY DEF VisitBody

\* Any other is visited: what it depends on first.
LEMMA BodyBelow ==
  ASSUME NEW V, NEW E, NEW s, NEW st,
         ~st.cycle, s \notin st.visiting, s \notin P!Range(st.ordered)
  PROVE  VisitBody(V, E, s, st) = Left(Fold(V, Entered(st, s), E[s]), s)
<1>1. VisitBody(V, E, s, st) =
        LET below == P!FoldSet(LAMBDA d, acc : V[<<d, acc>>],
                               [st EXCEPT !.visiting = @ \cup {s}], E[s])
        IN  IF below.cycle THEN below
            ELSE [below EXCEPT !.visiting = @ \ {s}, !.ordered = Append(@, s)]
  BY DEF VisitBody
<1>2. Fold(V, Entered(st, s), E[s]) =
        P!FoldSet(LAMBDA d, acc : V[<<d, acc>>], [st EXCEPT !.visiting = @ \cup {s}], E[s])
  BY DEF Fold, Entered
<1> QED BY <1>1, <1>2 DEF Left

\* The fields of a state of the search.
LEMMA StateFields ==
  ASSUME NEW st \in P!States
  PROVE  /\ st.visiting \in SUBSET Services /\ st.ordered \in Seq(Services)
         /\ st.cycle \in BOOLEAN
BY DEF P!States

\* A state with a cycle found.
LEMMA CycledFields ==
  ASSUME NEW st \in P!States
  PROVE  Cycled(st) \in P!States /\ Cycled(st).cycle
BY DEF P!States, Cycled

\* A state with a service entered.
LEMMA EnteredFields ==
  ASSUME NEW st \in P!States, NEW s \in Services
  PROVE  /\ Entered(st, s) \in P!States
         /\ Entered(st, s).visiting = st.visiting \cup {s}
         /\ Entered(st, s).ordered = st.ordered
         /\ Entered(st, s).cycle = st.cycle
BY DEF P!States, Entered

\* A state with a service left.
LEMMA LeftFields ==
  ASSUME NEW st \in P!States, NEW s \in Services, ~st.cycle
  PROVE  /\ Left(st, s) \in P!States
         /\ Left(st, s).visiting = st.visiting \ {s}
         /\ Left(st, s).ordered = Append(st.ordered, s)
         /\ ~Left(st, s).cycle
<1>1. Left(st, s) = [st EXCEPT !.visiting = @ \ {s}, !.ordered = Append(@, s)]
  BY DEF Left
<1>2. /\ st.visiting \ {s} \in SUBSET Services
      /\ Append(st.ordered, s) \in Seq(Services)
  BY DEF P!States
<1>3. PICK vis, ord : vis = st.visiting \ {s} /\ ord = Append(st.ordered, s)  OBVIOUS
<1>4. Left(st, s) = [[st EXCEPT !.visiting = vis] EXCEPT !.ordered = ord]
  BY <1>1, <1>3 DEF P!States
<1> QED BY <1>2, <1>3, <1>4 DEF P!States

\* Every element of q depends only on elements before it.
Sorted(E, q) ==
  \A i \in 1..Len(q) : /\ q[i] \in DOMAIN E
                       /\ \A d \in E[q[i]] : \E j \in 1..Len(q) : j < i /\ q[j] = d

\* What is in a sequence with one more element.
LEMMA RangeAppend ==
  ASSUME NEW q \in Seq(Services), NEW s \in Services
  PROVE  P!Range(Append(q, s)) = P!Range(q) \cup {s}
<1>0. Append(q, s) \in Seq(Services)  OBVIOUS
<1>1. PICK r \in Seq(Services) : r = Append(q, s)  BY <1>0
<1>2. Len(r) = Len(q) + 1 /\ r[Len(r)] = s /\ \A i \in 1..Len(q) : r[i] = q[i]
  BY <1>1
<1>3. DOMAIN r = 1..Len(r) /\ DOMAIN q = 1..Len(q) /\ Len(q) \in Nat  BY <1>1
<1>4. ASSUME NEW x \in P!Range(r) PROVE x \in P!Range(q) \cup {s}
  <2>1. PICK i \in 1..Len(r) : x = r[i]  BY <1>3, <1>4 DEF P!Range
  <2>2. CASE i = Len(r)  BY <1>2, <2>1, <2>2
  <2>3. CASE i # Len(r)
    <3>1. i \in 1..Len(q)  BY <1>2, <1>3, <2>1, <2>3
    <3>2. x = q[i]  BY <1>2, <2>1, <3>1
    <3> QED BY <1>3, <3>1, <3>2 DEF P!Range
  <2> QED BY <2>2, <2>3
<1>5. ASSUME NEW x \in P!Range(q) PROVE x \in P!Range(r)
  <2>1. PICK i \in 1..Len(q) : x = q[i]  BY <1>3, <1>5 DEF P!Range
  <2>2. x = r[i] /\ i \in 1..Len(r)  BY <1>2, <1>3, <2>1
  <2> QED BY <1>3, <2>2 DEF P!Range
<1>6. s \in P!Range(r)
  <2>1. Len(r) \in 1..Len(r) /\ r[Len(r)] = s  BY <1>2, <1>3
  <2> QED BY <1>3, <2>1 DEF P!Range
<1> QED BY <1>1, <1>4, <1>5, <1>6

\* An order stays one when a service is appended after all it depends on.
LEMMA SortedAppend ==
  ASSUME NEW E, NEW q \in Seq(Services), NEW s \in Services, s \in DOMAIN E,
         Sorted(E, q), E[s] \subseteq P!Range(q)
  PROVE  Sorted(E, Append(q, s))
<1>0. Append(q, s) \in Seq(Services)  OBVIOUS
<1>1. PICK r \in Seq(Services) : r = Append(q, s)  BY <1>0
<1>2. Len(r) = Len(q) + 1 /\ r[Len(r)] = s /\ \A i \in 1..Len(q) : r[i] = q[i]
  BY <1>1
<1>3. DOMAIN q = 1..Len(q) /\ Len(q) \in Nat  OBVIOUS
<1>4. ASSUME NEW i \in 1..Len(r)
      PROVE  r[i] \in DOMAIN E /\ \A d \in E[r[i]] : \E j \in 1..Len(r) : j < i /\ r[j] = d
  <2>1. CASE i = Len(r)
    <3>1. r[i] = s  BY <1>2, <2>1
    <3>2. ASSUME NEW d \in E[s] PROVE \E j \in 1..Len(r) : j < i /\ r[j] = d
      <4>1. PICK j \in 1..Len(q) : q[j] = d  BY <1>3, <3>2 DEF P!Range
      <4>2. j \in 1..Len(r) /\ j < i /\ r[j] = d  BY <1>2, <1>3, <2>1, <4>1
      <4> QED BY <4>2
    <3> QED BY <3>1, <3>2
  <2>2. CASE i # Len(r)
    <3>1. i \in 1..Len(q)  BY <1>2, <1>3, <2>2
    <3>2. r[i] = q[i] /\ r[i] \in DOMAIN E  BY <1>2, <3>1 DEF Sorted
    <3>3. ASSUME NEW d \in E[q[i]] PROVE \E j \in 1..Len(r) : j < i /\ r[j] = d
      <4>1. PICK j \in 1..Len(q) : j < i /\ q[j] = d  BY <3>1, <3>3 DEF Sorted
      <4>2. j \in 1..Len(r) /\ r[j] = d  BY <1>2, <1>3, <4>1
      <4> QED BY <4>1, <4>2
    <3> QED BY <3>2, <3>3
  <2> QED BY <2>1, <2>2
<1>5. Sorted(E, r)  BY <1>4 DEF Sorted
<1> QED BY <1>1, <1>5

\* v comes of st by a search that has what it visits and has ordered T.
Grown(E, st, visiting, T, v) ==
  /\ v \in P!States
  /\ ~v.cycle => /\ v.visiting = visiting
                 /\ P!Range(st.ordered) \cup T \subseteq P!Range(v.ordered)
                 /\ Sorted(E, st.ordered) => Sorted(E, v.ordered)

\* What the search of a service makes of a state.
Post(E, s, st, r) ==
  /\ st.cycle => r.cycle
  /\ Grown(E, st, st.visiting, {s}, r)

\* The services below are searched one after the other.
LEMMA GrownStep ==
  ASSUME NEW E, NEW st, NEW visiting, NEW T, NEW v, NEW x, NEW r,
         Grown(E, st, visiting, T, v), Post(E, x, v, r)
  PROVE  Grown(E, st, visiting, T \cup {x}, r)
BY DEF Grown, Post

\* Before any of them has been searched.
LEMMA EnteredGrown ==
  ASSUME NEW E, NEW st \in P!States, NEW s \in Services
  PROVE  Grown(E, st, st.visiting \cup {s}, {}, Entered(st, s))
BY EnteredFields DEF Grown

\* After all of them have been.
LEMMA LeftPost ==
  ASSUME NEW E, NEW s \in Services, s \in DOMAIN E, NEW st \in P!States, NEW v,
         ~st.cycle, s \notin st.visiting, Grown(E, st, st.visiting \cup {s}, E[s], v)
  PROVE  Post(E, s, st, Left(v, s))
<1>1. v \in P!States  BY DEF Grown
<1>2. CASE v.cycle
  <2>1. Left(v, s) = v  BY <1>2 DEF Left
  <2> QED BY <1>1, <1>2, <2>1 DEF Post, Grown
<1>3. CASE ~v.cycle
  <2>1. PICK wk : wk = Left(v, s)  OBVIOUS
  <2>2. /\ wk \in P!States /\ ~wk.cycle
        /\ wk.visiting = v.visiting \ {s} /\ wk.ordered = Append(v.ordered, s)
    BY <1>1, <1>3, <2>1, LeftFields
  <2>3. /\ v.visiting = st.visiting \cup {s}
        /\ P!Range(st.ordered) \cup E[s] \subseteq P!Range(v.ordered)
        /\ Sorted(E, st.ordered) => Sorted(E, v.ordered)
    BY <1>3 DEF Grown
  <2>4. wk.visiting = st.visiting  BY <2>2, <2>3
  <2>5. v.ordered \in Seq(Services)  BY <1>1, StateFields
  <2>6. P!Range(wk.ordered) = P!Range(v.ordered) \cup {s}  BY <2>2, <2>5, RangeAppend
  <2>7. P!Range(st.ordered) \cup {s} \subseteq P!Range(wk.ordered)  BY <2>3, <2>6
  <2>8. Sorted(E, v.ordered) => Sorted(E, wk.ordered)
    <3>1. E[s] \subseteq P!Range(v.ordered)  BY <2>3
    <3> QED BY <2>2, <2>5, <3>1, SortedAppend
  <2>9. Sorted(E, st.ordered) => Sorted(E, wk.ordered)  BY <2>3, <2>8
  <2> QED BY <2>1, <2>2, <2>4, <2>7, <2>9 DEF Post, Grown
<1> QED BY <1>2, <1>3

\* How many services a search below st may still enter.
Rank(E, st) == Cardinality(DOMAIN E \ st.visiting)

\* V searches what has n services left to enter.
Known(E, n, V) ==
  \A s \in DOMAIN E : \A st \in P!States :
    st.cycle \/ Rank(E, st) <= n =>
      /\ V[<<s, st>>] = VisitBody(V, E, s, st)
      /\ Post(E, s, st, V[<<s, st>>])

\* A search that enters s asks only for searches with one service less to enter.
LEMMA BodyPost ==
  ASSUME NEW E, Topology(E), NEW n \in Nat, NEW V, Known(E, n, V),
         NEW s \in DOMAIN E, NEW st \in P!States, st.cycle \/ Rank(E, st) <= n + 1
  PROVE  /\ Post(E, s, st, VisitBody(V, E, s, st))
         /\ VisitBody(VisitFcn(V, E), E, s, st) = VisitBody(V, E, s, st)
<1>0. s \in Services /\ E[s] \subseteq DOMAIN E /\ DOMAIN E \subseteq Services
  BY DEF Topology
<1>1. CASE st.cycle \/ s \in st.visiting
  <2>1. /\ VisitBody(V, E, s, st) = Cycled(st)
        /\ VisitBody(VisitFcn(V, E), E, s, st) = Cycled(st)
    BY <1>1, BodyCycled
  <2>2. Post(E, s, st, Cycled(st))  BY CycledFields DEF Post, Grown
  <2> QED BY <2>1, <2>2
<1>2. CASE ~st.cycle /\ s \notin st.visiting /\ s \in P!Range(st.ordered)
  <2>1. /\ VisitBody(V, E, s, st) = st
        /\ VisitBody(VisitFcn(V, E), E, s, st) = st
    BY <1>2, BodyDone
  <2>2. Post(E, s, st, st)  BY <1>2 DEF Post, Grown
  <2> QED BY <2>1, <2>2
<1>3. CASE ~st.cycle /\ s \notin st.visiting /\ s \notin P!Range(st.ordered)
  <2> DEFINE vis == st.visiting \cup {s}
             b == Entered(st, s)
             S == E[s]
             W == VisitFcn(V, E)
             G == {p \in (SUBSET S) \X P!States : Grown(E, st, vis, p[1], p[2])}
  <2>1. IsFiniteSet(DOMAIN E) /\ IsFiniteSet(S)
    BY <1>0, FS_Subset, ServicesAssumption
  <2>2. <<{}, b>> \in G
    <3>1. Grown(E, st, vis, {}, b) /\ b \in P!States  BY <1>0, EnteredGrown, EnteredFields
    <3> QED BY <3>1
  <2>3. ASSUME NEW T \in SUBSET S, NEW x \in S \ T, NEW v, <<T, v>> \in G
        PROVE  <<T \cup {x}, V[<<x, v>>]>> \in G /\ W[<<x, v>>] = V[<<x, v>>]
    <3>1. v \in P!States /\ Grown(E, st, vis, T, v)  BY <2>3
    <3>2. x \in DOMAIN E  BY <1>0, <2>3
    <3>3. v.cycle \/ Rank(E, v) <= n
      <4>1. SUFFICES ASSUME ~v.cycle PROVE Rank(E, v) <= n
        OBVIOUS
      <4>2. v.visiting = vis  BY <3>1, <4>1 DEF Grown
      <4>3. PICK D : D = DOMAIN E \ st.visiting  OBVIOUS
      <4>4. IsFiniteSet(D) /\ Cardinality(D) \in Nat
        BY <2>1, <4>3, FS_Subset, FS_CardinalityType
      <4>5. s \in D  BY <1>3, <4>3
      <4>6. DOMAIN E \ v.visiting = D \ {s}  BY <4>2, <4>3
      <4>7. Cardinality(D \ {s}) = Cardinality(D) - 1  BY <4>4, <4>5, FS_RemoveElement
      <4>8. Cardinality(D) <= n + 1  BY <1>3, <4>3 DEF Rank
      <4>9. Rank(E, v) = Cardinality(D \ {s})  BY <4>6 DEF Rank
      <4> HIDE DEF vis
      <4> QED BY <4>4, <4>7, <4>8, <4>9
    <3>4. V[<<x, v>>] = VisitBody(V, E, x, v) /\ Post(E, x, v, V[<<x, v>>])
      BY <3>1, <3>2, <3>3 DEF Known
    <3>5. W[<<x, v>>] = VisitBody(V, E, x, v)  BY <3>1, <3>2, VisitAt
    <3>6. Grown(E, st, vis, T \cup {x}, V[<<x, v>>])
      <4> HIDE DEF vis
      <4> QED BY <3>1, <3>4, GrownStep
    <3>7. V[<<x, v>>] \in P!States  BY <3>4 DEF Post, Grown
    <3>8. T \cup {x} \in SUBSET S  BY <2>3
    <3>9. <<T \cup {x}, V[<<x, v>>]>> \in G  BY <3>6, <3>7, <3>8
    <3> QED BY <3>4, <3>5, <3>9
  <2>4. Folds(V, b, S, G)
    <3> HIDE DEF G, b, S, W
    <3> QED BY <2>2, <2>3 DEF Folds
  <2>5. <<S, Fold(V, b, S)>> \in G /\ Fold(W, b, S) = Fold(V, b, S)
    <3> HIDE DEF G, b, S, W
    <3>1. \A T \in SUBSET S : \A x \in S \ T : \A v :
            <<T, v>> \in G => W[<<x, v>>] = V[<<x, v>>]
      BY <2>3
    <3> QED BY <2>1, <2>4, <3>1, FoldRule
  <2>6. Grown(E, st, vis, S, Fold(V, b, S))  BY <2>5
  <2>7. Post(E, s, st, Left(Fold(V, b, S), s))
    <3>1. PICK v : v = Fold(V, b, S)  OBVIOUS
    <3>2. Grown(E, st, st.visiting \cup {s}, E[s], v)  BY <2>6, <3>1
    <3>3. Post(E, s, st, Left(v, s))  BY <1>0, <1>3, <3>2, LeftPost
    <3> QED BY <3>1, <3>3
  <2>8. VisitBody(V, E, s, st) = Left(Fold(V, b, S), s)  BY <1>3, BodyBelow
  <2>9. VisitBody(W, E, s, st) = Left(Fold(W, b, S), s)
    <3>1. PICK wk : wk = W  OBVIOUS
    <3>2. VisitBody(wk, E, s, st) = Left(Fold(wk, Entered(st, s), E[s]), s)  BY <1>3, BodyBelow
    <3> QED BY <3>1, <3>2
  <2>10. VisitBody(W, E, s, st) = VisitBody(V, E, s, st)  BY <2>5, <2>8, <2>9
  <2> QED BY <2>7, <2>8, <2>10
<1> QED BY <1>1, <1>2, <1>3

\* The recursive function of the search exists.
LEMMA VisitExists ==
  ASSUME NEW E, Topology(E)
  PROVE  \E f : f = VisitFcn(f, E)
<1> DEFINE A == {n \in Nat : \E V : Known(E, n, V)}
<1>0. IsFiniteSet(DOMAIN E)  BY FS_Subset, ServicesAssumption DEF Topology
<1>1. \A st \in P!States : /\ IsFiniteSet(DOMAIN E \ st.visiting)
                           /\ Rank(E, st) \in Nat /\ Rank(E, st) <= Cardinality(DOMAIN E)
  BY <1>0, FS_Subset, FS_CardinalityType DEF Rank
<1>2. 0 \in A
  <2>1. PICK V : V = [p \in (DOMAIN E) \X P!States |-> Cycled(p[2])]  OBVIOUS
  <2>2. ASSUME NEW s \in DOMAIN E, NEW st \in P!States, st.cycle \/ Rank(E, st) <= 0
        PROVE  /\ V[<<s, st>>] = VisitBody(V, E, s, st)
               /\ Post(E, s, st, V[<<s, st>>])
    <3>1. V[<<s, st>>] = Cycled(st)  BY <2>1
    <3>2. st.cycle \/ s \in st.visiting
      <4>1. CASE Rank(E, st) <= 0
        <5>1. Cardinality(DOMAIN E \ st.visiting) = 0  BY <1>1, <4>1 DEF Rank
        <5>2. DOMAIN E \ st.visiting = {}  BY <1>1, <5>1, FS_EmptySet
        <5> QED BY <5>2
      <4> QED BY <2>2, <4>1
    <3>3. VisitBody(V, E, s, st) = Cycled(st)  BY <3>2, BodyCycled
    <3>4. Post(E, s, st, Cycled(st))  BY CycledFields DEF Post, Grown
    <3> QED BY <3>1, <3>3, <3>4
  <2>3. Known(E, 0, V)  BY <2>2 DEF Known
  <2> QED BY <2>3
<1>3. ASSUME NEW n \in Nat, n \in A PROVE n + 1 \in A
  <2>1. PICK V : Known(E, n, V)  BY <1>3
  <2>2. PICK g : g = VisitFcn(V, E)  OBVIOUS
  <2>3. ASSUME NEW s \in DOMAIN E, NEW st \in P!States, st.cycle \/ Rank(E, st) <= n + 1
        PROVE  /\ g[<<s, st>>] = VisitBody(g, E, s, st)
               /\ Post(E, s, st, g[<<s, st>>])
    <3>1. g[<<s, st>>] = VisitBody(V, E, s, st)  BY <2>2, VisitAt
    <3>2. /\ Post(E, s, st, VisitBody(V, E, s, st))
          /\ VisitBody(g, E, s, st) = VisitBody(V, E, s, st)
      BY <2>1, <2>2, <2>3, BodyPost
    <3> QED BY <3>1, <3>2
  <2>4. Known(E, n + 1, g)  BY <2>3 DEF Known
  <2>5. n + 1 \in Nat  OBVIOUS
  <2> QED BY <2>4, <2>5
<1>4. Nat \subseteq A
  <2> HIDE DEF A
  <2> QED BY <1>2, <1>3, AllNumbers
<1>5. PICK n \in Nat : n = Cardinality(DOMAIN E)  BY <1>0, FS_CardinalityType
<1>6. PICK V : Known(E, n, V)  BY <1>4, <1>5
<1>7. PICK g : g = VisitFcn(V, E)  OBVIOUS
<1>8. ASSUME NEW s \in DOMAIN E, NEW st \in P!States
      PROVE  VisitBody(g, E, s, st) = VisitBody(V, E, s, st)
  <2>1. Rank(E, st) \in Nat /\ Rank(E, st) <= n  BY <1>1, <1>5
  <2>2. Rank(E, st) <= n + 1  BY <2>1
  <2>3. VisitBody(VisitFcn(V, E), E, s, st) = VisitBody(V, E, s, st)
    BY <1>6, <2>2, BodyPost
  <2> QED BY <1>7, <2>3
<1>9. ASSUME NEW p \in (DOMAIN E) \X P!States
      PROVE  VisitBody(g, E, p[1], p[2]) = VisitBody(V, E, p[1], p[2])
  BY <1>8
<1>10. VisitFcn(g, E) = VisitFcn(V, E)  BY <1>9 DEF VisitFcn
<1> QED BY <1>7, <1>10

\* Which states the search leaves.
LEMMA VisitPost ==
  ASSUME NEW E, Topology(E), NEW s \in DOMAIN E, NEW st \in P!States
  PROVE  Post(E, s, st, P!Visit(E)[<<s, st>>])
<1> DEFINE A == {n \in Nat : Known(E, n, P!Visit(E))}
<1>0. IsFiniteSet(DOMAIN E)  BY FS_Subset, ServicesAssumption DEF Topology
<1>1. PICK V : V = P!Visit(E)  OBVIOUS
<1>2. V = VisitFcn(V, E)  BY <1>1, VisitChosen, VisitExists
<1>3. \A t \in DOMAIN E : \A x \in P!States : V[<<t, x>>] = VisitBody(V, E, t, x)
  BY <1>2, VisitAt
<1>4. \A x \in P!States : /\ IsFiniteSet(DOMAIN E \ x.visiting)
                          /\ Rank(E, x) \in Nat /\ Rank(E, x) <= Cardinality(DOMAIN E)
  BY <1>0, FS_Subset, FS_CardinalityType DEF Rank
<1>5. 0 \in A
  <2>1. ASSUME NEW t \in DOMAIN E, NEW x \in P!States, x.cycle \/ Rank(E, x) <= 0
        PROVE  Post(E, t, x, V[<<t, x>>])
    <3>1. x.cycle \/ t \in x.visiting
      <4>1. CASE Rank(E, x) <= 0
        <5>1. Cardinality(DOMAIN E \ x.visiting) = 0  BY <1>4, <4>1 DEF Rank
        <5>2. DOMAIN E \ x.visiting = {}  BY <1>4, <5>1, FS_EmptySet
        <5> QED BY <5>2
      <4> QED BY <2>1, <4>1
    <3>2. VisitBody(V, E, t, x) = Cycled(x)  BY <3>1, BodyCycled
    <3>3. Post(E, t, x, Cycled(x))  BY CycledFields DEF Post, Grown
    <3> QED BY <1>3, <3>2, <3>3
  <2>2. Known(E, 0, V)  BY <1>3, <2>1 DEF Known
  <2> QED BY <1>1, <2>2
<1>6. ASSUME NEW n \in Nat, n \in A PROVE n + 1 \in A
  <2>1. Known(E, n, V)  BY <1>1, <1>6
  <2>2. ASSUME NEW t \in DOMAIN E, NEW x \in P!States, x.cycle \/ Rank(E, x) <= n + 1
        PROVE  Post(E, t, x, V[<<t, x>>])
    <3>1. Post(E, t, x, VisitBody(V, E, t, x))  BY <2>1, <2>2, BodyPost
    <3> QED BY <1>3, <3>1
  <2>3. Known(E, n + 1, V)  BY <1>3, <2>2 DEF Known
  <2>4. n + 1 \in Nat  OBVIOUS
  <2> QED BY <1>1, <2>3, <2>4
<1>7. Nat \subseteq A
  <2> HIDE DEF A
  <2> QED BY <1>5, <1>6, AllNumbers
<1>8. PICK n \in Nat : n = Cardinality(DOMAIN E)  BY <1>0, FS_CardinalityType
<1>9. Known(E, n, V)  BY <1>1, <1>7, <1>8
<1>10. Rank(E, st) <= n  BY <1>4, <1>8
<1> QED BY <1>1, <1>9, <1>10 DEF Known

Unsearched == [visiting |-> {}, ordered |-> <<>>, cycle |-> FALSE]

\* A search without a cycle has ordered everything, each service after what it depends on.
LEMMA SearchSorts ==
  ASSUME NEW E, Topology(E)
  PROVE  /\ P!Search(E) \in P!States
         /\ ~P!Search(E).cycle => /\ Sorted(E, P!Search(E).ordered)
                                  /\ DOMAIN E \subseteq P!Range(P!Search(E).ordered)
<1> DEFINE D == DOMAIN E
           G == {p \in (SUBSET D) \X P!States : Grown(E, Unsearched, {}, p[1], p[2])}
<1>1. PICK V : V = P!Visit(E)  OBVIOUS
<1>2. P!Search(E) = Fold(V, Unsearched, D)
  BY <1>1 DEF P!Search, Fold, Unsearched
<1>3. Unsearched \in P!States /\ Unsearched.visiting = {} /\ Unsearched.ordered = <<>>
  BY DEF P!States, Unsearched
<1>4. <<{}, Unsearched>> \in G
  <2>1. Grown(E, Unsearched, {}, {}, Unsearched)  BY <1>3 DEF Grown
  <2> QED BY <1>3, <2>1
<1>5. ASSUME NEW T \in SUBSET D, NEW x \in D \ T, NEW v, <<T, v>> \in G
      PROVE  <<T \cup {x}, V[<<x, v>>]>> \in G
  <2>1. v \in P!States /\ Grown(E, Unsearched, {}, T, v)  BY <1>5
  <2>2. Post(E, x, v, V[<<x, v>>])  BY <1>1, <1>5, <2>1, VisitPost
  <2>3. Grown(E, Unsearched, {}, T \cup {x}, V[<<x, v>>])  BY <2>1, <2>2, GrownStep
  <2>4. V[<<x, v>>] \in P!States  BY <2>2 DEF Post, Grown
  <2>5. T \cup {x} \in SUBSET D  BY <1>5
  <2> QED BY <2>3, <2>4, <2>5
<1>6. IsFiniteSet(D)  BY FS_Subset, ServicesAssumption DEF Topology
<1>7. <<D, Fold(V, Unsearched, D)>> \in G
  <2>1. Folds(V, Unsearched, D, G)
    <3> HIDE DEF G, D
    <3> QED BY <1>4, <1>5 DEF Folds
  <2> HIDE DEF G, D
  <2> QED BY <1>6, <2>1, FoldRule
<1>8. PICK r : r = P!Search(E)  OBVIOUS
<1>9. r \in P!States /\ Grown(E, Unsearched, {}, D, r)  BY <1>2, <1>7, <1>8
<1>10. Sorted(E, Unsearched.ordered)  BY <1>3 DEF Sorted
<1>11. ~r.cycle => Sorted(E, r.ordered) /\ D \subseteq P!Range(r.ordered)
  BY <1>9, <1>10 DEF Grown
<1> QED BY <1>8, <1>9, <1>11

\* The first of any services that comes in the order depends on none of them.
LEMMA SortedAcyclic ==
  ASSUME NEW E, NEW q \in Seq(Services), Sorted(E, q), DOMAIN E \subseteq P!Range(q)
  PROVE  P!Acyclic(E)
<1>1. SUFFICES ASSUME NEW T \in SUBSET DOMAIN E, T # {}
               PROVE  \E s \in T : E[s] \cap T = {}
  BY DEF P!Acyclic
<1> DEFINE I == {i \in Nat : i \in 1..Len(q) /\ q[i] \in T}
<1>2. \E i \in I : TRUE
  <2>1. PICK s \in T : TRUE  BY <1>1
  <2>2. s \in P!Range(q)  BY <1>1, <2>1
  <2>3. PICK i \in DOMAIN q : q[i] = s  BY <2>2 DEF P!Range
  <2> QED BY <2>1, <2>3
<1>3. PICK i \in I : \A j \in I : ~(j < i)
  <2>1. IsWellFoundedOn(OpToRel(<, Nat), Nat)  BY NatLessThanWellFounded
  <2>2. I \subseteq Nat /\ I # {}  BY <1>2
  <2>3. PICK i \in I : \A j \in I : <<j, i>> \notin OpToRel(<, Nat)
    <3> HIDE DEF I
    <3> QED BY <2>1, <2>2, WFMin
  <2>4. \A j \in I : ~(j < i)  BY <2>2, <2>3 DEF OpToRel
  <2> QED BY <2>4
<1>4. ASSUME NEW d \in E[q[i]] \cap T PROVE FALSE
  <2>1. PICK j \in 1..Len(q) : j < i /\ q[j] = d  BY <1>3, <1>4 DEF Sorted
  <2>2. j \in I  BY <1>4, <2>1
  <2> QED BY <1>3, <2>1, <2>2
<1> QED BY <1>3, <1>4

\* The depth-first search reports a cycle in every topology that has one (routes/projects.ts,
\* project-deploy.ts).
THEOREM SearchFindsCycles ==
  ASSUME NEW E, Topology(E), ~P!Search(E).cycle
  PROVE  P!Acyclic(E)
<1>1. P!Search(E).ordered \in Seq(Services)  BY SearchSorts, StateFields
<1>2. PICK q \in Seq(Services) : q = P!Search(E).ordered  BY <1>1
<1>3. Sorted(E, q) /\ DOMAIN E \subseteq P!Range(q)  BY <1>2, SearchSorts
<1> QED BY <1>2, <1>3, SortedAcyclic

-----------------------------------------------------------------------------
(***************************************************************************)
(* What the variables hold.                                                *)
(***************************************************************************)
Ops == {"none", "patch", "add", "delete", "release", "remove"}
Steps == {"idle", "read", "write", "containers", "network", "row"}
Requests == [op : Ops, pc : Steps, svc : Services \cup {None},
             deps : SUBSET Services, rows : SUBSET (Services \cup P!Containers)]
Saves == [pc : {"closed", "project", "create", "patch", "over"}, want : P!Drafts,
          known : SUBSET Services, failed : BOOLEAN, alone : BOOLEAN]
JobSteps == {"none", "queued", "build", "network", "deploying", "create", "start"}
Jobs == [pc : JobSteps, seen : P!Drafts, order : Seq(Services), started : SUBSET Services]

Editing(r) == r.op \in {"patch", "add", "delete"}

\* A service depends on runtime services of the project, the release service on none.
Edges(e) ==
  \A s \in DOMAIN e : /\ e[s] \subseteq DOMAIN e \cap Runtime
                      /\ s \notin Runtime => e[s] = {}

RequestOk(a, r) ==
  /\ r.op = "none" <=> r.pc = "idle"
  /\ Editing(r) => r.pc \in {"read", "write"} /\ r.svc \in Services
  /\ r.op = "add" => (r.svc \notin Runtime => r.deps = {})
  /\ r.op \in {"patch", "add"} /\ r.pc = "write" =>
       r.deps \subseteq Runtime /\ (r.svc \notin Runtime => r.deps = {})
  /\ a \in Services => r.op \in {"none", "patch", "add"} /\ (r.op # "none" => r.svc = a)
  /\ r.op = "release" => r.pc \in {"read", "write"}
  /\ r.op = "remove" => r.pc \in {"containers", "network", "row"}

AsksOk(f) ==
  /\ f \in [P!Actors -> Requests]
  /\ \A a \in P!Actors : RequestOk(a, f[a])

DepsOk(e) == e \in P!Drafts /\ Edges(e)

JobOk(j) ==
  /\ j \in Jobs
  /\ j.pc \notin {"none", "queued"} => Edges(j.seen)
  /\ j.pc # "start" => j.started = {}

RowOk(r) ==
  /\ r.status \in {"none", "pending", "building", "deploying", "success", "failed"}
  /\ r.rows \subseteq Services /\ r.id \in Nat
  /\ r = [id |-> r.id, status |-> r.status, rows |-> r.rows]

GhostsOk(h) ==
  h \in [overlap : BOOLEAN, asked : Nat, remade : BOOLEAN, refused : SUBSET P!Containers]

Made == Nat \X Runtime
CtrsOk(c) == c \in [made : SUBSET Made, up : SUBSET Made]

\* Before it is created nothing happens to a project; a release that a request is about
\* to record finds no job.
PhaseOk(p, f, e, r, j) ==
  /\ p \in {"none", "live", "gone"}
  /\ p = "none" => /\ \A a \in P!Actors : f[a].pc = "idle"
                   /\ e.pc = "closed" /\ j.pc = "none"
  /\ j.pc # "none" => p = "gone" \/ r.status \in {"pending", "building", "deploying"}
  /\ f[Admin].op = "release" /\ f[Admin].pc = "write" => j.pc = "none"

ShapeOf(p, d, f, e, r, j, c, n, h) ==
  /\ AsksOk(f) /\ DepsOk(d) /\ e \in Saves /\ JobOk(j) /\ RowOk(r) /\ GhostsOk(h)
  /\ CtrsOk(c) /\ n \in BOOLEAN
  /\ PhaseOk(p, f, e, r, j)

Shape == ShapeOf(project, deps, asks, editor, release, releaseJob, ctrs, network, history)
ShapeNext ==
  ShapeOf(project', deps', asks', editor', release', releaseJob', ctrs', network', history')

\* The project without services.
LEMMA EmptyDraft == <<>> \in P!Drafts /\ DOMAIN <<>> = {}
<1>1. <<>> \in [{} -> SUBSET Runtime]  OBVIOUS
<1> QED BY <1>1 DEF P!Drafts

\* What a draft holds.
LEMMA DraftFields ==
  ASSUME NEW d \in P!Drafts
  PROVE  /\ DOMAIN d \in SUBSET Services /\ IsFiniteSet(DOMAIN d)
         /\ \A s \in DOMAIN d : d[s] \in SUBSET Runtime /\ d[s] \in SUBSET Services
<1>1. DOMAIN d \in SUBSET Services /\ \A s \in DOMAIN d : d[s] \in SUBSET Runtime
  BY DEF P!Drafts
<1>2. Runtime \subseteq Services  BY DEF Runtime
<1> QED BY <1>1, <1>2, FS_Subset, ServicesAssumption

\* What makes a function a draft.
LEMMA DraftMade ==
  ASSUME NEW D \in SUBSET Services, NEW d, DOMAIN d = D, d = [s \in D |-> d[s]],
         \A s \in D : d[s] \in SUBSET Runtime
  PROVE  d \in P!Drafts
BY DEF P!Drafts

\* g is f with the request of one actor replaced.
With(f, g, a, r) ==
  /\ g \in [P!Actors -> Requests]
  /\ g[a] = r
  /\ \A b \in P!Actors \ {a} : g[b] = f[b]

Advance(r, pc) == [r EXCEPT !.pc = pc]

\* A request is replaced.
LEMMA Puts ==
  ASSUME NEW f \in [P!Actors -> Requests], NEW a \in P!Actors, NEW r \in Requests, NEW g,
         g = [f EXCEPT ![a] = r]
  PROVE  With(f, g, a, r)
BY DEF With

\* A request goes to its next step.
LEMMA AdvanceFields ==
  ASSUME NEW r \in Requests, NEW pc \in Steps
  PROVE  /\ Advance(r, pc) \in Requests /\ Advance(r, pc).pc = pc
         /\ Advance(r, pc).op = r.op /\ Advance(r, pc).svc = r.svc
         /\ Advance(r, pc).deps = r.deps /\ Advance(r, pc).rows = r.rows
BY DEF Requests, Advance

\* The request of an actor goes to its next step.
LEMMA Advances ==
  ASSUME NEW f \in [P!Actors -> Requests], NEW a \in P!Actors, NEW pc \in Steps, NEW g,
         g = [f EXCEPT ![a].pc = pc]
  PROVE  With(f, g, a, Advance(f[a], pc))
<1>1. g = [f EXCEPT ![a] = Advance(f[a], pc)]  BY DEF Advance
<1>2. Advance(f[a], pc) \in Requests  BY AdvanceFields
<1> QED BY <1>1, <1>2, Puts

\* The request of an actor that has none.
LEMMA NoReqFields ==
  /\ P!NoReq \in Requests /\ P!NoReq.op = "none" /\ P!NoReq.pc = "idle"
  /\ P!NoReq.deps = {} /\ P!NoReq.rows = {} /\ P!NoReq.svc = None
  /\ \A a : RequestOk(a, P!NoReq)
<1>1. /\ P!NoReq.op = "none" /\ P!NoReq.pc = "idle"
      /\ P!NoReq.deps = {} /\ P!NoReq.rows = {} /\ P!NoReq.svc = None
  BY DEF P!NoReq
<1>2. P!NoReq \in Requests  BY DEF P!NoReq, Requests, Ops, Steps
<1>3. \A a : RequestOk(a, P!NoReq)  BY <1>1 DEF RequestOk, Editing
<1> QED BY <1>1, <1>2, <1>3

\* The requests stay well formed when one is replaced by a well formed one.
LEMMA AsksWith ==
  ASSUME NEW f, NEW g, NEW a \in P!Actors, NEW r, AsksOk(f), With(f, g, a, r), RequestOk(a, r)
  PROVE  AsksOk(g)
BY DEF AsksOk, With

-----------------------------------------------------------------------------
(***************************************************************************)
(* What the actions do to the requests, the save and the ghosts.           *)
(***************************************************************************)
Asked(op, pc, s, d, rows) == [op |-> op, pc |-> pc, svc |-> s, deps |-> d, rows |-> rows]

\* The fields of a new request.
LEMMA AskedFields ==
  ASSUME NEW op \in Ops, NEW pc \in Steps, NEW s \in Services \cup {None},
         NEW d \in SUBSET Services, NEW rows \in SUBSET (Services \cup P!Containers)
  PROVE  /\ Asked(op, pc, s, d, rows) \in Requests
         /\ Asked(op, pc, s, d, rows).op = op /\ Asked(op, pc, s, d, rows).pc = pc
         /\ Asked(op, pc, s, d, rows).svc = s /\ Asked(op, pc, s, d, rows).deps = d
         /\ Asked(op, pc, s, d, rows).rows = rows
BY DEF Asked, Requests

\* h1 comes of h when a asks for something while the requests are f.
Began(f, h, h1, a) ==
  /\ GhostsOk(h1) /\ h1.remade = h.remade /\ h1.refused = h.refused
  /\ ~h1.overlap => ~h.overlap /\ \A b \in P!Actors \ {a} : ~Editing(f[b])

\* What beginning a request does.
LEMMA BeginDoes ==
  ASSUME AsksOk(asks), GhostsOk(history), NEW a \in P!Actors, NEW r \in Requests, P!Begin(a, r)
  PROVE  With(asks, asks', a, r) /\ Began(asks, history, history', a)
<1>1. With(asks, asks', a, r)  BY Puts DEF AsksOk, P!Begin
<1>2. PICK o \in BOOLEAN : o = (history.overlap \/ \E b \in P!Actors \ {a} : Editing(asks[b]))
  OBVIOUS
<1>3. PICK n \in Nat : n = IF a = Admin THEN history.asked + 1 ELSE history.asked
  BY DEF GhostsOk
<1>4. o = (history.overlap
           \/ \E b \in P!Actors \ {a} : asks[b].op \in {"patch", "add", "delete"})
  BY <1>2 DEF Editing
<1>5. history' = [[history EXCEPT !.overlap = o] EXCEPT !.asked = n]
  BY <1>3, <1>4 DEF P!Begin, GhostsOk
<1>6. /\ GhostsOk(history') /\ history'.remade = history.remade /\ history'.overlap = o
      /\ history'.refused = history.refused
  BY <1>5 DEF GhostsOk
<1> QED BY <1>1, <1>2, <1>6 DEF Began

\* What an answer does.
LEMMA Answers ==
  ASSUME AsksOk(asks), NEW a \in P!Actors, P!Answer(a)
  PROVE  With(asks, asks', a, P!NoReq)
BY Puts, NoReqFields DEF AsksOk, P!Answer

FailedSave(e) == [e EXCEPT !.failed = TRUE]
SharedSave(e) == [e EXCEPT !.alone = FALSE]

\* A save that failed, and one that is not alone.
LEMMA SaveFields ==
  ASSUME NEW e \in Saves
  PROVE  /\ FailedSave(e) \in Saves /\ FailedSave(e).pc = e.pc /\ FailedSave(e).want = e.want
         /\ FailedSave(e).known = e.known /\ FailedSave(e).failed
         /\ FailedSave(e).alone = e.alone
         /\ SharedSave(e) \in Saves /\ SharedSave(e).pc = e.pc /\ SharedSave(e).want = e.want
         /\ SharedSave(e).known = e.known /\ SharedSave(e).failed = e.failed
         /\ ~SharedSave(e).alone
BY DEF Saves, FailedSave, SharedSave

\* The request of a is refused.
Refused(f, g, e, e1, a) ==
  /\ With(f, g, a, P!NoReq)
  /\ a = Admin => e1 = e
  /\ a # Admin => e1 = FailedSave(e)

\* The request of a has been done.
Done(f, g, e, e1, a) ==
  /\ With(f, g, a, P!NoReq)
  /\ a = Admin => e1 = SharedSave(e)
  /\ a # Admin => e1 = e

\* What a refusal does.
LEMMA RefuseDoes ==
  ASSUME AsksOk(asks), NEW a \in P!Actors, P!Refuse(a)
  PROVE  Refused(asks, asks', editor, editor', a)
BY Answers DEF P!Refuse, Refused, FailedSave

\* What the answer to a write does.
LEMMA DoneDoes ==
  ASSUME AsksOk(asks), NEW a \in P!Actors, P!Answer(a), P!OtherWrite(a)
  PROVE  Done(asks, asks', editor, editor', a)
BY Answers DEF P!OtherWrite, Done, SharedSave

\* Of all services, one and what it may depend on.
Asking(op) ==
  /\ project = "live" /\ asks[Admin].pc = "idle"
  /\ \E s \in Services : \E d \in SUBSET Services :
       /\ op = "add" => (s \notin Runtime => d = {})
       /\ With(asks, asks', Admin, Asked(op, "read", s, d, {}))
  /\ Began(asks, history, history', Admin)
  /\ UNCHANGED <<project, deps, editor, release, releaseJob, ctrs, network>>

\* What AskPatch does.
LEMMA AskPatchDoes ==
  ASSUME AsksOk(asks), GhostsOk(history), NEW s \in Services, NEW d \in SUBSET Services,
         P!AskPatch(s, d)
  PROVE  Asking("patch")
<1>1. Admin \in P!Actors  BY DEF P!Actors
<1>2. [P!NoReq EXCEPT !.op = "patch", !.pc = "read", !.svc = s, !.deps = d]
        = Asked("patch", "read", s, d, {})
  <2>1. P!NoReq = Asked("none", "idle", None, {}, {})  BY DEF P!NoReq, Asked
  <2>2. [Asked("none", "idle", None, {}, {}) EXCEPT !.op = "patch"]
          = Asked("patch", "idle", None, {}, {})
    BY DEF Asked
  <2>3. [Asked("patch", "idle", None, {}, {}) EXCEPT !.pc = "read"]
          = Asked("patch", "read", None, {}, {})
    BY DEF Asked
  <2>4. [Asked("patch", "read", None, {}, {}) EXCEPT !.svc = s] = Asked("patch", "read", s, {}, {})
    BY DEF Asked
  <2>5. [Asked("patch", "read", s, {}, {}) EXCEPT !.deps = d] = Asked("patch", "read", s, d, {})
    BY DEF Asked
  <2>6. [P!NoReq EXCEPT !.op = "patch", !.pc = "read", !.svc = s, !.deps = d]
          = [[[[P!NoReq EXCEPT !.op = "patch"] EXCEPT !.pc = "read"] EXCEPT !.svc = s]
                EXCEPT !.deps = d]
    BY DEF P!NoReq
  <2> QED BY <2>1, <2>2, <2>3, <2>4, <2>5, <2>6
<1>3. Asked("patch", "read", s, d, {}) \in Requests  BY AskedFields DEF Ops, Steps
<1>4. P!Begin(Admin, Asked("patch", "read", s, d, {}))  BY <1>2 DEF P!AskPatch
<1>5. /\ With(asks, asks', Admin, Asked("patch", "read", s, d, {}))
      /\ Began(asks, history, history', Admin)
  BY <1>1, <1>3, <1>4, BeginDoes
<1> QED BY <1>5 DEF Asking, P!AskPatch, P!Busy

\* What AskAdd does.
LEMMA AskAddDoes ==
  ASSUME AsksOk(asks), GhostsOk(history), NEW s \in Services, NEW d \in SUBSET Services,
         P!AskAdd(s, d)
  PROVE  Asking("add")
<1>1. Admin \in P!Actors  BY DEF P!Actors
<1>2. [P!NoReq EXCEPT !.op = "add", !.pc = "read", !.svc = s, !.deps = d]
        = Asked("add", "read", s, d, {})
  <2>1. P!NoReq = Asked("none", "idle", None, {}, {})  BY DEF P!NoReq, Asked
  <2>2. [Asked("none", "idle", None, {}, {}) EXCEPT !.op = "add"]
          = Asked("add", "idle", None, {}, {})
    BY DEF Asked
  <2>3. [Asked("add", "idle", None, {}, {}) EXCEPT !.pc = "read"]
          = Asked("add", "read", None, {}, {})
    BY DEF Asked
  <2>4. [Asked("add", "read", None, {}, {}) EXCEPT !.svc = s] = Asked("add", "read", s, {}, {})
    BY DEF Asked
  <2>5. [Asked("add", "read", s, {}, {}) EXCEPT !.deps = d] = Asked("add", "read", s, d, {})
    BY DEF Asked
  <2>6. [P!NoReq EXCEPT !.op = "add", !.pc = "read", !.svc = s, !.deps = d]
          = [[[[P!NoReq EXCEPT !.op = "add"] EXCEPT !.pc = "read"] EXCEPT !.svc = s]
                EXCEPT !.deps = d]
    BY DEF P!NoReq
  <2> QED BY <2>1, <2>2, <2>3, <2>4, <2>5, <2>6
<1>3. Asked("add", "read", s, d, {}) \in Requests  BY AskedFields DEF Ops, Steps
<1>4. P!Begin(Admin, Asked("add", "read", s, d, {}))  BY <1>2 DEF P!AskAdd
<1>5. /\ With(asks, asks', Admin, Asked("add", "read", s, d, {}))
      /\ Began(asks, history, history', Admin)
  BY <1>1, <1>3, <1>4, BeginDoes
<1>6. s \notin Runtime => d = {}  BY DEF P!AskAdd, P!ReleaseKind
<1> QED BY <1>5, <1>6 DEF Asking, P!AskAdd, P!Busy

\* What AskDelete does.
LEMMA AskDeleteDoes ==
  ASSUME AsksOk(asks), GhostsOk(history), NEW s \in Services, P!AskDelete(s)
  PROVE  Asking("delete")
<1>1. Admin \in P!Actors  BY DEF P!Actors
<1>2. [P!NoReq EXCEPT !.op = "delete", !.pc = "read", !.svc = s]
        = Asked("delete", "read", s, {}, {})
  <2>1. P!NoReq = Asked("none", "idle", None, {}, {})  BY DEF P!NoReq, Asked
  <2>2. [Asked("none", "idle", None, {}, {}) EXCEPT !.op = "delete"]
          = Asked("delete", "idle", None, {}, {})
    BY DEF Asked
  <2>3. [Asked("delete", "idle", None, {}, {}) EXCEPT !.pc = "read"]
          = Asked("delete", "read", None, {}, {})
    BY DEF Asked
  <2>4. [Asked("delete", "read", None, {}, {}) EXCEPT !.svc = s]
          = Asked("delete", "read", s, {}, {})
    BY DEF Asked
  <2>5. [P!NoReq EXCEPT !.op = "delete", !.pc = "read", !.svc = s]
          = [[[P!NoReq EXCEPT !.op = "delete"] EXCEPT !.pc = "read"] EXCEPT !.svc = s]
    BY DEF P!NoReq
  <2> QED BY <2>1, <2>2, <2>3, <2>4, <2>5
<1>3. Asked("delete", "read", s, {}, {}) \in Requests  BY AskedFields DEF Ops, Steps
<1>4. P!Begin(Admin, Asked("delete", "read", s, {}, {}))  BY <1>2 DEF P!AskDelete
<1>5. /\ With(asks, asks', Admin, Asked("delete", "read", s, {}, {}))
      /\ Began(asks, history, history', Admin)
  BY <1>1, <1>3, <1>4, BeginDoes
<1> QED BY <1>5 DEF Asking, P!AskDelete, P!Busy

\* Admin asks for a release or for the deletion of the project.
AskingFor(op, pc, rows) ==
  /\ project = "live" /\ asks[Admin].pc = "idle"
  /\ With(asks, asks', Admin, Asked(op, pc, None, {}, rows))
  /\ GhostsOk(history') /\ history'.overlap = history.overlap
  /\ history'.remade = history.remade /\ history'.refused = history.refused
  /\ UNCHANGED <<project, deps, editor, release, releaseJob, ctrs, network>>

\* One more thing asked for.
LEMMA OneMore ==
  ASSUME NEW h, GhostsOk(h), NEW h1, h1 = [h EXCEPT !.asked = @ + 1]
  PROVE  /\ GhostsOk(h1) /\ h1.overlap = h.overlap /\ h1.remade = h.remade
         /\ h1.refused = h.refused
BY DEF GhostsOk

\* What AskRelease does.
LEMMA AskReleaseDoes ==
  ASSUME AsksOk(asks), GhostsOk(history), P!AskRelease
  PROVE  AskingFor("release", "read", {})
<1>1. Admin \in P!Actors  BY DEF P!Actors
<1>2. [P!NoReq EXCEPT !.op = "release", !.pc = "read"] = Asked("release", "read", None, {}, {})
  <2>1. P!NoReq = Asked("none", "idle", None, {}, {})  BY DEF P!NoReq, Asked
  <2>2. [Asked("none", "idle", None, {}, {}) EXCEPT !.op = "release"]
          = Asked("release", "idle", None, {}, {})
    BY DEF Asked
  <2>3. [Asked("release", "idle", None, {}, {}) EXCEPT !.pc = "read"]
          = Asked("release", "read", None, {}, {})
    BY DEF Asked
  <2>4. [P!NoReq EXCEPT !.op = "release", !.pc = "read"]
          = [[P!NoReq EXCEPT !.op = "release"] EXCEPT !.pc = "read"]
    BY DEF P!NoReq
  <2> QED BY <2>1, <2>2, <2>3, <2>4
<1>3. Asked("release", "read", None, {}, {}) \in Requests  BY AskedFields DEF Ops, Steps
<1>4. With(asks, asks', Admin, Asked("release", "read", None, {}, {}))
  BY <1>1, <1>2, <1>3, Puts DEF AsksOk, P!AskRelease
<1>5. history' = [history EXCEPT !.asked = @ + 1]  BY DEF P!AskRelease
<1>6. /\ GhostsOk(history') /\ history'.overlap = history.overlap
      /\ history'.remade = history.remade /\ history'.refused = history.refused
  BY <1>5, OneMore
<1> QED BY <1>4, <1>6 DEF AskingFor, P!AskRelease, P!Busy

\* What AskRemove does.
LEMMA AskRemoveDoes ==
  ASSUME AsksOk(asks), GhostsOk(history), CtrsOk(ctrs), P!AskRemove
  PROVE  AskingFor("remove", "containers", ctrs.made)
<1>0. PICK made \in SUBSET (Services \cup P!Containers) : made = ctrs.made
  BY DEF CtrsOk, Made, P!Containers, Runtime
<1>1. Admin \in P!Actors  BY DEF P!Actors
<1>2. [P!NoReq EXCEPT !.op = "remove", !.pc = "containers", !.rows = made]
        = Asked("remove", "containers", None, {}, made)
  <2>1. P!NoReq = Asked("none", "idle", None, {}, {})  BY DEF P!NoReq, Asked
  <2>2. [Asked("none", "idle", None, {}, {}) EXCEPT !.op = "remove"]
          = Asked("remove", "idle", None, {}, {})
    BY DEF Asked
  <2>3. [Asked("remove", "idle", None, {}, {}) EXCEPT !.pc = "containers"]
          = Asked("remove", "containers", None, {}, {})
    BY DEF Asked
  <2>4. [Asked("remove", "containers", None, {}, {}) EXCEPT !.rows = made]
          = Asked("remove", "containers", None, {}, made)
    BY DEF Asked
  <2>5. [P!NoReq EXCEPT !.op = "remove", !.pc = "containers", !.rows = made]
          = [[[P!NoReq EXCEPT !.op = "remove"] EXCEPT !.pc = "containers"]
               EXCEPT !.rows = made]
    BY DEF P!NoReq
  <2> QED BY <2>1, <2>2, <2>3, <2>4, <2>5
<1>3. Asked("remove", "containers", None, {}, made) \in Requests
  BY AskedFields DEF Ops, Steps
<1>4. With(asks, asks', Admin, Asked("remove", "containers", None, {}, made))
  BY <1>0, <1>1, <1>2, <1>3, Puts DEF AsksOk, P!AskRemove
<1>5. history' = [history EXCEPT !.asked = @ + 1]  BY DEF P!AskRemove
<1>6. /\ GhostsOk(history') /\ history'.overlap = history.overlap
      /\ history'.remade = history.remade /\ history'.refused = history.refused
  BY <1>5, OneMore
<1> QED BY <1>0, <1>4, <1>6 DEF AskingFor, P!AskRemove, P!Busy

\* A request at one of its steps, which passes, is refused or done.
Passing(a, op) ==
  /\ asks[a].op = op /\ asks[a].pc = "read"
  /\ With(asks, asks', a, Advance(asks[a], "write"))
  /\ UNCHANGED <<project, deps, editor, release, releaseJob, ctrs, network, history>>

Refusing(a, op, pc) ==
  /\ asks[a].op = op /\ asks[a].pc = pc
  /\ Refused(asks, asks', editor, editor', a)
  /\ UNCHANGED <<project, deps, release, releaseJob, ctrs, network, history>>

Writing(a, op) ==
  /\ asks[a].op = op /\ asks[a].pc = "write"
  /\ Done(asks, asks', editor, editor', a)
  /\ UNCHANGED <<project, releaseJob, ctrs, network, history>>

\* What ReadPatch does.
LEMMA ReadPatchDoes ==
  ASSUME AsksOk(asks), NEW a \in P!Actors, P!ReadPatch(a)
  PROVE  \/ Passing(a, "patch") /\ P!ValidateDependencyChange(asks[a].svc, asks[a].deps)
         \/ Refusing(a, "patch", "read")
<1>1. CASE P!ValidateDependencyChange(asks[a].svc, asks[a].deps) /\ ~P!Active
  <2>1. asks' = [asks EXCEPT ![a].pc = "write"]  BY <1>1 DEF P!ReadPatch
  <2>2. With(asks, asks', a, Advance(asks[a], "write"))
    BY <2>1, Advances DEF AsksOk, Steps
  <2> QED BY <1>1, <2>2 DEF P!ReadPatch, P!At, Passing
<1>2. CASE ~(P!ValidateDependencyChange(asks[a].svc, asks[a].deps) /\ ~P!Active)
  <2>1. P!Refuse(a)  BY <1>2 DEF P!ReadPatch
  <2> QED BY <2>1, RefuseDoes DEF P!ReadPatch, P!At, Refusing
<1> QED BY <1>1, <1>2

\* What WritePatch does.
LEMMA WritePatchDoes ==
  ASSUME AsksOk(asks), NEW a \in P!Actors, P!WritePatch(a)
  PROVE  \/ /\ Writing(a, "patch") /\ UNCHANGED release
            /\ asks[a].svc \in DOMAIN deps /\ asks[a].deps \subseteq DOMAIN deps
            /\ deps' = [deps EXCEPT ![asks[a].svc] = asks[a].deps]
         \/ Refusing(a, "patch", "write")
<1>1. CASE asks[a].svc \in P!Present /\ asks[a].deps \subseteq P!Present
  <2>1. Done(asks, asks', editor, editor', a)  BY <1>1, DoneDoes DEF P!WritePatch
  <2> QED BY <1>1, <2>1 DEF P!WritePatch, P!At, Writing, P!Present
<1>2. CASE ~(asks[a].svc \in P!Present /\ asks[a].deps \subseteq P!Present)
  <2>1. P!Refuse(a)  BY <1>2 DEF P!WritePatch
  <2> QED BY <1>2, <2>1, RefuseDoes DEF P!WritePatch, P!At, Refusing
<1> QED BY <1>1, <1>2

\* What ReadAdd does.
LEMMA ReadAddDoes ==
  ASSUME AsksOk(asks), NEW a \in P!Actors, P!ReadAdd(a)
  PROVE  \/ Passing(a, "add") /\ asks[a].deps \subseteq Runtime
         \/ Refusing(a, "add", "read")
<1> DEFINE Accepted == /\ project = "live" /\ ~P!Active
                       /\ asks[a].svc \in P!ReleaseKind => \A s \in P!Present : s \in Runtime
                       /\ asks[a].deps \subseteq P!Present \cap Runtime
<1>1. CASE Accepted
  <2>1. asks' = [asks EXCEPT ![a].pc = "write"] /\ editor' = editor
    BY <1>1 DEF P!ReadAdd
  <2>2. With(asks, asks', a, Advance(asks[a], "write"))
    BY <2>1, Advances DEF AsksOk, Steps
  <2> QED BY <1>1, <2>1, <2>2 DEF P!ReadAdd, P!At, Passing
<1>2. CASE ~Accepted
  <2>1. P!Refuse(a)  BY <1>2 DEF P!ReadAdd
  <2> QED BY <2>1, RefuseDoes DEF P!ReadAdd, P!At, Refusing
<1> QED BY <1>1, <1>2

\* What WriteAdd does.
LEMMA WriteAddDoes ==
  ASSUME AsksOk(asks), NEW a \in P!Actors, P!WriteAdd(a)
  PROVE  \/ /\ Writing(a, "add") /\ UNCHANGED release
            /\ asks[a].svc \notin DOMAIN deps /\ asks[a].deps \subseteq DOMAIN deps
            /\ asks[a].svc \in Services \ Runtime => DOMAIN deps \subseteq Runtime
            /\ deps' = [t \in DOMAIN deps \cup {asks[a].svc} |->
                          IF t = asks[a].svc THEN asks[a].deps ELSE deps[t]]
         \/ Refusing(a, "add", "write")
<1> DEFINE Accepted == /\ project = "live" /\ asks[a].svc \notin P!Present
                       /\ asks[a].deps \subseteq P!Present
                       /\ asks[a].svc \in P!ReleaseKind => \A t \in P!Present : t \in Runtime
<1>1. CASE Accepted
  <2>1. /\ deps' = [t \in P!Present \cup {asks[a].svc} |->
                      IF t = asks[a].svc THEN asks[a].deps ELSE deps[t]]
        /\ P!Answer(a) /\ P!OtherWrite(a)
    BY <1>1 DEF P!WriteAdd
  <2>2. Done(asks, asks', editor, editor', a)  BY <2>1, DoneDoes
  <2> QED BY <1>1, <2>1, <2>2 DEF P!WriteAdd, P!At, Writing, P!Present, P!ReleaseKind
<1>2. CASE ~Accepted
  <2>1. P!Refuse(a) /\ UNCHANGED deps  BY <1>2 DEF P!WriteAdd
  <2> QED BY <2>1, RefuseDoes DEF P!WriteAdd, P!At, Refusing
<1> QED BY <1>1, <1>2

\* What ReadDelete does.
LEMMA ReadDeleteDoes ==
  ASSUME AsksOk(asks), P!ReadDelete(Admin)
  PROVE  \/ Passing(Admin, "delete") /\ Cardinality(DOMAIN deps) > 1
         \/ Refusing(Admin, "delete", "read")
<1>0. Admin \in P!Actors  BY DEF P!Actors
<1> DEFINE Accepted == /\ asks[Admin].svc \in P!Present /\ P!Cardinality(P!Present) > 1
                       /\ ~P!Active /\ P!Dependents(asks[Admin].svc) = {}
<1>1. CASE Accepted
  <2>1. asks' = [asks EXCEPT ![Admin].pc = "write"] /\ editor' = editor
    BY <1>1 DEF P!ReadDelete
  <2>2. With(asks, asks', Admin, Advance(asks[Admin], "write"))
    BY <1>0, <2>1, Advances DEF AsksOk, Steps
  <2>3. Cardinality(DOMAIN deps) > 1  BY <1>1 DEF P!Cardinality, Cardinality, P!Present
  <2> QED BY <2>1, <2>2, <2>3 DEF P!ReadDelete, P!At, Passing
<1>2. CASE ~Accepted
  <2>1. P!Refuse(Admin)  BY <1>2 DEF P!ReadDelete
  <2> QED BY <1>0, <2>1, RefuseDoes DEF P!ReadDelete, P!At, Refusing
<1> QED BY <1>1, <1>2

\* What WriteDelete does.
LEMMA WriteDeleteDoes ==
  ASSUME AsksOk(asks), RowOk(release), P!WriteDelete(Admin)
  PROVE  \/ /\ Writing(Admin, "delete")
            /\ asks[Admin].svc \in DOMAIN deps
            /\ \A t \in DOMAIN deps : asks[Admin].svc \notin deps[t]
            /\ deps' = [t \in DOMAIN deps \ {asks[Admin].svc} |-> deps[t]]
            /\ RowOk(release') /\ release'.status = release.status
            /\ release'.id = release.id
         \/ Refusing(Admin, "delete", "write")
<1>0. Admin \in P!Actors  BY DEF P!Actors
<1> DEFINE s == asks[Admin].svc
<1>1. CASE s \in P!Present /\ P!Dependents(s) = {}
  <2>1. /\ deps' = [t \in P!Present \ {s} |-> deps[t]]
        /\ release' = [release EXCEPT !.rows = @ \ {s}]
        /\ P!Answer(Admin) /\ P!OtherWrite(Admin)
    BY <1>1 DEF P!WriteDelete
  <2>2. Done(asks, asks', editor, editor', Admin)  BY <1>0, <2>1, DoneDoes
  <2>3. PICK rows : rows = release.rows \ {s}  OBVIOUS
  <2>4. release' = [id |-> release.id, status |-> release.status, rows |-> rows]
    BY <2>1, <2>3 DEF RowOk
  <2>5. RowOk(release') /\ release'.status = release.status /\ release'.id = release.id
    BY <2>3, <2>4 DEF RowOk
  <2> QED BY <1>1, <2>1, <2>2, <2>5
          DEF P!WriteDelete, P!At, Writing, P!Present, P!Dependents
<1>2. CASE ~(s \in P!Present /\ P!Dependents(s) = {})
  <2>1. P!Refuse(Admin) /\ UNCHANGED <<deps, release>>  BY <1>2 DEF P!WriteDelete
  <2> QED BY <1>0, <2>1, RefuseDoes DEF P!WriteDelete, P!At, Refusing
<1> QED BY <1>1, <1>2

\* The save asks for a service that is missing, without dependencies.
AskingMissing ==
  /\ editor.pc = "create" /\ ~editor.failed
  /\ \A a \in Services : asks[a].pc = "idle"
  /\ \E s \in DOMAIN editor.want :
       /\ editor' \in Saves /\ editor'.pc = "create" /\ editor'.want = editor.want
       /\ editor'.known = editor.known \cup {s} /\ ~editor'.failed
       /\ editor'.alone = editor.alone
       /\ With(asks, asks', s, Asked("add", "read", s, {}, {}))
       /\ Began(asks, history, history', s)
  /\ UNCHANGED <<project, deps, release, releaseJob, ctrs, network>>

\* What CreateMissing does.
LEMMA CreateMissingDoes ==
  ASSUME AsksOk(asks), GhostsOk(history), editor \in Saves, P!CreateMissing
  PROVE  \/ AskingMissing
         \/ /\ editor.pc = "create" /\ editor.failed
            /\ \A a \in Services : asks[a].pc = "idle"
            /\ editor' \in Saves /\ editor'.pc = "over" /\ editor'.failed
            /\ UNCHANGED <<project, deps, asks, release, releaseJob, ctrs, network, history>>
<1>1. /\ editor.pc = "create" /\ \A a \in Services : asks[a].pc = "idle"
      /\ UNCHANGED <<project, deps, release, releaseJob, ctrs, network>>
  BY DEF P!CreateMissing, P!EditorCalls, P!Busy
<1>2. CASE editor.failed
  <2>1. editor' = [editor EXCEPT !.pc = "over"] /\ UNCHANGED <<asks, history>>
    BY <1>2 DEF P!CreateMissing
  <2>2. editor' \in Saves /\ editor'.pc = "over" /\ editor'.failed
    BY <1>2, <2>1 DEF Saves
  <2> QED BY <1>1, <1>2, <2>1, <2>2
<1>3. CASE ~editor.failed
  <2>1. PICK s \in P!Missing :
          /\ editor' = [editor EXCEPT !.known = @ \cup {s}]
          /\ P!Begin(s, [P!NoReq EXCEPT !.op = "add", !.pc = "read", !.svc = s])
    BY <1>3 DEF P!CreateMissing
  <2>2. s \in DOMAIN editor.want /\ s \in Services /\ s \in P!Actors
    BY DraftFields DEF P!Missing, Saves, P!Actors
  <2>3. [P!NoReq EXCEPT !.op = "add", !.pc = "read", !.svc = s]
          = Asked("add", "read", s, {}, {})
    <3>1. P!NoReq = Asked("none", "idle", None, {}, {})  BY DEF P!NoReq, Asked
    <3>2. [Asked("none", "idle", None, {}, {}) EXCEPT !.op = "add"]
            = Asked("add", "idle", None, {}, {})
      BY DEF Asked
    <3>3. [Asked("add", "idle", None, {}, {}) EXCEPT !.pc = "read"]
            = Asked("add", "read", None, {}, {})
      BY DEF Asked
    <3>4. [Asked("add", "read", None, {}, {}) EXCEPT !.svc = s]
            = Asked("add", "read", s, {}, {})
      BY DEF Asked
    <3>5. [P!NoReq EXCEPT !.op = "add", !.pc = "read", !.svc = s]
            = [[[P!NoReq EXCEPT !.op = "add"] EXCEPT !.pc = "read"] EXCEPT !.svc = s]
      BY DEF P!NoReq
    <3> QED BY <3>1, <3>2, <3>3, <3>4, <3>5
  <2>4. Asked("add", "read", s, {}, {}) \in Requests  BY <2>2, AskedFields DEF Ops, Steps
  <2>5. /\ With(asks, asks', s, Asked("add", "read", s, {}, {}))
        /\ Began(asks, history, history', s)
    BY <2>1, <2>2, <2>3, <2>4, BeginDoes
  <2>6. PICK k \in SUBSET Services : k = editor.known \cup {s}  BY <2>2 DEF Saves
  <2>7. editor' = [editor EXCEPT !.known = k]  BY <2>1, <2>6
  <2>8. /\ editor' \in Saves /\ editor'.pc = editor.pc /\ editor'.want = editor.want
        /\ editor'.known = k /\ editor'.failed = editor.failed /\ editor'.alone = editor.alone
    BY <2>7 DEF Saves
  <2> QED BY <1>1, <1>3, <2>2, <2>5, <2>6, <2>8 DEF AskingMissing
<1> QED BY <1>2, <1>3

\* The save patches every service of its document at once.
Patched(f, g, want) ==
  /\ g \in [P!Actors -> Requests]
  /\ \A a \in DOMAIN want : g[a] = Asked("patch", "read", a, want[a], {})
  /\ \A a \in P!Actors \ DOMAIN want : g[a] = f[a]

\* What PatchServices does.
LEMMA PatchServicesDoes ==
  ASSUME AsksOk(asks), GhostsOk(history), editor \in Saves, P!PatchServices
  PROVE  /\ editor.pc = "create" /\ ~editor.failed /\ DOMAIN editor.want \subseteq editor.known
         /\ \A a \in Services : asks[a].pc = "idle"
         /\ editor' \in Saves /\ editor'.pc = "patch" /\ editor'.want = editor.want
         /\ editor'.failed = editor.failed /\ editor'.alone = editor.alone
         /\ Patched(asks, asks', editor.want)
         /\ GhostsOk(history') /\ history'.remade = history.remade
         /\ history'.refused = history.refused
         /\ ~history'.overlap => /\ ~history.overlap /\ ~Editing(asks[Admin])
                                 /\ Cardinality(DOMAIN editor.want) <= 1
         /\ UNCHANGED <<project, deps, release, releaseJob, ctrs, network>>
<1>1. /\ editor.pc = "create" /\ ~editor.failed /\ DOMAIN editor.want \subseteq editor.known
      /\ \A a \in Services : asks[a].pc = "idle"
      /\ UNCHANGED <<project, deps, release, releaseJob, ctrs, network>>
  BY DEF P!PatchServices, P!EditorCalls, P!Busy, P!Missing
<1>2. /\ editor' \in Saves /\ editor'.pc = "patch" /\ editor'.want = editor.want
      /\ editor'.failed = editor.failed /\ editor'.alone = editor.alone
  BY DEF P!PatchServices, Saves
<1>3. PICK want \in P!Drafts : want = editor.want  BY DEF Saves
<1>4. ASSUME NEW a
      PROVE  [P!NoReq EXCEPT !.op = "patch", !.pc = "read", !.svc = a, !.deps = want[a]]
               = Asked("patch", "read", a, want[a], {})
  <2>1. P!NoReq = Asked("none", "idle", None, {}, {})  BY DEF P!NoReq, Asked
  <2>2. [Asked("none", "idle", None, {}, {}) EXCEPT !.op = "patch"]
          = Asked("patch", "idle", None, {}, {})
    BY DEF Asked
  <2>3. [Asked("patch", "idle", None, {}, {}) EXCEPT !.pc = "read"]
          = Asked("patch", "read", None, {}, {})
    BY DEF Asked
  <2>4. [Asked("patch", "read", None, {}, {}) EXCEPT !.svc = a]
          = Asked("patch", "read", a, {}, {})
    BY DEF Asked
  <2>5. [Asked("patch", "read", a, {}, {}) EXCEPT !.deps = want[a]]
          = Asked("patch", "read", a, want[a], {})
    BY DEF Asked
  <2>6. [P!NoReq EXCEPT !.op = "patch", !.pc = "read", !.svc = a, !.deps = want[a]]
          = [[[[P!NoReq EXCEPT !.op = "patch"] EXCEPT !.pc = "read"] EXCEPT !.svc = a]
               EXCEPT !.deps = want[a]]
    BY DEF P!NoReq
  <2> QED BY <2>1, <2>2, <2>3, <2>4, <2>5, <2>6
<1>5. asks' = [a \in P!Actors |->
                 IF a \in DOMAIN want THEN Asked("patch", "read", a, want[a], {}) ELSE asks[a]]
  BY <1>3, <1>4 DEF P!PatchServices
<1>6. \A a \in DOMAIN want : a \in P!Actors /\ Asked("patch", "read", a, want[a], {}) \in Requests
  BY DraftFields, AskedFields DEF P!Actors, Ops, Steps
<1>7. Patched(asks, asks', want)  BY <1>5, <1>6 DEF Patched, AsksOk
<1>8. PICK n \in Nat : n = Cardinality(DOMAIN want)  BY DraftFields, FS_CardinalityType
<1>9. PICK o \in BOOLEAN : o = (history.overlap \/ n > 1 \/ Editing(asks[Admin]))  OBVIOUS
<1>10. P!Cardinality(DOMAIN editor.want) = n
  BY <1>3, <1>8 DEF P!Cardinality, Cardinality
<1>11. history' = [history EXCEPT !.overlap = o]
  BY <1>9, <1>10 DEF P!PatchServices, Editing
<1>12. /\ GhostsOk(history') /\ history'.remade = history.remade /\ history'.overlap = o
       /\ history'.refused = history.refused
  BY <1>11 DEF GhostsOk
<1>13. ~o => ~history.overlap /\ ~Editing(asks[Admin]) /\ n <= 1
  <2>1. n \in Nat  BY <1>8
  <2>2. ASSUME ~o PROVE ~history.overlap /\ ~(n > 1) /\ ~Editing(asks[Admin])
    BY <1>9, <2>2
  <2> QED BY <2>1, <2>2
<1> QED BY <1>1, <1>2, <1>3, <1>7, <1>8, <1>12, <1>13

\* What ReadRelease does.
LEMMA ReadReleaseDoes ==
  ASSUME AsksOk(asks), deps \in P!Drafts, P!ReadRelease
  PROVE  /\ asks[Admin].op = "release" /\ asks[Admin].pc = "read"
         /\ UNCHANGED <<project, deps, editor, release, releaseJob, ctrs, network, history>>
         /\ \/ With(asks, asks', Admin, P!NoReq)
            \/ /\ project = "live" /\ release.status \notin {"pending", "building", "deploying"}
               /\ \E r \in Requests : /\ With(asks, asks', Admin, r)
                                      /\ r.op = "release" /\ r.pc = "write"
<1>0. Admin \in P!Actors /\ asks[Admin] \in Requests  BY DEF P!Actors, AsksOk
<1>1. /\ asks[Admin].op = "release" /\ asks[Admin].pc = "read"
      /\ UNCHANGED <<project, deps, editor, release, releaseJob, ctrs, network, history>>
  BY DEF P!ReadRelease, P!At
<1>2. CASE P!Active \/ project # "live"
  <2>1. asks' = [asks EXCEPT ![Admin] = P!NoReq]  BY <1>2 DEF P!ReadRelease
  <2>2. With(asks, asks', Admin, P!NoReq)  BY <1>0, <2>1, Puts, NoReqFields DEF AsksOk
  <2> QED BY <1>1, <2>2
<1>3. CASE ~(P!Active \/ project # "live")
  <2>1. asks' = [asks EXCEPT ![Admin].pc = "write", ![Admin].rows = P!Present]
    BY <1>3 DEF P!ReadRelease
  <2>2. PICK rows \in SUBSET (Services \cup P!Containers) : rows = P!Present
    BY DraftFields DEF P!Present
  <2>3. PICK r0 : r0 = asks[Admin]  OBVIOUS
  <2>4. PICK rx \in Requests : rx = [r0 EXCEPT !.pc = "write"]
    BY <1>0, <2>3 DEF Requests, Steps
  <2>5. rx.op = r0.op /\ rx.pc = "write"  BY <1>0, <2>3, <2>4 DEF Requests
  <2>6. PICK ry \in Requests : ry = [rx EXCEPT !.rows = rows]  BY <2>4 DEF Requests
  <2>7. ry.op = "release" /\ ry.pc = "write"  BY <1>1, <2>3, <2>4, <2>5, <2>6 DEF Requests
  <2>8. asks' = [[asks EXCEPT ![Admin] = rx] EXCEPT ![Admin] = ry]
    <3>1. PICK f \in [P!Actors -> Requests] : f = [asks EXCEPT ![Admin] = rx]
      BY <1>0 DEF AsksOk
    <3>2. f[Admin] = rx  BY <1>0, <3>1 DEF AsksOk
    <3>3. asks' = [[asks EXCEPT ![Admin].pc = "write"] EXCEPT ![Admin].rows = rows]
      BY <2>1, <2>2
    <3>4. [asks EXCEPT ![Admin].pc = "write"] = f  BY <2>3, <2>4, <3>1
    <3>5. asks' = [f EXCEPT ![Admin].rows = rows]  BY <3>3, <3>4
    <3>6. [f EXCEPT ![Admin].rows = rows] = [f EXCEPT ![Admin] = ry]
      BY <2>6, <3>2
    <3> QED BY <3>1, <3>5, <3>6
  <2>9. asks' = [asks EXCEPT ![Admin] = ry]  BY <1>0, <2>8 DEF AsksOk
  <2>10. With(asks, asks', Admin, ry)  BY <1>0, <2>6, <2>9, Puts DEF AsksOk
  <2> QED BY <1>1, <1>3, <2>7, <2>10 DEF P!Active
<1> QED BY <1>2, <1>3

\* What WriteRelease does.
LEMMA WriteReleaseDoes ==
  ASSUME AsksOk(asks), JobOk(releaseJob), RowOk(release), deps \in P!Drafts, P!WriteRelease
  PROVE  /\ asks[Admin].op = "release" /\ asks[Admin].pc = "write"
         /\ With(asks, asks', Admin, P!NoReq)
         /\ UNCHANGED <<project, deps, editor, ctrs, network, history>>
         /\ \/ UNCHANGED <<release, releaseJob>>
            \/ /\ RowOk(release') /\ release'.status = "pending"
               /\ JobOk(releaseJob') /\ releaseJob'.pc = "queued"
<1>0. Admin \in P!Actors /\ asks[Admin] \in Requests  BY DEF P!Actors, AsksOk
<1>1. /\ asks[Admin].op = "release" /\ asks[Admin].pc = "write"
      /\ With(asks, asks', Admin, P!NoReq)
      /\ UNCHANGED <<project, deps, editor, ctrs, network, history>>
  BY <1>0, Answers DEF P!WriteRelease, P!At
<1>2. CASE asks[Admin].rows \subseteq P!Present
  <2>1. /\ release' = [id |-> release.id + 1, status |-> "pending", rows |-> asks[Admin].rows]
        /\ releaseJob' = [P!NoJob EXCEPT !.pc = "queued"]
    BY <1>2 DEF P!WriteRelease
  <2>2. RowOk(release') /\ release'.status = "pending"
    BY <1>2, <2>1, DraftFields DEF RowOk, P!Present
  <2>3. releaseJob' = [pc |-> "queued", seen |-> <<>>, order |-> <<>>, started |-> {}]
    BY <2>1 DEF P!NoJob
  <2>4. releaseJob' \in Jobs  BY <2>3, EmptyDraft DEF Jobs, JobSteps
  <2>5. JobOk(releaseJob') /\ releaseJob'.pc = "queued"  BY <2>3, <2>4 DEF JobOk
  <2> QED BY <1>1, <2>2, <2>5
<1>3. CASE ~(asks[Admin].rows \subseteq P!Present)
  BY <1>1, <1>3 DEF P!WriteRelease
<1> QED BY <1>2, <1>3

-----------------------------------------------------------------------------
(***************************************************************************)
(* What the worker and the deletion do.                                    *)
(***************************************************************************)
\* What the job and the deletion leave alone, the containers Docker refused to remove apart.
Kept ==
  /\ UNCHANGED <<project, deps, asks, editor, network>>
  /\ GhostsOk(history') /\ history'.overlap = history.overlap
  /\ history'.remade = history.remade

\* Of the containers c, some of which run in the end, ux, those in S are removed, but what
\* Docker refused.
ClearedOf(c, cx, h, hx, S, ux) ==
  /\ CtrsOk(cx) /\ GhostsOk(hx)
  /\ hx.overlap = h.overlap /\ hx.remade = h.remade /\ h.refused \subseteq hx.refused
  /\ cx.up \subseteq ux /\ \A x \in ux \ S : x \in cx.up
  /\ \A x \in cx.made : (x \in c.made /\ x \notin S) \/ x \in hx.refused
Cleared(S, ux) == ClearedOf(ctrs, ctrs', history, history', S, ux)

\* A removal of containers.
LEMMA RemovalDoes ==
  ASSUME CtrsOk(ctrs), GhostsOk(history), NEW S, NEW ux \in SUBSET Made,
         P!StopAndRemove(S, ux)
  PROVE  Cleared(S, ux)
<1>1. PICK stay \in SUBSET (S \cap ctrs.made), still \in SUBSET ux :
        /\ still \subseteq stay
        /\ ctrs' = [made |-> (ctrs.made \ S) \cup stay, up |-> (ux \ S) \cup still]
        /\ history' = [history EXCEPT !.refused = @ \cup stay]
  BY DEF P!StopAndRemove
<1>2. PICK mx \in SUBSET Made, rx \in SUBSET Made :
        mx = (ctrs.made \ S) \cup stay /\ rx = (ux \ S) \cup still
  BY DEF CtrsOk
<1>3. ctrs' = [made |-> mx, up |-> rx]  BY <1>1, <1>2
<1>4. CtrsOk(ctrs') /\ ctrs'.made = mx /\ ctrs'.up = rx  BY <1>3 DEF CtrsOk
<1>5. stay \subseteq P!Containers
  BY DEF CtrsOk, Made, P!Containers, Runtime
<1>6. PICK fx \in SUBSET P!Containers : fx = history.refused \cup stay
  BY <1>5 DEF GhostsOk
<1>7. history' = [history EXCEPT !.refused = fx]  BY <1>1, <1>6
<1>8. /\ GhostsOk(history') /\ history'.overlap = history.overlap
      /\ history'.remade = history.remade /\ history'.refused = fx
  BY <1>7 DEF GhostsOk
<1> QED BY <1>2, <1>4, <1>6, <1>8 DEF Cleared, ClearedOf

\* The job is over and its candidates are removed, of the containers that run in the end.
FailingFrom(ux) ==
  /\ ctrs.up \subseteq ux
  /\ ux = ctrs.up \/ (network /\ releaseJob.pc = "start")
  /\ Cleared(P!Candidates, ux)
Failing ==
  /\ releaseJob' = P!NoJob /\ RowOk(release') /\ release'.id = release.id
  /\ \E ux \in SUBSET Made : FailingFrom(ux)

\* No job is a well formed job.
LEMMA NoJobOk == JobOk(P!NoJob) /\ P!NoJob.pc = "none"
<1>1. P!NoJob = [pc |-> "none", seen |-> <<>>, order |-> <<>>, started |-> {}]
  BY DEF P!NoJob
<1>2. P!NoJob \in Jobs  BY <1>1, EmptyDraft DEF Jobs, JobSteps
<1> QED BY <1>1, <1>2 DEF JobOk

\* The status of the row of a release changes.
LEMMA StatusOk ==
  ASSUME NEW r, RowOk(r),
         NEW st \in {"none", "pending", "building", "deploying", "success", "failed"}, NEW rx,
         rx = [r EXCEPT !.status = st]
  PROVE  RowOk(rx) /\ rx.status = st /\ rx.id = r.id
<1>1. rx = [id |-> r.id, status |-> st, rows |-> r.rows]  BY DEF RowOk
<1> QED BY <1>1 DEF RowOk

\* What the failure of the job does.
LEMMA JobFailsDoes ==
  ASSUME RowOk(release), CtrsOk(ctrs), GhostsOk(history), NEW ux \in SUBSET Made,
         ctrs.up \subseteq ux, ux = ctrs.up \/ (network /\ releaseJob.pc = "start"),
         P!JobFails(ux), UNCHANGED <<project, deps, asks, editor, network>>
  PROVE  Failing /\ Kept
<1>1. RowOk(release') /\ release'.id = release.id
  <2>1. CASE project = "live"
    <3>1. release' = [release EXCEPT !.status = "failed"]  BY <2>1 DEF P!JobFails
    <3> QED BY <3>1, StatusOk
  <2>2. CASE project # "live"  BY <2>2 DEF P!JobFails
  <2> QED BY <2>1, <2>2
<1>2. Cleared(P!Candidates, ux)
  <2>1. P!StopAndRemove(P!Candidates, ux)  BY DEF P!JobFails
  <2> QED BY <2>1, RemovalDoes
<1>3. FailingFrom(ux)  BY <1>2 DEF FailingFrom
<1>4. Failing  BY <1>1, <1>3 DEF P!JobFails, Failing
<1>5. Kept  BY <1>2 DEF Kept, Cleared, ClearedOf
<1> QED BY <1>4, <1>5

\* The containers that run do not change before candidates are started.
LEMMA JobFailsEarly ==
  ASSUME RowOk(release), CtrsOk(ctrs), GhostsOk(history), P!JobFails(ctrs.up),
         UNCHANGED <<project, deps, asks, editor, network>>
  PROVE  Failing /\ Kept
<1>1. PICK ux \in SUBSET Made : ux = ctrs.up  BY DEF CtrsOk
<1>2. P!JobFails(ux)  BY <1>1
<1> QED BY <1>1, <1>2, JobFailsDoes

\* The job goes to another step.
LEMMA JobAt ==
  ASSUME NEW j \in Jobs, NEW pc \in JobSteps, NEW k, k = [j EXCEPT !.pc = pc]
  PROVE  k \in Jobs /\ k.pc = pc /\ k.seen = j.seen /\ k.order = j.order /\ k.started = j.started
BY DEF Jobs

\* What TakeJob does.
LEMMA TakeJobDoes ==
  ASSUME DepsOk(deps), RowOk(release), CtrsOk(ctrs), GhostsOk(history), P!TakeJob
  PROVE  /\ releaseJob.pc = "queued"
         /\ Kept
         /\ \/ Failing
            \/ /\ project = "live" /\ JobOk(releaseJob') /\ releaseJob'.pc = "build"
               /\ RowOk(release') /\ release'.status = "building"
               /\ release'.id = release.id /\ UNCHANGED <<ctrs, history>>
<1>1. /\ releaseJob.pc = "queued"
      /\ UNCHANGED <<project, deps, asks, editor, network>>
  BY DEF P!TakeJob
<1>2. CASE project = "live"
  <2>1. /\ releaseJob' = [P!NoJob EXCEPT !.pc = "build", !.seen = deps]
        /\ release' = [release EXCEPT !.status = "building"] /\ UNCHANGED <<ctrs, history>>
    BY <1>2 DEF P!TakeJob
  <2>2. releaseJob' = [pc |-> "build", seen |-> deps, order |-> <<>>, started |-> {}]
    BY <2>1 DEF P!NoJob
  <2>3. releaseJob' \in Jobs  BY <2>2 DEF Jobs, JobSteps, DepsOk
  <2>4. JobOk(releaseJob') /\ releaseJob'.pc = "build"
    BY <2>2, <2>3 DEF JobOk, DepsOk
  <2>5. RowOk(release') /\ release'.id = release.id /\ release'.status = "building"
    BY <2>1, StatusOk
  <2> QED BY <1>1, <1>2, <2>1, <2>4, <2>5 DEF Kept
<1>3. CASE project # "live"
  <2>1. P!JobFails(ctrs.up)  BY <1>3 DEF P!TakeJob
  <2> QED BY <1>1, <2>1, JobFailsEarly
<1> QED BY <1>2, <1>3

\* What BuildServices does.
LEMMA BuildServicesDoes ==
  ASSUME JobOk(releaseJob), RowOk(release), CtrsOk(ctrs), GhostsOk(history), P!BuildServices
  PROVE  /\ releaseJob.pc = "build"
         /\ Kept
         /\ \/ Failing
            \/ /\ JobOk(releaseJob') /\ releaseJob'.pc = "network"
               /\ UNCHANGED <<ctrs, release, history>>
<1>1. /\ releaseJob.pc = "build"
      /\ UNCHANGED <<project, deps, asks, editor, network>>
  BY DEF P!BuildServices
<1>2. CASE \A s \in DOMAIN releaseJob.seen : P!RowExists(s)
  <2>1. releaseJob' = [releaseJob EXCEPT !.pc = "network"] /\ UNCHANGED <<ctrs, release, history>>
    BY <1>2 DEF P!BuildServices
  <2>2. /\ releaseJob' \in Jobs /\ releaseJob'.pc = "network"
        /\ releaseJob'.seen = releaseJob.seen /\ releaseJob'.started = releaseJob.started
    BY <2>1, JobAt DEF JobOk, JobSteps
  <2> QED BY <1>1, <2>1, <2>2 DEF JobOk, Kept
<1>3. CASE ~(\A s \in DOMAIN releaseJob.seen : P!RowExists(s))
  <2>1. P!JobFails(ctrs.up)  BY <1>3 DEF P!BuildServices
  <2> QED BY <1>1, <2>1, JobFailsEarly
<1> QED BY <1>2, <1>3

\* What EnsureNetwork does.
LEMMA EnsureNetworkDoes ==
  ASSUME JobOk(releaseJob), GhostsOk(history), P!EnsureProjectNetwork
  PROVE  /\ releaseJob.pc = "network" /\ network' = TRUE
         /\ JobOk(releaseJob') /\ releaseJob'.pc = "deploying"
         /\ GhostsOk(history') /\ history'.overlap = history.overlap
         /\ history'.refused = history.refused /\ (history.remade => history'.remade)
         /\ asks[Admin].op = "remove" /\ asks[Admin].pc = "row" => history'.remade
         /\ UNCHANGED <<project, deps, asks, editor, release, ctrs>>
<1>1. /\ releaseJob.pc = "network" /\ network' = TRUE
      /\ releaseJob' = [releaseJob EXCEPT !.pc = "deploying"]
      /\ history' = [history EXCEPT !.remade = @ \/ P!At(Admin, "remove", "row")]
      /\ UNCHANGED <<project, deps, asks, editor, release, ctrs>>
  BY DEF P!EnsureProjectNetwork
<1>2. /\ releaseJob' \in Jobs /\ releaseJob'.pc = "deploying"
      /\ releaseJob'.seen = releaseJob.seen /\ releaseJob'.started = releaseJob.started
  BY <1>1, JobAt DEF JobOk, JobSteps
<1>3. JobOk(releaseJob')  BY <1>1, <1>2 DEF JobOk
<1>4. PICK m \in BOOLEAN : m = (history.remade \/ P!At(Admin, "remove", "row"))  OBVIOUS
<1>5. history' = [history EXCEPT !.remade = m]  BY <1>1, <1>4
<1>6. /\ GhostsOk(history') /\ history'.overlap = history.overlap /\ history'.remade = m
      /\ history'.refused = history.refused
  BY <1>5 DEF GhostsOk
<1>7. /\ history.remade => m
      /\ asks[Admin].op = "remove" /\ asks[Admin].pc = "row" => m
  BY <1>4 DEF P!At
<1> QED BY <1>1, <1>2, <1>3, <1>6, <1>7

\* What MarkDeploying does.
LEMMA MarkDeployingDoes ==
  ASSUME JobOk(releaseJob), RowOk(release), CtrsOk(ctrs), GhostsOk(history), P!MarkDeploying
  PROVE  /\ releaseJob.pc = "deploying"
         /\ Kept
         /\ \/ Failing
            \/ /\ project = "live" /\ JobOk(releaseJob') /\ releaseJob'.pc = "create"
               /\ RowOk(release') /\ release'.status = "deploying"
               /\ release'.id = release.id /\ UNCHANGED <<ctrs, history>>
<1>1. /\ releaseJob.pc = "deploying"
      /\ UNCHANGED <<project, deps, asks, editor, network>>
  BY DEF P!MarkDeploying
<1> DEFINE Rows == \A s \in DOMAIN releaseJob.seen \cap P!ReleaseKind : P!RowExists(s)
<1>2. CASE project = "live" /\ Rows
  <2>1. /\ release' = [release EXCEPT !.status = "deploying"]
        /\ releaseJob' = [releaseJob EXCEPT !.pc = "create"] /\ UNCHANGED <<ctrs, history>>
    BY <1>2 DEF P!MarkDeploying
  <2>2. /\ releaseJob' \in Jobs /\ releaseJob'.pc = "create"
        /\ releaseJob'.seen = releaseJob.seen /\ releaseJob'.started = releaseJob.started
    BY <2>1, JobAt DEF JobOk, JobSteps
  <2>3. JobOk(releaseJob')  BY <1>1, <2>2 DEF JobOk
  <2>4. RowOk(release') /\ release'.id = release.id /\ release'.status = "deploying"
    BY <2>1, StatusOk
  <2> QED BY <1>1, <1>2, <2>1, <2>2, <2>3, <2>4 DEF Kept
<1>3. CASE ~(project = "live" /\ Rows)
  <2>1. P!JobFails(ctrs.up)  BY <1>3 DEF P!MarkDeploying
  <2> QED BY <1>1, <2>1, JobFailsEarly
<1> QED BY <1>2, <1>3

RuntimeOf(j) == DOMAIN j.seen \cap Runtime

\* The order that is left, after the services that have started, covers the project with
\* each service after what it depends on.
Ordered(j) ==
  j.pc = "start" =>
    /\ P!Acyclic(j.seen)
    /\ \A s \in j.started : s \in RuntimeOf(j) /\ j.seen[s] \subseteq j.started
    /\ \A i \in 1..Len(j.order) :
         /\ j.order[i] \in RuntimeOf(j)
         /\ \A d \in j.seen[j.order[i]] :
              d \in j.started \/ \E k \in 1..Len(j.order) : k < i /\ j.order[k] = d
    /\ \A s \in RuntimeOf(j) : s \in j.started \/ \E k \in 1..Len(j.order) : j.order[k] = s

\* What CreateCandidates does.
LEMMA CreateCandidatesDoes ==
  ASSUME JobOk(releaseJob), RowOk(release), CtrsOk(ctrs), GhostsOk(history), P!CreateCandidates
  PROVE  /\ releaseJob.pc = "create"
         /\ Kept
         /\ \/ Failing
            \/ /\ \E s \in RuntimeOf(releaseJob) :
                    CtrsOk(ctrs') /\ ctrs'.made = ctrs.made \cup {<<release.id, s>>}
               /\ ctrs'.up = ctrs.up /\ UNCHANGED <<releaseJob, release, history>>
            \/ /\ P!OrderRuntimeServices(releaseJob.seen).ok
               /\ releaseJob' = [releaseJob EXCEPT !.pc = "start",
                                   !.order = P!OrderRuntimeServices(releaseJob.seen).order]
               /\ UNCHANGED <<ctrs, release, history>>
<1>1. /\ releaseJob.pc = "create"
      /\ UNCHANGED <<project, deps, asks, editor, network>>
  BY DEF P!CreateCandidates
<1>2. PICK todo : todo = {s \in DOMAIN releaseJob.seen \cap Runtime :
                            <<release.id, s>> \notin ctrs.made}
  OBVIOUS
<1>3. PICK plan : plan = P!OrderRuntimeServices(releaseJob.seen)  OBVIOUS
<1>4. CASE todo # {}
  <2>1. PICK s \in todo :
          IF P!RowExists(s)
          THEN /\ ctrs' = [ctrs EXCEPT !.made = @ \cup {<<release.id, s>>}]
               /\ UNCHANGED <<releaseJob, release, history>>
          ELSE P!JobFails(ctrs.up)
    BY <1>2, <1>4 DEF P!CreateCandidates
  <2>2. CASE P!RowExists(s)
    <3>1. s \in RuntimeOf(releaseJob)  BY <1>2, <2>1 DEF RuntimeOf
    <3>2. PICK mx \in SUBSET Made : mx = ctrs.made \cup {<<release.id, s>>}
      <4>1. <<release.id, s>> \in Made  BY <3>1 DEF Made, RowOk, RuntimeOf
      <4> QED BY <4>1 DEF CtrsOk
    <3>3. ctrs' = [ctrs EXCEPT !.made = mx] /\ UNCHANGED <<releaseJob, release, history>>
      BY <2>1, <2>2, <3>2
    <3>4. CtrsOk(ctrs') /\ ctrs'.made = mx /\ ctrs'.up = ctrs.up  BY <3>3 DEF CtrsOk
    <3> QED BY <1>1, <3>1, <3>2, <3>3, <3>4 DEF Kept
  <2>3. CASE ~P!RowExists(s)  BY <1>1, <2>1, <2>3, JobFailsEarly
  <2> QED BY <2>2, <2>3
<1>5. CASE todo = {} /\ plan.ok
  <2>1. /\ releaseJob' = [releaseJob EXCEPT !.pc = "start", !.order = plan.order]
        /\ UNCHANGED <<ctrs, release, history>>
    BY <1>2, <1>3, <1>5 DEF P!CreateCandidates
  <2> QED BY <1>1, <1>3, <1>5, <2>1 DEF Kept
<1>6. CASE todo = {} /\ ~plan.ok
  <2>1. P!JobFails(ctrs.up)  BY <1>2, <1>3, <1>6 DEF P!CreateCandidates
  <2> QED BY <1>1, <2>1, JobFailsEarly
<1> QED BY <1>4, <1>5, <1>6

\* What StartCandidate does.
LEMMA StartCandidateDoes ==
  ASSUME JobOk(releaseJob), RowOk(release), CtrsOk(ctrs), GhostsOk(history), P!StartCandidate
  PROVE  /\ releaseJob.pc = "start" /\ releaseJob.order # <<>>
         /\ Kept
         /\ \/ Failing
            \/ /\ network \/ ctrs'.up = ctrs.up
               /\ releaseJob' = [releaseJob EXCEPT !.order = Tail(releaseJob.order),
                                   !.started = releaseJob.started \cup {Head(releaseJob.order)}]
               /\ CtrsOk(ctrs') /\ ctrs'.made = ctrs.made
               /\ ctrs'.up = ctrs.up \cup {<<release.id, Head(releaseJob.order)>>}
               /\ UNCHANGED <<release, history>>
<1>1. /\ releaseJob.pc = "start" /\ releaseJob.order # <<>>
      /\ UNCHANGED <<project, deps, asks, editor, network>>
  BY DEF P!StartCandidate
<1>2. PICK s : s = Head(releaseJob.order)  OBVIOUS
<1>3. PICK c : c = <<release.id, s>>  OBVIOUS
<1>4. PICK up : up = IF network /\ c \in ctrs.made THEN ctrs.up \cup {c} ELSE ctrs.up
  OBVIOUS
<1>5. PICK k : k = [releaseJob EXCEPT !.order = Tail(@), !.started = @ \cup {s}]  OBVIOUS
<1>6. up \in SUBSET Made /\ ctrs.up \subseteq up /\ (up = ctrs.up \/ network)
  BY <1>4 DEF CtrsOk
<1>7. IF c \in up /\ P!RowExists(s)
      THEN releaseJob' = k /\ ctrs' = [ctrs EXCEPT !.up = up] /\ UNCHANGED <<release, history>>
      ELSE P!JobFails(up)
  BY <1>2, <1>3, <1>4, <1>5 DEF P!StartCandidate
<1>8. CASE ~(c \in up /\ P!RowExists(s))
  <2>1. P!JobFails(up)  BY <1>7, <1>8
  <2> QED BY <1>1, <1>6, <2>1, JobFailsDoes
<1>9. CASE c \in up /\ P!RowExists(s)
  <2>1. /\ ctrs' = [ctrs EXCEPT !.up = up] /\ UNCHANGED <<release, history>>
        /\ releaseJob' = [releaseJob EXCEPT !.order = Tail(releaseJob.order),
                                            !.started = releaseJob.started \cup {s}]
    BY <1>5, <1>7, <1>9
  <2>2. CtrsOk(ctrs') /\ ctrs'.made = ctrs.made /\ ctrs'.up = up
    BY <1>6, <2>1 DEF CtrsOk
  <2>3. up = ctrs.up \cup {c}  BY <1>4, <1>9
  <2> QED BY <1>1, <1>2, <1>3, <1>6, <2>1, <2>2, <2>3 DEF Kept
<1> QED BY <1>8, <1>9

\* What CommitRelease does.
LEMMA CommitReleaseDoes ==
  ASSUME RowOk(release), CtrsOk(ctrs), GhostsOk(history), P!CommitRelease
  PROVE  /\ releaseJob.pc = "start" /\ releaseJob.order = <<>>
         /\ releaseJob' = P!NoJob /\ RowOk(release') /\ release'.id = release.id
         /\ Kept /\ Cleared(ctrs.made \ P!Candidates, ctrs.up)
<1>1. /\ releaseJob.pc = "start" /\ releaseJob.order = <<>> /\ releaseJob' = P!NoJob
      /\ UNCHANGED <<project, deps, asks, editor, network>>
  BY DEF P!CommitRelease
<1>2. RowOk(release') /\ release'.id = release.id
  <2>1. CASE project = "live"
    <3>1. release' = [release EXCEPT !.status = "success"]  BY <2>1 DEF P!CommitRelease
    <3> QED BY <3>1, StatusOk
  <2>2. CASE project # "live"  BY <2>2 DEF P!CommitRelease
  <2> QED BY <2>1, <2>2
<1>3. Cleared(ctrs.made \ P!Candidates, ctrs.up)
  <2>1. PICK ux \in SUBSET Made : ux = ctrs.up  BY DEF CtrsOk
  <2>2. P!StopAndRemove(ctrs.made \ P!Candidates, ux)  BY <2>1 DEF P!CommitRelease
  <2>3. Cleared(ctrs.made \ P!Candidates, ux)  BY <2>2, RemovalDoes
  <2> QED BY <2>1, <2>3
<1>4. Kept  BY <1>1, <1>3 DEF Kept, Cleared, ClearedOf
<1> QED BY <1>1, <1>2, <1>3, <1>4

\* A step of the deletion.
Removing(pc) == asks[Admin].op = "remove" /\ asks[Admin].pc = pc

\* What RemoveContainers does.
LEMMA RemoveContainersDoes ==
  ASSUME AsksOk(asks), CtrsOk(ctrs), GhostsOk(history), P!RemoveContainers
  PROVE  /\ Removing("containers")
         /\ With(asks, asks', Admin, Advance(asks[Admin], "network"))
         /\ Cleared(asks[Admin].rows, ctrs.up)
         /\ UNCHANGED <<project, deps, editor, release, releaseJob, network>>
         /\ GhostsOk(history') /\ history'.overlap = history.overlap
<1>1. Admin \in P!Actors  BY DEF P!Actors
<1>2. With(asks, asks', Admin, Advance(asks[Admin], "network"))
  BY <1>1, Advances DEF AsksOk, Steps, P!RemoveContainers
<1>3. Cleared(asks[Admin].rows, ctrs.up)
  <2>1. PICK ux \in SUBSET Made : ux = ctrs.up  BY DEF CtrsOk
  <2>2. P!StopAndRemove(asks[Admin].rows, ux)  BY <2>1 DEF P!RemoveContainers
  <2>3. Cleared(asks[Admin].rows, ux)  BY <2>2, RemovalDoes
  <2> QED BY <2>1, <2>3
<1> QED BY <1>2, <1>3 DEF P!RemoveContainers, P!At, Removing, Cleared, ClearedOf

\* What RemoveNetwork does.
LEMMA RemoveNetworkDoes ==
  ASSUME AsksOk(asks), P!RemoveNetwork
  PROVE  /\ Removing("network")
         /\ UNCHANGED <<project, deps, editor, release, releaseJob, ctrs, history>>
         /\ \/ With(asks, asks', Admin, P!NoReq) /\ UNCHANGED network
            \/ /\ ~network \/ ctrs.up = {}
               /\ network' = FALSE /\ With(asks, asks', Admin, Advance(asks[Admin], "row"))
<1>1. Admin \in P!Actors  BY DEF P!Actors
<1>2. CASE network /\ ctrs.up # {}
  <2>1. P!Answer(Admin) /\ UNCHANGED network  BY <1>2 DEF P!RemoveNetwork
  <2> QED BY <1>1, <2>1, Answers DEF P!RemoveNetwork, P!At, Removing
<1>3. CASE ~(network /\ ctrs.up # {})
  <2>1. network' = FALSE /\ asks' = [asks EXCEPT ![Admin].pc = "row"]
    BY <1>3 DEF P!RemoveNetwork
  <2>2. With(asks, asks', Admin, Advance(asks[Admin], "row"))
    BY <1>1, <2>1, Advances DEF AsksOk, Steps
  <2> QED BY <1>3, <2>1, <2>2 DEF P!RemoveNetwork, P!At, Removing
<1> QED BY <1>2, <1>3

\* What RowRestricted does.
LEMMA RowRestrictedDoes ==
  ASSUME AsksOk(asks), P!RowRestricted
  PROVE  /\ Removing("row") /\ With(asks, asks', Admin, P!NoReq)
         /\ UNCHANGED <<project, deps, editor, release, releaseJob, ctrs, network, history>>
<1>1. Admin \in P!Actors  BY DEF P!Actors
<1> QED BY <1>1, Answers DEF P!RowRestricted, P!At, Removing

\* What RemoveRow does.
LEMMA RemoveRowDoes ==
  ASSUME AsksOk(asks), RowOk(release), P!RemoveRow
  PROVE  /\ Removing("row") /\ With(asks, asks', Admin, P!NoReq)
         /\ project' = "gone" /\ deps' = <<>> /\ editor' = SharedSave(editor)
         /\ RowOk(release') /\ release'.status = release.status /\ release'.id = release.id
         /\ UNCHANGED <<releaseJob, ctrs, network, history>>
<1>1. Admin \in P!Actors  BY DEF P!Actors
<1>2. release' = [release EXCEPT !.rows = {}]  BY DEF P!RemoveRow
<1>3. release' = [id |-> release.id, status |-> release.status, rows |-> {}]
  BY <1>2 DEF RowOk
<1>4. RowOk(release') /\ release'.status = release.status /\ release'.id = release.id
  BY <1>3 DEF RowOk
<1> QED BY <1>1, <1>4, Answers DEF P!RemoveRow, P!At, Removing, SharedSave

-----------------------------------------------------------------------------
(***************************************************************************)
(* Every step keeps the shape.                                             *)
(***************************************************************************)
LEMMA DocumentOk ==
  ASSUME NEW d \in P!Documents
  PROVE  /\ DepsOk(d) /\ DOMAIN d # {} /\ Cardinality(DOMAIN d \ Runtime) <= 1
         /\ ~P!Search(d).cycle
<1>1. d \in P!Drafts /\ P!Document(d)  BY DEF P!Documents
<1>2. \A s \in DOMAIN d : d[s] \subseteq (DOMAIN d \cap Runtime) \ {s}
                          /\ (s \in P!ReleaseKind => d[s] = {})
  BY <1>1 DEF P!Document
<1>3. DOMAIN d \subseteq Services  BY <1>1, DraftFields
<1>4. Edges(d)  BY <1>2, <1>3 DEF Edges, P!ReleaseKind
<1>5. DOMAIN d # {}
  <2>1. SUFFICES ASSUME DOMAIN d = {} PROVE d = <<>>
    BY <1>1 DEF P!Document
  <2>2. d \in [{} -> SUBSET Runtime]  BY <1>1, <2>1 DEF P!Drafts
  <2> QED BY <2>2
<1>6. {s \in DOMAIN d : s \in P!ReleaseKind} = DOMAIN d \ Runtime
  BY <1>3 DEF P!ReleaseKind
<1>7. Cardinality(DOMAIN d \ Runtime) <= 1
  BY <1>1, <1>6 DEF P!Document, P!Cardinality, Cardinality
<1> QED BY <1>1, <1>4, <1>5, <1>7 DEF DepsOk, P!Document

\* What opening the editor does.
LEMMA OpenEditorDoes ==
  ASSUME GhostsOk(history), DepsOk(deps), P!OpenEditor
  PROVE  /\ project = "live" /\ editor.pc = "closed"
         /\ editor' \in Saves /\ editor'.pc = "project" /\ editor'.known = DOMAIN deps
         /\ GhostsOk(history') /\ history'.overlap = history.overlap
         /\ history'.remade = history.remade /\ history'.refused = history.refused
         /\ UNCHANGED <<project, deps, asks, release, releaseJob, ctrs, network>>
<1>1. PICK d \in P!Documents \cup P!Forms :
        editor' = [pc |-> "project", want |-> d, known |-> P!Present, failed |-> FALSE,
                   alone |-> ~P!Busy(Admin)]
  BY DEF P!OpenEditor
<1>2. DOMAIN deps \in SUBSET Services  BY DraftFields DEF DepsOk
<1>3. d \in P!Drafts
  <2>1. CASE d \in P!Documents  BY <2>1 DEF P!Documents
  <2>2. CASE d \in P!Forms  BY <1>2, <2>2 DEF P!Forms, P!Drafts, P!Present
  <2> QED BY <1>1, <2>1, <2>2
<1>4. editor' \in Saves /\ editor'.pc = "project" /\ editor'.known = DOMAIN deps
  BY <1>1, <1>2, <1>3 DEF Saves, P!Present, P!Busy
<1>5. history' = [history EXCEPT !.asked = @ + 1]  BY DEF P!OpenEditor
<1> QED BY <1>4, <1>5, OneMore DEF P!OpenEditor

\* What the steps of the save on its own do.
LEMMA EditorMoves ==
  ASSUME editor \in Saves, P!PatchProject \/ P!EndSave \/ P!CloseEditor
  PROVE  /\ editor.pc # "closed" /\ editor' \in Saves
         /\ UNCHANGED <<project, deps, asks, release, releaseJob, ctrs, network, history>>
<1>1. CASE P!PatchProject
  <2>1. editor' \in Saves  BY <1>1 DEF P!PatchProject, Saves
  <2> QED BY <1>1, <2>1 DEF P!PatchProject
<1>2. CASE P!EndSave
  <2>1. editor' \in Saves  BY <1>2 DEF P!EndSave, Saves
  <2> QED BY <1>2, <2>1 DEF P!EndSave
<1>3. CASE P!CloseEditor
  <2>1. editor' = P!NoSave  BY <1>3 DEF P!CloseEditor
  <2>2. editor' \in Saves  BY <2>1, EmptyDraft DEF P!NoSave, Saves
  <2> QED BY <1>3, <2>2 DEF P!CloseEditor
<1> QED BY <1>1, <1>2, <1>3

\* Once a project is created, requests do not disturb its phase.
LEMMA PhaseLive ==
  ASSUME NEW p \in {"live", "gone"}, NEW f, NEW e, NEW r, NEW j, PhaseOk(p, f, e, r, j),
         NEW g, NEW e1, NEW rx, rx.status = r.status,
         g[Admin] = f[Admin] \/ g[Admin].op # "release" \/ g[Admin].pc # "write"
  PROVE  PhaseOk(p, g, e1, rx, j)
BY DEF PhaseOk

\* A step of the requests and of the save, all else being as it was.
LEMMA ShapeAsks ==
  ASSUME Shape, project # "none", AsksOk(asks'), editor' \in Saves, GhostsOk(history'),
         DepsOk(deps'), RowOk(release'), release'.status = release.status,
         CtrsOk(ctrs'), network' \in BOOLEAN, UNCHANGED <<project, releaseJob>>,
         asks'[Admin] = asks[Admin] \/ asks'[Admin].op # "release" \/ asks'[Admin].pc # "write"
  PROVE  ShapeNext
<1>1. project \in {"live", "gone"}  BY DEF Shape, ShapeOf, PhaseOk
<1>2. PhaseOk(project, asks, editor, release, releaseJob)  BY DEF Shape, ShapeOf
<1>3. PhaseOk(project, asks', editor', release', releaseJob)
  BY <1>1, <1>2, PhaseLive
<1>4. PhaseOk(project', asks', editor', release', releaseJob')  BY <1>3
<1> QED BY <1>4 DEF Shape, ShapeOf, ShapeNext

\* Only a project that was created has requests.
LEMMA BusyLive ==
  ASSUME Shape, NEW a \in P!Actors, asks[a].op # "none"
  PROVE  project # "none" /\ asks[a].pc # "idle"
BY DEF Shape, ShapeOf, PhaseOk, AsksOk, RequestOk

\* A check that passes.
LEMMA ShapePassing ==
  ASSUME Shape, NEW a \in P!Actors, NEW op \in {"patch", "add", "delete"}, Passing(a, op),
         op # "delete" => /\ asks[a].deps \subseteq Runtime
                          /\ asks[a].svc \notin Runtime => asks[a].deps = {}
  PROVE  ShapeNext
<1>1. AsksOk(asks) /\ RequestOk(a, asks[a]) /\ asks[a] \in Requests
  BY DEF Shape, ShapeOf, AsksOk
<1>2. PICK r : r = Advance(asks[a], "write")  OBVIOUS
<1>3. /\ r \in Requests /\ r.pc = "write" /\ r.op = op
      /\ r.svc = asks[a].svc /\ r.deps = asks[a].deps
  BY <1>1, <1>2, AdvanceFields DEF Passing, Steps
<1>4. RequestOk(a, r)  BY <1>1, <1>3 DEF RequestOk, Editing, Passing
<1>5. With(asks, asks', a, r)  BY <1>2 DEF Passing
<1>6. AsksOk(asks')  BY <1>1, <1>4, <1>5, AsksWith
<1>7. project # "none"  BY BusyLive DEF Passing
<1>8. asks'[Admin] = asks[Admin] \/ asks'[Admin].op # "release"
  <2>1. Admin \in P!Actors  BY DEF P!Actors
  <2> QED BY <1>3, <1>5, <2>1 DEF With
<1> QED BY <1>6, <1>7, <1>8, ShapeAsks DEF Passing, Shape, ShapeOf

\* An answer keeps the requests well formed.
LEMMA NoReqKeeps ==
  ASSUME AsksOk(asks), NEW a \in P!Actors, With(asks, asks', a, P!NoReq)
  PROVE  /\ AsksOk(asks')
         /\ asks'[Admin] = asks[Admin] \/ asks'[Admin].op # "release"
<1>1. AsksOk(asks')  BY AsksWith, NoReqFields
<1>2. Admin \in P!Actors  BY DEF P!Actors
<1> QED BY <1>1, <1>2, NoReqFields DEF With

\* A refusal.
LEMMA ShapeRefusing ==
  ASSUME Shape, NEW a \in P!Actors, NEW op \in {"patch", "add", "delete"}, NEW pc,
         Refusing(a, op, pc)
  PROVE  ShapeNext
<1>1. AsksOk(asks) /\ With(asks, asks', a, P!NoReq)
  BY DEF Shape, ShapeOf, Refusing, Refused
<1>2. project # "none"  BY BusyLive DEF Refusing
<1>3. editor' \in Saves
  <2>1. editor \in Saves  BY DEF Shape, ShapeOf
  <2>2. editor' = editor \/ editor' = FailedSave(editor)  BY DEF Refusing, Refused
  <2> QED BY <2>1, <2>2, SaveFields
<1> QED BY <1>1, <1>2, <1>3, NoReqKeeps, ShapeAsks DEF Refusing, Shape, ShapeOf

\* A write.
LEMMA ShapeWriting ==
  ASSUME Shape, NEW a \in P!Actors, NEW op \in {"patch", "add", "delete"}, Writing(a, op),
         DepsOk(deps'), RowOk(release'), release'.status = release.status
  PROVE  ShapeNext
<1>1. AsksOk(asks) /\ With(asks, asks', a, P!NoReq)
  BY DEF Shape, ShapeOf, Writing, Done
<1>2. project # "none"  BY BusyLive DEF Writing
<1>3. editor' \in Saves
  <2>1. editor \in Saves  BY DEF Shape, ShapeOf
  <2>2. editor' = editor \/ editor' = SharedSave(editor)  BY DEF Writing, Done
  <2> QED BY <2>1, <2>2, SaveFields
<1> QED BY <1>1, <1>2, <1>3, NoReqKeeps, ShapeAsks DEF Writing, Shape, ShapeOf

\* A new request of Admin.
LEMMA ShapeAsking ==
  ASSUME Shape, NEW op \in {"patch", "add", "delete"}, Asking(op)
  PROVE  ShapeNext
<1>1. Admin \in P!Actors /\ AsksOk(asks)  BY DEF P!Actors, Shape, ShapeOf
<1>2. PICK s \in Services, d \in SUBSET Services :
        /\ op = "add" => (s \notin Runtime => d = {})
        /\ With(asks, asks', Admin, Asked(op, "read", s, d, {}))
  BY DEF Asking
<1>3. PICK r : r = Asked(op, "read", s, d, {})  OBVIOUS
<1>4. r \in Requests /\ r.op = op /\ r.pc = "read" /\ r.svc = s /\ r.deps = d
  BY <1>2, <1>3, AskedFields DEF Ops, Steps
<1>5. RequestOk(Admin, r)
  BY <1>2, <1>4, ServicesAssumption DEF RequestOk, Editing
<1>6. AsksOk(asks')  BY <1>1, <1>2, <1>3, <1>5, AsksWith
<1>7. asks'[Admin].op # "release"  BY <1>2, <1>3, <1>4 DEF With
<1> QED BY <1>6, <1>7, ShapeAsks DEF Asking, Began, Shape, ShapeOf

\* A request for a release or a deletion.
LEMMA ShapeAskingFor ==
  ASSUME Shape, NEW op, NEW pc, NEW rows \in SUBSET (Services \cup P!Containers),
         AskingFor(op, pc, rows),
         \/ op = "release" /\ pc = "read"
         \/ op = "remove" /\ pc = "containers"
  PROVE  ShapeNext
<1>1. Admin \in P!Actors /\ AsksOk(asks)  BY DEF P!Actors, Shape, ShapeOf
<1>2. PICK r : r = Asked(op, pc, None, {}, rows)  OBVIOUS
<1>3. r \in Requests /\ r.op = op /\ r.pc = pc /\ r.deps = {}
  BY <1>2, AskedFields DEF Ops, Steps
<1>4. RequestOk(Admin, r)
  BY <1>3, ServicesAssumption DEF RequestOk, Editing
<1>5. With(asks, asks', Admin, r)  BY <1>2 DEF AskingFor
<1>6. AsksOk(asks')  BY <1>1, <1>4, <1>5, AsksWith
<1>7. asks'[Admin].op # "release" \/ asks'[Admin].pc # "write"  BY <1>3, <1>5 DEF With
<1> QED BY <1>6, <1>7, ShapeAsks DEF AskingFor, Shape, ShapeOf

\* The save asks for a missing service.
LEMMA ShapeAskingMissing ==
  ASSUME Shape, AskingMissing
  PROVE  ShapeNext
<1>1. AsksOk(asks) /\ editor \in Saves /\ project # "none"
  BY DEF Shape, ShapeOf, PhaseOk, AskingMissing
<1>2. PICK s \in DOMAIN editor.want :
        /\ With(asks, asks', s, Asked("add", "read", s, {}, {}))
        /\ Began(asks, history, history', s) /\ editor' \in Saves
  BY DEF AskingMissing
<1>3. s \in Services /\ s \in P!Actors /\ s # Admin
  BY <1>1, <1>2, DraftFields, ServicesAssumption DEF Saves, P!Actors
<1>4. PICK r : r = Asked("add", "read", s, {}, {})  OBVIOUS
<1>5. r \in Requests /\ r.op = "add" /\ r.pc = "read" /\ r.svc = s /\ r.deps = {}
  BY <1>3, <1>4, AskedFields DEF Ops, Steps
<1>6. RequestOk(s, r)  BY <1>3, <1>5 DEF RequestOk, Editing
<1>7. AsksOk(asks')  BY <1>1, <1>2, <1>3, <1>4, <1>6, AsksWith
<1>8. asks'[Admin] = asks[Admin]
  <2>1. Admin \in P!Actors \ {s}  BY <1>3 DEF P!Actors
  <2> QED BY <1>2, <2>1 DEF With
<1> QED BY <1>1, <1>2, <1>7, <1>8, ShapeAsks DEF AskingMissing, Began, Shape, ShapeOf

\* The save patches all services.
LEMMA ShapePatchServices ==
  ASSUME Shape, P!PatchServices
  PROVE  ShapeNext
<1>1. AsksOk(asks) /\ editor \in Saves /\ GhostsOk(history)
  BY DEF Shape, ShapeOf
<1>2. /\ editor.pc = "create" /\ editor' \in Saves
      /\ Patched(asks, asks', editor.want) /\ GhostsOk(history')
      /\ UNCHANGED <<project, deps, release, releaseJob, ctrs, network>>
  BY <1>1, PatchServicesDoes
<1>3. project # "none"  BY <1>2 DEF Shape, ShapeOf, PhaseOk
<1>4. PICK want \in P!Drafts : want = editor.want  BY <1>1 DEF Saves
<1>5. ASSUME NEW a \in P!Actors PROVE RequestOk(a, asks'[a])
  <2>1. CASE a \in DOMAIN want
    <3>1. a \in Services /\ want[a] \in SUBSET Services  BY <1>4, <2>1, DraftFields
    <3>2. PICK r : r = Asked("patch", "read", a, want[a], {})  OBVIOUS
    <3>3. r.op = "patch" /\ r.pc = "read" /\ r.svc = a
      BY <3>1, <3>2, AskedFields DEF Ops, Steps
    <3>4. RequestOk(a, r)  BY <3>1, <3>3 DEF RequestOk, Editing
    <3> QED BY <1>2, <1>4, <2>1, <3>2, <3>4 DEF Patched
  <2>2. CASE a \notin DOMAIN want  BY <1>1, <1>2, <1>4, <2>2 DEF Patched, AsksOk
  <2> QED BY <2>1, <2>2
<1>6. AsksOk(asks')  BY <1>2, <1>5 DEF AsksOk, Patched
<1>7. asks'[Admin] = asks[Admin]
  <2>1. Admin \in P!Actors \ DOMAIN want
    BY <1>4, DraftFields, ServicesAssumption DEF P!Actors
  <2> QED BY <1>2, <1>4, <2>1 DEF Patched
<1> QED BY <1>2, <1>3, <1>6, <1>7, ShapeAsks DEF Shape, ShapeOf

\* A step of the worker.
LEMMA ShapeJob ==
  ASSUME Shape, UNCHANGED <<project, deps, asks, editor>>,
         releaseJob.pc # "none", JobOk(releaseJob'), RowOk(release'), GhostsOk(history'),
         CtrsOk(ctrs'), network' \in BOOLEAN,
         \/ releaseJob'.pc = "none"
         \/ release'.status \in {"pending", "building", "deploying"}
         \/ release' = release
  PROVE  ShapeNext
<1>1. PhaseOk(project, asks, editor, release, releaseJob)  BY DEF Shape, ShapeOf
<1>2. PhaseOk(project, asks, editor, release', releaseJob')
  BY <1>1 DEF PhaseOk
<1>3. PhaseOk(project', asks', editor', release', releaseJob')  BY <1>2
<1> QED BY <1>3 DEF Shape, ShapeOf, ShapeNext

\* The job fails.
LEMMA ShapeFailing ==
  ASSUME Shape, Kept, releaseJob.pc # "none", Failing
  PROVE  ShapeNext
<1>1. CtrsOk(ctrs')  BY DEF Failing, FailingFrom, Cleared, ClearedOf
<1> QED BY <1>1, NoJobOk, ShapeJob DEF Failing, Kept, Shape, ShapeOf

\* What the worker starts is in order.
LEMMA OrderSorted ==
  ASSUME NEW seen \in P!Drafts, Edges(seen), P!OrderRuntimeServices(seen).ok
  PROVE  /\ P!OrderRuntimeServices(seen).order \in Seq(Services)
         /\ P!Acyclic(seen)
         /\ \A i \in 1..Len(P!OrderRuntimeServices(seen).order) :
              /\ P!OrderRuntimeServices(seen).order[i] \in DOMAIN seen \cap Runtime
              /\ \A d \in seen[P!OrderRuntimeServices(seen).order[i]] :
                   \E k \in 1..Len(P!OrderRuntimeServices(seen).order) :
                     k < i /\ P!OrderRuntimeServices(seen).order[k] = d
         /\ \A s \in DOMAIN seen \cap Runtime :
              \E k \in 1..Len(P!OrderRuntimeServices(seen).order) :
                P!OrderRuntimeServices(seen).order[k] = s
<1> DEFINE rt == DOMAIN seen \cap Runtime
<1>1. PICK E : E = [s \in rt |-> seen[s] \cap rt]  OBVIOUS
<1>2. DOMAIN E = rt /\ rt \subseteq Services  BY <1>1, DraftFields
<1>3. Topology(E)  BY <1>1, <1>2 DEF Topology
<1>4. PICK search : search = P!Search(E)  OBVIOUS
<1>5. P!OrderRuntimeServices(seen) =
        IF search.cycle \/ \E s \in rt : ~(seen[s] \subseteq rt)
        THEN [ok |-> FALSE, order |-> <<>>]
        ELSE [ok |-> TRUE, order |-> search.ordered]
  BY <1>1, <1>4 DEF P!OrderRuntimeServices
<1>6. ~(search.cycle \/ \E s \in rt : ~(seen[s] \subseteq rt))
  <2>1. SUFFICES ASSUME search.cycle \/ \E s \in rt : ~(seen[s] \subseteq rt) PROVE FALSE
    OBVIOUS
  <2>2. P!OrderRuntimeServices(seen) = [ok |-> FALSE, order |-> <<>>]
    <3> HIDE DEF rt
    <3> QED BY <1>5, <2>1
  <2> QED BY <2>2
<1>7. P!OrderRuntimeServices(seen).order = search.ordered
  <2>1. P!OrderRuntimeServices(seen) = [ok |-> TRUE, order |-> search.ordered]
    <3> HIDE DEF rt
    <3> QED BY <1>5, <1>6
  <2> QED BY <2>1
<1>8. /\ search.ordered \in Seq(Services)
      /\ Sorted(E, search.ordered) /\ DOMAIN E \subseteq P!Range(search.ordered)
  <2>1. search \in P!States  BY <1>3, <1>4, SearchSorts
  <2>2. ~search.cycle  BY <1>6
  <2> QED BY <1>3, <1>4, <2>1, <2>2, SearchSorts, StateFields
<1>9. PICK q \in Seq(Services) : q = search.ordered  BY <1>8
<1>10. \A s \in rt : E[s] = seen[s]  BY <1>1, <1>6
<1>11. \A i \in 1..Len(q) : /\ q[i] \in rt
                            /\ \A d \in seen[q[i]] : \E k \in 1..Len(q) : k < i /\ q[k] = d
  BY <1>2, <1>8, <1>9, <1>10 DEF Sorted
<1>12. \A s \in rt : \E k \in 1..Len(q) : q[k] = s
  <2>1. ASSUME NEW s \in rt PROVE \E k \in 1..Len(q) : q[k] = s
    <3>1. s \in P!Range(q)  BY <1>2, <1>8, <1>9, <2>1
    <3> QED BY <1>9, <3>1 DEF P!Range
  <2> QED BY <2>1
<1>13. P!Acyclic(E)  BY <1>8, <1>9, SortedAcyclic
<1>14. ASSUME NEW T \in SUBSET DOMAIN seen, T # {}
       PROVE  \E s \in T : seen[s] \cap T = {}
  <2>1. CASE T \subseteq rt
    <3>1. PICK s \in T : E[s] \cap T = {}  BY <1>2, <1>13, <1>14, <2>1 DEF P!Acyclic
    <3> QED BY <1>10, <2>1, <3>1
  <2>2. CASE ~(T \subseteq rt)
    <3>1. PICK s \in T : s \notin Runtime  BY <1>14, <2>2
    <3>2. seen[s] = {}  BY <1>14, <3>1 DEF Edges
    <3> QED BY <3>1, <3>2
  <2> QED BY <2>1, <2>2
<1>15. P!Acyclic(seen)  BY <1>14 DEF P!Acyclic
<1> QED BY <1>7, <1>9, <1>11, <1>12, <1>15

\* The order begins as the search left it.
LEMMA StartBegins ==
  ASSUME NEW j, JobOk(j), j.pc = "create", P!OrderRuntimeServices(j.seen).ok, NEW k,
         k = [j EXCEPT !.pc = "start", !.order = P!OrderRuntimeServices(j.seen).order]
  PROVE  /\ JobOk(k) /\ Ordered(k)
         /\ k.pc = "start" /\ k.seen = j.seen /\ k.started = {}
<1>1. j \in Jobs /\ j.seen \in P!Drafts /\ Edges(j.seen) /\ j.started = {}
  BY DEF JobOk, Jobs
<1>2. PICK q : q = P!OrderRuntimeServices(j.seen).order  OBVIOUS
<1>3. /\ q \in Seq(Services) /\ P!Acyclic(j.seen)
      /\ \A i \in 1..Len(q) :
           /\ q[i] \in DOMAIN j.seen \cap Runtime
           /\ \A d \in j.seen[q[i]] : \E n \in 1..Len(q) : n < i /\ q[n] = d
      /\ \A s \in DOMAIN j.seen \cap Runtime : \E n \in 1..Len(q) : q[n] = s
  BY <1>1, <1>2, OrderSorted
<1>4. k = [[j EXCEPT !.pc = "start"] EXCEPT !.order = q]  BY <1>2
<1>5. PICK m \in Jobs : m = [j EXCEPT !.pc = "start"]  BY <1>1 DEF Jobs, JobSteps
<1>6. m.pc = "start" /\ m.seen = j.seen /\ m.started = j.started  BY <1>1, <1>5 DEF Jobs
<1>7. k = [m EXCEPT !.order = q]  BY <1>4, <1>5
<1>8. /\ k \in Jobs /\ k.pc = "start" /\ k.seen = j.seen /\ k.started = {}
      /\ k.order = q
  BY <1>1, <1>3, <1>5, <1>6, <1>7 DEF Jobs
<1>9. JobOk(k)  BY <1>1, <1>8 DEF JobOk
<1>10. Ordered(k)  BY <1>3, <1>8 DEF Ordered, RuntimeOf
<1> QED BY <1>8, <1>9, <1>10

\* The order goes on when its first service has started.
LEMMA StartGoesOn ==
  ASSUME NEW j, JobOk(j), j.pc = "start", j.order # <<>>, Ordered(j), NEW k,
         k = [j EXCEPT !.order = Tail(j.order), !.started = j.started \cup {Head(j.order)}]
  PROVE  /\ JobOk(k) /\ Ordered(k)
         /\ k.pc = "start" /\ k.seen = j.seen /\ k.started = j.started \cup {Head(j.order)}
<1>1. j \in Jobs /\ j.order \in Seq(Services) /\ Edges(j.seen)  BY DEF JobOk, Jobs
<1>2. PICK q \in Seq(Services) : q = j.order  BY <1>1
<1>3. Tail(q) \in Seq(Services) /\ Len(q) > 0  BY <1>2
<1>4. PICK t \in Seq(Services) : t = Tail(q)  BY <1>3
<1>5. Len(t) = Len(q) - 1 /\ \A i \in 1..Len(t) : t[i] = q[i + 1]  BY <1>3, <1>4
<1>6. PICK s \in Services : s = Head(q) /\ s = q[1]  BY <1>3
<1>7. PICK up \in SUBSET Services : up = j.started \cup {s}  BY <1>1, <1>6 DEF Jobs
<1>8. PICK m \in Jobs : m = [j EXCEPT !.order = t]  BY <1>1, <1>4 DEF Jobs
<1>9. m.pc = j.pc /\ m.seen = j.seen /\ m.order = t  BY <1>1, <1>8 DEF Jobs
<1>10. k = [m EXCEPT !.started = up]  BY <1>2, <1>4, <1>6, <1>7, <1>8
<1>11. k \in Jobs /\ k.pc = "start" /\ k.seen = j.seen /\ k.order = t /\ k.started = up
  BY <1>8, <1>9, <1>10 DEF Jobs
<1>12. JobOk(k)  BY <1>1, <1>11 DEF JobOk
<1>13. /\ P!Acyclic(j.seen)
       /\ \A x \in j.started : x \in RuntimeOf(j) /\ j.seen[x] \subseteq j.started
       /\ \A i \in 1..Len(q) :
            /\ q[i] \in RuntimeOf(j)
            /\ \A d \in j.seen[q[i]] :
                 d \in j.started \/ \E n \in 1..Len(q) : n < i /\ q[n] = d
       /\ \A x \in RuntimeOf(j) : x \in j.started \/ \E n \in 1..Len(q) : q[n] = x
  BY <1>2 DEF Ordered
<1>14. RuntimeOf(k) = RuntimeOf(j)  BY <1>11 DEF RuntimeOf
<1>15. s \in RuntimeOf(j) /\ j.seen[s] \subseteq j.started
  <2>1. 1 \in 1..Len(q)  BY <1>3
  <2>2. \A n \in 1..Len(q) : ~(n < 1)  OBVIOUS
  <2> QED BY <1>6, <1>13, <2>1, <2>2
<1>16. \A x \in up : x \in RuntimeOf(j) /\ j.seen[x] \subseteq up  BY <1>7, <1>13, <1>15
<1>17. ASSUME NEW n \in 1..Len(q) PROVE q[n] \in up \/ \E i \in 1..Len(t) : i = n - 1 /\ t[i] = q[n]
  <2>1. CASE n = 1  BY <1>6, <1>7, <2>1
  <2>2. CASE n # 1
    <3>1. n - 1 \in 1..Len(t) /\ (n - 1) + 1 = n  BY <1>3, <1>5, <2>2
    <3>2. t[n - 1] = q[n]  BY <1>5, <3>1
    <3> QED BY <3>1, <3>2
  <2> QED BY <2>1, <2>2
<1>18. ASSUME NEW i \in 1..Len(t)
       PROVE  /\ t[i] \in RuntimeOf(j)
              /\ \A d \in j.seen[t[i]] : d \in up \/ \E n \in 1..Len(t) : n < i /\ t[n] = d
  <2>1. i + 1 \in 1..Len(q) /\ t[i] = q[i + 1]  BY <1>3, <1>5
  <2>2. ASSUME NEW d \in j.seen[t[i]]
        PROVE  d \in up \/ \E n \in 1..Len(t) : n < i /\ t[n] = d
    <3>1. CASE d \in j.started  BY <1>7, <3>1
    <3>2. CASE \E n \in 1..Len(q) : n < i + 1 /\ q[n] = d
      <4>1. PICK n \in 1..Len(q) : n < i + 1 /\ q[n] = d  BY <3>2
      <4>2. CASE q[n] \in up  BY <4>1, <4>2
      <4>3. CASE \E l \in 1..Len(t) : l = n - 1 /\ t[l] = q[n]
        <5>1. PICK l \in 1..Len(t) : l = n - 1 /\ t[l] = q[n]  BY <4>3
        <5>2. l < i /\ t[l] = d  BY <4>1, <5>1
        <5> QED BY <5>2
      <4> QED BY <1>17, <4>2, <4>3
    <3> QED BY <1>13, <2>1, <2>2, <3>1, <3>2
  <2> QED BY <1>13, <2>1, <2>2
<1>19. \A x \in RuntimeOf(j) : x \in up \/ \E n \in 1..Len(t) : t[n] = x
  BY <1>7, <1>13, <1>17
<1>20. Ordered(k)
  <2>1. P!Acyclic(k.seen)  BY <1>11, <1>13
  <2>2. \A x \in k.started : x \in RuntimeOf(k) /\ k.seen[x] \subseteq k.started
    BY <1>11, <1>14, <1>16
  <2>3. \A i \in 1..Len(k.order) :
          /\ k.order[i] \in RuntimeOf(k)
          /\ \A d \in k.seen[k.order[i]] :
               d \in k.started \/ \E n \in 1..Len(k.order) : n < i /\ k.order[n] = d
    <3>1. ASSUME NEW i \in 1..Len(k.order)
          PROVE  /\ k.order[i] \in RuntimeOf(k)
                 /\ \A d \in k.seen[k.order[i]] :
                      d \in k.started \/ \E n \in 1..Len(k.order) : n < i /\ k.order[n] = d
      <4>1. i \in 1..Len(t) /\ k.order[i] = t[i]  BY <1>11, <3>1
      <4>2. t[i] \in RuntimeOf(k)  BY <1>14, <1>18, <4>1
      <4>3. ASSUME NEW d \in k.seen[t[i]]
            PROVE  d \in k.started \/ \E n \in 1..Len(k.order) : n < i /\ k.order[n] = d
        <5>1. d \in j.seen[t[i]]  BY <1>11, <4>3
        <5>2. d \in up \/ \E n \in 1..Len(t) : n < i /\ t[n] = d  BY <1>18, <4>1, <5>1
        <5> QED BY <1>11, <5>2
      <4> QED BY <4>1, <4>2, <4>3
    <3> QED BY <3>1
  <2>4. \A x \in RuntimeOf(k) : x \in k.started \/ \E n \in 1..Len(k.order) : k.order[n] = x
    BY <1>11, <1>14, <1>19
  <2> QED BY <2>1, <2>2, <2>3, <2>4 DEF Ordered
<1>21. up = j.started \cup {Head(j.order)}  BY <1>2, <1>6, <1>7
<1> QED BY <1>11, <1>12, <1>20, <1>21

\* The dependencies after a write are those of services the project has.
LEMMA PatchKeepsDeps ==
  ASSUME NEW d, DepsOk(d), NEW s \in DOMAIN d, NEW new \in SUBSET (DOMAIN d \cap Runtime),
         s \notin Runtime => new = {}, NEW e, e = [d EXCEPT ![s] = new]
  PROVE  DepsOk(e) /\ DOMAIN e = DOMAIN d /\ e[s] = new /\ \A t \in DOMAIN d \ {s} : e[t] = d[t]
<1>1. PICK D \in SUBSET Services : D = DOMAIN d  BY DraftFields DEF DepsOk
<1>2. d \in [D -> SUBSET Runtime]  BY <1>1 DEF DepsOk, P!Drafts
<1>3. e \in [D -> SUBSET Runtime] /\ e[s] = new /\ \A t \in D \ {s} : e[t] = d[t]
  BY <1>1, <1>2
<1>4. e \in P!Drafts /\ DOMAIN e = D  BY <1>3 DEF P!Drafts
<1>5. ASSUME NEW t \in D
      PROVE  e[t] \subseteq D \cap Runtime /\ (t \notin Runtime => e[t] = {})
  BY <1>1, <1>3, <1>5 DEF DepsOk, Edges
<1> QED BY <1>1, <1>3, <1>4, <1>5 DEF DepsOk, Edges

\* A service is added.
LEMMA AddKeepsDeps ==
  ASSUME NEW d, DepsOk(d), NEW s \in Services, s \notin DOMAIN d,
         NEW new \in SUBSET (DOMAIN d \cap Runtime), s \notin Runtime => new = {},
         NEW e, e = [t \in DOMAIN d \cup {s} |-> IF t = s THEN new ELSE d[t]]
  PROVE  DepsOk(e) /\ DOMAIN e = DOMAIN d \cup {s} /\ e[s] = new
         /\ \A t \in DOMAIN d : e[t] = d[t]
<1>1. PICK D \in SUBSET Services : D = DOMAIN d  BY DraftFields DEF DepsOk
<1>2. \A t \in D : d[t] \in SUBSET Runtime  BY <1>1, DraftFields DEF DepsOk
<1>3. PICK U \in SUBSET Services : U = D \cup {s}  OBVIOUS
<1>4. e = [t \in U |-> IF t = s THEN new ELSE d[t]]  BY <1>1, <1>3
<1>5. e \in [U -> SUBSET Runtime] /\ e[s] = new /\ \A t \in D : e[t] = d[t]
  BY <1>1, <1>2, <1>3, <1>4
<1>6. e \in P!Drafts /\ DOMAIN e = U  BY <1>5 DEF P!Drafts
<1>7. ASSUME NEW t \in U
      PROVE  e[t] \subseteq U \cap Runtime /\ (t \notin Runtime => e[t] = {})
  BY <1>1, <1>3, <1>5, <1>7 DEF DepsOk, Edges
<1> QED BY <1>1, <1>3, <1>5, <1>6, <1>7 DEF DepsOk, Edges

\* A service that none depends on is deleted.
LEMMA DeleteKeepsDeps ==
  ASSUME NEW d, DepsOk(d), NEW s, \A t \in DOMAIN d : s \notin d[t],
         NEW e, e = [t \in DOMAIN d \ {s} |-> d[t]]
  PROVE  DepsOk(e) /\ DOMAIN e = DOMAIN d \ {s} /\ \A t \in DOMAIN e : e[t] = d[t]
<1>1. PICK D \in SUBSET Services : D = DOMAIN d  BY DraftFields DEF DepsOk
<1>2. \A t \in D : d[t] \in SUBSET Runtime  BY <1>1, DraftFields DEF DepsOk
<1>3. PICK U \in SUBSET Services : U = D \ {s}  OBVIOUS
<1>4. e \in [U -> SUBSET Runtime] /\ \A t \in U : e[t] = d[t]
  BY <1>1, <1>2, <1>3
<1>5. e \in P!Drafts /\ DOMAIN e = U  BY <1>4 DEF P!Drafts
<1>6. ASSUME NEW t \in U
      PROVE  e[t] \subseteq U \cap Runtime /\ (t \notin Runtime => e[t] = {})
  BY <1>1, <1>3, <1>4, <1>6 DEF DepsOk, Edges
<1> QED BY <1>1, <1>3, <1>4, <1>5, <1>6 DEF DepsOk, Edges

\* What a write leaves, when it is not refused.
LEMMA WritePatchDeps ==
  ASSUME AsksOk(asks), DepsOk(deps), NEW a \in P!Actors,
         asks[a].op = "patch", asks[a].pc = "write",
         asks[a].svc \in DOMAIN deps, asks[a].deps \subseteq DOMAIN deps,
         deps' = [deps EXCEPT ![asks[a].svc] = asks[a].deps]
  PROVE  /\ DepsOk(deps') /\ DOMAIN deps' = DOMAIN deps
         /\ deps'[asks[a].svc] = asks[a].deps
         /\ \A t \in DOMAIN deps \ {asks[a].svc} : deps'[t] = deps[t]
<1>1. RequestOk(a, asks[a])  BY DEF AsksOk
<1>2. PICK s, new : s = asks[a].svc /\ new = asks[a].deps  OBVIOUS
<1>3. /\ s \in DOMAIN deps /\ new \in SUBSET (DOMAIN deps \cap Runtime)
      /\ s \notin Runtime => new = {}
  BY <1>1, <1>2 DEF RequestOk
<1>4. PICK d, e : d = deps /\ e = deps'  OBVIOUS
<1>5. e = [d EXCEPT ![s] = new]  BY <1>2, <1>4
<1>6. DepsOk(e) /\ DOMAIN e = DOMAIN d /\ e[s] = new /\ \A t \in DOMAIN d \ {s} : e[t] = d[t]
  <2>1. DepsOk(d) /\ s \in DOMAIN d  BY <1>3, <1>4
  <2>2. new \in SUBSET (DOMAIN d \cap Runtime) /\ (s \notin Runtime => new = {})
    BY <1>3, <1>4
  <2> QED BY <1>5, <2>1, <2>2, PatchKeepsDeps
<1> QED BY <1>2, <1>4, <1>6

\* What the write of an added service leaves.
LEMMA WriteAddDeps ==
  ASSUME AsksOk(asks), DepsOk(deps), NEW a \in P!Actors,
         asks[a].op = "add", asks[a].pc = "write",
         asks[a].svc \notin DOMAIN deps, asks[a].deps \subseteq DOMAIN deps,
         deps' = [t \in DOMAIN deps \cup {asks[a].svc} |->
                    IF t = asks[a].svc THEN asks[a].deps ELSE deps[t]]
  PROVE  /\ DepsOk(deps') /\ DOMAIN deps' = DOMAIN deps \cup {asks[a].svc}
         /\ asks[a].svc \in Services
         /\ deps'[asks[a].svc] = asks[a].deps
         /\ \A t \in DOMAIN deps : deps'[t] = deps[t]
<1>1. RequestOk(a, asks[a])  BY DEF AsksOk
<1>2. PICK s, new : s = asks[a].svc /\ new = asks[a].deps  OBVIOUS
<1>3. /\ s \in Services /\ s \notin DOMAIN deps
      /\ new \in SUBSET (DOMAIN deps \cap Runtime) /\ (s \notin Runtime => new = {})
  BY <1>1, <1>2 DEF RequestOk, Editing
<1>4. deps' = [t \in DOMAIN deps \cup {s} |-> IF t = s THEN new ELSE deps[t]]  BY <1>2
<1> QED BY <1>2, <1>3, <1>4, AddKeepsDeps

\* Nothing happens to a project before it is created.
LEMMA NoRequest ==
  ASSUME Shape, P!CreateProject
  PROVE  /\ \A a \in P!Actors : asks[a].pc = "idle" /\ asks[a].op = "none"
         /\ editor.pc = "closed" /\ releaseJob.pc = "none"
         /\ project' = "live" /\ deps' \in P!Documents
         /\ UNCHANGED <<asks, editor, release, releaseJob, ctrs, network, history>>
BY DEF Shape, ShapeOf, PhaseOk, AsksOk, RequestOk, P!CreateProject

\* No step breaks the shape.
LEMMA ShapeStep ==
  ASSUME Shape, P!Next
  PROVE  ShapeNext
<1>1. /\ AsksOk(asks) /\ DepsOk(deps) /\ editor \in Saves /\ JobOk(releaseJob)
      /\ RowOk(release) /\ GhostsOk(history)
      /\ CtrsOk(ctrs) /\ network \in BOOLEAN
      /\ PhaseOk(project, asks, editor, release, releaseJob)
      /\ deps \in P!Drafts
  BY DEF Shape, ShapeOf, DepsOk
<1>2. Admin \in P!Actors /\ asks[Admin] \in Requests  BY <1>1 DEF P!Actors, AsksOk
<1>3. CASE P!CreateProject
  <2>1. /\ project' = "live" /\ DepsOk(deps')
        /\ UNCHANGED <<asks, editor, release, releaseJob, ctrs, network, history>>
    BY <1>3, NoRequest, DocumentOk
  <2>2. PhaseOk(project', asks, editor, release, releaseJob)
    BY <1>2, <1>3, <2>1, NoRequest DEF PhaseOk
  <2> QED BY <1>1, <2>1, <2>2 DEF ShapeNext, ShapeOf
<1>4. CASE \E s \in Services : P!AskDelete(s)
  BY <1>1, <1>4, AskDeleteDoes, ShapeAsking
<1>5. CASE \E s \in Services : \E d \in SUBSET Services : P!AskPatch(s, d)
  BY <1>1, <1>5, AskPatchDoes, ShapeAsking
<1>6. CASE \E s \in Services : \E d \in SUBSET Services : P!AskAdd(s, d)
  BY <1>1, <1>6, AskAddDoes, ShapeAsking
<1>7. ASSUME NEW a \in P!Actors, P!ReadPatch(a) PROVE ShapeNext
  <2>1. CASE Passing(a, "patch") /\ P!ValidateDependencyChange(asks[a].svc, asks[a].deps)
    <3>1. asks[a].deps \subseteq Runtime  BY <2>1 DEF P!ValidateDependencyChange
    <3>2. asks[a].svc \notin Runtime => asks[a].deps = {}
      <4>1. asks[a].svc \in Services
        BY <1>1, <2>1, DraftFields DEF P!ValidateDependencyChange, P!Present
      <4> QED BY <2>1, <4>1 DEF P!ValidateDependencyChange, P!ReleaseKind
    <3> QED BY <2>1, <3>1, <3>2, ShapePassing
  <2>2. CASE Refusing(a, "patch", "read")  BY <2>2, ShapeRefusing
  <2> QED BY <1>1, <1>7, <2>1, <2>2, ReadPatchDoes
<1>8. ASSUME NEW a \in P!Actors, P!WritePatch(a) PROVE ShapeNext
  <2>1. CASE Refusing(a, "patch", "write")  BY <2>1, ShapeRefusing
  <2>2. CASE ~Refusing(a, "patch", "write")
    <3>1. /\ Writing(a, "patch") /\ UNCHANGED release
          /\ asks[a].svc \in DOMAIN deps /\ asks[a].deps \subseteq DOMAIN deps
          /\ deps' = [deps EXCEPT ![asks[a].svc] = asks[a].deps]
      BY <1>1, <1>8, <2>2, WritePatchDoes
    <3>2. DepsOk(deps')  BY <1>1, <3>1, WritePatchDeps DEF Writing
    <3> QED BY <1>1, <3>1, <3>2, ShapeWriting
  <2> QED BY <2>1, <2>2
<1>9. ASSUME NEW a \in P!Actors, P!ReadAdd(a) PROVE ShapeNext
  <2>1. CASE Passing(a, "add") /\ asks[a].deps \subseteq Runtime
    <3>1. asks[a].svc \notin Runtime => asks[a].deps = {}
      BY <1>1, <2>1 DEF AsksOk, RequestOk, Passing
    <3> QED BY <2>1, <3>1, ShapePassing
  <2>2. CASE Refusing(a, "add", "read")  BY <2>2, ShapeRefusing
  <2> QED BY <1>1, <1>9, <2>1, <2>2, ReadAddDoes
<1>10. ASSUME NEW a \in P!Actors, P!WriteAdd(a) PROVE ShapeNext
  <2>1. CASE Refusing(a, "add", "write")  BY <2>1, ShapeRefusing
  <2>2. CASE ~Refusing(a, "add", "write")
    <3>1. /\ Writing(a, "add") /\ UNCHANGED release
          /\ asks[a].svc \notin DOMAIN deps /\ asks[a].deps \subseteq DOMAIN deps
          /\ deps' = [t \in DOMAIN deps \cup {asks[a].svc} |->
                        IF t = asks[a].svc THEN asks[a].deps ELSE deps[t]]
      BY <1>1, <1>10, <2>2, WriteAddDoes
    <3>2. DepsOk(deps')  BY <1>1, <3>1, WriteAddDeps DEF Writing
    <3> QED BY <1>1, <3>1, <3>2, ShapeWriting
  <2> QED BY <2>1, <2>2
<1>11. CASE P!ReadDelete(Admin)
  BY <1>1, <1>2, <1>11, ReadDeleteDoes, ShapePassing, ShapeRefusing
<1>12. CASE P!WriteDelete(Admin)
  <2>1. CASE Refusing(Admin, "delete", "write")  BY <1>2, <2>1, ShapeRefusing
  <2>2. CASE ~Refusing(Admin, "delete", "write")
    <3>1. /\ Writing(Admin, "delete") /\ RowOk(release') /\ release'.status = release.status
          /\ \A t \in DOMAIN deps : asks[Admin].svc \notin deps[t]
          /\ deps' = [t \in DOMAIN deps \ {asks[Admin].svc} |-> deps[t]]
      BY <1>1, <1>12, <2>2, WriteDeleteDoes
    <3>2. DepsOk(deps')  BY <1>1, <3>1, DeleteKeepsDeps
    <3> QED BY <1>2, <3>1, <3>2, ShapeWriting
  <2> QED BY <2>1, <2>2
<1>13. CASE P!OpenEditor
  <2>1. /\ project = "live" /\ editor' \in Saves /\ GhostsOk(history')
        /\ UNCHANGED <<project, deps, asks, release, releaseJob, ctrs, network>>
    BY <1>1, <1>13, OpenEditorDoes
  <2> QED BY <1>1, <2>1, ShapeAsks
<1>14. CASE P!PatchProject \/ P!EndSave \/ P!CloseEditor
  <2>1. /\ editor.pc # "closed" /\ editor' \in Saves
        /\ UNCHANGED <<project, deps, asks, release, releaseJob, ctrs, network, history>>
    BY <1>1, <1>14, EditorMoves
  <2>2. project # "none"  BY <1>1, <2>1 DEF PhaseOk
  <2> QED BY <1>1, <2>1, <2>2, ShapeAsks
<1>15. CASE P!CreateMissing
  <2>1. CASE AskingMissing  BY <2>1, ShapeAskingMissing
  <2>2. CASE ~AskingMissing
    <3>1. /\ editor.pc = "create" /\ editor' \in Saves
          /\ UNCHANGED <<project, deps, asks, release, releaseJob, ctrs, network, history>>
      BY <1>1, <1>15, <2>2, CreateMissingDoes
    <3>2. project # "none"  BY <1>1, <3>1 DEF PhaseOk
    <3> QED BY <1>1, <3>1, <3>2, ShapeAsks
  <2> QED BY <2>1, <2>2
<1>16. CASE P!PatchServices  BY <1>16, ShapePatchServices
<1>17. CASE P!AskRelease  BY <1>1, <1>17, AskReleaseDoes, ShapeAskingFor
<1>18. CASE P!ReadRelease
  <2>1. /\ asks[Admin].op = "release" /\ asks[Admin].pc = "read"
        /\ UNCHANGED <<project, deps, editor, release, releaseJob, ctrs, network, history>>
    BY <1>1, <1>18, ReadReleaseDoes
  <2>2. CASE With(asks, asks', Admin, P!NoReq)
    <3>1. project # "none"  BY <1>2, <2>1, BusyLive
    <3> QED BY <1>1, <1>2, <2>1, <2>2, <3>1, NoReqKeeps, ShapeAsks
  <2>3. CASE ~With(asks, asks', Admin, P!NoReq)
    <3>1. project = "live" /\ release.status \notin {"pending", "building", "deploying"}
      BY <1>1, <1>18, <2>3, ReadReleaseDoes
    <3>2. PICK r \in Requests : /\ With(asks, asks', Admin, r)
                                /\ r.op = "release" /\ r.pc = "write"
      BY <1>1, <1>18, <2>3, ReadReleaseDoes
    <3>3. RequestOk(Admin, r)  BY <3>2, ServicesAssumption DEF RequestOk, Editing
    <3>4. AsksOk(asks')  BY <1>1, <1>2, <3>2, <3>3, AsksWith
    <3>5. releaseJob.pc = "none"  BY <1>1, <3>1 DEF PhaseOk
    <3>6. PhaseOk(project, asks', editor, release, releaseJob)
      BY <3>1, <3>5 DEF PhaseOk
    <3> QED BY <1>1, <2>1, <3>4, <3>6 DEF ShapeNext, ShapeOf
  <2> QED BY <2>2, <2>3
<1>19. CASE P!WriteRelease
  <2>1. /\ asks[Admin].op = "release" /\ asks[Admin].pc = "write"
        /\ With(asks, asks', Admin, P!NoReq)
        /\ UNCHANGED <<project, deps, editor, ctrs, network, history>>
        /\ \/ UNCHANGED <<release, releaseJob>>
           \/ /\ RowOk(release') /\ release'.status = "pending"
              /\ JobOk(releaseJob') /\ releaseJob'.pc = "queued"
    BY <1>1, <1>19, WriteReleaseDoes
  <2>2. project # "none"  BY <1>2, <2>1, BusyLive
  <2>3. AsksOk(asks') /\ asks'[Admin].op # "release"
    BY <1>1, <1>2, <2>1, NoReqKeeps, NoReqFields DEF With
  <2>4. PhaseOk(project, asks', editor, release', releaseJob')
    BY <1>1, <2>1, <2>2, <2>3 DEF PhaseOk
  <2> QED BY <1>1, <2>1, <2>3, <2>4 DEF ShapeNext, ShapeOf
<1>20. CASE P!TakeJob
  <2>1. CASE Failing  BY <1>1, <1>20, <2>1, TakeJobDoes, ShapeFailing
  <2>2. CASE ~Failing  BY <1>1, <1>20, <2>2, TakeJobDoes, ShapeJob DEF Kept
  <2> QED BY <2>1, <2>2
<1>21. CASE P!BuildServices
  <2>1. CASE Failing  BY <1>1, <1>21, <2>1, BuildServicesDoes, ShapeFailing
  <2>2. CASE ~Failing  BY <1>1, <1>21, <2>2, BuildServicesDoes, ShapeJob DEF Kept
  <2> QED BY <2>1, <2>2
<1>22. CASE P!EnsureProjectNetwork
  BY <1>1, <1>22, EnsureNetworkDoes, ShapeJob
<1>23. CASE P!MarkDeploying
  <2>1. CASE Failing  BY <1>1, <1>23, <2>1, MarkDeployingDoes, ShapeFailing
  <2>2. CASE ~Failing  BY <1>1, <1>23, <2>2, MarkDeployingDoes, ShapeJob DEF Kept
  <2> QED BY <2>1, <2>2
<1>24. CASE P!CreateCandidates
  <2>1. releaseJob.pc = "create" /\ Kept
    BY <1>1, <1>24, CreateCandidatesDoes
  <2>2. CASE Failing  BY <2>1, <2>2, ShapeFailing
  <2>3. CASE CtrsOk(ctrs') /\ UNCHANGED <<releaseJob, release, history>>
    BY <1>1, <2>1, <2>3, ShapeJob DEF Kept
  <2>4. CASE /\ P!OrderRuntimeServices(releaseJob.seen).ok
             /\ releaseJob' = [releaseJob EXCEPT !.pc = "start",
                                 !.order = P!OrderRuntimeServices(releaseJob.seen).order]
             /\ UNCHANGED <<ctrs, release, history>>
    <3>1. JobOk(releaseJob')  BY <1>1, <2>1, <2>4, StartBegins
    <3> QED BY <1>1, <2>1, <2>4, <3>1, ShapeJob DEF Kept
  <2> QED BY <1>1, <1>24, <2>2, <2>3, <2>4, CreateCandidatesDoes
<1>25. CASE P!StartCandidate
  <2>1. releaseJob.pc = "start" /\ releaseJob.order # <<>> /\ Kept
    BY <1>1, <1>25, StartCandidateDoes
  <2>2. CASE Failing  BY <2>1, <2>2, ShapeFailing
  <2>3. CASE ~Failing
    <3>1. /\ releaseJob' = [releaseJob EXCEPT !.order = Tail(releaseJob.order),
                              !.started = releaseJob.started \cup {Head(releaseJob.order)}]
          /\ CtrsOk(ctrs') /\ UNCHANGED release
      BY <1>1, <1>25, <2>3, StartCandidateDoes
    <3>2. releaseJob' \in Jobs /\ releaseJob'.pc = "start" /\ releaseJob'.seen = releaseJob.seen
      <4>1. PICK j \in Jobs : j = releaseJob  BY <1>1 DEF JobOk
      <4>2. j.order \in Seq(Services) /\ j.order # <<>>  BY <2>1, <4>1 DEF Jobs
      <4>3. Head(j.order) \in Services /\ Tail(j.order) \in Seq(Services)  BY <4>2
      <4>8. PICK t \in Seq(Services) : t = Tail(j.order)  BY <4>3
      <4>4. PICK up \in SUBSET Services : up = j.started \cup {Head(j.order)}
        BY <4>1, <4>3 DEF Jobs
      <4>5. PICK m \in Jobs : m = [j EXCEPT !.order = t]  BY <4>1, <4>8 DEF Jobs
      <4>6. m.pc = j.pc /\ m.seen = j.seen  BY <4>1, <4>5 DEF Jobs
      <4>7. releaseJob' = [m EXCEPT !.started = up]  BY <3>1, <4>1, <4>8, <4>4, <4>5
      <4> QED BY <2>1, <4>1, <4>4, <4>5, <4>6, <4>7 DEF Jobs
    <3>3. JobOk(releaseJob')  BY <1>1, <2>1, <3>2 DEF JobOk
    <3> QED BY <1>1, <2>1, <3>1, <3>3, ShapeJob DEF Kept
  <2> QED BY <2>2, <2>3
<1>26. CASE P!CommitRelease
  BY <1>1, <1>26, CommitReleaseDoes, NoJobOk, ShapeJob DEF Kept, Cleared, ClearedOf
<1>27. CASE P!AskRemove
  <2>1. ctrs.made \in SUBSET (Services \cup P!Containers)
    BY <1>1 DEF CtrsOk, Made, P!Containers, Runtime
  <2> QED BY <1>1, <1>27, <2>1, AskRemoveDoes, ShapeAskingFor
<1>28. CASE P!RemoveContainers \/ P!RemoveNetwork \/ P!RowRestricted
  <2>1. /\ asks[Admin].op = "remove" /\ CtrsOk(ctrs') /\ network' \in BOOLEAN
        /\ UNCHANGED <<project, deps, editor, release, releaseJob>> /\ GhostsOk(history')
    BY <1>1, <1>28, RemoveContainersDoes, RemoveNetworkDoes, RowRestrictedDoes
       DEF Removing, Cleared, ClearedOf
  <2>2. project # "none"  BY <1>2, <2>1, BusyLive
  <2>3. CASE With(asks, asks', Admin, P!NoReq)
    BY <1>1, <1>2, <2>1, <2>2, <2>3, NoReqKeeps, ShapeAsks
  <2>4. CASE ~With(asks, asks', Admin, P!NoReq)
    <3>1. PICK pc \in {"network", "row"} : With(asks, asks', Admin, Advance(asks[Admin], pc))
      BY <1>1, <1>28, <2>4, RemoveContainersDoes, RemoveNetworkDoes, RowRestrictedDoes
    <3>2. PICK r : r = Advance(asks[Admin], pc)  OBVIOUS
    <3>3. r \in Requests /\ r.pc = pc /\ r.op = "remove" /\ r.svc = asks[Admin].svc
      BY <1>2, <2>1, <3>1, <3>2, AdvanceFields DEF Steps
    <3>4. RequestOk(Admin, r)  BY <3>1, <3>3, ServicesAssumption DEF RequestOk, Editing
    <3>5. AsksOk(asks')  BY <1>1, <1>2, <3>1, <3>2, <3>4, AsksWith
    <3>6. asks'[Admin].op # "release"  BY <3>1, <3>2, <3>3 DEF With
    <3> QED BY <1>1, <2>1, <2>2, <3>5, <3>6, ShapeAsks
  <2> QED BY <2>3, <2>4
<1>29. CASE P!RemoveRow
  <2>1. /\ asks[Admin].op = "remove" /\ With(asks, asks', Admin, P!NoReq)
        /\ project' = "gone" /\ deps' = <<>> /\ editor' = SharedSave(editor)
        /\ RowOk(release') /\ release'.status = release.status
        /\ UNCHANGED <<releaseJob, ctrs, network, history>>
    BY <1>1, <1>29, RemoveRowDoes DEF Removing
  <2>2. AsksOk(asks') /\ asks'[Admin].op # "release"
    BY <1>1, <1>2, <2>1, NoReqKeeps, NoReqFields DEF With
  <2>3. PhaseOk(project', asks', editor', release', releaseJob')
    BY <2>1, <2>2 DEF PhaseOk
  <2>4. DepsOk(deps')  BY <2>1, EmptyDraft DEF DepsOk, Edges
  <2>5. editor' \in Saves  BY <1>1, <2>1, SaveFields
  <2> QED BY <1>1, <2>1, <2>2, <2>3, <2>4, <2>5 DEF ShapeNext, ShapeOf
<1> QED BY <1>3, <1>4, <1>5, <1>6, <1>7, <1>8, <1>9, <1>10, <1>11, <1>12, <1>13, <1>14, <1>15,
           <1>16, <1>17, <1>18, <1>19, <1>20, <1>21, <1>22, <1>23, <1>24, <1>25, <1>26, <1>27,
           <1>28, <1>29 DEF P!Next

-----------------------------------------------------------------------------
(***************************************************************************)
(* The save.  With no one else writing, what it has created or patched is  *)
(* there, and what is not is still being asked for.                        *)
(***************************************************************************)
Idle(f, s) == f[s].pc = "idle"

EditorOk(d, f, e) ==
  /\ e.pc \in {"closed", "project"} => \A s \in Services : Idle(f, s)
  /\ e.pc = "over" => \A s \in Services : Idle(f, s) \/ (e.failed /\ f[s].op = "patch")
  /\ e.pc = "project" /\ e.alone /\ ~e.failed => e.known \subseteq DOMAIN d
  /\ e.pc = "create" =>
       /\ \A s \in Services : Idle(f, s) \/ f[s].op = "add"
       /\ e.alone /\ ~e.failed => \A s \in e.known : s \in DOMAIN d \/ ~Idle(f, s)
  /\ e.pc = "patch" =>
       /\ \A s \in Services : \/ Idle(f, s)
                              \/ /\ s \in DOMAIN e.want
                                 /\ f[s].op = "patch" /\ f[s].deps = e.want[s]
       /\ e.alone /\ ~e.failed =>
            \A s \in DOMAIN e.want : s \in DOMAIN d /\ (~Idle(f, s) \/ d[s] = e.want[s])
  /\ e.pc = "over" /\ e.alone /\ ~e.failed =>
       \A s \in DOMAIN e.want : s \in DOMAIN d /\ d[s] = e.want[s]

EditorNow == EditorOk(deps, asks, editor)
EditorNext == EditorOk(deps', asks', editor')

\* A request of Admin leaves the editor's alone.
LEMMA WithAdmin ==
  ASSUME NEW f, NEW g, NEW r, With(f, g, Admin, r)
  PROVE  \A s \in Services : g[s] = f[s]
BY ServicesAssumption DEF With, P!Actors

\* The fields of a save.
LEMMA SaveTyped ==
  ASSUME NEW e \in Saves
  PROVE  /\ DOMAIN e.want \subseteq Services /\ e.known \subseteq Services
         /\ e.failed \in BOOLEAN /\ e.alone \in BOOLEAN
         /\ e.pc \in {"closed", "project", "create", "patch", "over"}
<1>1. e.want \in P!Drafts /\ e.known \subseteq Services
      /\ e.failed \in BOOLEAN /\ e.alone \in BOOLEAN
      /\ e.pc \in {"closed", "project", "create", "patch", "over"}
  BY DEF Saves
<1> QED BY <1>1, DraftFields

\* Admin asks for something.
LEMMA EditorAdmin ==
  ASSUME NEW d, NEW f, NEW g, NEW e \in Saves, EditorOk(d, f, e), \A s \in Services : g[s] = f[s]
  PROVE  EditorOk(d, g, e)
BY SaveTyped DEF EditorOk, Idle

\* Someone else wrote: nothing is said any more of what the save finds.
LEMMA EditorShared ==
  ASSUME NEW d, NEW dx, NEW f, NEW g, NEW e \in Saves, EditorOk(d, f, e),
         \A s \in Services : g[s] = f[s]
  PROVE  EditorOk(dx, g, SharedSave(e))
<1>1. PICK e1 : e1 = SharedSave(e)  OBVIOUS
<1>2. e1.pc = e.pc /\ ~e1.alone /\ e1.want = e.want /\ e1.failed = e.failed
  BY <1>1, SaveFields
<1>3. EditorOk(dx, g, e1)  BY <1>2 DEF EditorOk, Idle
<1> QED BY <1>1, <1>3

\* A request is refused.
LEMMA EditorRefused ==
  ASSUME NEW d, NEW f, NEW g, NEW e \in Saves, EditorOk(d, f, e), NEW a \in Services,
         With(f, g, a, P!NoReq)
  PROVE  EditorOk(d, g, FailedSave(e))
<1>1. PICK e1 : e1 = FailedSave(e)  OBVIOUS
<1>2. e1.pc = e.pc /\ e1.failed /\ e1.want = e.want  BY <1>1, SaveFields
<1>3. \A s \in Services : g[s] = f[s] \/ Idle(g, s)
  BY NoReqFields DEF With, P!Actors, Idle
<1>4. \A s \in Services : Idle(f, s) => Idle(g, s)  BY <1>3 DEF Idle
<1>5. EditorOk(d, g, e1)  BY <1>2, <1>3, <1>4 DEF EditorOk
<1> QED BY <1>1, <1>5

\* A check of a request passes.
LEMMA EditorPassing ==
  ASSUME NEW d, NEW f, NEW g, NEW e \in Saves, EditorOk(d, f, e), NEW a \in Services, NEW r,
         With(f, g, a, r), r.op = f[a].op, r.deps = f[a].deps, r.pc # "idle", ~Idle(f, a)
  PROVE  EditorOk(d, g, e)
<1>1. \A s \in Services : /\ g[s].op = f[s].op /\ g[s].deps = f[s].deps
                          /\ Idle(g, s) <=> Idle(f, s)
  BY DEF With, P!Actors, Idle
<1> QED BY <1>1, SaveTyped DEF EditorOk

\* A step of one of the save's own requests that leaves what is stored as it was.
LEMMA EditorAsks ==
  ASSUME Shape, EditorNow, NEW a \in P!Actors, NEW op \in {"patch", "add", "delete"}, NEW pc,
         Passing(a, op) \/ Refusing(a, op, pc)
  PROVE  EditorNext
<1>1. editor \in Saves /\ asks[a] \in Requests /\ RequestOk(a, asks[a])
  BY DEF Shape, ShapeOf, AsksOk
<1>2. CASE Passing(a, op)
  <2>1. PICK r : r = Advance(asks[a], "write")  OBVIOUS
  <2>2. r.op = asks[a].op /\ r.deps = asks[a].deps /\ r.pc = "write"
    BY <1>1, <2>1, AdvanceFields DEF Steps
  <2>3. /\ asks[a].pc = "read" /\ With(asks, asks', a, r) /\ UNCHANGED <<deps, editor>>
    BY <1>2, <2>1 DEF Passing
  <2>4. CASE a = Admin
    BY <1>1, <2>3, <2>4, WithAdmin, EditorAdmin DEF EditorNow, EditorNext
  <2>5. CASE a \in Services
    <3>1. EditorOk(deps, asks', editor)
      BY <1>1, <2>2, <2>3, <2>5, EditorPassing DEF EditorNow, Idle
    <3> QED BY <2>3, <3>1 DEF EditorNext
  <2> QED BY <2>4, <2>5 DEF P!Actors
<1>3. CASE Refusing(a, op, pc)
  <2>1. With(asks, asks', a, P!NoReq) /\ UNCHANGED deps  BY <1>3 DEF Refusing, Refused
  <2>2. CASE a = Admin
    <3>1. UNCHANGED editor  BY <1>3, <2>2 DEF Refusing, Refused
    <3> QED BY <1>1, <2>1, <2>2, <3>1, WithAdmin, EditorAdmin DEF EditorNow, EditorNext
  <2>3. CASE a \in Services
    <3>1. editor' = FailedSave(editor)
      BY <1>3, <2>3, ServicesAssumption DEF Refusing, Refused
    <3> QED BY <1>1, <2>1, <2>3, <3>1, EditorRefused DEF EditorNow, EditorNext
  <2> QED BY <2>2, <2>3 DEF P!Actors
<1> QED BY <1>2, <1>3

\* Admin's requests leave the save alone, or are told to it.
LEMMA EditorAside ==
  ASSUME Shape, EditorNow, NEW r, With(asks, asks', Admin, r),
         (UNCHANGED <<deps, editor>>) \/ editor' = SharedSave(editor)
  PROVE  EditorNext
<1>1. editor \in Saves  BY DEF Shape, ShapeOf
<1>2. \A s \in Services : asks'[s] = asks[s]  BY WithAdmin
<1>3. CASE UNCHANGED <<deps, editor>>
  BY <1>1, <1>2, <1>3, EditorAdmin DEF EditorNow, EditorNext
<1>4. CASE editor' = SharedSave(editor)
  BY <1>1, <1>2, <1>4, EditorShared DEF EditorNow, EditorNext
<1> QED BY <1>3, <1>4

\* Nothing the save looks at changes.
LEMMA EditorSame ==
  ASSUME EditorNow, UNCHANGED <<deps, asks, editor>>
  PROVE  EditorNext
BY DEF EditorNow, EditorNext

\* One of the save's services has been patched.
LEMMA EditorPatched ==
  ASSUME NEW d, NEW dx, NEW f, NEW g, NEW e \in Saves, EditorOk(d, f, e), NEW a \in Services,
         With(f, g, a, P!NoReq), f[a].op = "patch", f[a].pc = "write",
         DOMAIN dx = DOMAIN d, dx[a] = f[a].deps, \A t \in DOMAIN d \ {a} : dx[t] = d[t]
  PROVE  EditorOk(dx, g, e)
<1>1. ~Idle(f, a) /\ f[a].op # "add"  BY DEF Idle
<1>2. \/ e.pc = "over" /\ e.failed
      \/ e.pc = "patch" /\ a \in DOMAIN e.want /\ f[a].deps = e.want[a]
  BY <1>1, SaveTyped DEF EditorOk
<1>3. Idle(g, a) /\ \A s \in Services \ {a} : g[s] = f[s] /\ (Idle(g, s) <=> Idle(f, s))
  BY NoReqFields DEF With, P!Actors, Idle
<1>4. CASE e.pc = "over" /\ e.failed
  BY <1>3, <1>4 DEF EditorOk
<1>5. CASE e.pc = "patch" /\ a \in DOMAIN e.want /\ f[a].deps = e.want[a]
  <2>1. \A s \in Services : \/ Idle(g, s)
                            \/ /\ s \in DOMAIN e.want
                               /\ g[s].op = "patch" /\ g[s].deps = e.want[s]
    BY <1>3, <1>5 DEF EditorOk
  <2>2. ASSUME e.alone, ~e.failed, NEW s \in DOMAIN e.want
        PROVE  s \in DOMAIN dx /\ (~Idle(g, s) \/ dx[s] = e.want[s])
    <3>1. s \in DOMAIN d /\ (~Idle(f, s) \/ d[s] = e.want[s]) /\ s \in Services
      BY <1>5, <2>2, SaveTyped DEF EditorOk
    <3> QED BY <1>3, <1>5, <3>1
  <2> QED BY <1>5, <2>1, <2>2 DEF EditorOk
<1> QED BY <1>2, <1>4, <1>5

\* One of the save's services has been created.
LEMMA EditorCreated ==
  ASSUME NEW d, NEW dx, NEW f, NEW g, NEW e \in Saves, EditorOk(d, f, e), NEW a \in Services,
         With(f, g, a, P!NoReq), f[a].op = "add", f[a].pc = "write",
         DOMAIN dx = DOMAIN d \cup {a}
  PROVE  EditorOk(dx, g, e)
<1>1. ~Idle(f, a) /\ f[a].op # "patch"  BY DEF Idle
<1>2. e.pc = "create"  BY <1>1, SaveTyped DEF EditorOk
<1>3. Idle(g, a) /\ \A s \in Services \ {a} : g[s] = f[s] /\ (Idle(g, s) <=> Idle(f, s))
  BY NoReqFields DEF With, P!Actors, Idle
<1>4. \A s \in Services : Idle(g, s) \/ g[s].op = "add"  BY <1>2, <1>3 DEF EditorOk
<1>5. ASSUME e.alone, ~e.failed, NEW s \in e.known
      PROVE  s \in DOMAIN dx \/ ~Idle(g, s)
  <2>1. (s \in DOMAIN d \/ ~Idle(f, s)) /\ s \in Services
    BY <1>2, <1>5, SaveTyped DEF EditorOk
  <2> QED BY <1>3, <2>1
<1> QED BY <1>2, <1>4, <1>5 DEF EditorOk

\* No step breaks what is known of the save.
LEMMA EditorStep ==
  ASSUME Shape, EditorNow, P!Next
  PROVE  EditorNext
<1>1. /\ AsksOk(asks) /\ DepsOk(deps) /\ editor \in Saves /\ JobOk(releaseJob)
      /\ RowOk(release) /\ GhostsOk(history) /\ CtrsOk(ctrs) /\ deps \in P!Drafts
  BY DEF Shape, ShapeOf, DepsOk
<1>2. Admin \in P!Actors /\ asks[Admin] \in Requests  BY <1>1 DEF P!Actors, AsksOk
<1>3. CASE P!CreateProject
  <2>1. /\ editor.pc = "closed" /\ \A a \in P!Actors : asks[a].pc = "idle"
        /\ UNCHANGED <<asks, editor>>
    BY <1>3, NoRequest
  <2> QED BY <2>1 DEF EditorNext, EditorOk, Idle, P!Actors
<1>4. ASSUME NEW op \in {"patch", "add", "delete"}, Asking(op) PROVE EditorNext
  BY <1>4, EditorAside DEF Asking
<1>5. ASSUME NEW op, NEW pc, NEW rows, AskingFor(op, pc, rows) PROVE EditorNext
  BY <1>5, EditorAside DEF AskingFor
<1>6. CASE \E s \in Services : P!AskDelete(s)
  BY <1>1, <1>4, <1>6, AskDeleteDoes
<1>7. CASE \E s \in Services : \E d \in SUBSET Services : P!AskPatch(s, d) \/ P!AskAdd(s, d)
  BY <1>1, <1>4, <1>7, AskPatchDoes, AskAddDoes
<1>8. ASSUME NEW a \in P!Actors, P!ReadPatch(a) PROVE EditorNext
  BY <1>1, <1>8, ReadPatchDoes, EditorAsks
<1>9. ASSUME NEW a \in P!Actors, P!WritePatch(a) PROVE EditorNext
  <2>1. CASE Refusing(a, "patch", "write")  BY <2>1, EditorAsks
  <2>2. CASE ~Refusing(a, "patch", "write")
    <3>1. /\ Writing(a, "patch")
          /\ asks[a].svc \in DOMAIN deps /\ asks[a].deps \subseteq DOMAIN deps
          /\ deps' = [deps EXCEPT ![asks[a].svc] = asks[a].deps]
      BY <1>1, <1>9, <2>2, WritePatchDoes
    <3>2. asks[a].op = "patch" /\ asks[a].pc = "write" /\ With(asks, asks', a, P!NoReq)
      BY <3>1 DEF Writing, Done
    <3>3. CASE a = Admin
      BY <3>1, <3>2, <3>3, EditorAside DEF Writing, Done
    <3>4. CASE a \in Services
      <4>1. editor' = editor /\ asks[a].svc = a
        BY <1>1, <3>1, <3>2, <3>4, ServicesAssumption DEF Writing, Done, AsksOk, RequestOk
      <4>2. /\ DOMAIN deps' = DOMAIN deps /\ deps'[a] = asks[a].deps
            /\ \A t \in DOMAIN deps \ {a} : deps'[t] = deps[t]
        BY <1>1, <3>1, <3>2, <4>1, WritePatchDeps
      <4>3. PICK dx, g : dx = deps' /\ g = asks'  OBVIOUS
      <4>4. EditorOk(dx, g, editor)
        <5>1. With(asks, g, a, P!NoReq)  BY <3>2, <4>3
        <5>2. /\ DOMAIN dx = DOMAIN deps /\ dx[a] = asks[a].deps
              /\ \A t \in DOMAIN deps \ {a} : dx[t] = deps[t]
          BY <4>2, <4>3
        <5> QED BY <1>1, <3>2, <3>4, <5>1, <5>2, EditorPatched DEF EditorNow
      <4> QED BY <4>1, <4>3, <4>4 DEF EditorNext
    <3> QED BY <3>3, <3>4 DEF P!Actors
  <2> QED BY <2>1, <2>2
<1>10. ASSUME NEW a \in P!Actors, P!ReadAdd(a) PROVE EditorNext
  BY <1>1, <1>10, ReadAddDoes, EditorAsks
<1>11. ASSUME NEW a \in P!Actors, P!WriteAdd(a) PROVE EditorNext
  <2>1. CASE Refusing(a, "add", "write")  BY <2>1, EditorAsks
  <2>2. CASE ~Refusing(a, "add", "write")
    <3>1. /\ Writing(a, "add")
          /\ asks[a].svc \notin DOMAIN deps /\ asks[a].deps \subseteq DOMAIN deps
          /\ deps' = [t \in DOMAIN deps \cup {asks[a].svc} |->
                        IF t = asks[a].svc THEN asks[a].deps ELSE deps[t]]
      BY <1>1, <1>11, <2>2, WriteAddDoes
    <3>2. asks[a].op = "add" /\ asks[a].pc = "write" /\ With(asks, asks', a, P!NoReq)
      BY <3>1 DEF Writing, Done
    <3>3. CASE a = Admin
      BY <3>1, <3>2, <3>3, EditorAside DEF Writing, Done
    <3>4. CASE a \in Services
      <4>1. editor' = editor /\ asks[a].svc = a
        BY <1>1, <3>1, <3>2, <3>4, ServicesAssumption DEF Writing, Done, AsksOk, RequestOk
      <4>2. DOMAIN deps' = DOMAIN deps \cup {a}
        BY <1>1, <3>1, <3>2, <4>1, WriteAddDeps
      <4>3. PICK dx, g : dx = deps' /\ g = asks'  OBVIOUS
      <4>4. EditorOk(dx, g, editor)
        <5>1. With(asks, g, a, P!NoReq) /\ DOMAIN dx = DOMAIN deps \cup {a}
          BY <3>2, <4>2, <4>3
        <5> QED BY <1>1, <3>2, <3>4, <5>1, EditorCreated DEF EditorNow
      <4> QED BY <4>1, <4>3, <4>4 DEF EditorNext
    <3> QED BY <3>3, <3>4 DEF P!Actors
  <2> QED BY <2>1, <2>2
<1>12. CASE P!ReadDelete(Admin)
  BY <1>1, <1>2, <1>12, ReadDeleteDoes, EditorAsks
<1>13. CASE P!WriteDelete(Admin)
  <2>1. CASE Refusing(Admin, "delete", "write")  BY <1>2, <2>1, EditorAsks
  <2>2. CASE ~Refusing(Admin, "delete", "write")
    <3>1. Writing(Admin, "delete")  BY <1>1, <1>13, <2>2, WriteDeleteDoes
    <3> QED BY <3>1, EditorAside DEF Writing, Done
  <2> QED BY <2>1, <2>2
<1>14. CASE P!OpenEditor
  <2>1. /\ editor.pc = "closed" /\ editor'.pc = "project" /\ editor'.known = DOMAIN deps
        /\ UNCHANGED <<deps, asks>>
    BY <1>1, <1>14, OpenEditorDoes
  <2> QED BY <2>1 DEF EditorNow, EditorNext, EditorOk
<1>15. CASE P!PatchProject
  <2>1. /\ editor.pc = "project" /\ UNCHANGED <<deps, asks>>
        /\ \/ editor' = [editor EXCEPT !.pc = "create"]
           \/ editor' = [editor EXCEPT !.pc = "over", !.failed = TRUE]
    BY <1>15 DEF P!PatchProject
  <2>2. \A s \in Services : Idle(asks', s)  BY <2>1 DEF EditorNow, EditorOk
  <2>3. CASE editor' = [editor EXCEPT !.pc = "create"]
    <3>1. /\ editor'.pc = "create" /\ editor'.alone = editor.alone
          /\ editor'.failed = editor.failed /\ editor'.known = editor.known
      BY <1>1, <2>3 DEF Saves
    <3>2. editor.alone /\ ~editor.failed => editor.known \subseteq DOMAIN deps
      BY <2>1 DEF EditorNow, EditorOk
    <3> QED BY <2>1, <2>2, <3>1, <3>2 DEF EditorNext, EditorOk
  <2>4. CASE editor' = [editor EXCEPT !.pc = "over", !.failed = TRUE]
    <3>1. editor'.pc = "over" /\ editor'.failed  BY <1>1, <2>4 DEF Saves
    <3> QED BY <2>2, <3>1 DEF EditorNext, EditorOk
  <2> QED BY <2>1, <2>3, <2>4
<1>16. CASE P!EndSave
  <2>1. /\ editor.pc = "patch" /\ (editor.failed \/ \A s \in Services : Idle(asks, s))
        /\ editor' = [editor EXCEPT !.pc = "over"] /\ UNCHANGED <<deps, asks>>
    BY <1>16 DEF P!EndSave, P!EditorCalls, P!Busy, Idle
  <2>2. /\ editor'.pc = "over" /\ editor'.alone = editor.alone
        /\ editor'.failed = editor.failed /\ editor'.want = editor.want
    BY <1>1, <2>1 DEF Saves
  <2>3. ASSUME editor.alone, ~editor.failed, NEW s \in DOMAIN editor.want
        PROVE  s \in DOMAIN deps /\ deps[s] = editor.want[s]
    <3>1. s \in Services  BY <1>1, SaveTyped
    <3> QED BY <2>1, <2>3, <3>1 DEF EditorNow, EditorOk
  <2>4. \A s \in Services : Idle(asks, s) \/ (editor.failed /\ asks[s].op = "patch")
    BY <2>1 DEF EditorNow, EditorOk
  <2> QED BY <2>1, <2>2, <2>3, <2>4 DEF EditorNext, EditorOk
<1>17. CASE P!CloseEditor
  <2>1. /\ editor' = P!NoSave /\ UNCHANGED <<deps, asks>>
        /\ \A s \in Services : Idle(asks, s)
    BY <1>17 DEF P!CloseEditor, P!EditorCalls, P!Busy, Idle
  <2>2. editor'.pc = "closed"  BY <2>1 DEF P!NoSave
  <2> QED BY <2>1, <2>2 DEF EditorNext, EditorOk
<1>18. CASE P!CreateMissing
  <2>1. CASE AskingMissing
    <3>1. /\ editor.pc = "create" /\ ~editor.failed /\ UNCHANGED deps
          /\ \A a \in Services : asks[a].pc = "idle"
      BY <2>1 DEF AskingMissing
    <3>2. PICK s \in DOMAIN editor.want :
            /\ editor'.pc = "create" /\ editor'.known = editor.known \cup {s}
            /\ editor'.alone = editor.alone
            /\ With(asks, asks', s, Asked("add", "read", s, {}, {}))
      BY <2>1 DEF AskingMissing
    <3>3. s \in Services  BY <1>1, <3>2, SaveTyped
    <3>4. asks'[s].op = "add" /\ asks'[s].pc = "read"
      BY <3>2, <3>3, AskedFields DEF With, Ops, Steps
    <3>5. \A t \in Services \ {s} : asks'[t] = asks[t]  BY <3>2 DEF With, P!Actors
    <3>6. \A t \in Services : Idle(asks', t) \/ asks'[t].op = "add"
      BY <3>1, <3>4, <3>5 DEF Idle
    <3>7. ASSUME editor.alone, NEW t \in editor.known \cup {s}
          PROVE  t \in DOMAIN deps \/ ~Idle(asks', t)
      <4>1. CASE t = s  BY <3>4, <4>1 DEF Idle
      <4>2. CASE t # s
        <5>1. t \in editor.known /\ t \in Services  BY <1>1, <3>7, <4>2, SaveTyped
        <5> QED BY <3>1, <3>5, <3>7, <4>2, <5>1 DEF EditorNow, EditorOk, Idle
      <4> QED BY <4>1, <4>2
    <3> QED BY <3>1, <3>2, <3>6, <3>7 DEF EditorNext, EditorOk
  <2>2. CASE ~AskingMissing
    <3>1. /\ \A a \in Services : asks[a].pc = "idle"
          /\ editor'.pc = "over" /\ editor'.failed /\ UNCHANGED <<deps, asks>>
      BY <1>1, <1>18, <2>2, CreateMissingDoes
    <3> QED BY <3>1 DEF EditorNext, EditorOk, Idle
  <2> QED BY <2>1, <2>2
<1>19. CASE P!PatchServices
  <2>1. /\ editor.pc = "create" /\ ~editor.failed /\ DOMAIN editor.want \subseteq editor.known
        /\ \A a \in Services : asks[a].pc = "idle"
        /\ editor'.pc = "patch" /\ editor'.want = editor.want
        /\ editor'.failed = editor.failed /\ editor'.alone = editor.alone
        /\ Patched(asks, asks', editor.want) /\ UNCHANGED deps
    BY <1>1, <1>19, PatchServicesDoes
  <2>2. PICK want \in P!Drafts : want = editor.want  BY <1>1 DEF Saves
  <2>3. ASSUME NEW s \in DOMAIN want
        PROVE  asks'[s].op = "patch" /\ asks'[s].pc = "read" /\ asks'[s].deps = want[s]
    <3>1. s \in Services /\ want[s] \in SUBSET Services  BY <2>2, <2>3, DraftFields
    <3>2. asks'[s] = Asked("patch", "read", s, want[s], {})  BY <2>1, <2>2, <2>3 DEF Patched
    <3> QED BY <3>1, <3>2, AskedFields DEF Ops, Steps
  <2>4. ASSUME NEW s \in Services, s \notin DOMAIN want PROVE Idle(asks', s)
    <3>1. asks'[s] = asks[s]  BY <2>1, <2>2, <2>4 DEF Patched, P!Actors
    <3> QED BY <2>1, <3>1 DEF Idle
  <2>5. ASSUME editor.alone, NEW s \in DOMAIN want PROVE s \in DOMAIN deps /\ ~Idle(asks', s)
    <3>1. s \in editor.known /\ s \in Services  BY <1>1, <2>1, <2>2, <2>5, SaveTyped
    <3>2. s \in DOMAIN deps  BY <2>1, <2>5, <3>1 DEF EditorNow, EditorOk, Idle
    <3> QED BY <2>3, <3>2 DEF Idle
  <2> QED BY <2>1, <2>2, <2>3, <2>4, <2>5 DEF EditorNext, EditorOk, Idle
<1>20. CASE P!AskRelease  BY <1>1, <1>5, <1>20, AskReleaseDoes
<1>21. CASE P!ReadRelease
  <2>1. PICK r : With(asks, asks', Admin, r)  BY <1>1, <1>21, ReadReleaseDoes
  <2> QED BY <1>1, <1>21, <2>1, ReadReleaseDoes, EditorAside
<1>22. CASE P!WriteRelease  BY <1>1, <1>22, WriteReleaseDoes, EditorAside
<1>23. CASE P!TakeJob  BY <1>1, <1>23, TakeJobDoes, EditorSame DEF Kept
<1>24. CASE P!BuildServices  BY <1>1, <1>24, BuildServicesDoes, EditorSame DEF Kept
<1>25. CASE P!EnsureProjectNetwork  BY <1>1, <1>25, EnsureNetworkDoes, EditorSame
<1>26. CASE P!MarkDeploying  BY <1>1, <1>26, MarkDeployingDoes, EditorSame DEF Kept
<1>27. CASE P!CreateCandidates  BY <1>1, <1>27, CreateCandidatesDoes, EditorSame DEF Kept
<1>28. CASE P!StartCandidate  BY <1>1, <1>28, StartCandidateDoes, EditorSame DEF Kept
<1>29. CASE P!CommitRelease  BY <1>1, <1>29, CommitReleaseDoes, EditorSame DEF Kept
<1>30. CASE P!AskRemove  BY <1>1, <1>5, <1>30, AskRemoveDoes
<1>31. CASE P!RemoveContainers  BY <1>1, <1>31, RemoveContainersDoes, EditorAside
<1>32. CASE P!RemoveNetwork
  <2>1. PICK r : With(asks, asks', Admin, r)  BY <1>1, <1>32, RemoveNetworkDoes
  <2> QED BY <1>1, <1>32, <2>1, RemoveNetworkDoes, EditorAside
<1>33. CASE P!RowRestricted  BY <1>1, <1>33, RowRestrictedDoes, EditorAside
<1>34. CASE P!RemoveRow  BY <1>1, <1>34, RemoveRowDoes, EditorAside
<1> QED BY <1>3, <1>6, <1>7, <1>8, <1>9, <1>10, <1>11, <1>12, <1>13, <1>14, <1>15, <1>16, <1>17,
           <1>18, <1>19, <1>20, <1>21, <1>22, <1>23, <1>24, <1>25, <1>26, <1>27, <1>28, <1>29,
           <1>30, <1>31, <1>32, <1>33, <1>34 DEF P!Next

-----------------------------------------------------------------------------
(***************************************************************************)
(* Requests that do not overlap.  What one of them has checked still holds *)
(* when it writes, because no other wrote in between.                      *)
(***************************************************************************)
Sound(d) ==
  /\ DOMAIN d # {} /\ P!Acyclic(d)
  /\ Cardinality(DOMAIN d \ Runtime) <= 1

Checked(d, r) ==
  /\ r.op = "patch" => ~P!Search([d EXCEPT ![r.svc] = r.deps]).cycle
  /\ r.op = "delete" => Cardinality(DOMAIN d) > 1

SerialOk(p, d, f, h) ==
  ~h.overlap =>
    /\ \A a, b \in P!Actors : Editing(f[a]) /\ Editing(f[b]) => a = b
    /\ p = "live" => /\ Sound(d)
                     /\ \A a \in P!Actors : f[a].pc = "write" => Checked(d, f[a])

SerialNow == SerialOk(project, deps, asks, history)
SerialNext == SerialOk(project', deps', asks', history')

\* A patch that was searched for cycles.
LEMMA SoundPatched ==
  ASSUME NEW d, NEW e, DepsOk(d), DepsOk(e), DOMAIN e = DOMAIN d, Sound(d), ~P!Search(e).cycle
  PROVE  Sound(e)
<1>1. Topology(e)  BY DraftFields DEF Topology, DepsOk, Edges
<1>2. P!Acyclic(e)  BY <1>1, SearchFindsCycles
<1> QED BY <1>2 DEF Sound

\* A service nothing depends on is added.
LEMMA SoundAdded ==
  ASSUME NEW d, NEW e, DepsOk(d), DepsOk(e), NEW s \in Services, s \notin DOMAIN d, Sound(d),
         DOMAIN e = DOMAIN d \cup {s}, \A t \in DOMAIN d : e[t] = d[t], e[s] \subseteq DOMAIN d,
         s \notin Runtime => DOMAIN d \subseteq Runtime
  PROVE  Sound(e)
<1>1. ASSUME NEW T \in SUBSET DOMAIN e, T # {} PROVE \E t \in T : e[t] \cap T = {}
  <2>1. PICK U \in SUBSET DOMAIN d : U = T \ {s}  BY <1>1
  <2>2. CASE U = {}
    <3>1. T = {s}  BY <1>1, <2>1, <2>2
    <3> QED BY <3>1
  <2>3. CASE U # {}
    <3>1. PICK t \in U : d[t] \cap U = {}  BY <2>3 DEF Sound, P!Acyclic
    <3>2. e[t] = d[t] /\ d[t] \subseteq DOMAIN d  BY <3>1 DEF DepsOk, Edges
    <3>3. e[t] \cap T = {}  BY <2>1, <3>1, <3>2
    <3> QED BY <2>1, <3>1, <3>3
  <2> QED BY <2>2, <2>3
<1>2. P!Acyclic(e)  BY <1>1 DEF P!Acyclic
<1>3. Cardinality(DOMAIN e \ Runtime) <= 1
  <2>1. CASE s \in Runtime
    <3>1. DOMAIN e \ Runtime = DOMAIN d \ Runtime  BY <2>1
    <3> QED BY <3>1 DEF Sound
  <2>2. CASE s \notin Runtime
    <3>1. DOMAIN e \ Runtime = {s}  BY <2>2
    <3>2. Cardinality({s}) = 1  BY FS_Singleton
    <3> QED BY <3>1, <3>2
  <2> QED BY <2>1, <2>2
<1>4. DOMAIN e # {}  OBVIOUS
<1> QED BY <1>2, <1>3, <1>4 DEF Sound

\* One of several services is deleted, and nothing depended on it.
LEMMA SoundDeleted ==
  ASSUME NEW d, NEW e, DepsOk(d), NEW s \in DOMAIN d, Sound(d), Cardinality(DOMAIN d) > 1,
         DOMAIN e = DOMAIN d \ {s}, \A t \in DOMAIN e : e[t] = d[t]
  PROVE  Sound(e)
<1>1. IsFiniteSet(DOMAIN d)  BY DraftFields DEF DepsOk
<1>2. Cardinality(DOMAIN e) = Cardinality(DOMAIN d) - 1 /\ Cardinality(DOMAIN d) \in Nat
  BY <1>1, FS_RemoveElement, FS_CardinalityType
<1>3. DOMAIN e # {}
  <2>1. Cardinality({}) = 0  BY FS_EmptySet
  <2> QED BY <1>2, <2>1
<1>4. ASSUME NEW T \in SUBSET DOMAIN e, T # {} PROVE \E t \in T : e[t] \cap T = {}
  <2>1. T \in SUBSET DOMAIN d  BY <1>4
  <2>2. PICK t \in T : d[t] \cap T = {}  BY <1>4, <2>1 DEF Sound, P!Acyclic
  <2> QED BY <1>4, <2>2
<1>5. P!Acyclic(e)  BY <1>4 DEF P!Acyclic
<1>6. Cardinality(DOMAIN e \ Runtime) <= 1
  <2>1. IsFiniteSet(DOMAIN d \ Runtime)  BY <1>1, FS_Subset
  <2>2. DOMAIN e \ Runtime \subseteq DOMAIN d \ Runtime  OBVIOUS
  <2>3. /\ Cardinality(DOMAIN e \ Runtime) <= Cardinality(DOMAIN d \ Runtime)
        /\ IsFiniteSet(DOMAIN e \ Runtime)
    BY <2>1, <2>2, FS_Subset
  <2>4. Cardinality(DOMAIN e \ Runtime) \in Nat /\ Cardinality(DOMAIN d \ Runtime) \in Nat
    BY <2>1, <2>3, FS_CardinalityType
  <2> QED BY <2>3, <2>4 DEF Sound
<1> QED BY <1>3, <1>5, <1>6 DEF Sound

\* A document that the schema accepts.
LEMMA SoundDocument ==
  ASSUME NEW d \in P!Documents
  PROVE  Sound(d)
<1>1. /\ DepsOk(d) /\ DOMAIN d # {} /\ Cardinality(DOMAIN d \ Runtime) <= 1
      /\ ~P!Search(d).cycle
  BY DocumentOk
<1>2. Topology(d)  BY <1>1, DraftFields DEF Topology, DepsOk, Edges
<1>3. P!Acyclic(d)  BY <1>1, <1>2, SearchFindsCycles
<1> QED BY <1>1, <1>3 DEF Sound

\* No request edits nothing.
LEMMA NoReqNotEditing == ~Editing(P!NoReq) /\ P!NoReq.pc = "idle"
BY NoReqFields DEF Editing

\* A request ends.
LEMMA SerialAnswered ==
  ASSUME NEW p, NEW d, NEW f, NEW h, SerialOk(p, d, f, h), NEW g, NEW a \in P!Actors, NEW r,
         With(f, g, a, r), ~Editing(r), NEW h1, h1.overlap = h.overlap
  PROVE  SerialOk(p, d, g, h1)
<1>1. g[a] = r /\ \A b \in P!Actors \ {a} : g[b] = f[b]  BY DEF With
<1>2. \A b \in P!Actors : Editing(g[b]) => g[b] = f[b]  BY <1>1
<1>3. Checked(d, r)  BY DEF Checked, Editing
<1> QED BY <1>1, <1>2, <1>3 DEF SerialOk

\* A request begins.
LEMMA SerialBegan ==
  ASSUME NEW p, NEW d, NEW f, NEW h, SerialOk(p, d, f, h), NEW g, NEW a \in P!Actors, NEW r,
         With(f, g, a, r), r.pc = "read", NEW h1, Began(f, h, h1, a)
  PROVE  SerialOk(p, d, g, h1)
<1>1. g[a] = r /\ \A b \in P!Actors \ {a} : g[b] = f[b]  BY DEF With
<1>2. CASE ~h1.overlap
  <2>1. ~h.overlap /\ \A b \in P!Actors \ {a} : ~Editing(g[b])  BY <1>1, <1>2 DEF Began
  <2>2. \A b \in P!Actors : g[b].pc = "write" => g[b] = f[b]  BY <1>1
  <2> QED BY <2>1, <2>2 DEF SerialOk
<1> QED BY <1>2 DEF SerialOk

\* A check of a request passes.
LEMMA SerialPassing ==
  ASSUME NEW p, NEW d, NEW f, NEW h, SerialOk(p, d, f, h), NEW g, NEW a \in P!Actors, NEW r,
         With(f, g, a, r), r.op = f[a].op, Checked(d, r)
  PROVE  SerialOk(p, d, g, h)
<1>1. g[a] = r /\ \A b \in P!Actors \ {a} : g[b] = f[b]  BY DEF With
<1>2. \A b \in P!Actors : Editing(g[b]) <=> Editing(f[b])  BY <1>1 DEF Editing
<1> QED BY <1>1, <1>2 DEF SerialOk

\* A request has written.
LEMMA SerialWritten ==
  ASSUME NEW p, NEW d, NEW dx, NEW f, NEW h, SerialOk(p, d, f, h), NEW g, NEW a \in P!Actors,
         With(f, g, a, P!NoReq), Editing(f[a]), ~h.overlap /\ p = "live" => Sound(dx)
  PROVE  SerialOk(p, dx, g, h)
<1>1. g[a] = P!NoReq /\ \A b \in P!Actors \ {a} : g[b] = f[b]  BY DEF With
<1>2. CASE ~h.overlap
  <2>1. \A b \in P!Actors : ~Editing(g[b])
    BY <1>1, <1>2, NoReqNotEditing DEF SerialOk
  <2>2. \A b \in P!Actors : Checked(dx, g[b])  BY <2>1 DEF Checked, Editing
  <2> QED BY <2>1, <2>2 DEF SerialOk
<1> QED BY <1>2 DEF SerialOk

\* Nothing about services changes.
LEMMA SerialSame ==
  ASSUME SerialNow, UNCHANGED <<project, deps, asks>>, history'.overlap = history.overlap
  PROVE  SerialNext
BY DEF SerialNow, SerialNext, SerialOk

\* A request is refused.
LEMMA SerialRefusing ==
  ASSUME SerialNow, NEW a \in P!Actors, NEW op, NEW pc, Refusing(a, op, pc)
  PROVE  SerialNext
<1>1. With(asks, asks', a, P!NoReq) /\ UNCHANGED <<project, deps, history>>
  BY DEF Refusing, Refused
<1>2. SerialOk(project, deps, asks', history)
  BY <1>1, NoReqNotEditing, SerialAnswered DEF SerialNow
<1> QED BY <1>1, <1>2 DEF SerialNext

\* A request that edits nothing changes nothing here.
LEMMA SerialAside ==
  ASSUME SerialNow, NEW a \in P!Actors, NEW r, With(asks, asks', a, r), ~Editing(r),
         UNCHANGED <<project, deps>>, history'.overlap = history.overlap
  PROVE  SerialNext
<1>1. PICK h1 : h1 = history'  OBVIOUS
<1>2. SerialOk(project, deps, asks', h1)  BY <1>1, SerialAnswered DEF SerialNow
<1> QED BY <1>1, <1>2 DEF SerialNext

\* The check of a request passes in the state as it is.
LEMMA SerialAccepted ==
  ASSUME SerialNow, AsksOk(asks), NEW a \in P!Actors, NEW op, Passing(a, op),
         Checked(deps, Advance(asks[a], "write"))
  PROVE  SerialNext
<1>1. PICK r : r = Advance(asks[a], "write")  OBVIOUS
<1>2. With(asks, asks', a, r) /\ UNCHANGED <<project, deps, history>>
  BY <1>1 DEF Passing
<1>3. r.op = asks[a].op  BY <1>1, AdvanceFields DEF AsksOk, Steps
<1>4. SerialOk(project, deps, asks', history)
  BY <1>1, <1>2, <1>3, SerialPassing DEF SerialNow
<1> QED BY <1>2, <1>4 DEF SerialNext

\* The write of a request that overlaps none.
LEMMA SerialWriting ==
  ASSUME SerialNow, NEW a \in P!Actors, NEW op \in {"patch", "add", "delete"}, Writing(a, op),
         ~history.overlap /\ project = "live" => Sound(deps')
  PROVE  SerialNext
<1>1. With(asks, asks', a, P!NoReq) /\ UNCHANGED <<project, history>> /\ Editing(asks[a])
  BY DEF Writing, Done, Editing
<1>2. PICK dx : dx = deps'  OBVIOUS
<1>3. SerialOk(project, dx, asks', history)
  BY <1>1, <1>2, SerialWritten DEF SerialNow
<1> QED BY <1>1, <1>2, <1>3 DEF SerialNext

\* What holds of a request about to write, when none overlaps it.
LEMMA SerialChecked ==
  ASSUME SerialNow, NEW a \in P!Actors, asks[a].pc = "write", ~history.overlap,
         project = "live"
  PROVE  Sound(deps) /\ Checked(deps, asks[a])
BY DEF SerialNow, SerialOk

\* Two things are two.
LEMMA PairSize ==
  ASSUME NEW x, NEW y, x # y
  PROVE  Cardinality({x, y}) = 2
<1>1. IsFiniteSet({x}) /\ Cardinality({x}) = 1  BY FS_Singleton
<1>2. y \notin {x}  OBVIOUS
<1>3. Cardinality({x} \cup {y}) = Cardinality({x}) + 1  BY <1>1, <1>2, FS_AddElement
<1>4. {x, y} = {x} \cup {y}  OBVIOUS
<1> QED BY <1>1, <1>3, <1>4

\* The save patches all services, which overlap unless there is only one.
LEMMA SerialPatchServices ==
  ASSUME Shape, SerialNow, P!PatchServices
  PROVE  SerialNext
<1>1. AsksOk(asks) /\ editor \in Saves /\ GhostsOk(history)
  BY DEF Shape, ShapeOf
<1>2. /\ \A a \in Services : asks[a].pc = "idle"
      /\ Patched(asks, asks', editor.want)
      /\ ~history'.overlap => /\ ~history.overlap /\ ~Editing(asks[Admin])
                              /\ Cardinality(DOMAIN editor.want) <= 1
      /\ UNCHANGED <<project, deps>>
  BY <1>1, PatchServicesDoes
<1>3. PICK want \in P!Drafts : want = editor.want  BY <1>1 DEF Saves
<1>4. ASSUME NEW a \in P!Actors, a \notin DOMAIN want, ~history'.overlap
      PROVE  ~Editing(asks'[a]) /\ asks'[a] = asks[a]
  <2>1. asks'[a] = asks[a]  BY <1>2, <1>3, <1>4 DEF Patched
  <2>2. CASE a = Admin  BY <1>2, <1>4, <2>1, <2>2
  <2>3. CASE a \in Services
    <3>1. asks[a].op = "none"  BY <1>1, <1>2, <2>3 DEF AsksOk, RequestOk, P!Actors
    <3> QED BY <2>1, <3>1 DEF Editing
  <2> QED BY <2>2, <2>3 DEF P!Actors
<1>5. ASSUME NEW a \in DOMAIN want PROVE asks'[a].pc = "read"
  <2>1. a \in Services /\ want[a] \in SUBSET Services  BY <1>3, <1>5, DraftFields
  <2>2. asks'[a] = Asked("patch", "read", a, want[a], {})  BY <1>2, <1>3, <1>5 DEF Patched
  <2> QED BY <2>1, <2>2, AskedFields DEF Ops, Steps
<1>6. ASSUME ~history'.overlap, NEW a \in DOMAIN want, NEW b \in DOMAIN want PROVE a = b
  <2>1. SUFFICES ASSUME a # b PROVE FALSE  OBVIOUS
  <2>2. IsFiniteSet(DOMAIN want) /\ Cardinality(DOMAIN want) \in Nat
    BY <1>3, DraftFields, FS_CardinalityType
  <2>3. {a, b} \subseteq DOMAIN want  OBVIOUS
  <2>4. Cardinality({a, b}) <= Cardinality(DOMAIN want)  BY <2>2, <2>3, FS_Subset
  <2>5. Cardinality({a, b}) = 2  BY <2>1, PairSize
  <2>6. Cardinality(DOMAIN want) <= 1  BY <1>2, <1>3, <1>6
  <2> QED BY <2>2, <2>4, <2>5, <2>6
<1>7. ASSUME ~history'.overlap, NEW a \in P!Actors, NEW b \in P!Actors,
             Editing(asks'[a]), Editing(asks'[b])
      PROVE  a = b
  BY <1>4, <1>6, <1>7
<1>8. ASSUME ~history'.overlap, NEW a \in P!Actors, asks'[a].pc = "write"
      PROVE  Checked(deps, asks'[a])
  <2>1. a \notin DOMAIN want  BY <1>5, <1>8
  <2>2. ~Editing(asks'[a])  BY <1>4, <1>8, <2>1
  <2> QED BY <2>2 DEF Checked, Editing
<1>9. PICK g, h1 : g = asks' /\ h1 = history'  OBVIOUS
<1>10. SerialOk(project, deps, g, h1)
  BY <1>2, <1>7, <1>8, <1>9 DEF SerialNow, SerialOk
<1> QED BY <1>2, <1>9, <1>10 DEF SerialNext

\* No step breaks what is known of requests that do not overlap.
LEMMA SerialStep ==
  ASSUME Shape, SerialNow, P!Next
  PROVE  SerialNext
<1>1. /\ AsksOk(asks) /\ DepsOk(deps) /\ editor \in Saves /\ JobOk(releaseJob)
      /\ RowOk(release) /\ GhostsOk(history) /\ CtrsOk(ctrs) /\ deps \in P!Drafts
  BY DEF Shape, ShapeOf, DepsOk
<1>2. Admin \in P!Actors /\ asks[Admin] \in Requests  BY <1>1 DEF P!Actors, AsksOk
<1>3. CASE P!CreateProject
  <2>1. /\ \A a \in P!Actors : asks[a].pc = "idle" /\ asks[a].op = "none"
        /\ deps' \in P!Documents /\ UNCHANGED <<asks, history>>
    BY <1>3, NoRequest
  <2>2. Sound(deps')  BY <2>1, SoundDocument
  <2> QED BY <2>1, <2>2 DEF SerialNext, SerialOk, Editing
<1>4. ASSUME NEW op \in {"patch", "add", "delete"}, Asking(op) PROVE SerialNext
  <2>1. PICK s \in Services, d \in SUBSET Services :
          With(asks, asks', Admin, Asked(op, "read", s, d, {}))
    BY <1>4 DEF Asking
  <2>2. PICK r : r = Asked(op, "read", s, d, {})  OBVIOUS
  <2>3. r.pc = "read"  BY <2>1, <2>2, AskedFields DEF Ops, Steps
  <2>4. PICK h1 : h1 = history'  OBVIOUS
  <2>5. Began(asks, history, h1, Admin) /\ UNCHANGED <<project, deps>>
    BY <1>4, <2>4 DEF Asking
  <2>6. SerialOk(project, deps, asks', h1)
    BY <1>2, <2>1, <2>2, <2>3, <2>5, SerialBegan DEF SerialNow
  <2> QED BY <2>4, <2>5, <2>6 DEF SerialNext
<1>5. ASSUME NEW op \in {"release", "remove"}, NEW pc \in Steps,
             NEW rows \in SUBSET (Services \cup P!Containers), AskingFor(op, pc, rows)
      PROVE  SerialNext
  <2>1. PICK r : r = Asked(op, pc, None, {}, rows)  OBVIOUS
  <2>2. r.op = op  BY <1>5, <2>1, AskedFields DEF Ops
  <2>3. ~Editing(r)  BY <1>5, <2>2 DEF Editing
  <2> QED BY <1>2, <1>5, <2>1, <2>3, SerialAside DEF AskingFor
<1>6. CASE \E s \in Services : P!AskDelete(s)
  BY <1>1, <1>4, <1>6, AskDeleteDoes
<1>7. CASE \E s \in Services : \E d \in SUBSET Services : P!AskPatch(s, d) \/ P!AskAdd(s, d)
  BY <1>1, <1>4, <1>7, AskPatchDoes, AskAddDoes
<1>8. ASSUME NEW a \in P!Actors, P!ReadPatch(a) PROVE SerialNext
  <2>1. CASE Passing(a, "patch") /\ P!ValidateDependencyChange(asks[a].svc, asks[a].deps)
    <3>1. PICK r : r = Advance(asks[a], "write")  OBVIOUS
    <3>2. r.op = "patch" /\ r.svc = asks[a].svc /\ r.deps = asks[a].deps
      BY <1>1, <2>1, <3>1, AdvanceFields DEF AsksOk, Steps, Passing
    <3>3. ~P!Search([deps EXCEPT ![r.svc] = r.deps]).cycle
      BY <2>1, <3>2 DEF P!ValidateDependencyChange
    <3>4. Checked(deps, r)  BY <3>2, <3>3 DEF Checked
    <3> QED BY <1>1, <2>1, <3>1, <3>4, SerialAccepted
  <2> QED BY <1>1, <1>8, <2>1, ReadPatchDoes, SerialRefusing
<1>9. ASSUME NEW a \in P!Actors, P!WritePatch(a) PROVE SerialNext
  <2>1. CASE Refusing(a, "patch", "write")  BY <2>1, SerialRefusing
  <2>2. CASE ~Refusing(a, "patch", "write")
    <3>1. /\ Writing(a, "patch")
          /\ asks[a].svc \in DOMAIN deps /\ asks[a].deps \subseteq DOMAIN deps
          /\ deps' = [deps EXCEPT ![asks[a].svc] = asks[a].deps]
      BY <1>1, <1>9, <2>2, WritePatchDoes
    <3>2. asks[a].op = "patch" /\ asks[a].pc = "write"  BY <3>1 DEF Writing
    <3>3. DepsOk(deps') /\ DOMAIN deps' = DOMAIN deps
      BY <1>1, <3>1, <3>2, WritePatchDeps
    <3>4. ASSUME ~history.overlap, project = "live" PROVE Sound(deps')
      <4>1. Sound(deps) /\ Checked(deps, asks[a])  BY <3>2, <3>4, SerialChecked
      <4>2. ~P!Search([deps EXCEPT ![asks[a].svc] = asks[a].deps]).cycle
        BY <3>2, <4>1 DEF Checked
      <4>3. PICK e : e = deps'  OBVIOUS
      <4>4. DepsOk(e) /\ DOMAIN e = DOMAIN deps /\ ~P!Search(e).cycle
        BY <3>1, <3>3, <4>2, <4>3
      <4>5. Sound(e)  BY <1>1, <4>1, <4>4, SoundPatched
      <4> QED BY <4>3, <4>5
    <3> QED BY <3>1, <3>4, SerialWriting
  <2> QED BY <2>1, <2>2
<1>10. ASSUME NEW a \in P!Actors, P!ReadAdd(a) PROVE SerialNext
  <2>1. CASE Passing(a, "add")
    <3>1. PICK r : r = Advance(asks[a], "write")  OBVIOUS
    <3>2. r.op = "add"
      BY <1>1, <2>1, <3>1, AdvanceFields DEF AsksOk, Steps, Passing
    <3>3. Checked(deps, r)  BY <3>2 DEF Checked
    <3> QED BY <1>1, <2>1, <3>1, <3>3, SerialAccepted
  <2> QED BY <1>1, <1>10, <2>1, ReadAddDoes, SerialRefusing
<1>11. ASSUME NEW a \in P!Actors, P!WriteAdd(a) PROVE SerialNext
  <2>1. CASE Refusing(a, "add", "write")  BY <2>1, SerialRefusing
  <2>2. CASE ~Refusing(a, "add", "write")
    <3>1. /\ Writing(a, "add")
          /\ asks[a].svc \notin DOMAIN deps /\ asks[a].deps \subseteq DOMAIN deps
          /\ asks[a].svc \in Services \ Runtime => DOMAIN deps \subseteq Runtime
          /\ deps' = [t \in DOMAIN deps \cup {asks[a].svc} |->
                        IF t = asks[a].svc THEN asks[a].deps ELSE deps[t]]
      BY <1>1, <1>11, <2>2, WriteAddDoes
    <3>2. asks[a].op = "add" /\ asks[a].pc = "write"  BY <3>1 DEF Writing
    <3>3. PICK e, s, new : e = deps' /\ s = asks[a].svc /\ new = asks[a].deps  OBVIOUS
    <3>4. /\ DepsOk(e) /\ DOMAIN e = DOMAIN deps \cup {s} /\ s \in Services
          /\ e[s] = new /\ \A t \in DOMAIN deps : e[t] = deps[t]
      BY <1>1, <3>1, <3>2, <3>3, WriteAddDeps
    <3>5. ASSUME ~history.overlap, project = "live" PROVE Sound(deps')
      <4>1. Sound(deps)  BY <3>2, <3>5, SerialChecked
      <4>2. s \notin DOMAIN deps /\ e[s] \subseteq DOMAIN deps
            /\ (s \notin Runtime => DOMAIN deps \subseteq Runtime)
        BY <3>1, <3>3, <3>4
      <4>3. Sound(e)  BY <1>1, <3>4, <4>1, <4>2, SoundAdded
      <4> QED BY <3>3, <4>3
    <3> QED BY <3>1, <3>5, SerialWriting
  <2> QED BY <2>1, <2>2
<1>12. CASE P!ReadDelete(Admin)
  <2>1. CASE Passing(Admin, "delete") /\ Cardinality(DOMAIN deps) > 1
    <3>1. PICK r : r = Advance(asks[Admin], "write")  OBVIOUS
    <3>2. r.op = "delete"  BY <1>2, <2>1, <3>1, AdvanceFields DEF Steps, Passing
    <3>3. Checked(deps, r)  BY <2>1, <3>2 DEF Checked
    <3> QED BY <1>1, <1>2, <2>1, <3>1, <3>3, SerialAccepted
  <2> QED BY <1>1, <1>2, <1>12, <2>1, ReadDeleteDoes, SerialRefusing
<1>13. CASE P!WriteDelete(Admin)
  <2>1. CASE Refusing(Admin, "delete", "write")  BY <1>2, <2>1, SerialRefusing
  <2>2. CASE ~Refusing(Admin, "delete", "write")
    <3>1. /\ Writing(Admin, "delete") /\ asks[Admin].svc \in DOMAIN deps
          /\ \A t \in DOMAIN deps : asks[Admin].svc \notin deps[t]
          /\ deps' = [t \in DOMAIN deps \ {asks[Admin].svc} |-> deps[t]]
      BY <1>1, <1>13, <2>2, WriteDeleteDoes
    <3>2. asks[Admin].op = "delete" /\ asks[Admin].pc = "write"  BY <3>1 DEF Writing
    <3>3. PICK e, s : e = deps' /\ s = asks[Admin].svc  OBVIOUS
    <3>4. DOMAIN e = DOMAIN deps \ {s} /\ \A t \in DOMAIN e : e[t] = deps[t]
      BY <3>1, <3>3
    <3>5. ASSUME ~history.overlap, project = "live" PROVE Sound(deps')
      <4>1. Sound(deps) /\ Cardinality(DOMAIN deps) > 1
        BY <1>2, <3>2, <3>5, SerialChecked DEF Checked
      <4>2. s \in DOMAIN deps  BY <3>1, <3>3
      <4>3. Sound(e)  BY <1>1, <3>4, <4>1, <4>2, SoundDeleted
      <4> QED BY <3>3, <4>3
    <3> QED BY <1>2, <3>1, <3>5, SerialWriting
  <2> QED BY <2>1, <2>2
<1>14. CASE P!OpenEditor  BY <1>1, <1>14, OpenEditorDoes, SerialSame
<1>15. CASE P!PatchProject \/ P!EndSave \/ P!CloseEditor
  BY <1>1, <1>15, EditorMoves, SerialSame
<1>16. CASE P!CreateMissing
  <2>1. CASE AskingMissing
    <3>1. PICK s \in DOMAIN editor.want :
            /\ With(asks, asks', s, Asked("add", "read", s, {}, {}))
            /\ Began(asks, history, history', s)
      BY <2>1 DEF AskingMissing
    <3>2. s \in Services /\ s \in P!Actors  BY <1>1, <3>1, SaveTyped DEF P!Actors
    <3>3. PICK r : r = Asked("add", "read", s, {}, {})  OBVIOUS
    <3>4. r.pc = "read"  BY <3>2, <3>3, AskedFields DEF Ops, Steps
    <3>5. PICK h1 : h1 = history'  OBVIOUS
    <3>6. SerialOk(project, deps, asks', h1)
      BY <3>1, <3>2, <3>3, <3>4, <3>5, SerialBegan DEF SerialNow
    <3> QED BY <2>1, <3>5, <3>6 DEF SerialNext, AskingMissing
  <2> QED BY <1>1, <1>16, <2>1, CreateMissingDoes, SerialSame
<1>17. CASE P!PatchServices  BY <1>17, SerialPatchServices
<1>18. CASE P!AskRelease  BY <1>1, <1>5, <1>18, AskReleaseDoes DEF Steps
<1>19. CASE P!ReadRelease
  <2>1. PICK r : With(asks, asks', Admin, r) /\ ~Editing(r)
    BY <1>1, <1>19, ReadReleaseDoes, NoReqNotEditing DEF Editing
  <2> QED BY <1>1, <1>2, <1>19, <2>1, ReadReleaseDoes, SerialAside
<1>20. CASE P!WriteRelease
  BY <1>1, <1>2, <1>20, WriteReleaseDoes, NoReqNotEditing, SerialAside
<1>21. CASE P!TakeJob  BY <1>1, <1>21, TakeJobDoes, SerialSame DEF Kept
<1>22. CASE P!BuildServices  BY <1>1, <1>22, BuildServicesDoes, SerialSame DEF Kept
<1>23. CASE P!EnsureProjectNetwork  BY <1>1, <1>23, EnsureNetworkDoes, SerialSame
<1>24. CASE P!MarkDeploying  BY <1>1, <1>24, MarkDeployingDoes, SerialSame DEF Kept
<1>25. CASE P!CreateCandidates  BY <1>1, <1>25, CreateCandidatesDoes, SerialSame DEF Kept
<1>26. CASE P!StartCandidate  BY <1>1, <1>26, StartCandidateDoes, SerialSame DEF Kept
<1>27. CASE P!CommitRelease  BY <1>1, <1>27, CommitReleaseDoes, SerialSame DEF Kept
<1>28. CASE P!AskRemove
  <2>1. ctrs.made \in SUBSET (Services \cup P!Containers)
    BY <1>1 DEF CtrsOk, Made, P!Containers, Runtime
  <2> QED BY <1>1, <1>5, <1>28, <2>1, AskRemoveDoes DEF Steps
<1>29. ASSUME NEW pc \in Steps, Removing(pc),
              \E to \in Steps : \/ With(asks, asks', Admin, P!NoReq)
                                \/ With(asks, asks', Admin, Advance(asks[Admin], to)),
              UNCHANGED <<project, deps>>, history'.overlap = history.overlap
       PROVE  SerialNext
  <2>1. CASE With(asks, asks', Admin, P!NoReq)
    BY <1>2, <1>29, <2>1, NoReqNotEditing, SerialAside
  <2>2. CASE \E to \in Steps : With(asks, asks', Admin, Advance(asks[Admin], to))
    <3>1. PICK to \in Steps : With(asks, asks', Admin, Advance(asks[Admin], to))  BY <2>2
    <3>2. PICK r : r = Advance(asks[Admin], to)  OBVIOUS
    <3>3. r.op = "remove"  BY <1>2, <1>29, <3>1, <3>2, AdvanceFields DEF Removing
    <3>4. ~Editing(r)  BY <3>3 DEF Editing
    <3> QED BY <1>2, <1>29, <3>1, <3>2, <3>4, SerialAside
  <2> QED BY <1>29, <2>1, <2>2
<1>30. CASE P!RemoveContainers  BY <1>1, <1>29, <1>30, RemoveContainersDoes DEF Steps
<1>31. CASE P!RemoveNetwork  BY <1>1, <1>29, <1>31, RemoveNetworkDoes DEF Steps
<1>32. CASE P!RowRestricted  BY <1>1, <1>29, <1>32, RowRestrictedDoes DEF Steps
<1>33. CASE P!RemoveRow
  <2>1. /\ With(asks, asks', Admin, P!NoReq) /\ project' = "gone" /\ UNCHANGED history
    BY <1>1, <1>33, RemoveRowDoes
  <2>2. PICK g, dx : g = asks' /\ dx = deps'  OBVIOUS
  <2>3. SerialOk(project, deps, g, history)
    BY <1>2, <2>1, <2>2, NoReqNotEditing, SerialAnswered DEF SerialNow
  <2>4. SerialOk("gone", dx, g, history)  BY <2>3 DEF SerialOk
  <2> QED BY <2>1, <2>2, <2>4 DEF SerialNext
<1> QED BY <1>3, <1>6, <1>7, <1>8, <1>9, <1>10, <1>11, <1>12, <1>13, <1>14, <1>15, <1>16, <1>17,
           <1>18, <1>19, <1>20, <1>21, <1>22, <1>23, <1>24, <1>25, <1>26, <1>27, <1>28, <1>30,
           <1>31, <1>32, <1>33 DEF P!Next

-----------------------------------------------------------------------------
(***************************************************************************)
(* The job, the containers and the network beside the deletion.            *)
(***************************************************************************)
\* The steps of the requests about services, of the save and of the request for a release.
Requesting ==
  \/ \E s \in Services : P!AskDelete(s)
                         \/ \E d \in SUBSET Services : P!AskPatch(s, d) \/ P!AskAdd(s, d)
  \/ \E a \in P!Actors : P!ReadPatch(a) \/ P!WritePatch(a) \/ P!ReadAdd(a) \/ P!WriteAdd(a)
  \/ P!ReadDelete(Admin) \/ P!WriteDelete(Admin)
  \/ P!OpenEditor
  \/ P!PatchProject \/ P!CreateMissing \/ P!PatchServices \/ P!EndSave \/ P!CloseEditor
  \/ P!AskRelease \/ P!ReadRelease

\* What they leave alone.
Aside ==
  /\ UNCHANGED <<project, releaseJob, ctrs, network>> /\ release'.id = release.id
  /\ history'.remade = history.remade /\ history'.refused = history.refused
  /\ asks'[Admin] = asks[Admin] \/ asks'[Admin].op # "remove"

\* One request changes, and is none of a deletion.
LEMMA AsideWith ==
  ASSUME Shape, NEW a \in P!Actors, NEW r \in Requests, With(asks, asks', a, r), r.op # "remove",
         UNCHANGED <<project, releaseJob, ctrs, network>>, release'.id = release.id,
         history'.remade = history.remade, history'.refused = history.refused
  PROVE  Aside
<1>1. Admin \in P!Actors  BY DEF P!Actors
<1> QED BY <1>1 DEF With, Aside

\* The steps of a request about a service.
LEMMA AsideRequest ==
  ASSUME Shape, NEW a \in P!Actors, NEW op \in {"patch", "add", "delete"},
         \/ Passing(a, op)
         \/ \E pc \in {"read", "write"} : Refusing(a, op, pc)
         \/ Writing(a, op) /\ release'.id = release.id
  PROVE  Aside
<1>1. asks[a] \in Requests  BY DEF Shape, ShapeOf, AsksOk
<1>2. CASE Passing(a, op)
  <2>1. PICK r : r = Advance(asks[a], "write")  OBVIOUS
  <2>2. r \in Requests /\ r.op = op  BY <1>1, <1>2, <2>1, AdvanceFields DEF Steps, Passing
  <2> QED BY <1>2, <2>1, <2>2, AsideWith DEF Passing
<1>3. CASE \E pc \in {"read", "write"} : Refusing(a, op, pc)
  BY <1>3, NoReqFields, AsideWith DEF Refusing, Refused
<1>4. CASE Writing(a, op) /\ release'.id = release.id
  BY <1>4, NoReqFields, AsideWith DEF Writing, Done
<1> QED BY <1>2, <1>3, <1>4

\* None of these steps touches the job, the containers or the network.
LEMMA AsideStep ==
  ASSUME Shape, Requesting
  PROVE  Aside
<1>1. /\ AsksOk(asks) /\ DepsOk(deps) /\ editor \in Saves /\ JobOk(releaseJob)
      /\ RowOk(release) /\ GhostsOk(history) /\ deps \in P!Drafts
  BY DEF Shape, ShapeOf, DepsOk
<1>2. Admin \in P!Actors  BY DEF P!Actors
<1>3. ASSUME NEW op \in {"patch", "add", "delete"}, Asking(op) PROVE Aside
  <2>1. PICK s \in Services, d \in SUBSET Services :
          With(asks, asks', Admin, Asked(op, "read", s, d, {}))
    BY <1>3 DEF Asking
  <2>2. PICK r : r = Asked(op, "read", s, d, {})  OBVIOUS
  <2>3. r \in Requests /\ r.op = op  BY <2>1, <2>2, AskedFields DEF Ops, Steps
  <2> QED BY <1>2, <1>3, <2>1, <2>2, <2>3, AsideWith DEF Asking, Began
<1>4. CASE \E s \in Services : P!AskDelete(s)
  BY <1>1, <1>3, <1>4, AskDeleteDoes
<1>5. CASE \E s \in Services : \E d \in SUBSET Services : P!AskPatch(s, d) \/ P!AskAdd(s, d)
  BY <1>1, <1>3, <1>5, AskPatchDoes, AskAddDoes
<1>6. ASSUME NEW a \in P!Actors, P!ReadPatch(a) PROVE Aside
  BY <1>1, <1>6, ReadPatchDoes, AsideRequest
<1>7. ASSUME NEW a \in P!Actors, P!WritePatch(a) PROVE Aside
  BY <1>1, <1>7, WritePatchDoes, AsideRequest
<1>8. ASSUME NEW a \in P!Actors, P!ReadAdd(a) PROVE Aside
  BY <1>1, <1>8, ReadAddDoes, AsideRequest
<1>9. ASSUME NEW a \in P!Actors, P!WriteAdd(a) PROVE Aside
  BY <1>1, <1>9, WriteAddDoes, AsideRequest
<1>10. CASE P!ReadDelete(Admin)  BY <1>1, <1>2, <1>10, ReadDeleteDoes, AsideRequest
<1>11. CASE P!WriteDelete(Admin)  BY <1>1, <1>2, <1>11, WriteDeleteDoes, AsideRequest
<1>12. CASE P!OpenEditor  BY <1>1, <1>12, OpenEditorDoes DEF Aside
<1>13. CASE P!PatchProject \/ P!EndSave \/ P!CloseEditor
  BY <1>1, <1>13, EditorMoves DEF Aside
<1>14. CASE P!CreateMissing
  <2>1. CASE AskingMissing
    <3>1. PICK s \in DOMAIN editor.want :
            /\ With(asks, asks', s, Asked("add", "read", s, {}, {}))
            /\ Began(asks, history, history', s)
      BY <2>1 DEF AskingMissing
    <3>2. s \in Services /\ s \in P!Actors  BY <1>1, <3>1, SaveTyped DEF P!Actors
    <3>3. PICK r : r = Asked("add", "read", s, {}, {})  OBVIOUS
    <3>4. r \in Requests /\ r.op = "add"  BY <3>2, <3>3, AskedFields DEF Ops, Steps
    <3> QED BY <2>1, <3>1, <3>2, <3>3, <3>4, AsideWith DEF AskingMissing, Began
  <2> QED BY <1>1, <1>14, <2>1, CreateMissingDoes DEF Aside
<1>15. CASE P!PatchServices
  <2>1. /\ Patched(asks, asks', editor.want)
        /\ UNCHANGED <<project, release, releaseJob, ctrs, network>>
        /\ history'.remade = history.remade /\ history'.refused = history.refused
    BY <1>1, <1>15, PatchServicesDoes
  <2>2. Admin \notin DOMAIN editor.want  BY <1>1, SaveTyped, ServicesAssumption
  <2> QED BY <1>2, <2>1, <2>2 DEF Patched, Aside
<1>16. CASE P!AskRelease
  <2>1. AskingFor("release", "read", {})  BY <1>1, <1>16, AskReleaseDoes
  <2>2. PICK r : r = Asked("release", "read", None, {}, {})  OBVIOUS
  <2>3. r \in Requests /\ r.op = "release"  BY <2>2, AskedFields DEF Ops, Steps
  <2> QED BY <1>2, <2>1, <2>2, <2>3, AsideWith DEF AskingFor
<1>17. CASE P!ReadRelease
  <2>1. PICK r \in Requests : With(asks, asks', Admin, r) /\ r.op # "remove"
    BY <1>1, <1>17, ReadReleaseDoes, NoReqFields
  <2> QED BY <1>1, <1>2, <1>17, <2>1, ReadReleaseDoes, AsideWith
<1> QED BY <1>4, <1>5, <1>6, <1>7, <1>8, <1>9, <1>10, <1>11, <1>12, <1>13, <1>14, <1>15, <1>16,
           <1>17 DEF Requesting

OrderNow == Ordered(releaseJob)
OrderNext == Ordered(releaseJob')

\* No step breaks the order.
LEMMA OrderStep ==
  ASSUME Shape, OrderNow, P!Next
  PROVE  OrderNext
<1>1. /\ AsksOk(asks) /\ DepsOk(deps) /\ editor \in Saves /\ JobOk(releaseJob)
      /\ RowOk(release) /\ GhostsOk(history) /\ CtrsOk(ctrs) /\ deps \in P!Drafts
  BY DEF Shape, ShapeOf, DepsOk
<1>2. ASSUME UNCHANGED releaseJob PROVE OrderNext
  BY <1>2 DEF OrderNow, OrderNext
<1>3. ASSUME releaseJob'.pc # "start" PROVE OrderNext
  BY <1>3 DEF OrderNext, Ordered
<1>4. ASSUME Failing PROVE OrderNext  BY <1>3, <1>4, NoJobOk DEF Failing
<1>5. CASE P!CreateProject  BY <1>2, <1>5, NoRequest
<1>6. CASE Requesting  BY <1>2, <1>6, AsideStep DEF Aside
<1>7. CASE P!WriteRelease  BY <1>1, <1>2, <1>3, <1>7, WriteReleaseDoes
<1>8. CASE P!TakeJob  BY <1>1, <1>3, <1>4, <1>8, TakeJobDoes
<1>9. CASE P!BuildServices  BY <1>1, <1>3, <1>4, <1>9, BuildServicesDoes
<1>10. CASE P!EnsureProjectNetwork  BY <1>1, <1>3, <1>10, EnsureNetworkDoes
<1>11. CASE P!MarkDeploying  BY <1>1, <1>3, <1>4, <1>11, MarkDeployingDoes
<1>12. CASE P!CreateCandidates
  BY <1>1, <1>2, <1>4, <1>12, CreateCandidatesDoes, StartBegins DEF OrderNext
<1>13. CASE P!StartCandidate
  BY <1>1, <1>4, <1>13, StartCandidateDoes, StartGoesOn DEF OrderNow, OrderNext
<1>14. CASE P!CommitRelease  BY <1>1, <1>3, <1>14, CommitReleaseDoes, NoJobOk
<1>15. CASE P!AskRemove  BY <1>1, <1>2, <1>15, AskRemoveDoes DEF AskingFor
<1>16. CASE P!RemoveContainers \/ P!RemoveNetwork \/ P!RowRestricted \/ P!RemoveRow
  BY <1>1, <1>2, <1>16, RemoveContainersDoes, RemoveNetworkDoes, RowRestrictedDoes, RemoveRowDoes
<1> QED BY <1>5, <1>6, <1>7, <1>8, <1>9, <1>10, <1>11, <1>12, <1>13, <1>14, <1>15, <1>16
        DEF P!Next, Requesting

-----------------------------------------------------------------------------
(***************************************************************************)
(* What is left of a project that is deleted while a job deploys it.  The  *)
(* network is gone only once no container runs on it, and a candidate can  *)
(* be started only on a network, so the job of a deleted project fails and *)
(* removes what it had created - unless it makes the network again.  What  *)
(* has been created but does not run, Docker has refused to remove or the  *)
(* job is about to start.                                                  *)
(***************************************************************************)
Ahead == {"queued", "build", "network", "deploying"}
Candidates == {"create", "start"}

\* A candidate the job has created and not started.
Waiting(j, id, x) ==
  j.pc \in Candidates /\ x[1] = id /\ x[2] \in RuntimeOf(j) \ j.started

\* Of the project p, Admin's request q, the job j of the release id, the containers c, the
\* network n, whether the network has been remade, m, and the containers refused, f.
NetworkOk(p, q, j, id, c, n, m, f) ==
  /\ ~n => c.up = {}
  /\ \A x \in c.made : x \in c.up \/ x \in f \/ Waiting(j, id, x)
  /\ q.op = "remove" /\ q.pc = "row" => m \/ ~n
  /\ p = "gone" /\ ~m => IF j.pc \in Candidates THEN ~n ELSE c.up = {}

NetworkNow ==
  NetworkOk(project, asks[Admin], releaseJob, release.id, ctrs, network, history.remade,
            history.refused)
NetworkNext ==
  NetworkOk(project', asks'[Admin], releaseJob', release'.id, ctrs', network', history'.remade,
            history'.refused)

\* A request that is no deletion, or one that has not come to its last step.
LEMMA NetworkAside ==
  ASSUME NEW p, NEW q, NEW j, NEW id, NEW c, NEW n, NEW m, NEW f,
         NetworkOk(p, q, j, id, c, n, m, f),
         NEW p1, p1 = p \/ p1 = "live", NEW q1, q1 = q \/ q1.op # "remove" \/ q1.pc # "row"
  PROVE  NetworkOk(p1, q1, j, id, c, n, m, f)
BY DEF NetworkOk

\* The job fails.
LEMMA NetworkFails ==
  ASSUME NEW p, NEW q, NEW j, NEW id, NEW c, NEW n \in BOOLEAN, NEW m \in BOOLEAN, NEW h, NEW hx,
         NetworkOk(p, q, j, id, c, n, m, h.refused),
         NEW S, S = {x \in c.made : x[1] = id}, NEW ux, c.up \subseteq ux,
         ux = c.up \/ (n /\ j.pc = "start"),
         NEW cx, ClearedOf(c, cx, h, hx, S, ux), NEW k, k.pc = "none"
  PROVE  NetworkOk(p, q, k, id, cx, n, m, hx.refused)
<1>1. ~n => cx.up = {}  BY DEF NetworkOk, ClearedOf
<1>2. ASSUME NEW x \in cx.made, x \notin hx.refused PROVE x \in cx.up
  <2>1. x \in c.made /\ x \notin S  BY <1>2 DEF ClearedOf
  <2>2. x \in c.up  BY <1>2, <2>1 DEF NetworkOk, ClearedOf, Waiting
  <2> QED BY <2>1, <2>2 DEF ClearedOf
<1>3. p = "gone" /\ ~m => cx.up = {}
  BY DEF NetworkOk, ClearedOf, Candidates
<1> QED BY <1>1, <1>2, <1>3 DEF NetworkOk, Candidates

\* The job goes on before it has candidates.
LEMMA NetworkAhead ==
  ASSUME NEW p, NEW q, NEW j, NEW id, NEW c, NEW n, NEW m, NEW f,
         NetworkOk(p, q, j, id, c, n, m, f), j.pc \in Ahead, NEW k, k.pc \in Ahead
  PROVE  NetworkOk(p, q, k, id, c, n, m, f)
BY DEF NetworkOk, Ahead, Candidates, Waiting

\* The job makes the network.
LEMMA NetworkMade ==
  ASSUME NEW p, NEW q, NEW j, NEW id, NEW c, NEW n, NEW m \in BOOLEAN, NEW f,
         NetworkOk(p, q, j, id, c, n, m, f), j.pc \in Ahead, NEW k, k.pc \in Ahead,
         NEW m1 \in BOOLEAN, m => m1, q.op = "remove" /\ q.pc = "row" => m1
  PROVE  NetworkOk(p, q, k, id, c, TRUE, m1, f)
BY DEF NetworkOk, Ahead, Candidates, Waiting

\* A job is queued.
LEMMA NetworkQueued ==
  ASSUME NEW p, NEW q, NEW j, NEW id, NEW c, NEW n, NEW m, NEW f,
         NetworkOk(p, q, j, id, c, n, m, f), j.pc = "none",
         NEW k, k.pc = "queued", NEW q1, q1.op # "remove", NEW next
  PROVE  NetworkOk(p, q1, k, next, c, n, m, f)
BY DEF NetworkOk, Candidates, Waiting

\* The project is there when the candidates are created.
LEMMA NetworkMarked ==
  ASSUME NEW q, NEW j, NEW id, NEW c, NEW n, NEW m, NEW f,
         NetworkOk("live", q, j, id, c, n, m, f), j.pc = "deploying", NEW k, k.pc = "create"
  PROVE  NetworkOk("live", q, k, id, c, n, m, f)
BY DEF NetworkOk, Candidates, Waiting

\* A candidate is created, and joins no network yet.
LEMMA NetworkCreated ==
  ASSUME NEW p, NEW q, NEW j, NEW id, NEW c, NEW n, NEW m, NEW f,
         NetworkOk(p, q, j, id, c, n, m, f), j.pc = "create", j.started = {},
         NEW s \in RuntimeOf(j), NEW cx, cx.made = c.made \cup {<<id, s>>}, cx.up = c.up
  PROVE  NetworkOk(p, q, j, id, cx, n, m, f)
<1>1. Waiting(j, id, <<id, s>>)  BY DEF Waiting, Candidates
<1> QED BY <1>1 DEF NetworkOk

\* The candidates are all there.
LEMMA NetworkStarts ==
  ASSUME NEW p, NEW q, NEW j, NEW id, NEW c, NEW n, NEW m, NEW f,
         NetworkOk(p, q, j, id, c, n, m, f), j.pc = "create",
         j.started = {}, NEW k, k.pc = "start", k.seen = j.seen, k.started = {}
  PROVE  NetworkOk(p, q, k, id, c, n, m, f)
<1>1. \A x : Waiting(j, id, x) => Waiting(k, id, x)  BY DEF Waiting, Candidates, RuntimeOf
<1> QED BY <1>1 DEF NetworkOk, Candidates

\* From j and c to k and cx the candidate of s is started, on a network if it was not running.
Starting(j, k, id, s, c, cx, n) ==
  /\ j.pc = "start" /\ k.pc = "start" /\ k.seen = j.seen /\ k.started = j.started \cup {s}
  /\ cx.made = c.made /\ cx.up = c.up \cup {<<id, s>>}
  /\ n \/ cx.up = c.up

\* A candidate is started on the network.
LEMMA NetworkUp ==
  ASSUME NEW p, NEW q, NEW j, NEW id, NEW c, NEW n \in BOOLEAN, NEW m, NEW f,
         NetworkOk(p, q, j, id, c, n, m, f), CtrsOk(c),
         NEW s, NEW k, NEW cx, Starting(j, k, id, s, c, cx, n)
  PROVE  NetworkOk(p, q, k, id, cx, n, m, f)
<1>1. ASSUME NEW x \in c.made, Waiting(j, id, x) PROVE x \in cx.up \/ Waiting(k, id, x)
  <2>1. x = <<x[1], x[2]>>  BY DEF CtrsOk, Made
  <2> QED BY <1>1, <2>1 DEF Waiting, Candidates, RuntimeOf, Starting
<1> QED BY <1>1 DEF NetworkOk, Candidates, Starting

\* All that the job created has started.
LEMMA NetworkCommits ==
  ASSUME NEW p, NEW q, NEW j, NEW id, NEW c, NEW n \in BOOLEAN, NEW m \in BOOLEAN, NEW h, NEW hx,
         NetworkOk(p, q, j, id, c, n, m, h.refused), j.pc = "start",
         \A s \in RuntimeOf(j) : s \in j.started,
         NEW S, NEW cx, ClearedOf(c, cx, h, hx, S, c.up), NEW k, k.pc = "none"
  PROVE  NetworkOk(p, q, k, id, cx, n, m, hx.refused)
<1>1. ~n => cx.up = {}  BY DEF NetworkOk, ClearedOf
<1>2. ASSUME NEW x \in cx.made, x \notin hx.refused PROVE x \in cx.up
  <2>1. x \in c.made /\ x \notin S /\ x \notin h.refused  BY <1>2 DEF ClearedOf
  <2>2. x \in c.up  BY <2>1 DEF NetworkOk, Waiting
  <2> QED BY <2>1, <2>2 DEF ClearedOf
<1>3. p = "gone" /\ ~m => cx.up = {}
  BY <1>1 DEF NetworkOk, ClearedOf, Candidates
<1> QED BY <1>1, <1>2, <1>3 DEF NetworkOk, Candidates

\* The deletion removes the containers it listed.
LEMMA NetworkCleared ==
  ASSUME NEW p, NEW q, NEW j, NEW id, NEW c, NEW n, NEW m, NEW h, NEW hx,
         NetworkOk(p, q, j, id, c, n, m, h.refused),
         NEW S, NEW cx, ClearedOf(c, cx, h, hx, S, c.up), NEW q1, q1.pc = "network"
  PROVE  NetworkOk(p, q1, j, id, cx, n, m, hx.refused)
<1>1. cx.up \subseteq c.up  BY DEF ClearedOf
<1>2. ASSUME NEW x \in cx.made, x \notin hx.refused PROVE x \in cx.up \/ Waiting(j, id, x)
  <2>1. x \in c.made /\ x \notin S /\ x \notin h.refused  BY <1>2 DEF ClearedOf
  <2>2. x \in c.up \/ Waiting(j, id, x)  BY <2>1 DEF NetworkOk
  <2> QED BY <2>1, <2>2 DEF ClearedOf
<1> QED BY <1>1, <1>2 DEF NetworkOk

\* The network is removed only while nothing runs on it.
LEMMA NetworkRemoved ==
  ASSUME NEW p, NEW q, NEW j, NEW id, NEW c, NEW n \in BOOLEAN, NEW m, NEW f,
         NetworkOk(p, q, j, id, c, n, m, f), ~n \/ c.up = {}, NEW q1
  PROVE  NetworkOk(p, q1, j, id, c, FALSE, m, f)
BY DEF NetworkOk

\* The deletion removes the row.
LEMMA NetworkRowGone ==
  ASSUME NEW p, NEW q, NEW j, NEW id, NEW c, NEW n \in BOOLEAN, NEW m \in BOOLEAN, NEW f,
         NetworkOk(p, q, j, id, c, n, m, f), q.op = "remove", q.pc = "row",
         NEW q1, q1.op # "remove"
  PROVE  NetworkOk("gone", q1, j, id, c, n, m, f)
BY DEF NetworkOk

\* No step breaks what is known of the network.
LEMMA NetworkStep ==
  ASSUME Shape, OrderNow, NetworkNow, P!Next
  PROVE  NetworkNext
<1>1. /\ AsksOk(asks) /\ DepsOk(deps) /\ editor \in Saves /\ JobOk(releaseJob)
      /\ RowOk(release) /\ GhostsOk(history) /\ CtrsOk(ctrs) /\ network \in BOOLEAN
      /\ history.remade \in BOOLEAN /\ releaseJob.pc \in JobSteps /\ deps \in P!Drafts
      /\ PhaseOk(project, asks, editor, release, releaseJob)
  BY DEF Shape, ShapeOf, GhostsOk, JobOk, Jobs, DepsOk
<1>2. Admin \in P!Actors /\ asks[Admin] \in Requests  BY <1>1 DEF P!Actors, AsksOk
<1>3. ASSUME Failing, Kept PROVE NetworkNext
  <2>1. PICK ux \in SUBSET Made : FailingFrom(ux)  BY <1>3 DEF Failing
  <2>2. PICK S : S = P!Candidates  OBVIOUS
  <2>3. S = {x \in ctrs.made : x[1] = release.id}  BY <2>2 DEF P!Candidates
  <2>4. PICK cx, hx, k : cx = ctrs' /\ hx = history' /\ k = releaseJob'  OBVIOUS
  <2>5. /\ ctrs.up \subseteq ux /\ (ux = ctrs.up \/ (network /\ releaseJob.pc = "start"))
        /\ ClearedOf(ctrs, cx, history, hx, S, ux)
    BY <2>1, <2>2, <2>4 DEF FailingFrom, Cleared
  <2>6. k.pc = "none" /\ release'.id = release.id  BY <1>3, <2>4, NoJobOk DEF Failing
  <2>7. NetworkOk(project, asks[Admin], k, release.id, cx, network, history.remade, hx.refused)
    BY <1>1, <2>3, <2>5, <2>6, NetworkFails DEF NetworkNow
  <2> QED BY <1>3, <2>4, <2>6, <2>7 DEF Kept, NetworkNext
<1>4. CASE P!CreateProject
  BY <1>4, NoRequest, NetworkAside DEF NetworkNow, NetworkNext
<1>5. CASE Requesting
  BY <1>5, AsideStep, NetworkAside DEF Aside, NetworkNow, NetworkNext
<1>6. CASE P!WriteRelease
  <2>1. /\ asks[Admin].op = "release" /\ asks[Admin].pc = "write"
        /\ With(asks, asks', Admin, P!NoReq)
        /\ UNCHANGED <<project, deps, editor, ctrs, network, history>>
        /\ UNCHANGED <<release, releaseJob>> \/ releaseJob'.pc = "queued"
    BY <1>1, <1>6, WriteReleaseDoes
  <2>2. asks'[Admin].op # "remove"  BY <2>1, NoReqFields DEF With
  <2>3. CASE UNCHANGED <<release, releaseJob>>
    BY <2>1, <2>2, <2>3, NetworkAside DEF NetworkNow, NetworkNext
  <2>4. CASE releaseJob'.pc = "queued"
    <3>1. releaseJob.pc = "none"  BY <1>1, <2>1 DEF PhaseOk
    <3> QED BY <2>1, <2>2, <2>4, <3>1, NetworkQueued DEF NetworkNow, NetworkNext
  <2> QED BY <2>1, <2>3, <2>4
<1>7. ASSUME releaseJob.pc \in Ahead, releaseJob'.pc \in Ahead, release'.id = release.id,
             UNCHANGED <<ctrs, history>>, Kept
      PROVE  NetworkNext
  BY <1>1, <1>7, NetworkAhead DEF NetworkNow, NetworkNext, Kept
<1>8. CASE P!TakeJob  BY <1>1, <1>3, <1>7, <1>8, TakeJobDoes DEF Ahead
<1>9. CASE P!BuildServices  BY <1>1, <1>3, <1>7, <1>9, BuildServicesDoes DEF Ahead
<1>10. CASE P!EnsureProjectNetwork
  <2>1. /\ releaseJob.pc = "network" /\ network' = TRUE /\ releaseJob'.pc = "deploying"
        /\ GhostsOk(history') /\ (history.remade => history'.remade)
        /\ (asks[Admin].op = "remove" /\ asks[Admin].pc = "row" => history'.remade)
        /\ UNCHANGED <<project, deps, asks, editor, release, ctrs>>
        /\ history'.refused = history.refused
    BY <1>1, <1>10, EnsureNetworkDoes
  <2>2. PICK m1 \in BOOLEAN : m1 = history'.remade  BY <2>1 DEF GhostsOk
  <2>3. PICK k, q : k = releaseJob' /\ q = asks[Admin]  OBVIOUS
  <2>4. PICK m \in BOOLEAN : m = history.remade  BY <1>1
  <2>5. releaseJob.pc \in Ahead /\ k.pc \in Ahead  BY <2>1, <2>3 DEF Ahead
  <2>6. (m => m1) /\ (q.op = "remove" /\ q.pc = "row" => m1)  BY <2>1, <2>2, <2>3, <2>4
  <2>7. NetworkOk(project, q, releaseJob, release.id, ctrs, network, m, history.refused)
    BY <2>3, <2>4 DEF NetworkNow
  <2>8. NetworkOk(project, q, k, release.id, ctrs, TRUE, m1, history.refused)
    BY <2>5, <2>6, <2>7, NetworkMade
  <2> QED BY <2>1, <2>2, <2>3, <2>8 DEF NetworkNext
<1>11. CASE P!MarkDeploying
  <2>1. CASE Failing  BY <1>1, <1>3, <1>11, <2>1, MarkDeployingDoes
  <2>2. CASE ~Failing
    BY <1>1, <1>11, <2>2, MarkDeployingDoes, NetworkMarked DEF NetworkNow, NetworkNext, Kept
  <2> QED BY <2>1, <2>2
<1>12. CASE P!CreateCandidates
  <2>1. releaseJob.pc = "create" /\ releaseJob.started = {} /\ Kept
    BY <1>1, <1>12, CreateCandidatesDoes DEF JobOk
  <2>2. CASE Failing  BY <1>3, <2>1, <2>2
  <2>3. CASE /\ \E s \in RuntimeOf(releaseJob) : ctrs'.made = ctrs.made \cup {<<release.id, s>>}
             /\ ctrs'.up = ctrs.up /\ UNCHANGED <<releaseJob, release, history>>
    <3>1. PICK s \in RuntimeOf(releaseJob) : ctrs'.made = ctrs.made \cup {<<release.id, s>>}
      BY <2>3
    <3>2. PICK cx : cx = ctrs'  OBVIOUS
    <3>3. NetworkOk(project, asks[Admin], releaseJob, release.id, cx, network, history.remade,
                    history.refused)
      BY <2>1, <2>3, <3>1, <3>2, NetworkCreated DEF NetworkNow
    <3> QED BY <2>1, <2>3, <3>2, <3>3 DEF NetworkNext, Kept
  <2>4. CASE /\ P!OrderRuntimeServices(releaseJob.seen).ok
             /\ releaseJob' = [releaseJob EXCEPT !.pc = "start",
                                 !.order = P!OrderRuntimeServices(releaseJob.seen).order]
             /\ UNCHANGED <<ctrs, release, history>>
    <3>1. /\ releaseJob'.pc = "start" /\ releaseJob'.seen = releaseJob.seen
          /\ releaseJob'.started = {}
      BY <1>1, <2>1, <2>4, StartBegins
    <3> QED BY <2>1, <2>4, <3>1, NetworkStarts DEF NetworkNow, NetworkNext, Kept
  <2> QED BY <1>1, <1>12, <2>2, <2>3, <2>4, CreateCandidatesDoes
<1>13. CASE P!StartCandidate
  <2>1. CASE Failing  BY <1>1, <1>3, <1>13, <2>1, StartCandidateDoes
  <2>2. CASE ~Failing
    <3>1. /\ releaseJob.pc = "start" /\ Kept /\ (network \/ ctrs'.up = ctrs.up)
          /\ ctrs'.made = ctrs.made
          /\ ctrs'.up = ctrs.up \cup {<<release.id, Head(releaseJob.order)>>}
          /\ UNCHANGED <<release, history>>
      BY <1>1, <1>13, <2>2, StartCandidateDoes
    <3>2. PICK s, cx, k : s = Head(releaseJob.order) /\ cx = ctrs' /\ k = releaseJob'  OBVIOUS
    <3>3. k.pc = "start" /\ k.seen = releaseJob.seen /\ k.started = releaseJob.started \cup {s}
      BY <1>1, <1>13, <2>2, <3>2, StartCandidateDoes, StartGoesOn DEF OrderNow
    <3>4. Starting(releaseJob, k, release.id, s, ctrs, cx, network)
      BY <3>1, <3>2, <3>3 DEF Starting
    <3>5. NetworkOk(project, asks[Admin], k, release.id, cx, network, history.remade,
                    history.refused)
      BY <1>1, <3>4, NetworkUp DEF NetworkNow
    <3> QED BY <3>1, <3>2, <3>5 DEF NetworkNext, Kept
  <2> QED BY <2>1, <2>2
<1>14. CASE P!CommitRelease
  <2>1. /\ releaseJob.pc = "start" /\ releaseJob.order = <<>> /\ releaseJob'.pc = "none"
        /\ release'.id = release.id /\ Kept /\ Cleared(ctrs.made \ P!Candidates, ctrs.up)
    BY <1>1, <1>14, CommitReleaseDoes, NoJobOk
  <2>2. \A s \in RuntimeOf(releaseJob) : s \in releaseJob.started
    BY <2>1 DEF OrderNow, Ordered
  <2>3. PICK S, cx, hx, k : /\ S = ctrs.made \ P!Candidates /\ cx = ctrs' /\ hx = history'
                            /\ k = releaseJob'
    OBVIOUS
  <2>4. ClearedOf(ctrs, cx, history, hx, S, ctrs.up) /\ k.pc = "none"
    BY <2>1, <2>3 DEF Cleared
  <2>5. NetworkOk(project, asks[Admin], k, release.id, cx, network, history.remade, hx.refused)
    BY <1>1, <2>1, <2>2, <2>4, NetworkCommits DEF NetworkNow
  <2> QED BY <2>1, <2>3, <2>5 DEF NetworkNext, Kept
<1>15. CASE P!AskRemove
  <2>1. AskingFor("remove", "containers", ctrs.made)  BY <1>1, <1>15, AskRemoveDoes
  <2>2. ctrs.made \in SUBSET (Services \cup P!Containers)
    BY <1>1 DEF CtrsOk, Made, P!Containers, Runtime
  <2>3. asks'[Admin].op = "remove" /\ asks'[Admin].pc = "containers"
    BY <1>1, <2>1, <2>2, AskedFields DEF AskingFor, With, Ops, Steps
  <2>4. /\ UNCHANGED <<project, release, releaseJob, ctrs, network>>
        /\ history'.remade = history.remade /\ history'.refused = history.refused
    BY <2>1 DEF AskingFor
  <2> QED BY <2>3, <2>4, NetworkAside DEF NetworkNow, NetworkNext
<1>16. CASE P!RemoveContainers
  <2>1. /\ Removing("containers") /\ With(asks, asks', Admin, Advance(asks[Admin], "network"))
        /\ Cleared(asks[Admin].rows, ctrs.up)
        /\ UNCHANGED <<project, deps, editor, release, releaseJob, network>>
    BY <1>1, <1>16, RemoveContainersDoes
  <2>2. asks'[Admin].pc = "network"  BY <1>2, <2>1, AdvanceFields DEF With, Steps
  <2>3. PICK S, cx, hx, q1 : /\ S = asks[Admin].rows /\ cx = ctrs' /\ hx = history'
                             /\ q1 = asks'[Admin]
    OBVIOUS
  <2>4. /\ ClearedOf(ctrs, cx, history, hx, S, ctrs.up) /\ q1.pc = "network"
        /\ history'.remade = history.remade
    BY <2>1, <2>2, <2>3 DEF Cleared, ClearedOf
  <2>5. NetworkOk(project, q1, releaseJob, release.id, cx, network, history.remade, hx.refused)
    BY <2>4, NetworkCleared DEF NetworkNow
  <2> QED BY <2>1, <2>3, <2>4, <2>5 DEF NetworkNext
<1>17. CASE P!RemoveNetwork
  <2>1. UNCHANGED <<project, deps, editor, release, releaseJob, ctrs, history>>
    BY <1>1, <1>17, RemoveNetworkDoes
  <2>2. CASE With(asks, asks', Admin, P!NoReq) /\ UNCHANGED network
    <3>1. asks'[Admin].op # "remove"  BY <2>2, NoReqFields DEF With
    <3> QED BY <2>1, <2>2, <3>1, NetworkAside DEF NetworkNow, NetworkNext
  <2>3. CASE (~network \/ ctrs.up = {}) /\ network' = FALSE
    <3>1. PICK q1 : q1 = asks'[Admin]  OBVIOUS
    <3>2. /\ network \in BOOLEAN /\ (~network \/ ctrs.up = {})
          /\ NetworkOk(project, asks[Admin], releaseJob, release.id, ctrs, network,
                       history.remade, history.refused)
      BY <1>1, <2>3 DEF NetworkNow
    <3>3. NetworkOk(project, q1, releaseJob, release.id, ctrs, FALSE, history.remade,
                    history.refused)
      BY <3>2, NetworkRemoved
    <3> QED BY <2>1, <2>3, <3>1, <3>3 DEF NetworkNext
  <2> QED BY <1>1, <1>17, <2>2, <2>3, RemoveNetworkDoes
<1>18. CASE P!RowRestricted
  <2>1. /\ asks'[Admin].op # "remove"
        /\ UNCHANGED <<project, release, releaseJob, ctrs, network, history>>
    BY <1>1, <1>18, RowRestrictedDoes, NoReqFields DEF With
  <2> QED BY <2>1, NetworkAside DEF NetworkNow, NetworkNext
<1>19. CASE P!RemoveRow
  <2>1. /\ Removing("row") /\ asks'[Admin].op # "remove" /\ project' = "gone"
        /\ release'.id = release.id /\ UNCHANGED <<releaseJob, ctrs, network, history>>
    BY <1>1, <1>19, RemoveRowDoes, NoReqFields DEF With
  <2> QED BY <1>1, <2>1, NetworkRowGone DEF Removing, NetworkNow, NetworkNext
<1> QED BY <1>4, <1>5, <1>6, <1>8, <1>9, <1>10, <1>11, <1>12, <1>13, <1>14, <1>15, <1>16, <1>17,
           <1>18, <1>19 DEF P!Next, Requesting

-----------------------------------------------------------------------------
(***************************************************************************)
(* The invariant and what follows from it.                                 *)
(***************************************************************************)
ProjectsInv ==
  part = "editing" => Shape /\ EditorNow /\ SerialNow /\ OrderNow /\ NetworkNow

\* What a behaviour begins with, of the project and of what it runs.
NothingYet ==
  /\ project = "none" /\ deps = <<>> /\ network = FALSE
  /\ release.id = 0 /\ ctrs.made = {} /\ ctrs.up = {}
RunsFirst ==
  /\ project = "live" /\ deps \in P!Documents /\ network = TRUE
  /\ release.id = 1 /\ ctrs.up = ctrs.made

\* The shape at first.
LEMMA ShapeStart ==
  ASSUME P!Init
  PROVE  Shape /\ (NothingYet \/ RunsFirst)
<1>1. /\ asks = [a \in P!Actors |-> P!NoReq] /\ editor = P!NoSave /\ releaseJob = P!NoJob
      /\ history = [overlap |-> FALSE, asked |-> 0, remade |-> FALSE, refused |-> {}]
  BY DEF P!Init
<1>2. AsksOk(asks)  BY <1>1, NoReqFields DEF AsksOk
<1>3. editor \in Saves /\ editor.pc = "closed"
  <2>1. editor = [pc |-> "closed", want |-> <<>>, known |-> {}, failed |-> FALSE, alone |-> TRUE]
    BY <1>1 DEF P!NoSave
  <2> QED BY <2>1, EmptyDraft DEF Saves
<1>4. JobOk(releaseJob) /\ releaseJob.pc = "none"  BY <1>1, NoJobOk
<1>5. GhostsOk(history)  BY <1>1 DEF GhostsOk
<1>6. asks[Admin].op = "none" /\ \A a \in P!Actors : asks[a].pc = "idle"
  BY <1>1, NoReqFields DEF P!Actors
<1>7. CASE project = "none"
  <2>1. /\ deps = <<>> /\ network = FALSE /\ release = [id |-> 0, status |-> "none", rows |-> {}]
        /\ ctrs = [made |-> {}, up |-> {}]
    BY <1>7 DEF P!Init
  <2>2. DepsOk(deps)  BY <2>1, EmptyDraft DEF DepsOk, Edges
  <2>3. RowOk(release) /\ release.id = 0  BY <2>1 DEF RowOk
  <2>4. CtrsOk(ctrs) /\ ctrs.made = {} /\ ctrs.up = {}  BY <2>1 DEF CtrsOk
  <2>5. PhaseOk(project, asks, editor, release, releaseJob)
    BY <1>3, <1>4, <1>6, <1>7 DEF PhaseOk
  <2> QED BY <1>2, <1>3, <1>4, <1>5, <1>7, <2>1, <2>2, <2>3, <2>4, <2>5
          DEF Shape, ShapeOf, NothingYet
<1>8. CASE project # "none"
  <2>1. /\ project = "live" /\ deps \in P!Documents /\ network = TRUE
        /\ release = [id |-> 1, status |-> "success", rows |-> Services]
        /\ ctrs = [made |-> {1} \X Runtime, up |-> {1} \X Runtime]
    BY <1>8 DEF P!Init
  <2>2. DepsOk(deps)  BY <2>1, DocumentOk
  <2>3. RowOk(release) /\ release.id = 1  BY <2>1 DEF RowOk
  <2>4. PICK T \in SUBSET Made : T = {1} \X Runtime
    <3>1. {1} \X Runtime \in SUBSET Made  BY DEF Made
    <3> QED BY <3>1
  <2>5. CtrsOk(ctrs) /\ ctrs.up = ctrs.made  BY <2>1, <2>4 DEF CtrsOk
  <2>6. PhaseOk(project, asks, editor, release, releaseJob)
    BY <1>4, <1>6, <2>1 DEF PhaseOk
  <2> QED BY <1>2, <1>3, <1>4, <1>5, <2>1, <2>2, <2>3, <2>5, <2>6 DEF Shape, ShapeOf, RunsFirst
<1> QED BY <1>7, <1>8

\* The invariant at first.
LEMMA ProjectsStart == ProjectInit => ProjectsInv
<1> SUFFICES ASSUME P!Init
             PROVE  Shape /\ EditorNow /\ SerialNow /\ OrderNow /\ NetworkNow
  BY DEF ProjectInit, ProjectsInv
<1>1. Shape /\ (NothingYet \/ RunsFirst)  BY ShapeStart
<1>2. /\ asks = [a \in P!Actors |-> P!NoReq] /\ editor.pc = "closed"
      /\ releaseJob.pc = "none"
  BY NoJobOk DEF P!Init, P!NoSave
<1>3. /\ \A a \in P!Actors : asks[a].pc = "idle" /\ asks[a].op = "none"
      /\ Admin \in P!Actors /\ Services \subseteq P!Actors
  BY <1>2, NoReqFields DEF P!Actors
<1>4. EditorNow  BY <1>2, <1>3 DEF EditorNow, EditorOk, Idle
<1>5. project = "live" => Sound(deps)  BY <1>1, SoundDocument DEF NothingYet, RunsFirst
<1>6. SerialNow  BY <1>3, <1>5 DEF SerialNow, SerialOk, Editing
<1>7. OrderNow  BY <1>2 DEF OrderNow, Ordered
<1>8. NetworkNow  BY <1>1, <1>2, <1>3 DEF NetworkNow, NetworkOk, Candidates, NothingYet, RunsFirst
<1> QED BY <1>1, <1>4, <1>6, <1>7, <1>8

\* No step of either view, nor a stutter, breaks the invariant.
LEMMA ProjectsInductive == ProjectsInv /\ [ProjectNext]_<<part, vars, editVars>> => ProjectsInv'
<1> SUFFICES ASSUME ProjectsInv, [ProjectNext]_<<part, vars, editVars>>, part' = "editing"
             PROVE  ShapeNext /\ EditorNext /\ SerialNext /\ OrderNext /\ NetworkNext
  BY DEF ProjectsInv, Shape, ShapeNext, EditorNow, EditorNext, SerialNow, SerialNext, OrderNow,
         OrderNext, NetworkNow, NetworkNext
<1>1. part = "editing" /\ (P!Next \/ UNCHANGED editVars)  BY DEF ProjectNext
<1>2. Shape /\ EditorNow /\ SerialNow /\ OrderNow /\ NetworkNow  BY <1>1 DEF ProjectsInv
<1>3. CASE P!Next
  BY <1>2, <1>3, ShapeStep, EditorStep, SerialStep, OrderStep, NetworkStep
<1>4. CASE UNCHANGED editVars
  BY <1>2, <1>4 DEF editVars, Shape, ShapeNext, EditorNow, EditorNext, SerialNow, SerialNext,
     OrderNow, OrderNext, NetworkNow, NetworkNext
<1> QED BY <1>1, <1>3, <1>4

\* The invariant of the services, of the save, of the job and of the deletion.
THEOREM ProjectsInvariant == ProjectSpec => []ProjectsInv
BY ProjectsStart, ProjectsInductive, PTL DEF ProjectSpec

\* A save the editor reports as done, with no other edit in between, left every service
\* depending on what the document said (EditProjectDialog.tsx), however its requests
\* interleave with each other, with releases and with requests that only read.
THEOREM ReportedSaveIsStored == ProjectSpec => []SavedAsAsked
<1>1. ProjectsInv => SavedAsAsked
  BY DEF ProjectsInv, EditorNow, EditorOk, SavedAsAsked, P!SavedAsAsked, P!Present
<1> QED BY <1>1, ProjectsInvariant, PTL

\* While no two requests about services overlap, what is stored has no cycle, one release
\* service at most that nothing depends on, and a service left (routes/projects.ts).
THEOREM SerialRequestsKeepDocument == ProjectSpec => []SerialKeepsDocument
<1>1. ProjectsInv => SerialKeepsDocument
  <2> SUFFICES ASSUME ProjectsInv, part = "editing", project = "live", ~history.overlap
               PROVE  /\ deps # <<>> /\ P!Acyclic(deps)
                      /\ P!Cardinality(P!Present \ Runtime) <= 1
                      /\ \A s \in P!Present : deps[s] \subseteq P!Present \cap Runtime
    BY DEF SerialKeepsDocument, P!SerialKeepsDocument
  <2>1. Sound(deps) /\ Edges(deps)
    BY DEF ProjectsInv, SerialNow, SerialOk, Shape, ShapeOf, DepsOk
  <2>2. deps # <<>>  BY <2>1, EmptyDraft DEF Sound
  <2> QED BY <2>1, <2>2 DEF Sound, Edges, P!Present, P!Cardinality, Cardinality
<1> QED BY <1>1, ProjectsInvariant, PTL

\* A release starts a service only after all it depends on, in a topology without a cycle
\* (project-deploy.ts), however edits overlapped it.
THEOREM ReleaseStartsInOrder == ProjectSpec => []OnlyOrderedServicesStart
<1>1. ProjectsInv => OnlyOrderedServicesStart
  <2> SUFFICES ASSUME ProjectsInv, part = "editing", NEW s \in releaseJob.started
               PROVE  releaseJob.seen[s] \subseteq releaseJob.started /\ P!Acyclic(releaseJob.seen)
    BY DEF OnlyOrderedServicesStart, P!OnlyOrderedServicesStart
  <2>1. JobOk(releaseJob) /\ Ordered(releaseJob)
    BY DEF ProjectsInv, Shape, ShapeOf, OrderNow
  <2> QED BY <2>1 DEF JobOk, Ordered
<1> QED BY <1>1, ProjectsInvariant, PTL

\* Once the job of a deleted project is over none of its containers runs, and there is
\* none but those Docker refused to remove, unless the job made the network again between
\* its removal and that of the row (projects.ts, project-deploy.ts).
THEOREM DeletionLeavesNoContainer == ProjectSpec => []DeletedLeavesNoContainer
<1>1. ProjectsInv => DeletedLeavesNoContainer
  BY DEF ProjectsInv, NetworkNow, NetworkOk, Candidates, Waiting, DeletedLeavesNoContainer,
         P!DeletedLeavesNoContainer
<1> QED BY <1>1, ProjectsInvariant, PTL
=============================================================================
