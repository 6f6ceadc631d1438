--------------------------- MODULE RestoreProofs ---------------------------
(***************************************************************************)
(* Proofs about Restore, for any names, hostnames, engines and bounds and  *)
(* tables and bundles of any size: restoring with "skip" or "rename" adds  *)
(* only, the bindings a restore makes answer on this instance, and a       *)
(* bundle that was read without a request in between, restored on an empty *)
(* instance, brings the configuration back.                                *)
(***************************************************************************)
EXTENDS MCConfiguration, Sequences, FiniteSetTheorems, WellFoundedInduction, TLAPS

\* Of any natural numbers some is the least.
LEMMA LeastNatural ==
  ASSUME NEW S, NEW n \in S, S \subseteq Nat
  PROVE  \E m \in S : \A k \in S : m <= k
<1> DEFINE K == {p \in Nat \X Nat : p[1] < p[2]}
<1>1. K = OpToRel(<, Nat)
  BY DEF OpToRel
<1>2. IsWellFoundedOn(K, Nat)
  BY <1>1, NatLessThanWellFounded
<1>3. \A x, y \in S : y < x => <<y, x>> \in K
  OBVIOUS
<1> HIDE DEF K
<1>4. \E x \in S : \A y \in S : ~(<<y, x>> \in K)
  BY <1>2, WFMin
<1>5. PICK x \in S : \A y \in S : ~(<<y, x>> \in K)  BY <1>4
<1>6. \A y \in S : ~(y < x)  BY <1>3, <1>5
<1>7. \A y \in S : x <= y
  BY <1>6
<1> QED BY <1>7

-----------------------------------------------------------------------------
(***************************************************************************)
(* Sequences of rows.                                                      *)
(***************************************************************************)
IsSeq(s) == s \in Seq(R!Range(s))
IsMap(f) == f = [k \in DOMAIN f |-> f[k]]

\* What a sequence is over any set.
LEMMA SeqIs ==
  ASSUME NEW S, NEW s \in Seq(S)
  PROVE  /\ IsSeq(s) /\ Len(s) \in Nat /\ DOMAIN s = 1..Len(s)
         /\ s = [i \in 1..Len(s) |-> s[i]]
<1>1. Len(s) \in Nat /\ DOMAIN s = 1..Len(s) /\ s = [i \in 1..Len(s) |-> s[i]]
  OBVIOUS
<1>2. \A i \in 1..Len(s) : s[i] \in R!Range(s)  BY <1>1 DEF R!Range
<1>3. s \in Seq(R!Range(s))  BY <1>1, <1>2
<1> QED BY <1>1, <1>3 DEF IsSeq

\* The numbers of a sequence, and its elements.
LEMMA SeqFacts ==
  ASSUME NEW s, IsSeq(s)
  PROVE  /\ Len(s) \in Nat /\ DOMAIN s = 1..Len(s)
         /\ s = [i \in 1..Len(s) |-> s[i]]
         /\ \A i \in 1..Len(s) : s[i] \in R!Range(s)
         /\ \A x \in R!Range(s) : \E i \in 1..Len(s) : x = s[i]
<1>1. Len(s) \in Nat /\ DOMAIN s = 1..Len(s) /\ s = [i \in 1..Len(s) |-> s[i]]
  BY SeqIs DEF IsSeq
<1> QED BY <1>1 DEF R!Range

\* The empty one.
LEMMA EmptyFacts == IsSeq(<<>>) /\ Len(<<>>) = 0 /\ DOMAIN <<>> = {} /\ R!Range(<<>>) = {}
<1>1. <<>> \in Seq({})  OBVIOUS
<1>2. Len(<<>>) = 0  OBVIOUS
<1>3. IsSeq(<<>>) /\ DOMAIN <<>> = 1..0  BY <1>1, <1>2, SeqIs
<1> QED BY <1>2, <1>3 DEF R!Range

\* A function on the first numbers is one.
LEMMA SeqOf ==
  ASSUME NEW n \in Nat, NEW f, f = [i \in 1..n |-> f[i]]
  PROVE  IsSeq(f) /\ Len(f) = n
<1>1. f \in Seq({f[i] : i \in 1..n}) /\ Len(f) = n  OBVIOUS
<1> QED BY <1>1, SeqIs

\* Elements of a set in a row.
LEMMA SeqFromMap ==
  ASSUME NEW n \in Nat, NEW S, NEW s, s = [i \in 1..n |-> s[i]], \A i \in 1..n : s[i] \in S
  PROVE  s \in Seq(S)
OBVIOUS

\* Two sequences in a row.
LEMMA ConcatFacts ==
  ASSUME NEW S, NEW a \in Seq(S), NEW c \in Seq(S)
  PROVE  /\ a \o c \in Seq(S) /\ Len(a \o c) = Len(a) + Len(c)
         /\ \A i \in 1..Len(a) : (a \o c)[i] = a[i]
         /\ \A i \in 1..Len(c) : (a \o c)[Len(a) + i] = c[i]
OBVIOUS

\* One more element.
LEMMA AppendFacts ==
  ASSUME NEW s, IsSeq(s), NEW x
  PROVE  /\ IsSeq(Append(s, x)) /\ Len(Append(s, x)) = Len(s) + 1
         /\ \A i \in 1..Len(s) : Append(s, x)[i] = s[i]
         /\ Append(s, x)[Len(s) + 1] = x
         /\ R!Range(Append(s, x)) = R!Range(s) \cup {x}
<1>1. PICK S : S = R!Range(s) \cup {x}  OBVIOUS
<1>2. s \in Seq(S) /\ x \in S
  <2>1. /\ Len(s) \in Nat /\ s = [i \in 1..Len(s) |-> s[i]]
        /\ \A i \in 1..Len(s) : s[i] \in S
    BY <1>1, SeqFacts
  <2>2. s \in Seq(S)  BY <2>1, SeqFromMap
  <2>3. x \in S  BY <1>1
  <2> QED BY <2>2, <2>3, Zenon
<1>3. PICK r \in Seq(S) : r = Append(s, x)
  <2>1. Append(s, x) \in Seq(S)  BY <1>2
  <2> QED BY <2>1, Zenon
<1>4. /\ Len(r) = Len(s) + 1 /\ \A i \in 1..Len(s) : r[i] = s[i]
      /\ r[Len(s) + 1] = x
  BY <1>2, <1>3
<1>5. Len(s) \in Nat /\ DOMAIN s = 1..Len(s) /\ DOMAIN r = 1..Len(r)  BY <1>2, <1>3
<1>6. IsSeq(r)  BY <1>3, SeqIs
<1>7. ASSUME NEW y \in R!Range(r) PROVE y \in R!Range(s) \cup {x}
  <2>1. PICK i \in 1..Len(r) : y = r[i]  BY <1>5, <1>7 DEF R!Range
  <2>2. i \in 1..Len(s) \/ i = Len(s) + 1  BY <1>4, <1>5, <2>1
  <2> QED BY <1>4, <1>5, <2>1, <2>2 DEF R!Range
<1>8. ASSUME NEW y \in R!Range(s) PROVE y \in R!Range(r)
  <2>1. PICK i \in 1..Len(s) : y = s[i]  BY <1>5, <1>8 DEF R!Range
  <2>2. i \in 1..Len(r) /\ y = r[i]  BY <1>4, <1>5, <2>1
  <2> QED BY <1>5, <2>2 DEF R!Range
<1>9. x \in R!Range(r)
  <2>1. Len(s) + 1 \in 1..Len(r)  BY <1>4, <1>5
  <2> QED BY <1>4, <1>5, <2>1 DEF R!Range
<1> QED BY <1>3, <1>4, <1>6, <1>7, <1>8, <1>9

\* One element less.
LEMMA RemoveFacts ==
  ASSUME NEW s, IsSeq(s), NEW k \in DOMAIN s
  PROVE  /\ IsSeq(R!RemoveAt(s, k)) /\ Len(R!RemoveAt(s, k)) = Len(s) - 1
         /\ \A i \in 1..(Len(s) - 1) : R!RemoveAt(s, k)[i] = s[IF i < k THEN i ELSE i + 1]
<1>1. Len(s) \in Nat /\ k \in 1..Len(s) /\ s \in Seq(R!Range(s))
  BY SeqFacts DEF IsSeq
<1>2. PICK S : S = R!Range(s)  OBVIOUS
<1>3. PICK a : a = SubSeq(s, 1, k - 1)  OBVIOUS
<1>4. PICK c : c = SubSeq(s, k + 1, Len(s))  OBVIOUS
<1>5. a \in Seq(S) /\ Len(a) = k - 1 /\ \A i \in 1..(k - 1) : a[i] = s[i]
  BY <1>1, <1>2, <1>3
<1>6. c \in Seq(S) /\ Len(c) = Len(s) - k /\ \A i \in 1..(Len(s) - k) : c[i] = s[k + i]
  BY <1>1, <1>2, <1>4
<1>7. PICK r \in Seq(S) : r = a \o c
  <2>1. a \o c \in Seq(S)  BY <1>5, <1>6
  <2> QED BY <2>1, Zenon
<1>8. /\ Len(r) = Len(a) + Len(c)
      /\ \A i \in 1..Len(a) : r[i] = a[i]
      /\ \A i \in 1..Len(c) : r[Len(a) + i] = c[i]
  <2>1. a \in Seq(S) /\ c \in Seq(S)  BY <1>5, <1>6
  <2>2. /\ Len(a \o c) = Len(a) + Len(c)
        /\ \A i \in 1..Len(a) : (a \o c)[i] = a[i]
        /\ \A i \in 1..Len(c) : (a \o c)[Len(a) + i] = c[i]
    BY <2>1, ConcatFacts
  <2> QED BY <1>7, <2>2, Zenon
<1>9. r = R!RemoveAt(s, k)  BY <1>3, <1>4, <1>7 DEF R!RemoveAt
<1>10. Len(r) = Len(s) - 1  BY <1>1, <1>5, <1>6, <1>8
<1>11. ASSUME NEW i \in 1..(Len(s) - 1) PROVE r[i] = s[IF i < k THEN i ELSE i + 1]
  <2>1. CASE i < k
    <3>1. i \in 1..(k - 1)  BY <1>1, <2>1
    <3>2. r[i] = a[i] /\ a[i] = s[i]  BY <1>5, <1>8, <3>1
    <3> QED BY <2>1, <3>2
  <2>2. CASE ~(i < k)
    <3>1. PICK j \in 1..(Len(s) - k) : i = (k - 1) + j
      <4>1. i - (k - 1) \in 1..(Len(s) - k) /\ i = (k - 1) + (i - (k - 1))  BY <1>1, <2>2
      <4> QED BY <4>1
    <3>2. j \in 1..Len(c) /\ Len(a) + j = i  BY <1>5, <1>6, <3>1
    <3>3. r[i] = c[j]  BY <1>8, <3>2
    <3>4. c[j] = s[k + j] /\ k + j = i + 1  BY <1>1, <1>6, <3>1
    <3> QED BY <2>2, <3>3, <3>4
  <2> QED BY <2>1, <2>2
<1>12. IsSeq(r)  BY <1>7, SeqIs
<1> QED BY <1>9, <1>10, <1>11, <1>12

\* One element replaced.
LEMMA ReplaceFacts ==
  ASSUME NEW s, IsSeq(s), NEW x
  PROVE  /\ IsSeq(R!Replace(s, x)) /\ Len(R!Replace(s, x)) = Len(s)
         /\ \A i \in 1..Len(s) : R!Replace(s, x)[i] = IF s[i].id = x.id THEN x ELSE s[i]
<1>1. Len(s) \in Nat /\ DOMAIN s = 1..Len(s)  BY SeqFacts
<1>2. PICK r : r = [i \in 1..Len(s) |-> IF s[i].id = x.id THEN x ELSE s[i]]  OBVIOUS
<1>3. r = R!Replace(s, x)  BY <1>1, <1>2 DEF R!Replace
<1>4. r = [i \in 1..Len(s) |-> r[i]]  BY <1>2
<1>5. IsSeq(r) /\ Len(r) = Len(s)  BY <1>1, <1>4, SeqOf
<1> QED BY <1>2, <1>3, <1>5

-----------------------------------------------------------------------------
(***************************************************************************)
(* The loops of a restore, as folds of steps told apart by a tag.          *)
(***************************************************************************)
StepOf(tag, x, st, e) ==
  IF tag = "app" THEN R!RestoreApp(x, st, e)
  ELSE IF tag = "project" THEN R!RestoreProject(x, st, e)
  ELSE IF tag = "store" THEN R!RestoreStore(x, st, e)
  ELSE IF e \in x THEN st ELSE Append(st, e)

\* Induction on the numbers.
LEMMA EveryNumber ==
  ASSUME NEW A, 0 \in A, \A m \in Nat : m \in A => m + 1 \in A
  PROVE  Nat \subseteq A
<1> DEFINE T == Nat \ A
<1>1. SUFFICES ASSUME T # {} PROVE FALSE  OBVIOUS
<1>2. PICK x \in T : \A y \in T : x <= y
  <2>1. T \subseteq Nat  OBVIOUS
  <2> HIDE DEF T
  <2> QED BY <1>1, <2>1, LeastNatural
<1>3. x \in Nat /\ x # 0  BY <1>2
<1>4. x - 1 \in Nat /\ x - 1 + 1 = x  BY <1>3
<1>5. x - 1 \notin T  BY <1>2, <1>4
<1> QED BY <1>2, <1>4, <1>5

\* Induction up to a number.
LEMMA EveryStep ==
  ASSUME NEW n \in Nat, NEW A, 0 \in A, \A m \in 0..(n - 1) : m \in A => m + 1 \in A
  PROVE  0..n \subseteq A
<1> DEFINE B == {m \in Nat : m <= n => m \in A}
<1>1. 0 \in B  OBVIOUS
<1>2. ASSUME NEW m \in Nat, m \in B PROVE m + 1 \in B
  <2>1. SUFFICES ASSUME m + 1 <= n PROVE m + 1 \in A  OBVIOUS
  <2>2. m \in 0..(n - 1) /\ m <= n  BY <2>1
  <2> QED BY <1>2, <2>2
<1>3. Nat \subseteq B
  <2> HIDE DEF B
  <2> QED BY <1>1, <1>2, EveryNumber
<1> QED BY <1>3

\* The greatest of some first numbers.
LEMMA MaxIn ==
  ASSUME NEW n \in Nat, NEW T \in SUBSET (1..n), T # {}
  PROVE  R!Max(T) \in T /\ \A y \in T : R!Max(T) >= y
<1> DEFINE U == {n - y : y \in T}
<1>1. U \subseteq Nat /\ U # {}  OBVIOUS
<1>2. PICK u \in U : \A v \in U : u <= v
  <2> HIDE DEF U
  <2> QED BY <1>1, LeastNatural
<1>3. PICK x \in T : u = n - x  BY <1>2
<1>4. \A y \in T : x >= y
  <2>1. TAKE y \in T
  <2>2. n - x <= n - y  BY <1>2, <1>3
  <2> QED BY <1>3, <2>2
<1>5. \E z \in T : \A y \in T : z >= y  BY <1>4
<1> QED BY <1>5 DEF R!Max

\* What the fold of a loop goes through, f being what it makes of fewer elements.
LoopAt(tag, x, b, q, f, T) ==
  IF T = {} THEN b ELSE StepOf(tag, x, f[T \ {R!Max(T)}], q[R!Max(T)])
Loop(tag, x, b, q, f) == [T \in SUBSET DOMAIN q |-> LoopAt(tag, x, b, q, f, T)]

\* The iteration exists, by induction on the size.
LEMMA LoopExists ==
  ASSUME NEW tag, NEW x, NEW b, NEW q, IsSeq(q)
  PROVE  \E f : f = Loop(tag, x, b, q, f)
<1>0. PICK n \in Nat : DOMAIN q = 1..n  BY SeqFacts
<1> DEFINE S == 1..n
           Upto(k, f) == /\ f = [T \in SUBSET S |-> f[T]]
                         /\ \A T \in SUBSET S :
                              T \subseteq 1..k => f[T] = LoopAt(tag, x, b, q, f, T)
           A == {k \in Nat : \E f : Upto(k, f)}
<1>1. 0 \in A
  <2>1. PICK f : f = [T \in SUBSET S |-> b]  OBVIOUS
  <2>2. ASSUME NEW T \in SUBSET S, T \subseteq 1..0 PROVE f[T] = LoopAt(tag, x, b, q, f, T)
    <3>1. T = {}  BY <2>2
    <3> QED BY <2>1, <3>1 DEF LoopAt
  <2>3. f = [T \in SUBSET S |-> f[T]]  BY <2>1
  <2> QED BY <2>2, <2>3
<1>2. ASSUME NEW k \in Nat, k \in A PROVE k + 1 \in A
  <2>1. PICK f : Upto(k, f)  BY <1>2
  <2>2. PICK g : g = Loop(tag, x, b, q, f)  OBVIOUS
  <2>3. \A T \in SUBSET S : g[T] = LoopAt(tag, x, b, q, f, T)  BY <1>0, <2>2 DEF Loop
  <2>4. ASSUME NEW T \in SUBSET S, T \subseteq 1..(k + 1)
        PROVE  g[T] = LoopAt(tag, x, b, q, g, T)
    <3>1. CASE T = {}  BY <2>3, <3>1 DEF LoopAt
    <3>2. CASE T # {}
      <4>1. PICK e \in T : e = R!Max(T) /\ \A y \in T : e >= y  BY <3>2, MaxIn
      <4>2. PICK U \in SUBSET S : U = T \ {e}  OBVIOUS
      <4>3. ASSUME NEW y \in U PROVE y \in 1..k
        <5>1. y \in 1..(k + 1) /\ e \in 1..(k + 1) /\ e >= y /\ y # e
          BY <2>4, <4>1, <4>2
        <5> QED BY <5>1
      <4>4. f[U] = LoopAt(tag, x, b, q, f, U)  BY <2>1, <4>3
      <4>5. g[U] = f[U]  BY <2>3, <4>4
      <4>6. LoopAt(tag, x, b, q, g, T) = StepOf(tag, x, g[U], q[e])
        BY <3>2, <4>1, <4>2 DEF LoopAt
      <4>7. LoopAt(tag, x, b, q, f, T) = StepOf(tag, x, f[U], q[e])
        BY <3>2, <4>1, <4>2 DEF LoopAt
      <4> QED BY <2>3, <4>5, <4>6, <4>7
    <3> QED BY <3>1, <3>2
  <2>5. g = [T \in SUBSET S |-> g[T]]  BY <1>0, <2>2 DEF Loop
  <2>6. Upto(k + 1, g)  BY <2>4, <2>5
  <2> HIDE DEF Upto
  <2> QED BY <2>6
<1>3. Nat \subseteq A
  <2> HIDE DEF A
  <2> QED BY <1>1, <1>2, EveryNumber
<1>4. PICK f : Upto(n, f)  BY <1>3
<1>5. f = Loop(tag, x, b, q, f)  BY <1>0, <1>4 DEF Loop
<1> QED BY <1>5

\* r is what the steps lead to, one after the other.
Steps(tag, x, b, q, f, r) ==
  /\ f[0] = b /\ r = f[Len(q)]
  /\ \A k \in 0..(Len(q) - 1) : f[k + 1] = StepOf(tag, x, f[k], q[k + 1])

\* What the iteration makes of the first elements.
LEMMA LoopSteps ==
  ASSUME NEW tag, NEW x, NEW b, NEW q, IsSeq(q), NEW f, f = Loop(tag, x, b, q, f)
  PROVE  \E g : Steps(tag, x, b, q, g, f[DOMAIN q])
<1>0. Len(q) \in Nat /\ DOMAIN q = 1..Len(q)  BY SeqFacts
<1>1. PICK g : g = [k \in 0..Len(q) |-> f[1..k]]  OBVIOUS
<1>2. \A T \in SUBSET DOMAIN q : f[T] = LoopAt(tag, x, b, q, f, T)  BY DEF Loop
<1>3. g[0] = b
  <2>1. {} \in SUBSET DOMAIN q /\ 1..0 = {}  OBVIOUS
  <2>2. f[{}] = b  BY <1>2, <2>1 DEF LoopAt
  <2> QED BY <1>0, <1>1, <2>1, <2>2
<1>4. g[Len(q)] = f[DOMAIN q]  BY <1>0, <1>1
<1>5. ASSUME NEW k \in 0..(Len(q) - 1)
      PROVE  g[k + 1] = StepOf(tag, x, g[k], q[k + 1])
  <2>1. PICK T \in SUBSET DOMAIN q : T = 1..(k + 1)  BY <1>0
  <2>2. k + 1 \in T /\ T \in SUBSET (1..(k + 1)) /\ k + 1 \in Nat /\ T # {}  BY <2>1
  <2>3. R!Max(T) \in T /\ \A y \in T : R!Max(T) >= y  BY <2>2, MaxIn
  <2>4. R!Max(T) = k + 1  BY <1>0, <2>1, <2>2, <2>3
  <2>5. T \ {R!Max(T)} = 1..k  BY <2>1, <2>4
  <2>6. f[T] = StepOf(tag, x, f[1..k], q[k + 1])
    BY <1>2, <2>2, <2>4, <2>5 DEF LoopAt
  <2>7. k \in 0..Len(q) /\ k + 1 \in 0..Len(q)  BY <1>0
  <2> QED BY <1>1, <2>1, <2>6, <2>7
<1>6. Steps(tag, x, b, q, g, f[DOMAIN q])  BY <1>3, <1>4, <1>5 DEF Steps
<1> QED BY <1>6

AppLoop(x, b, q) == R!FoldLeft(LAMBDA st, a : R!RestoreApp(x, st, a), b, q)
ProjectLoop(x, b, q) == R!FoldLeft(LAMBDA st, p : R!RestoreProject(x, st, p), b, q)
StoreLoop(x, b, q) == R!FoldLeft(LAMBDA st, d : R!RestoreStore(x, st, d), b, q)

\* The loop over the applications of a bundle.
LEMMA AppSteps ==
  ASSUME NEW x, NEW b, NEW q, IsSeq(q)
  PROVE  \E g : Steps("app", x, b, q, g, AppLoop(x, b, q))
<1> DEFINE F(f) == [T \in SUBSET DOMAIN q |->
                      IF T = {} THEN b
                      ELSE R!RestoreApp(x, f[T \ {R!Max(T)}], q[R!Max(T)])]
<1>1. AppLoop(x, b, q) = (CHOOSE f : f = F(f))[DOMAIN q]
  BY DEF AppLoop, R!FoldLeft, R!MapThenFoldSet
<1>2. \A f : F(f) = Loop("app", x, b, q, f)  BY DEF Loop, LoopAt, StepOf
<1> HIDE DEF F
<1>3. PICK f : f = F(f) /\ AppLoop(x, b, q) = f[DOMAIN q]
  <2>1. \E f : f = F(f)  BY <1>2, LoopExists
  <2> QED BY <1>1, <2>1
<1> QED BY <1>2, <1>3, LoopSteps

\* The loop over its projects.
LEMMA ProjectSteps ==
  ASSUME NEW x, NEW b, NEW q, IsSeq(q)
  PROVE  \E g : Steps("project", x, b, q, g, ProjectLoop(x, b, q))
<1> DEFINE F(f) == [T \in SUBSET DOMAIN q |->
                      IF T = {} THEN b
                      ELSE R!RestoreProject(x, f[T \ {R!Max(T)}], q[R!Max(T)])]
<1>1. ProjectLoop(x, b, q) = (CHOOSE f : f = F(f))[DOMAIN q]
  BY DEF ProjectLoop, R!FoldLeft, R!MapThenFoldSet
<1>2. \A f : F(f) = Loop("project", x, b, q, f)  BY DEF Loop, LoopAt, StepOf
<1> HIDE DEF F
<1>3. PICK f : f = F(f) /\ ProjectLoop(x, b, q) = f[DOMAIN q]
  <2>1. \E f : f = F(f)  BY <1>2, LoopExists
  <2> QED BY <1>1, <2>1
<1> QED BY <1>2, <1>3, LoopSteps

\* The loop over its datastores.
LEMMA StoreSteps ==
  ASSUME NEW x, NEW b, NEW q, IsSeq(q)
  PROVE  \E g : Steps("store", x, b, q, g, StoreLoop(x, b, q))
<1> DEFINE F(f) == [T \in SUBSET DOMAIN q |->
                      IF T = {} THEN b
                      ELSE R!RestoreStore(x, f[T \ {R!Max(T)}], q[R!Max(T)])]
<1>1. StoreLoop(x, b, q) = (CHOOSE f : f = F(f))[DOMAIN q]
  BY DEF StoreLoop, R!FoldLeft, R!MapThenFoldSet
<1>2. \A f : F(f) = Loop("store", x, b, q, f)  BY DEF Loop, LoopAt, StepOf
<1> HIDE DEF F
<1>3. PICK f : f = F(f) /\ StoreLoop(x, b, q) = f[DOMAIN q]
  <2>1. \E f : f = F(f)  BY <1>2, LoopExists
  <2> QED BY <1>1, <2>1
<1> QED BY <1>2, <1>3, LoopSteps

\* The loop that leaves out the hostnames that are taken.
LEMMA HostSteps ==
  ASSUME NEW q, IsSeq(q), NEW taken
  PROVE  \E g : Steps("host", taken, <<>>, q, g, R!HostsFree(q, taken))
<1> DEFINE F(f) == [T \in SUBSET DOMAIN q |->
                      IF T = {} THEN <<>>
                      ELSE IF q[R!Max(T)] \in taken THEN f[T \ {R!Max(T)}]
                           ELSE Append(f[T \ {R!Max(T)}], q[R!Max(T)])]
<1>1. R!HostsFree(q, taken) = (CHOOSE f : f = F(f))[DOMAIN q]
  BY DEF R!HostsFree, R!FoldLeft, R!MapThenFoldSet
<1>2. \A f : F(f) = Loop("host", taken, <<>>, q, f)  BY DEF Loop, LoopAt, StepOf
<1> HIDE DEF F
<1>3. PICK f : f = F(f) /\ R!HostsFree(q, taken) = f[DOMAIN q]
  <2>1. \E f : f = F(f)  BY <1>2, LoopExists
  <2> QED BY <1>1, <2>1
<1> QED BY <1>2, <1>3, LoopSteps

-----------------------------------------------------------------------------
(***************************************************************************)
(* The rows of the organization.                                           *)
(***************************************************************************)
AppShape(r) ==
  /\ r = [id |-> r.id, slug |-> r.slug, hosts |-> r.hosts, env |-> r.env,
          primary |-> r.primary]
  /\ IsMap(r.env)

ProjectShape(r) ==
  /\ r = [id |-> r.id, slug |-> r.slug, svcs |-> r.svcs]
  /\ IsSeq(r.svcs)
  /\ \A j \in DOMAIN r.svcs :
       r.svcs[j] = [id |-> r.svcs[j].id, slug |-> r.svcs[j].slug,
                    hosts |-> r.svcs[j].hosts, deps |-> r.svcs[j].deps]

StoreShape(r) ==
  /\ r = [id |-> r.id, slug |-> r.slug, kind |-> r.kind, port |-> r.port, pw |-> r.pw]
  /\ IsSeq(r.slug) /\ r.slug # <<>>

\* A row of a table whose ids are below n.
Row(tag, r, n) ==
  /\ r.id \in Nat /\ r.id < n
  /\ tag = "app" => AppShape(r)
  /\ tag = "project" => ProjectShape(r)
  /\ tag = "store" => StoreShape(r)

\* A table: rows told apart by their ids.
Table(tag, rs, n) ==
  /\ n \in Nat /\ IsSeq(rs)
  /\ \A i, j \in DOMAIN rs : rs[i].id = rs[j].id => i = j
  /\ \A i \in DOMAIN rs : Row(tag, rs[i], n)

BindRow(b, n) == /\ b = [store |-> b.store, app |-> b.app, key |-> b.key]
                 /\ b.app \in Nat /\ b.app < n
ProjectBindRow(b, n) ==
  /\ b = [store |-> b.store, proj |-> b.proj, svcs |-> b.svcs, key |-> b.key]
  /\ b.proj \in Nat /\ b.proj < n

\* A database whose ids are below n.
Tables(d, n) ==
  /\ d = [apps |-> d.apps, projs |-> d.projs, stores |-> d.stores,
          binds |-> d.binds, pbinds |-> d.pbinds]
  /\ Table("app", d.apps, n) /\ Table("project", d.projs, n) /\ Table("store", d.stores, n)
  /\ \A b \in d.binds : BindRow(b, n)
  /\ \A b \in d.pbinds : ProjectBindRow(b, n)

\* A row stays one when ids grow.
LEMMA RowLater ==
  ASSUME NEW tag, NEW r, NEW n \in Nat, NEW m \in Nat, n <= m, Row(tag, r, n)
  PROVE  Row(tag, r, m)
<1>1. r.id < m  BY DEF Row
<1> QED BY <1>1 DEF Row

\* And so does a table.
LEMMA RowsLater ==
  ASSUME NEW tag, NEW rs, NEW n, NEW m \in Nat, n <= m, Table(tag, rs, n)
  PROVE  Table(tag, rs, m)
BY RowLater DEF Table

\* A new row with a new id.
LEMMA RowAdded ==
  ASSUME NEW tag, NEW rs, NEW n, Table(tag, rs, n), NEW m \in Nat, n <= m,
         NEW x, Row(tag, x, m), n <= x.id
  PROVE  Table(tag, Append(rs, x), m)
<1>1. n \in Nat /\ IsSeq(rs)  BY DEF Table
<1>2. /\ Len(rs) \in Nat /\ DOMAIN rs = 1..Len(rs)  BY <1>1, SeqFacts
<1>3. PICK l \in Nat : l = Len(rs)  BY <1>2
<1>4. PICK t : t = Append(rs, x)  OBVIOUS
<1>5. IsSeq(t) /\ Len(t) = l + 1 /\ (\A i \in 1..l : t[i] = rs[i]) /\ t[l + 1] = x
  BY <1>1, <1>3, <1>4, AppendFacts
<1>6. DOMAIN t = 1..(l + 1)  BY <1>5, SeqFacts
<1>7. \A i \in 1..(l + 1) : i = l + 1 \/ i \in 1..l  BY <1>3
<1>8. ASSUME NEW i \in DOMAIN t PROVE Row(tag, t[i], m)
  <2>1. CASE i = l + 1  BY <1>5, <2>1
  <2>2. CASE i \in 1..l
    <3>1. Row(tag, rs[i], n)  BY <1>2, <1>3, <2>2 DEF Table
    <3> QED BY <1>1, <1>5, <2>2, <3>1, RowLater
  <2> QED BY <1>6, <1>7, <2>1, <2>2
<1>9. ASSUME NEW i \in 1..l PROVE t[i].id = rs[i].id /\ t[i].id # x.id
  <2>1. Row(tag, rs[i], n)  BY <1>2, <1>3 DEF Table
  <2>2. rs[i].id \in Nat /\ rs[i].id < n  BY <2>1 DEF Row
  <2>3. rs[i].id # x.id  BY <1>1, <2>2
  <2> QED BY <1>5, <2>3
<1>10. ASSUME NEW i \in DOMAIN t, NEW j \in DOMAIN t, t[i].id = t[j].id PROVE i = j
  <2>1. CASE i \in 1..l /\ j \in 1..l
    BY <1>2, <1>3, <1>9, <1>10, <2>1 DEF Table
  <2>2. CASE i = l + 1 /\ j \in 1..l  BY <1>5, <1>9, <1>10, <2>2
  <2>3. CASE i \in 1..l /\ j = l + 1  BY <1>5, <1>9, <1>10, <2>3
  <2> QED BY <1>6, <1>7, <2>1, <2>2, <2>3
<1> QED BY <1>4, <1>5, <1>8, <1>10 DEF Table

\* A row deleted.
LEMMA RowRemoved ==
  ASSUME NEW tag, NEW rs, NEW n, Table(tag, rs, n), NEW k \in DOMAIN rs
  PROVE  /\ Table(tag, R!RemoveAt(rs, k), n)
         /\ \A i \in DOMAIN R!RemoveAt(rs, k) : \E j \in DOMAIN rs :
              /\ j # k /\ R!RemoveAt(rs, k)[i] = rs[j]
         /\ \A j \in DOMAIN rs : j # k =>
              \E i \in DOMAIN R!RemoveAt(rs, k) : R!RemoveAt(rs, k)[i] = rs[j]
<1>1. n \in Nat /\ IsSeq(rs)  BY DEF Table
<1>2. PICK l \in Nat : l = Len(rs) /\ DOMAIN rs = 1..l  BY <1>1, SeqFacts
<1>3. PICK t : t = R!RemoveAt(rs, k)  OBVIOUS
<1>4. PICK f : f = [i \in 1..(l - 1) |-> IF i < k THEN i ELSE i + 1]  OBVIOUS
<1>5. k \in 1..l  BY <1>2
<1>6. \A i \in 1..(l - 1) : f[i] \in 1..l /\ f[i] # k  BY <1>4, <1>5
<1>7. \A i, j \in 1..(l - 1) : f[i] = f[j] => i = j  BY <1>4, <1>5
<1>8. IsSeq(t) /\ Len(t) = l - 1 /\ \A i \in 1..(l - 1) : t[i] = rs[f[i]]
  BY <1>1, <1>2, <1>3, <1>4, RemoveFacts
<1>9. DOMAIN t = 1..(l - 1)  BY <1>8, SeqFacts
<1>10. \A i \in DOMAIN t : Row(tag, t[i], n)  BY <1>2, <1>6, <1>8, <1>9 DEF Table
<1>11. ASSUME NEW i \in DOMAIN t, NEW j \in DOMAIN t, t[i].id = t[j].id PROVE i = j
  <2>1. rs[f[i]].id = rs[f[j]].id /\ f[i] \in DOMAIN rs /\ f[j] \in DOMAIN rs
    BY <1>2, <1>6, <1>8, <1>9, <1>11
  <2>2. f[i] = f[j]  BY <2>1 DEF Table
  <2> QED BY <1>7, <1>9, <2>2
<1>12. Table(tag, t, n)  BY <1>1, <1>8, <1>10, <1>11 DEF Table
<1>13. ASSUME NEW j \in DOMAIN rs, j # k PROVE \E i \in DOMAIN t : t[i] = rs[j]
  <2>1. PICK i \in 1..(l - 1) : f[i] = j
    <3>1. CASE j < k
      <4>1. j \in 1..(l - 1) /\ f[j] = j  BY <1>2, <1>4, <1>5, <3>1
      <4> QED BY <4>1
    <3>2. CASE ~(j < k)
      <4>1. j - 1 \in 1..(l - 1) /\ ~(j - 1 < k) /\ j - 1 + 1 = j  BY <1>2, <1>5, <1>13, <3>2
      <4> QED BY <1>4, <4>1
    <3> QED BY <3>1, <3>2
  <2> QED BY <1>8, <1>9, <2>1
<1> QED BY <1>2, <1>3, <1>6, <1>8, <1>9, <1>12, <1>13

\* A row changed.
LEMMA RowReplaced ==
  ASSUME NEW tag, NEW rs, NEW n, Table(tag, rs, n), NEW m \in Nat, n <= m,
         NEW x, Row(tag, x, m)
  PROVE  /\ Table(tag, R!Replace(rs, x), m)
         /\ DOMAIN R!Replace(rs, x) = DOMAIN rs
         /\ \A i \in DOMAIN rs : /\ R!Replace(rs, x)[i] = IF rs[i].id = x.id THEN x ELSE rs[i]
                                 /\ R!Replace(rs, x)[i].id = rs[i].id
<1>1. n \in Nat /\ IsSeq(rs)  BY DEF Table
<1>2. PICK l \in Nat : l = Len(rs) /\ DOMAIN rs = 1..l  BY <1>1, SeqFacts
<1>3. PICK t : t = R!Replace(rs, x)  OBVIOUS
<1>4. IsSeq(t) /\ Len(t) = l /\ \A i \in 1..l : t[i] = IF rs[i].id = x.id THEN x ELSE rs[i]
  <2>1. /\ IsSeq(R!Replace(rs, x)) /\ Len(R!Replace(rs, x)) = Len(rs)
        /\ \A i \in 1..Len(rs) :
             R!Replace(rs, x)[i] = IF rs[i].id = x.id THEN x ELSE rs[i]
    BY <1>1, ReplaceFacts
  <2> QED BY <1>2, <1>3, <2>1
<1>5. DOMAIN t = 1..l  BY <1>4, SeqFacts
<1>6. \A i \in 1..l : t[i].id = rs[i].id  BY <1>4
<1>7. ASSUME NEW i \in DOMAIN t PROVE Row(tag, t[i], m)
  <2>1. Row(tag, rs[i], n)  BY <1>2, <1>5 DEF Table
  <2>2. Row(tag, rs[i], m)  BY <1>1, <2>1, RowLater
  <2> QED BY <1>4, <1>5, <2>2
<1>8. \A i, j \in DOMAIN t : t[i].id = t[j].id => i = j  BY <1>2, <1>5, <1>6 DEF Table
<1>9. Table(tag, t, m)  BY <1>4, <1>7, <1>8 DEF Table
<1> QED BY <1>2, <1>3, <1>4, <1>5, <1>6, <1>9

\* A row of a table has an index.
LEMMA RowAt ==
  ASSUME NEW tag, NEW rs, NEW n, Table(tag, rs, n)
  PROVE  /\ \A r \in R!Range(rs) : Row(tag, r, n) /\ \E i \in DOMAIN rs : r = rs[i]
         /\ \A i \in DOMAIN rs : rs[i] \in R!Range(rs)
         /\ \A r \in R!Range(rs) : R!ById(rs, r.id) = r
<1>1. /\ \A r \in R!Range(rs) : Row(tag, r, n) /\ \E i \in DOMAIN rs : r = rs[i]
      /\ \A i \in DOMAIN rs : rs[i] \in R!Range(rs)
  BY DEF Table, R!Range
<1>2. ASSUME NEW r \in R!Range(rs), NEW t \in R!Range(rs), r.id = t.id PROVE r = t
  <2>1. PICK i, j \in DOMAIN rs : r = rs[i] /\ t = rs[j]  BY <1>1
  <2> QED BY <1>2, <2>1 DEF Table
<1>3. \A r \in R!Range(rs) : R!ById(rs, r.id) = r  BY <1>2 DEF R!ById
<1> QED BY <1>1, <1>3

\* A slug made free begins as it did.
LEMMA FreeSlugFacts ==
  ASSUME NEW used, NEW s, IsSeq(s), s # <<>>
  PROVE  /\ IsSeq(R!FreeSlug(used, s)) /\ R!FreeSlug(used, s) # <<>>
         /\ R!FreeSlug(used, s)[1] = s[1]
<1>1. Len(s) \in Nat /\ s = [i \in 1..Len(s) |-> s[i]]  BY SeqFacts
<1>2. Len(s) >= 1
  <2>1. SUFFICES ASSUME Len(s) = 0 PROVE FALSE  BY <1>1
  <2>2. s \in Seq(R!Range(s))  BY DEF IsSeq
  <2>3. s = <<>>  BY <2>1, <2>2
  <2> QED BY <2>3
<1>3. ASSUME NEW x
      PROVE  IsSeq(Append(s, x)) /\ Append(s, x) # <<>> /\ Append(s, x)[1] = s[1]
  <2>1. IsSeq(Append(s, x)) /\ Len(Append(s, x)) = Len(s) + 1  BY AppendFacts
  <2>2. Append(s, x)[1] = s[1]
    <3>1. 1 \in 1..Len(s)  BY <1>1, <1>2
    <3> QED BY <3>1, AppendFacts
  <2>3. Append(s, x) # <<>>  BY <1>1, <2>1, EmptyFacts
  <2> QED BY <2>1, <2>2, <2>3
<1>4. R!FreeSlug(used, s) = s \/ \E x : R!FreeSlug(used, s) = Append(s, x)
  <2>1. ASSUME s \notin used PROVE R!FreeSlug(used, s) = s  BY <2>1 DEF R!FreeSlug
  <2>2. ASSUME s \in used PROVE \E x : R!FreeSlug(used, s) = Append(s, x)
    BY <2>2, Zenon DEF R!FreeSlug
  <2> QED BY <2>1, <2>2, Zenon
<1>5. PICK r : r = R!FreeSlug(used, s)  OBVIOUS
<1>6. CASE r = s  BY <1>5, <1>6
<1>7. CASE \E x : r = Append(s, x)
  <2>1. PICK x : r = Append(s, x)  BY <1>7
  <2>2. IsSeq(r) /\ r # <<>> /\ r[1] = s[1]  BY <1>3, <2>1
  <2> QED BY <1>5, <2>2
<1> QED BY <1>4, <1>5, <1>6, <1>7

-----------------------------------------------------------------------------
(***************************************************************************)
(* What a restore has made of the tables, an entry of the bundle after     *)
(* the other.                                                              *)
(***************************************************************************)
Keeps(policy) == policy \in {"skip", "rename"}

StateShape(st) ==
  st = [db |-> st.db, next |-> st.next, ok |-> st.ok, restricted |-> st.restricted,
        app |-> st.app, proj |-> st.proj, store |-> st.store, bound |-> st.bound]

\* The applications entries became, the projects and the datastores.
AppMade(policy, n0, x, d) ==
  /\ \E i \in DOMAIN d.apps : d.apps[i].id = x[2]
  /\ Keeps(policy) => x[2] >= n0
ProjectMade(policy, n0, y, n) ==
  /\ y[2].id \in Nat /\ y[2].id < n
  /\ Keeps(policy) => y[2].id >= n0
StoreMade(m, d) ==
  /\ m.kind = m.entry.kind /\ m.slug[1] = m.entry.slug[1]
  /\ \E i \in DOMAIN d.stores :
       d.stores[i].id = m.id /\ d.stores[i].slug = m.slug /\ d.stores[i].pw = m.pw

Kept(d, e) ==
  /\ R!Range(d.apps) \subseteq R!Range(e.apps)
  /\ R!Range(d.projs) \subseteq R!Range(e.projs)
  /\ R!Range(d.stores) \subseteq R!Range(e.stores)

Grown(policy, d, n0, st) ==
  /\ StateShape(st) /\ n0 \in Nat /\ n0 <= st.next
  /\ Tables(st.db, st.next)
  /\ st.db.binds = d.binds /\ st.db.pbinds = d.pbinds /\ st.bound = {}
  /\ \A x \in st.app : AppMade(policy, n0, x, st.db)
  /\ \A y \in st.proj : ProjectMade(policy, n0, y, st.next)
  /\ \A m \in st.store : StoreMade(m, st.db)
  /\ Keeps(policy) => Kept(d, st.db)

\* A table of larger ids after a table of smaller ones.
LEMMA TablesLater ==
  ASSUME NEW d, NEW n, Tables(d, n), NEW m \in Nat, n <= m
  PROVE  /\ Table("app", d.apps, m) /\ Table("project", d.projs, m)
         /\ Table("store", d.stores, m)
         /\ \A b \in d.binds : BindRow(b, m)
         /\ \A b \in d.pbinds : ProjectBindRow(b, m)
<1>1. n \in Nat  BY DEF Tables, Table
<1>2. Table("app", d.apps, m) /\ Table("project", d.projs, m) /\ Table("store", d.stores, m)
  BY RowsLater DEF Tables
<1>3. ASSUME NEW b \in d.binds PROVE BindRow(b, m)
  <2>1. BindRow(b, n)  BY DEF Tables
  <2>2. b.app \in Nat /\ b.app < m  BY <1>1, <2>1 DEF BindRow
  <2> QED BY <2>1, <2>2 DEF BindRow
<1>4. ASSUME NEW b \in d.pbinds PROVE ProjectBindRow(b, m)
  <2>1. ProjectBindRow(b, n)  BY DEF Tables
  <2>2. b.proj \in Nat /\ b.proj < m  BY <1>1, <2>1 DEF ProjectBindRow
  <2> QED BY <2>1, <2>2 DEF ProjectBindRow
<1> QED BY <1>2, <1>3, <1>4

\* The rows of a table after a new one or a changed one.
LEMMA AddedRange ==
  ASSUME NEW tag, NEW rs, NEW n, Table(tag, rs, n), NEW x
  PROVE  /\ R!Range(Append(rs, x)) = R!Range(rs) \cup {x}
         /\ DOMAIN rs \subseteq DOMAIN Append(rs, x)
         /\ \A i \in DOMAIN rs : Append(rs, x)[i] = rs[i]
         /\ Len(rs) + 1 \in DOMAIN Append(rs, x) /\ Append(rs, x)[Len(rs) + 1] = x
<1>1. IsSeq(rs)  BY DEF Table
<1>2. Len(rs) \in Nat /\ DOMAIN rs = 1..Len(rs)  BY <1>1, SeqFacts
<1>3. PICK t : t = Append(rs, x)  OBVIOUS
<1>4. /\ IsSeq(t) /\ Len(t) = Len(rs) + 1 /\ t[Len(rs) + 1] = x
      /\ (\A i \in 1..Len(rs) : t[i] = rs[i]) /\ R!Range(t) = R!Range(rs) \cup {x}
  BY <1>1, <1>3, AppendFacts
<1>5. DOMAIN t = 1..Len(t)  BY <1>4, SeqFacts
<1>6. DOMAIN rs \subseteq DOMAIN t /\ Len(rs) + 1 \in DOMAIN t  BY <1>2, <1>4, <1>5
<1> QED BY <1>2, <1>3, <1>4, <1>6

\* Some row has the slug.
LEMMA TheFacts ==
  ASSUME NEW tag, NEW rs, NEW n, Table(tag, rs, n), NEW s, R!BySlug(rs, s) # {}
  PROVE  \E i \in DOMAIN rs : R!The(R!BySlug(rs, s)) = rs[i] /\ rs[i].slug = s
<1>1. PICK r : r = R!The(R!BySlug(rs, s))  OBVIOUS
<1>2. r \in R!BySlug(rs, s)  BY <1>1 DEF R!The
<1>3. r \in R!Range(rs) /\ r.slug = s  BY <1>2 DEF R!BySlug
<1> QED BY <1>1, <1>3, RowAt

\* The restore of one application.
LEMMA RestoreAppGrows ==
  ASSUME NEW policy, NEW d, NEW n0, NEW st, Grown(policy, d, n0, st),
         NEW a, IsMap(a.env)
  PROVE  /\ Grown(policy, d, n0, R!RestoreApp(policy, st, a))
         /\ R!RestoreApp(policy, st, a).store = st.store
<1>1. /\ StateShape(st) /\ n0 \in Nat /\ n0 <= st.next /\ Tables(st.db, st.next)
      /\ Table("app", st.db.apps, st.next)
  BY DEF Grown, Tables
<1>2. st.next \in Nat /\ st.next + 1 \in Nat /\ st.next <= st.next + 1
  BY <1>1 DEF Table
<1>3. PICK mine : mine = R!BySlug(st.db.apps, a.slug)  OBVIOUS
<1>4. PICK hosts : hosts = R!HostsFree(a.hosts,
                     R!AppHosts(R!Range(st.db.apps) \ mine) \cup foreign)  OBVIOUS
<1>5. PICK slug : slug = R!FreeSlug(R!Slugs(st.db.apps), a.slug)  OBVIOUS
<1>6. PICK primary : primary = IF R!PrimaryOf(a) \in R!Range(hosts)
                               THEN R!PrimaryOf(a) ELSE None  OBVIOUS
<1>7. PICK r : r = R!RestoreApp(policy, st, a)  OBVIOUS
<1>8. CASE mine # {} /\ policy = "skip"
  <2>1. r = st  BY <1>3, <1>7, <1>8 DEF R!RestoreApp
  <2> QED BY <1>7, <2>1
<1>9. CASE mine # {} /\ policy = "overwrite"
  <2>1. PICK i \in DOMAIN st.db.apps : R!The(mine) = st.db.apps[i]
    BY <1>1, <1>3, <1>9, TheFacts
  <2>2. PICK id : id = st.db.apps[i].id  OBVIOUS
  <2>3. PICK written : written = [id |-> id, slug |-> a.slug, hosts |-> hosts, env |-> a.env,
                          primary |-> primary]  OBVIOUS
  <2>4. PICK apps : apps = R!Replace(st.db.apps, written)  OBVIOUS
  <2>5. r = [[st EXCEPT !.app = @ \cup {<<a.slug, id>>}] EXCEPT !.db.apps = apps]
    BY <1>3, <1>4, <1>6, <1>7, <1>9, <2>1, <2>2, <2>3, <2>4 DEF R!RestoreApp
  <2>6. /\ StateShape(r) /\ r.next = st.next /\ r.app = st.app \cup {<<a.slug, id>>}
        /\ r.proj = st.proj /\ r.store = st.store /\ r.bound = st.bound
        /\ r.db = [apps |-> apps, projs |-> st.db.projs, stores |-> st.db.stores,
                   binds |-> st.db.binds, pbinds |-> st.db.pbinds]
    BY <1>1, <2>5 DEF StateShape, Tables
  <2>7. Row("app", written, st.next)
    <3>1. Row("app", st.db.apps[i], st.next)  BY <1>1 DEF Table
    <3> QED BY <2>2, <2>3, <3>1 DEF Row, AppShape
  <2>8. Table("app", apps, st.next) /\ DOMAIN apps = DOMAIN st.db.apps
        /\ \A j \in DOMAIN apps : apps[j].id = st.db.apps[j].id
    BY <1>1, <1>2, <2>4, <2>7, RowReplaced
  <2>9. Tables(r.db, r.next)  BY <1>1, <2>6, <2>8 DEF Tables
  <2>10. ASSUME NEW x \in r.app PROVE AppMade(policy, n0, x, r.db)
    <3>1. ~Keeps(policy)  BY <1>9 DEF Keeps
    <3>2. \E j \in DOMAIN st.db.apps : st.db.apps[j].id = x[2]
      <4>1. CASE x = <<a.slug, id>>  BY <2>2, <4>1
      <4>2. CASE x \in st.app  BY <4>2 DEF Grown, AppMade
      <4> QED BY <2>6, <4>1, <4>2
    <3> QED BY <2>6, <2>8, <3>1, <3>2 DEF AppMade
  <2>11. ~Keeps(policy)  BY <1>9 DEF Keeps
  <2>12. \A y \in r.proj : ProjectMade(policy, n0, y, r.next)  BY <2>6 DEF Grown
  <2>13. \A m \in r.store : StoreMade(m, r.db)  BY <2>6 DEF Grown, StoreMade
  <2>14. r.db.binds = d.binds /\ r.db.pbinds = d.pbinds /\ r.bound = {}
    BY <2>6 DEF Grown
  <2>15. Grown(policy, d, n0, r)
    BY <1>1, <2>6, <2>9, <2>10, <2>11, <2>12, <2>13, <2>14 DEF Grown
  <2> QED BY <1>7, <2>6, <2>15
<1>10. CASE ~(mine # {} /\ policy = "skip") /\ ~(mine # {} /\ policy = "overwrite")
  <2>1. PICK written : written = [id |-> st.next, slug |-> slug, hosts |-> hosts, env |-> a.env,
                          primary |-> primary]  OBVIOUS
  <2>2. PICK apps : apps = Append(st.db.apps, written)  OBVIOUS
  <2>3. PICK ok : ok = (st.ok /\ R!Range(hosts) \cap R!AppHosts(R!Range(st.db.apps)) = {})
    OBVIOUS
  <2>4. r = [[st EXCEPT !.app = @ \cup {<<a.slug, st.next>>}] EXCEPT
               !.db.apps = apps, !.next = st.next + 1, !.ok = ok]
    BY <1>1, <1>3, <1>4, <1>5, <1>6, <1>7, <1>10, <2>1, <2>2, <2>3
       DEF R!RestoreApp, StateShape
  <2>5. /\ StateShape(r) /\ r.next = st.next + 1 /\ r.app = st.app \cup {<<a.slug, st.next>>}
        /\ r.proj = st.proj /\ r.store = st.store /\ r.bound = st.bound
        /\ r.db = [apps |-> apps, projs |-> st.db.projs, stores |-> st.db.stores,
                   binds |-> st.db.binds, pbinds |-> st.db.pbinds]
    BY <1>1, <2>4 DEF StateShape, Tables
  <2>6. Row("app", written, st.next + 1)  BY <1>2, <2>1 DEF Row, AppShape, IsMap
  <2>7. Table("app", apps, st.next + 1)  BY <1>1, <1>2, <2>1, <2>2, <2>6, RowAdded
  <2>8. /\ R!Range(apps) = R!Range(st.db.apps) \cup {written}
        /\ DOMAIN st.db.apps \subseteq DOMAIN apps
        /\ \A i \in DOMAIN st.db.apps : apps[i] = st.db.apps[i]
        /\ \E i \in DOMAIN apps : apps[i] = written
    BY <1>1, <2>2, AddedRange
  <2>9. Tables(r.db, r.next)
    <3>1. /\ Table("project", st.db.projs, st.next + 1)
          /\ Table("store", st.db.stores, st.next + 1)
          /\ \A b \in st.db.binds : BindRow(b, st.next + 1)
          /\ \A b \in st.db.pbinds : ProjectBindRow(b, st.next + 1)
      BY <1>1, <1>2, TablesLater
    <3> QED BY <2>5, <2>7, <3>1 DEF Tables
  <2>10. ASSUME NEW x \in r.app PROVE AppMade(policy, n0, x, r.db)
    <3>1. CASE x = <<a.slug, st.next>>
      BY <1>1, <2>1, <2>5, <2>8, <3>1 DEF AppMade
    <3>2. CASE x \in st.app
      <4>1. AppMade(policy, n0, x, st.db)  BY <3>2 DEF Grown
      <4> QED BY <2>5, <2>8, <4>1 DEF AppMade
    <3> QED BY <2>5, <3>1, <3>2
  <2>11. ASSUME NEW y \in r.proj PROVE ProjectMade(policy, n0, y, r.next)
    <3>1. ProjectMade(policy, n0, y, st.next)  BY <2>5 DEF Grown
    <3> QED BY <1>2, <2>5, <3>1 DEF ProjectMade
  <2>12. \A m \in r.store : StoreMade(m, r.db)  BY <2>5 DEF Grown, StoreMade
  <2>13. r.db.binds = d.binds /\ r.db.pbinds = d.pbinds /\ r.bound = {}
    BY <2>5 DEF Grown
  <2>14. Keeps(policy) => Kept(d, r.db)  BY <2>5, <2>8 DEF Grown, Kept
  <2>15. n0 <= r.next  BY <1>1, <1>2, <2>5
  <2>16. Grown(policy, d, n0, r)
    BY <1>1, <2>5, <2>9, <2>10, <2>11, <2>12, <2>13, <2>14, <2>15 DEF Grown
  <2> QED BY <1>7, <2>5, <2>16
<1> QED BY <1>8, <1>9, <1>10

\* The restore of one project.
LEMMA RestoreProjectGrows ==
  ASSUME NEW policy, NEW d, NEW n0, NEW st, Grown(policy, d, n0, st),
         NEW p, IsSeq(p.svcs)
  PROVE  /\ Grown(policy, d, n0, R!RestoreProject(policy, st, p))
         /\ R!RestoreProject(policy, st, p).store = st.store
<1>1. /\ StateShape(st) /\ n0 \in Nat /\ n0 <= st.next /\ Tables(st.db, st.next)
      /\ Table("project", st.db.projs, st.next)
  BY DEF Grown, Tables
<1>2. PICK l \in Nat : l = Len(p.svcs) /\ DOMAIN p.svcs = 1..l  BY SeqFacts
<1>3. PICK n \in Nat : n = st.next + l + 1
  <2>1. st.next + l + 1 \in Nat  BY <1>1, <1>2 DEF Table
  <2> QED BY <2>1
<1>4. st.next \in Nat /\ st.next < n /\ st.next <= n /\ n0 <= n
  BY <1>1, <1>2, <1>3 DEF Table
<1>5. PICK mine : mine = R!BySlug(st.db.projs, p.slug)  OBVIOUS
<1>6. PICK over \in BOOLEAN : over = (mine # {} /\ policy = "overwrite")  OBVIOUS
<1>7. PICK id : id = IF over THEN R!The(mine).id ELSE st.next  OBVIOUS
<1>8. PICK slug : slug = IF over THEN p.slug ELSE R!FreeSlug(R!Slugs(st.db.projs), p.slug)
  OBVIOUS
<1>9. PICK hosts : hosts = [j \in DOMAIN p.svcs |-> R!HostsFree(p.svcs[j].hosts,
        R!AppHosts(R!Range(st.db.apps))
          \cup R!ServiceHosts(IF over THEN R!Range(st.db.projs) \ mine
                              ELSE R!Range(st.db.projs))
          \cup foreign)]
  OBVIOUS
<1>10. PICK deps : deps = [j \in DOMAIN p.svcs |->
          {st.next + CHOOSE k \in DOMAIN p.svcs : p.svcs[k].slug = s : s \in p.svcs[j].deps}]
  OBVIOUS
<1>11. PICK svcs : svcs = [j \in DOMAIN p.svcs |->
          [id |-> st.next + j, slug |-> p.svcs[j].slug, hosts |-> hosts[j], deps |-> deps[j]]]
  OBVIOUS
<1>12. PICK written : written = [id |-> id, slug |-> slug, svcs |-> svcs]  OBVIOUS
<1>13. PICK restricted : restricted =
         (st.restricted \/ (over /\ \E s \in R!Range(R!The(mine).svcs) : s.deps # {}))
  OBVIOUS
<1>14. PICK r : r = R!RestoreProject(policy, st, p)  OBVIOUS
<1>15. svcs = [j \in DOMAIN p.svcs |->
          [id |-> st.next + j, slug |-> p.svcs[j].slug,
           hosts |-> R!HostsFree(p.svcs[j].hosts,
             R!AppHosts(R!Range(st.db.apps))
               \cup R!ServiceHosts(IF over THEN R!Range(st.db.projs) \ mine
                                   ELSE R!Range(st.db.projs))
               \cup foreign),
           deps |-> {st.next + CHOOSE k \in DOMAIN p.svcs : p.svcs[k].slug = s :
                       s \in p.svcs[j].deps}]]
  BY <1>9, <1>10, <1>11
<1>16. r = IF mine # {} /\ policy = "skip" THEN st
           ELSE [st EXCEPT
                   !.db.projs = IF over THEN R!Replace(@, written) ELSE Append(@, written),
                   !.proj = @ \cup {<<p.slug, written>>},
                   !.next = @ + Len(p.svcs) + 1,
                   !.restricted = restricted]
  <2>1. CASE over
    <3>1. mine # {} /\ policy = "overwrite"  BY <1>6, <2>1
    <3>2. id = R!The(mine).id /\ slug = p.slug  BY <1>7, <1>8, <2>1
    <3>3. restricted = (st.restricted \/ \E s \in R!Range(R!The(mine).svcs) : s.deps # {})
      BY <1>13, <2>1
    <3>4. svcs = [j \in DOMAIN p.svcs |->
            [id |-> st.next + j, slug |-> p.svcs[j].slug,
             hosts |-> R!HostsFree(p.svcs[j].hosts,
               R!AppHosts(R!Range(st.db.apps))
                 \cup R!ServiceHosts(R!Range(st.db.projs) \ mine) \cup foreign),
             deps |-> {st.next + CHOOSE k \in DOMAIN p.svcs : p.svcs[k].slug = s :
                         s \in p.svcs[j].deps}]]
      BY <1>15, <2>1
    <3>5. r = [st EXCEPT !.db.projs = R!Replace(@, written),
                         !.proj = @ \cup {<<p.slug, written>>},
                         !.next = @ + Len(p.svcs) + 1, !.restricted = restricted]
      BY <1>1, <1>5, <1>12, <1>14, <3>1, <3>2, <3>3, <3>4, ZenonT(60)
      DEF R!RestoreProject, StateShape
    <3> QED BY <2>1, <3>1, <3>5
  <2>2. CASE ~over
    <3>1. ~(mine # {} /\ policy = "overwrite")  BY <1>6, <2>2
    <3>2. id = st.next /\ slug = R!FreeSlug(R!Slugs(st.db.projs), p.slug)
      BY <1>7, <1>8, <2>2
    <3>3. restricted = (st.restricted \/ FALSE)  BY <1>13, <2>2
    <3>4. svcs = [j \in DOMAIN p.svcs |->
            [id |-> st.next + j, slug |-> p.svcs[j].slug,
             hosts |-> R!HostsFree(p.svcs[j].hosts,
               R!AppHosts(R!Range(st.db.apps))
                 \cup R!ServiceHosts(R!Range(st.db.projs)) \cup foreign),
             deps |-> {st.next + CHOOSE k \in DOMAIN p.svcs : p.svcs[k].slug = s :
                         s \in p.svcs[j].deps}]]
      BY <1>15, <2>2
    <3>5. r = IF mine # {} /\ policy = "skip" THEN st
              ELSE [st EXCEPT !.db.projs = Append(@, written),
                              !.proj = @ \cup {<<p.slug, written>>},
                              !.next = @ + Len(p.svcs) + 1, !.restricted = restricted]
      BY <1>1, <1>5, <1>12, <1>14, <3>1, <3>2, <3>3, <3>4, ZenonT(60)
      DEF R!RestoreProject, StateShape
    <3> QED BY <2>2, <3>5
  <2> QED BY <2>1, <2>2
<1>17. ProjectShape(written)
  <2>1. svcs = [j \in 1..l |-> svcs[j]]  BY <1>2, <1>11
  <2>2. IsSeq(svcs) /\ DOMAIN svcs = 1..l  BY <2>1, SeqOf
  <2>3. \A j \in 1..l :
          svcs[j] = [id |-> svcs[j].id, slug |-> svcs[j].slug, hosts |-> svcs[j].hosts,
                     deps |-> svcs[j].deps]
    BY <1>2, <1>11
  <2> QED BY <1>12, <2>2, <2>3 DEF ProjectShape
<1>18. CASE mine # {} /\ policy = "skip"
  <2>1. r = st  BY <1>16, <1>18
  <2> QED BY <1>14, <2>1
<1>19. CASE ~(mine # {} /\ policy = "skip")
  <2>1. PICK projs : projs = IF over THEN R!Replace(st.db.projs, written)
                             ELSE Append(st.db.projs, written)
    OBVIOUS
  <2>2. /\ StateShape(r) /\ r.next = n /\ r.proj = st.proj \cup {<<p.slug, written>>}
        /\ r.app = st.app /\ r.store = st.store /\ r.bound = st.bound
        /\ r.db = [apps |-> st.db.apps, projs |-> projs, stores |-> st.db.stores,
                   binds |-> st.db.binds, pbinds |-> st.db.pbinds]
    BY <1>1, <1>2, <1>3, <1>16, <1>19, <2>1 DEF StateShape, Tables
  <2>3. id \in Nat /\ id < n /\ (Keeps(policy) => id >= n0 /\ ~over)
    <3>1. CASE over
      <4>0. R!BySlug(st.db.projs, p.slug) # {}  BY <1>5, <1>6, <3>1
      <4>1. PICK i \in DOMAIN st.db.projs : R!The(mine) = st.db.projs[i]
        BY <1>1, <1>5, <4>0, TheFacts
      <4>2. Row("project", st.db.projs[i], st.next)  BY <1>1 DEF Table
      <4>3. ~Keeps(policy)  BY <1>6, <3>1 DEF Keeps
      <4> QED BY <1>3, <1>4, <1>7, <3>1, <4>1, <4>2, <4>3 DEF Row
    <3>2. CASE ~over  BY <1>1, <1>4, <1>7, <3>2
    <3> QED BY <3>1, <3>2
  <2>4. Row("project", written, n)  BY <1>12, <1>17, <2>3 DEF Row
  <2>5. Table("project", projs, n)
    <3>1. CASE over  BY <1>1, <1>4, <2>1, <2>4, <3>1, RowReplaced
    <3>2. CASE ~over
      <4>1. written.id = st.next  BY <1>7, <1>12, <3>2
      <4> QED BY <1>1, <1>4, <2>1, <2>4, <3>2, <4>1, RowAdded
    <3> QED BY <3>1, <3>2
  <2>6. Tables(r.db, r.next)
    <3>1. /\ Table("app", st.db.apps, n) /\ Table("store", st.db.stores, n)
          /\ \A b \in st.db.binds : BindRow(b, n)
          /\ \A b \in st.db.pbinds : ProjectBindRow(b, n)
      BY <1>1, <1>4, TablesLater
    <3> QED BY <2>2, <2>5, <3>1 DEF Tables
  <2>7. \A x \in r.app : AppMade(policy, n0, x, r.db)  BY <2>2 DEF Grown, AppMade
  <2>8. ASSUME NEW y \in r.proj PROVE ProjectMade(policy, n0, y, r.next)
    <3>1. CASE y = <<p.slug, written>>
      <4>1. y[2].id = id  BY <1>12, <3>1
      <4> QED BY <2>2, <2>3, <4>1 DEF ProjectMade
    <3>2. CASE y \in st.proj
      <4>1. ProjectMade(policy, n0, y, st.next)  BY <3>2 DEF Grown
      <4> QED BY <1>4, <2>2, <4>1 DEF ProjectMade
    <3> QED BY <2>2, <3>1, <3>2
  <2>9. \A m \in r.store : StoreMade(m, r.db)  BY <2>2 DEF Grown, StoreMade
  <2>10. r.db.binds = d.binds /\ r.db.pbinds = d.pbinds /\ r.bound = {}
    BY <2>2 DEF Grown
  <2>11. ASSUME Keeps(policy) PROVE Kept(d, r.db)
    <3>1. projs = Append(st.db.projs, written)  BY <2>1, <2>3, <2>11
    <3>2. R!Range(projs) = R!Range(st.db.projs) \cup {written}  BY <1>1, <3>1, AddedRange
    <3> QED BY <2>2, <2>11, <3>2 DEF Grown, Kept
  <2>12. Grown(policy, d, n0, r)
    BY <1>1, <1>4, <2>2, <2>6, <2>7, <2>8, <2>9, <2>10, <2>11 DEF Grown
  <2> QED BY <1>14, <2>2, <2>12
<1> QED BY <1>18, <1>19

\* The restore of one datastore.
LEMMA RestoreStoreGrows ==
  ASSUME NEW policy, NEW d, NEW n0, NEW st, Grown(policy, d, n0, st),
         NEW e, IsSeq(e.slug), e.slug # <<>>
  PROVE  /\ Grown(policy, d, n0, R!RestoreStore(policy, st, e))
         /\ \E m : m.entry = e
                   /\ R!RestoreStore(policy, st, e).store \subseteq st.store \cup {m}
<1>1. /\ StateShape(st) /\ n0 \in Nat /\ n0 <= st.next /\ Tables(st.db, st.next)
      /\ Table("store", st.db.stores, st.next)
  BY DEF Grown, Tables
<1>2. st.next \in Nat /\ st.next + 1 \in Nat /\ st.next <= st.next + 1
  BY <1>1 DEF Table
<1>3. PICK mine : mine = R!BySlug(st.db.stores, e.slug)  OBVIOUS
<1>4. PICK slug : slug = R!FreeSlug(R!Slugs(st.db.stores), e.slug)  OBVIOUS
<1>5. PICK port : port = IF e.port \in {r.port : r \in R!Range(st.db.stores)} THEN None
                         ELSE e.port  OBVIOUS
<1>6. PICK r : r = R!RestoreStore(policy, st, e)  OBVIOUS
<1>7. CASE mine # {} /\ policy = "skip"
  <2>1. r = st  BY <1>3, <1>6, <1>7 DEF R!RestoreStore
  <2>2. PICK m : m = [entry |-> e]  OBVIOUS
  <2>3. m.entry = e /\ r.store \subseteq st.store \cup {m}  BY <2>1, <2>2
  <2> QED BY <1>6, <2>1, <2>3
<1>8. CASE mine # {} /\ policy = "overwrite"
  <2>1. PICK i \in DOMAIN st.db.stores :
          R!The(mine) = st.db.stores[i] /\ st.db.stores[i].slug = e.slug
    BY <1>1, <1>3, <1>8, TheFacts
  <2>2. PICK m : m = [entry |-> e, id |-> st.db.stores[i].id, kind |-> e.kind,
                      slug |-> e.slug, pw |-> st.db.stores[i].pw]  OBVIOUS
  <2>3. r = [st EXCEPT !.store = @ \cup {m}]
    BY <1>3, <1>6, <1>8, <2>1, <2>2 DEF R!RestoreStore
  <2>4. /\ StateShape(r) /\ r.next = st.next /\ r.app = st.app /\ r.proj = st.proj
        /\ r.store = st.store \cup {m} /\ r.bound = st.bound /\ r.db = st.db
    BY <1>1, <2>3 DEF StateShape
  <2>5. StoreMade(m, st.db)
    <3>1. /\ m.entry = e /\ m.kind = e.kind /\ m.slug = e.slug
          /\ m.id = st.db.stores[i].id /\ m.pw = st.db.stores[i].pw
      BY <2>2
    <3> QED BY <2>1, <3>1 DEF StoreMade
  <2>6. Grown(policy, d, n0, r)  BY <2>4, <2>5 DEF Grown
  <2>7. m.entry = e  BY <2>2
  <2> QED BY <1>6, <2>4, <2>6, <2>7
<1>9. CASE ~(mine # {} /\ policy = "skip") /\ ~(mine # {} /\ policy = "overwrite")
  <2>1. PICK written : written = [id |-> st.next, slug |-> slug, kind |-> e.kind, port |-> port,
                            pw |-> st.next]  OBVIOUS
  <2>2. PICK stores : stores = Append(st.db.stores, written)  OBVIOUS
  <2>3. PICK m : m = [entry |-> e, id |-> st.next, kind |-> e.kind, slug |-> slug,
                      pw |-> st.next]  OBVIOUS
  <2>4. r = [[st EXCEPT !.store = @ \cup {m}] EXCEPT !.next = st.next + 1,
                                                      !.db.stores = stores]
    BY <1>1, <1>3, <1>4, <1>5, <1>6, <1>9, <2>1, <2>2, <2>3 DEF R!RestoreStore, StateShape
  <2>5. /\ StateShape(r) /\ r.next = st.next + 1 /\ r.app = st.app /\ r.proj = st.proj
        /\ r.store = st.store \cup {m} /\ r.bound = st.bound
        /\ r.db = [apps |-> st.db.apps, projs |-> st.db.projs, stores |-> stores,
                   binds |-> st.db.binds, pbinds |-> st.db.pbinds]
    BY <1>1, <2>4 DEF StateShape, Tables
  <2>6. IsSeq(slug) /\ slug # <<>> /\ slug[1] = e.slug[1]  BY <1>4, FreeSlugFacts
  <2>7. Row("store", written, st.next + 1)  BY <1>2, <2>1, <2>6 DEF Row, StoreShape
  <2>8. Table("store", stores, st.next + 1)  BY <1>1, <1>2, <2>1, <2>2, <2>7, RowAdded
  <2>9. /\ R!Range(stores) = R!Range(st.db.stores) \cup {written}
        /\ DOMAIN st.db.stores \subseteq DOMAIN stores
        /\ \A i \in DOMAIN st.db.stores : stores[i] = st.db.stores[i]
        /\ \E i \in DOMAIN stores : stores[i] = written
    BY <1>1, <2>2, AddedRange
  <2>10. Tables(r.db, r.next)
    <3>1. /\ Table("project", st.db.projs, st.next + 1)
          /\ Table("app", st.db.apps, st.next + 1)
          /\ \A b \in st.db.binds : BindRow(b, st.next + 1)
          /\ \A b \in st.db.pbinds : ProjectBindRow(b, st.next + 1)
      BY <1>1, <1>2, TablesLater
    <3> QED BY <2>5, <2>8, <3>1 DEF Tables
  <2>11. \A x \in r.app : AppMade(policy, n0, x, r.db)  BY <2>5 DEF Grown, AppMade
  <2>12. ASSUME NEW y \in r.proj PROVE ProjectMade(policy, n0, y, r.next)
    <3>1. ProjectMade(policy, n0, y, st.next)  BY <2>5 DEF Grown
    <3> QED BY <1>2, <2>5, <3>1 DEF ProjectMade
  <2>13. ASSUME NEW k \in r.store PROVE StoreMade(k, r.db)
    <3>1. CASE k = m
      <4>1. /\ k.entry = e /\ k.kind = e.kind /\ k.slug = slug /\ k.id = st.next
            /\ k.pw = st.next
        BY <2>3, <3>1
      <4>2. PICK i \in DOMAIN stores : stores[i] = written  BY <2>9
      <4>3. stores[i].id = st.next /\ stores[i].slug = slug /\ stores[i].pw = st.next
        BY <2>1, <4>2
      <4> QED BY <2>5, <2>6, <4>1, <4>3 DEF StoreMade
    <3>2. CASE k \in st.store
      <4>1. StoreMade(k, st.db)  BY <3>2 DEF Grown
      <4> QED BY <2>5, <2>9, <4>1 DEF StoreMade
    <3> QED BY <2>5, <3>1, <3>2
  <2>14. r.db.binds = d.binds /\ r.db.pbinds = d.pbinds /\ r.bound = {}
    BY <2>5 DEF Grown
  <2>15. Keeps(policy) => Kept(d, r.db)  BY <2>5, <2>9 DEF Grown, Kept
  <2>16. n0 <= r.next  BY <1>1, <1>2, <2>5
  <2>17. Grown(policy, d, n0, r)
    BY <1>1, <2>5, <2>10, <2>11, <2>12, <2>13, <2>14, <2>15, <2>16 DEF Grown
  <2>18. m.entry = e /\ r.store \subseteq st.store \cup {m}  BY <2>3, <2>5
  <2> QED BY <1>6, <2>17, <2>18
<1> QED BY <1>7, <1>8, <1>9

-----------------------------------------------------------------------------
(***************************************************************************)
(* The whole restore.                                                      *)
(***************************************************************************)
\* What a bundle is at any version.
AppEntry(a) ==
  /\ a = [slug |-> a.slug, hosts |-> a.hosts, primary |-> a.primary, env |-> a.env]
  /\ IsMap(a.env)
StoreEntry(e) ==
  /\ IsSeq(e.slug) /\ e.slug # <<>>
  /\ \A x \in e.binds : x.key = e.slug[1]
Restorable(b) ==
  /\ IsSeq(b.apps) /\ \A i \in DOMAIN b.apps : AppEntry(b.apps[i])
  /\ IsSeq(b.projs) /\ \A i \in DOMAIN b.projs : IsSeq(b.projs[i].svcs)
  /\ IsSeq(b.stores) /\ \A i \in DOMAIN b.stores : StoreEntry(b.stores[i])
  /\ \A i, j \in DOMAIN b.stores : b.stores[i].slug[1] = b.stores[j].slug[1] => i = j

\* Datastores are those of the first k entries, one each.
OneEach(q, k, st) ==
  /\ \A m \in st.store : \E j \in 1..k : m.entry = q[j]
  /\ \A m, l \in st.store : m.entry = l.entry => m = l

StartOf(d, n) == [db |-> d, next |-> n, ok |-> TRUE, restricted |-> FALSE,
                  app |-> {}, proj |-> {}, store |-> {}, bound |-> {}]

\* After the applications.
LEMMA AppsGrow ==
  ASSUME NEW policy, NEW d, NEW n0, NEW st, Grown(policy, d, n0, st), st.store = {},
         NEW q, IsSeq(q), \A i \in DOMAIN q : IsMap(q[i].env)
  PROVE  /\ Grown(policy, d, n0, AppLoop(policy, st, q))
         /\ AppLoop(policy, st, q).store = {}
<1>1. PICK n \in Nat : n = Len(q) /\ DOMAIN q = 1..n  BY SeqFacts
<1>2. PICK r : r = AppLoop(policy, st, q)  OBVIOUS
<1>3. PICK g : Steps("app", policy, st, q, g, r)  BY <1>2, AppSteps
<1>4. PICK A : A = {k \in 0..n : Grown(policy, d, n0, g[k]) /\ g[k].store = {}}  OBVIOUS
<1>5. 0 \in A  BY <1>3, <1>4 DEF Steps
<1>6. ASSUME NEW m \in 0..(n - 1), m \in A PROVE m + 1 \in A
  <2>1. Grown(policy, d, n0, g[m]) /\ g[m].store = {}  BY <1>4, <1>6
  <2>2. m + 1 \in DOMAIN q /\ m + 1 \in 0..n  BY <1>1
  <2>3. g[m + 1] = R!RestoreApp(policy, g[m], q[m + 1])
    BY <1>1, <1>3 DEF Steps, StepOf
  <2>4. PICK a : a = q[m + 1] /\ IsMap(a.env)  BY <2>2
  <2>5. PICK s : s = g[m]  OBVIOUS
  <2>6. Grown(policy, d, n0, R!RestoreApp(policy, s, a)) /\ R!RestoreApp(policy, s, a).store = {}
    BY <2>1, <2>4, <2>5, RestoreAppGrows
  <2> QED BY <1>4, <2>2, <2>3, <2>4, <2>5, <2>6
<1>7. n \in A  BY <1>5, <1>6, EveryStep
<1>8. r = g[n]  BY <1>1, <1>3 DEF Steps
<1> QED BY <1>2, <1>4, <1>7, <1>8

\* After the projects.
LEMMA ProjectsGrow ==
  ASSUME NEW policy, NEW d, NEW n0, NEW st, Grown(policy, d, n0, st), st.store = {},
         NEW q, IsSeq(q), \A i \in DOMAIN q : IsSeq(q[i].svcs)
  PROVE  /\ Grown(policy, d, n0, ProjectLoop(policy, st, q))
         /\ ProjectLoop(policy, st, q).store = {}
<1>1. PICK n \in Nat : n = Len(q) /\ DOMAIN q = 1..n  BY SeqFacts
<1>2. PICK r : r = ProjectLoop(policy, st, q)  OBVIOUS
<1>3. PICK g : Steps("project", policy, st, q, g, r)  BY <1>2, ProjectSteps
<1>4. PICK A : A = {k \in 0..n : Grown(policy, d, n0, g[k]) /\ g[k].store = {}}  OBVIOUS
<1>5. 0 \in A  BY <1>3, <1>4 DEF Steps
<1>6. ASSUME NEW m \in 0..(n - 1), m \in A PROVE m + 1 \in A
  <2>1. Grown(policy, d, n0, g[m]) /\ g[m].store = {}  BY <1>4, <1>6
  <2>2. m + 1 \in DOMAIN q /\ m + 1 \in 0..n  BY <1>1
  <2>3. g[m + 1] = R!RestoreProject(policy, g[m], q[m + 1])
    BY <1>1, <1>3 DEF Steps, StepOf
  <2>4. PICK p : p = q[m + 1] /\ IsSeq(p.svcs)  BY <2>2
  <2>5. PICK s : s = g[m]  OBVIOUS
  <2>6. /\ Grown(policy, d, n0, R!RestoreProject(policy, s, p))
        /\ R!RestoreProject(policy, s, p).store = {}
    BY <2>1, <2>4, <2>5, RestoreProjectGrows
  <2> QED BY <1>4, <2>2, <2>3, <2>4, <2>5, <2>6
<1>7. n \in A  BY <1>5, <1>6, EveryStep
<1>8. r = g[n]  BY <1>1, <1>3 DEF Steps
<1> QED BY <1>2, <1>4, <1>7, <1>8

\* After the datastores.
LEMMA StoresGrow ==
  ASSUME NEW policy, NEW d, NEW n0, NEW st, Grown(policy, d, n0, st), st.store = {},
         NEW q, IsSeq(q), \A i \in DOMAIN q : StoreEntry(q[i]),
         \A i, j \in DOMAIN q : q[i].slug[1] = q[j].slug[1] => i = j
  PROVE  /\ Grown(policy, d, n0, StoreLoop(policy, st, q))
         /\ OneEach(q, Len(q), StoreLoop(policy, st, q))
<1>1. PICK n \in Nat : n = Len(q) /\ DOMAIN q = 1..n  BY SeqFacts
<1>2. PICK r : r = StoreLoop(policy, st, q)  OBVIOUS
<1>3. PICK g : Steps("store", policy, st, q, g, r)  BY <1>2, StoreSteps
<1>4. PICK A : A = {k \in 0..n : Grown(policy, d, n0, g[k]) /\ OneEach(q, k, g[k])}  OBVIOUS
<1>5. 0 \in A  BY <1>3, <1>4 DEF Steps, OneEach
<1>6. ASSUME NEW m \in 0..(n - 1), m \in A PROVE m + 1 \in A
  <2>1. Grown(policy, d, n0, g[m]) /\ OneEach(q, m, g[m])  BY <1>4, <1>6
  <2>2. m + 1 \in DOMAIN q /\ m + 1 \in 0..n /\ m + 1 \in 1..(m + 1)  BY <1>1
  <2>3. g[m + 1] = R!RestoreStore(policy, g[m], q[m + 1])
    BY <1>1, <1>3 DEF Steps, StepOf
  <2>4. PICK e : e = q[m + 1] /\ StoreEntry(e)  BY <2>2
  <2>5. PICK s : s = g[m]  OBVIOUS
  <2>6. IsSeq(e.slug) /\ e.slug # <<>>  BY <2>4 DEF StoreEntry
  <2>7. PICK t : t = R!RestoreStore(policy, s, e)  OBVIOUS
  <2>8. Grown(policy, d, n0, t) /\ \E x : x.entry = e /\ t.store \subseteq s.store \cup {x}
    BY <2>1, <2>5, <2>6, <2>7, RestoreStoreGrows
  <2>9. PICK x : x.entry = e /\ t.store \subseteq s.store \cup {x}  BY <2>8
  <2>10. ASSUME NEW y \in s.store PROVE y.entry # e /\ \E j \in 1..(m + 1) : y.entry = q[j]
    <3>1. PICK j \in 1..m : y.entry = q[j]  BY <2>1, <2>5 DEF OneEach
    <3>2. j \in DOMAIN q /\ j # m + 1 /\ j \in 1..(m + 1)  BY <1>1, <3>1
    <3>3. q[j].slug[1] # q[m + 1].slug[1]  BY <2>2, <3>2
    <3> QED BY <2>4, <3>1, <3>2, <3>3
  <2>11. \A y \in t.store : \E j \in 1..(m + 1) : y.entry = q[j]
    BY <2>2, <2>4, <2>9, <2>10
  <2>12. ASSUME NEW y \in t.store, NEW z \in t.store, y.entry = z.entry PROVE y = z
    <3>1. CASE y \in s.store /\ z \in s.store  BY <2>1, <2>5, <2>12, <3>1 DEF OneEach
    <3>2. CASE ~(y \in s.store /\ z \in s.store)  BY <2>9, <2>10, <2>12, <3>2
    <3> QED BY <3>1, <3>2
  <2>13. OneEach(q, m + 1, t)  BY <2>11, <2>12 DEF OneEach
  <2> QED BY <1>4, <2>2, <2>3, <2>4, <2>5, <2>7, <2>8, <2>13
<1>7. n \in A  BY <1>5, <1>6, EveryStep
<1>8. r = g[n]  BY <1>1, <1>3 DEF Steps
<1> QED BY <1>1, <1>2, <1>4, <1>7, <1>8

\* Before any entry.
LEMMA StartGrown ==
  ASSUME NEW policy, NEW d, NEW n, Tables(d, n)
  PROVE  Grown(policy, d, n, StartOf(d, n)) /\ StartOf(d, n).store = {}
<1>1. PICK st : st = StartOf(d, n)  OBVIOUS
<1>2. /\ StateShape(st) /\ st.db = d /\ st.next = n /\ st.app = {} /\ st.proj = {}
      /\ st.store = {} /\ st.bound = {}
  BY <1>1 DEF StartOf, StateShape
<1>3. n \in Nat /\ n <= n  BY DEF Tables, Table
<1>4. Kept(d, d)  BY DEF Kept
<1> QED BY <1>1, <1>2, <1>3, <1>4 DEF Grown

\* The restore is its loops, then the bindings.
LEMMA RestoredLoops ==
  ASSUME NEW policy, NEW b, Tables(db, history.next), Restorable(b)
  PROVE  \E st : /\ R!Restored(policy, b) = R!RestoreBindings(R!RestoreProjectBindings(st))
                 /\ Grown(policy, db, history.next, st)
                 /\ OneEach(b.stores, Len(b.stores), st)
<1>1. PICK s0 : s0 = StartOf(db, history.next)  OBVIOUS
<1>2. Grown(policy, db, history.next, s0) /\ s0.store = {}  BY <1>1, StartGrown
<1>3. PICK s1 : s1 = AppLoop(policy, s0, b.apps)  OBVIOUS
<1>4. Grown(policy, db, history.next, s1) /\ s1.store = {}
  BY <1>2, <1>3, AppsGrow DEF Restorable, AppEntry
<1>5. PICK s2 : s2 = ProjectLoop(policy, s1, b.projs)  OBVIOUS
<1>6. Grown(policy, db, history.next, s2) /\ s2.store = {}
  BY <1>4, <1>5, ProjectsGrow DEF Restorable
<1>7. PICK s3 : s3 = StoreLoop(policy, s2, b.stores)  OBVIOUS
<1>8. Grown(policy, db, history.next, s3) /\ OneEach(b.stores, Len(b.stores), s3)
  BY <1>6, <1>7, StoresGrow DEF Restorable
<1>9. R!Restored(policy, b) = R!RestoreBindings(R!RestoreProjectBindings(s3))
  BY <1>1, <1>3, <1>5, <1>7 DEF R!Restored, StartOf, AppLoop, ProjectLoop, StoreLoop
<1> QED BY <1>8, <1>9

\* The beginning of a slug.
LEMMA HeadIs ==
  ASSUME NEW s, IsSeq(s), s # <<>>
  PROVE  Head(s) = s[1]
<1>1. PICK S : S = R!Range(s)  OBVIOUS
<1>2. s \in Seq(S)  BY <1>1 DEF IsSeq
<1> QED BY <1>2

\* Bindings of projects are of projects the restore has made.
LEMMA ProjectBindingsGrow ==
  ASSUME NEW policy, NEW d, NEW n0, Tables(d, n0), NEW st, Grown(policy, d, n0, st)
  PROVE  \E pbinds :
           /\ R!RestoreProjectBindings(st) = [st EXCEPT !.db.pbinds = pbinds]
           /\ \A c \in pbinds : ProjectBindRow(c, st.next)
           /\ Keeps(policy) => d.pbinds \subseteq pbinds
<1>1. PICK fresh : fresh = 
        LET fits(b) == {q \in st.proj : q[1] = b.proj
                          /\ b.svcs \subseteq {s.slug : s \in R!Range(q[2].svcs)}}
            ids(p, slugs) == {s.id : s \in {t \in R!Range(p.svcs) : t.slug \in slugs}}
        IN  UNION {UNION {{[store |-> m.id, proj |-> q[2].id, key |-> b.key,
                            svcs |-> ids(q[2], b.svcs)] : q \in fits(b)} :
                            b \in m.entry.pbinds} : m \in st.store}
  OBVIOUS
<1>2. PICK replaced : replaced =
        {c \in st.db.pbinds : \E n \in fresh : n.store = c.store /\ n.proj = c.proj}
  OBVIOUS
<1>3. PICK pbinds : pbinds = (st.db.pbinds \ replaced) \cup fresh  OBVIOUS
<1>4. R!RestoreProjectBindings(st) = [st EXCEPT !.db.pbinds = pbinds]
  BY <1>1, <1>2, <1>3 DEF R!RestoreProjectBindings
<1>5. ASSUME NEW c \in fresh
      PROVE  /\ ProjectBindRow(c, st.next)
             /\ Keeps(policy) => c.proj >= n0
  <2>0. \E m \in st.store : \E b \in m.entry.pbinds : \E q \in st.proj : \E ids :
          c = [store |-> m.id, proj |-> q[2].id, key |-> b.key, svcs |-> ids]
    BY <1>1, <1>5
  <2>1. PICK q \in st.proj : \E m, b, ids :
          c = [store |-> m.id, proj |-> q[2].id, key |-> b.key, svcs |-> ids]
    BY <2>0
  <2>2. ProjectMade(policy, n0, q, st.next)  BY DEF Grown
  <2>3. c.proj = q[2].id /\ c = [store |-> c.store, proj |-> c.proj, svcs |-> c.svcs,
                                 key |-> c.key]
    BY <2>1
  <2> QED BY <2>2, <2>3 DEF ProjectMade, ProjectBindRow
<1>6. \A c \in st.db.pbinds : ProjectBindRow(c, st.next)  BY DEF Grown, Tables
<1>7. \A c \in pbinds : ProjectBindRow(c, st.next)  BY <1>3, <1>5, <1>6
<1>8. ASSUME Keeps(policy), NEW c \in d.pbinds PROVE c \in pbinds
  <2>1. c \in st.db.pbinds  BY DEF Grown
  <2>2. ProjectBindRow(c, n0) /\ n0 \in Nat  BY DEF Tables, Table
  <2>3. ASSUME NEW n \in fresh PROVE n.proj # c.proj
    <3>1. n.proj >= n0 /\ n.proj \in Nat  BY <1>5, <1>8 DEF ProjectBindRow
    <3> QED BY <2>2, <3>1 DEF ProjectBindRow
  <2>4. c \notin replaced  BY <1>2, <2>3
  <2> QED BY <1>3, <2>1, <2>4
<1> QED BY <1>4, <1>7, <1>8

AppsMade(policy, n0, st) == \A x \in st.app : AppMade(policy, n0, x, st.db)

BindingsMade(policy, d, st, r) ==
  /\ StateShape(r) /\ Tables(r.db, r.next) /\ r.next = st.next /\ r.ok = st.ok
  /\ r.restricted = st.restricted
  /\ r.db.projs = st.db.projs /\ r.db.stores = st.db.stores
  /\ r.db.pbinds = st.db.pbinds /\ r.bound = R!BindRows(st)
  /\ Keeps(policy) => Kept(d, r.db) /\ d.binds \subseteq r.db.binds
  /\ \A n \in R!Links(st) : \E a \in R!Range(r.db.apps) : \E l \in R!Links(st) :
       /\ a.id = n.app /\ l.app = n.app /\ l.key = n.key /\ n.key \in DOMAIN a.env
       /\ a.env[n.key] = R!UrlOf(l.store.kind, l.store.slug, l.store.pw)

\* Tables changed.
LEMMA TablesChanged ==
  ASSUME NEW d, NEW n, Tables(d, n), NEW t, NEW u
  PROVE  /\ [d EXCEPT !.projs = t] = [apps |-> d.apps, projs |-> t, stores |-> d.stores,
                                      binds |-> d.binds, pbinds |-> d.pbinds]
         /\ [d EXCEPT !.apps = t, !.binds = u] = [apps |-> t, projs |-> d.projs,
              stores |-> d.stores, binds |-> u, pbinds |-> d.pbinds]
         /\ [d EXCEPT !.binds = u, !.apps = t] = [apps |-> t, projs |-> d.projs,
              stores |-> d.stores, binds |-> u, pbinds |-> d.pbinds]
<1>1. d = [apps |-> d.apps, projs |-> d.projs, stores |-> d.stores,
           binds |-> d.binds, pbinds |-> d.pbinds]
  BY DEF Tables
<1>2. PICK g : g = [apps |-> t, projs |-> d.projs, stores |-> d.stores,
                    binds |-> d.binds, pbinds |-> d.pbinds]
  OBVIOUS
<1>3. [d EXCEPT !.apps = t] = g  BY <1>1, <1>2
<1>4. [g EXCEPT !.binds = u] = [apps |-> t, projs |-> d.projs,
              stores |-> d.stores, binds |-> u, pbinds |-> d.pbinds]
  BY <1>2
<1>5. [d EXCEPT !.apps = t, !.binds = u] = [[d EXCEPT !.apps = t] EXCEPT !.binds = u]
  OBVIOUS
<1>6. PICK h : h = [apps |-> d.apps, projs |-> d.projs, stores |-> d.stores,
                    binds |-> u, pbinds |-> d.pbinds]
  OBVIOUS
<1>7. [d EXCEPT !.binds = u] = h  BY <1>1, <1>6
<1>8. [h EXCEPT !.apps = t] = [apps |-> t, projs |-> d.projs,
              stores |-> d.stores, binds |-> u, pbinds |-> d.pbinds]
  BY <1>6
<1>9. [d EXCEPT !.binds = u, !.apps = t] = [[d EXCEPT !.binds = u] EXCEPT !.apps = t]
  OBVIOUS
<1>10. [d EXCEPT !.projs = t] = [apps |-> d.apps, projs |-> t, stores |-> d.stores,
                                 binds |-> d.binds, pbinds |-> d.pbinds]
  BY <1>1
<1> QED BY <1>3, <1>4, <1>5, <1>7, <1>8, <1>9, <1>10, Zenon

\* Bindings of applications, with their variables.
LEMMA BindingsGrow ==
  ASSUME NEW policy, NEW d, NEW n0, Tables(d, n0), NEW st, Tables(st.db, st.next),
         StateShape(st), AppsMade(policy, n0, st),
         d.binds \subseteq st.db.binds, Keeps(policy) => Kept(d, st.db),
         NEW r, r = R!RestoreBindings(st)
  PROVE  BindingsMade(policy, d, st, r)
<1> DEFINE mine(a) == {n \in R!Links(st) : n.app = a.id}
           keys(a) == {n.key : n \in mine(a)}
           linked(a, k) == CHOOSE x \in mine(a) : x.key = k
           url(a, k) == R!UrlOf(linked(a, k).store.kind, linked(a, k).store.slug,
                                linked(a, k).store.pw)
           env(a) == [k \in DOMAIN a.env \cup keys(a) |->
                        IF k \in keys(a) THEN url(a, k) ELSE a.env[k]]
<1>1. /\ Table("app", st.db.apps, st.next) /\ n0 \in Nat /\ st.next \in Nat
      /\ \A i \in DOMAIN st.db.apps : Row("app", st.db.apps[i], st.next)
  BY DEF Tables, Table
<1>2. PICK replaced : replaced = {c \in st.db.binds :
        \E x \in R!BindRows(st) : x.store = c.store /\ x.app = c.app}  OBVIOUS
<1>3. PICK binds : binds = (st.db.binds \ replaced) \cup R!BindRows(st)  OBVIOUS
<1>4. PICK apps : apps = [i \in DOMAIN st.db.apps |->
                            [st.db.apps[i] EXCEPT !.env = env(st.db.apps[i])]]  OBVIOUS
<1>5. r = [st EXCEPT !.db.binds = binds, !.bound = R!BindRows(st), !.db.apps = apps]
  BY <1>2, <1>3, <1>4 DEF R!RestoreBindings, StateShape, Tables
<1> HIDE DEF env, mine, keys, linked, url
<1>6. /\ StateShape(r) /\ r.next = st.next /\ r.ok = st.ok /\ r.restricted = st.restricted
      /\ r.bound = R!BindRows(st)
      /\ r.db = [apps |-> apps, projs |-> st.db.projs, stores |-> st.db.stores,
                 binds |-> binds, pbinds |-> st.db.pbinds]
  BY <1>5, ZenonT(60) DEF StateShape, Tables
<1>7. ASSUME NEW i \in DOMAIN st.db.apps
      PROVE  /\ Row("app", apps[i], st.next) /\ apps[i].id = st.db.apps[i].id
             /\ apps[i].env = env(st.db.apps[i])
  <2>1. Row("app", st.db.apps[i], st.next)  BY <1>1
  <2>2. PICK a : a = st.db.apps[i]  OBVIOUS
  <2>3. apps[i] = [a EXCEPT !.env = env(a)]  BY <1>4, <2>2
  <2>4. a = [id |-> a.id, slug |-> a.slug, hosts |-> a.hosts, env |-> a.env,
             primary |-> a.primary] /\ a.id \in Nat /\ a.id < st.next
    BY <2>1, <2>2 DEF Row, AppShape
  <2>5. /\ apps[i] = [id |-> a.id, slug |-> a.slug, hosts |-> a.hosts, env |-> env(a),
                      primary |-> a.primary]
    BY <2>3, <2>4
  <2>6. IsMap(env(a))  BY DEF IsMap, env
  <2> QED BY <2>2, <2>4, <2>5, <2>6 DEF Row, AppShape
<1>8. IsSeq(apps) /\ DOMAIN apps = DOMAIN st.db.apps
  <2>1. PICK n \in Nat : DOMAIN st.db.apps = 1..n  BY <1>1, SeqFacts DEF Table
  <2>2. apps = [i \in 1..n |-> apps[i]]  BY <1>4, <2>1
  <2> QED BY <2>1, <2>2, SeqOf
<1>9. Table("app", apps, st.next)
  <2>1. \A i, j \in DOMAIN apps : apps[i].id = apps[j].id => i = j
    BY <1>1, <1>7, <1>8 DEF Table
  <2> QED BY <1>1, <1>7, <1>8, <2>1 DEF Table
<1>10. ASSUME NEW n \in R!Links(st)
       PROVE  /\ \E x \in st.app : n.app = x[2]
              /\ n = [store |-> n.store, app |-> n.app, key |-> n.key]
  <2>1. \E m \in st.store : \E b \in m.entry.binds : \E q \in st.app :
          n = [store |-> m, app |-> q[2], key |-> b.key]
    BY DEF R!Links
  <2> QED BY <2>1
<1>11. ASSUME NEW n \in R!Links(st)
       PROVE  /\ \E i \in DOMAIN st.db.apps : st.db.apps[i].id = n.app
              /\ Keeps(policy) => n.app >= n0
  <2>1. PICK x \in st.app : n.app = x[2]  BY <1>10
  <2>2. AppMade(policy, n0, x, st.db)  BY DEF AppsMade
  <2> QED BY <2>1, <2>2 DEF AppMade
<1>12. ASSUME NEW c \in R!BindRows(st)
       PROVE  /\ BindRow(c, st.next)
              /\ Keeps(policy) => c.app >= n0
  <2>1. PICK n \in R!Links(st) : c = [store |-> n.store.id, app |-> n.app, key |-> n.key]
    BY DEF R!BindRows
  <2>2. PICK i \in DOMAIN st.db.apps : st.db.apps[i].id = n.app  BY <1>11
  <2>3. n.app \in Nat /\ n.app < st.next  BY <1>1, <2>2 DEF Row
  <2>4. c.app = n.app /\ c = [store |-> c.store, app |-> c.app, key |-> c.key]  BY <2>1
  <2> QED BY <1>11, <2>3, <2>4 DEF BindRow
<1>13. \A c \in binds : BindRow(c, st.next)  BY <1>3, <1>12 DEF Tables
<1>14. Tables(r.db, r.next)  BY <1>6, <1>9, <1>13 DEF Tables
<1>15. ASSUME Keeps(policy) PROVE Kept(d, r.db) /\ d.binds \subseteq r.db.binds
  <2>1. ASSUME NEW c \in d.binds PROVE c \in binds
    <3>1. BindRow(c, n0)  BY DEF Tables
    <3>2. ASSUME NEW x \in R!BindRows(st) PROVE x.app # c.app
      <4>1. x.app >= n0 /\ x.app \in Nat  BY <1>12, <1>15 DEF BindRow
      <4> QED BY <1>1, <3>1, <4>1 DEF BindRow
    <3>3. c \notin replaced  BY <1>2, <3>2
    <3> QED BY <1>3, <3>3
  <2>2. ASSUME NEW a \in R!Range(d.apps) PROVE a \in R!Range(apps)
    <3>1. Row("app", a, n0)  BY RowAt DEF Tables
    <3>2. a \in R!Range(st.db.apps)  BY <1>15 DEF Kept
    <3>3. PICK i \in DOMAIN st.db.apps : a = st.db.apps[i]  BY <1>1, <3>2, RowAt
    <3>4. ASSUME NEW n \in R!Links(st) PROVE n.app # a.id
      <4>1. n.app >= n0 /\ a.id < n0 /\ a.id \in Nat  BY <1>11, <1>15, <3>1 DEF Row
      <4>2. PICK j \in DOMAIN st.db.apps : st.db.apps[j].id = n.app  BY <1>11
      <4>3. n.app \in Nat  BY <1>1, <4>2 DEF Row
      <4> QED BY <1>1, <4>1, <4>3
    <3>5. keys(a) = {}  BY <3>4 DEF keys, mine
    <3>6. env(a) = a.env  BY <3>1, <3>5 DEF env, Row, AppShape, IsMap
    <3>7. a = [id |-> a.id, slug |-> a.slug, hosts |-> a.hosts, env |-> a.env,
               primary |-> a.primary]
      BY <3>1 DEF Row, AppShape
    <3>8. apps[i] = [a EXCEPT !.env = a.env]  BY <1>4, <3>3, <3>6
    <3>9. apps[i] = a  BY <3>7, <3>8
    <3> QED BY <1>8, <3>9 DEF R!Range
  <2> QED BY <1>6, <1>15, <2>1, <2>2 DEF Kept
<1>16. ASSUME NEW n \in R!Links(st)
       PROVE  \E a \in R!Range(apps) : \E l \in R!Links(st) :
                /\ a.id = n.app /\ l.app = n.app /\ l.key = n.key /\ n.key \in DOMAIN a.env
                /\ a.env[n.key] = R!UrlOf(l.store.kind, l.store.slug, l.store.pw)
  <2>1. PICK i \in DOMAIN st.db.apps : st.db.apps[i].id = n.app  BY <1>11
  <2>2. PICK a : a = st.db.apps[i]  OBVIOUS
  <2>3. n \in mine(a)  BY <2>1, <2>2 DEF mine
  <2>4. n.key \in keys(a)  BY <2>3 DEF keys
  <2>5. linked(a, n.key) \in mine(a) /\ linked(a, n.key).key = n.key  BY <2>3 DEF linked
  <2>6. PICK l : l = linked(a, n.key)  OBVIOUS
  <2>7. l \in R!Links(st) /\ l.app = n.app /\ l.key = n.key
    BY <2>1, <2>2, <2>5, <2>6 DEF mine
  <2>8. apps[i].id = n.app /\ apps[i].env = env(a)  BY <1>7, <2>1, <2>2
  <2>9. n.key \in DOMAIN env(a) /\ env(a)[n.key] = url(a, n.key)  BY <2>4 DEF env
  <2>10. url(a, n.key) = R!UrlOf(l.store.kind, l.store.slug, l.store.pw)  BY <2>6 DEF url
  <2>11. apps[i] \in R!Range(apps)  BY <1>8 DEF R!Range
  <2> QED BY <2>7, <2>8, <2>9, <2>10, <2>11
<1> QED BY <1>6, <1>14, <1>15, <1>16 DEF BindingsMade

\* The variables of the bindings a restore has made are where the datastores answer.
Answering(stores, d, x) ==
  LET r == R!ById(d.stores, x.store)
      a == R!ById(d.apps, x.app)
  IN  (\A e \in R!Range(stores) : Head(e.slug) = Head(r.slug) => e.kind = r.kind)
        => x.key \in DOMAIN a.env /\ a.env[x.key] = R!UrlOf(r.kind, r.slug, r.pw)

\* What a restore makes of the organization.
LEMMA RestoredFacts ==
  ASSUME NEW policy, NEW b, Tables(db, history.next), Restorable(b),
         NEW r, r = R!Restored(policy, b)
  PROVE  /\ StateShape(r) /\ Tables(r.db, r.next)
         /\ Keeps(policy) => /\ Kept(db, r.db)
                             /\ db.binds \subseteq r.db.binds
                             /\ db.pbinds \subseteq r.db.pbinds
         /\ \A x \in r.bound : Answering(b.stores, r.db, x)
<1>1. PICK d, n0 : d = db /\ n0 = history.next  OBVIOUS
<1>2. Tables(d, n0)  BY <1>1
<1>3. PICK st : /\ r = R!RestoreBindings(R!RestoreProjectBindings(st))
                /\ Grown(policy, d, n0, st) /\ OneEach(b.stores, Len(b.stores), st)
  BY <1>1, RestoredLoops
<1>4. PICK pbinds :
           /\ R!RestoreProjectBindings(st) = [st EXCEPT !.db.pbinds = pbinds]
           /\ \A c \in pbinds : ProjectBindRow(c, st.next)
           /\ Keeps(policy) => d.pbinds \subseteq pbinds
  BY <1>2, <1>3, ProjectBindingsGrow
<1>5. PICK s : s = [st EXCEPT !.db.pbinds = pbinds]  OBVIOUS
<1>6. StateShape(st) /\ Tables(st.db, st.next)  BY <1>3 DEF Grown
<1>7. /\ StateShape(s) /\ s.next = st.next /\ s.app = st.app /\ s.store = st.store
      /\ s.db = [apps |-> st.db.apps, projs |-> st.db.projs, stores |-> st.db.stores,
                 binds |-> st.db.binds, pbinds |-> pbinds]
  BY <1>5, <1>6 DEF StateShape, Tables
<1>8. Tables(s.db, s.next)  BY <1>4, <1>6, <1>7 DEF Tables
<1>9. \A x \in s.app : AppMade(policy, n0, x, s.db)  BY <1>3, <1>7 DEF Grown, AppMade
<1>10. d.binds \subseteq s.db.binds /\ (Keeps(policy) => Kept(d, s.db))
  BY <1>3, <1>7 DEF Grown, Kept
<1>11. r = R!RestoreBindings(s)  BY <1>3, <1>4, <1>5
<1>12. /\ StateShape(r) /\ Tables(r.db, r.next)
       /\ r.db.stores = s.db.stores /\ r.db.pbinds = s.db.pbinds /\ r.bound = R!BindRows(s)
       /\ Keeps(policy) => Kept(d, r.db) /\ d.binds \subseteq r.db.binds
       /\ \A n \in R!Links(s) : \E a \in R!Range(r.db.apps) : \E l \in R!Links(s) :
            /\ a.id = n.app /\ l.app = n.app /\ l.key = n.key /\ n.key \in DOMAIN a.env
            /\ a.env[n.key] = R!UrlOf(l.store.kind, l.store.slug, l.store.pw)
  <2>1. StateShape(s) /\ d.binds \subseteq s.db.binds /\ (Keeps(policy) => Kept(d, s.db))
    BY <1>7, <1>10
  <2>2. AppsMade(policy, n0, s)  BY <1>9 DEF AppsMade
  <2>3. BindingsMade(policy, d, s, r)  BY <1>2, <1>8, <1>11, <2>1, <2>2, BindingsGrow
  <2> QED BY <2>3 DEF BindingsMade
<1>13. Keeps(policy) => d.pbinds \subseteq r.db.pbinds  BY <1>4, <1>7, <1>12
<1>14. Table("store", r.db.stores, r.next) /\ Table("app", r.db.apps, r.next)
  BY <1>12 DEF Tables
<1>15. ASSUME NEW m \in s.store
       PROVE  /\ m.entry \in R!Range(b.stores) /\ StoreEntry(m.entry)
              /\ m.kind = m.entry.kind
              /\ \E t \in R!Range(r.db.stores) :
                   t.id = m.id /\ t.slug = m.slug /\ t.pw = m.pw /\ R!ById(r.db.stores, m.id) = t
                   /\ Head(t.slug) = Head(m.entry.slug)
  <2>1. PICK j \in 1..Len(b.stores) : m.entry = b.stores[j]  BY <1>3, <1>7 DEF OneEach
  <2>2. j \in DOMAIN b.stores  BY SeqFacts DEF Restorable
  <2>3. m.entry \in R!Range(b.stores) /\ StoreEntry(m.entry)
    BY <2>1, <2>2 DEF Restorable, R!Range
  <2>4. StoreMade(m, st.db)  BY <1>3, <1>7 DEF Grown
  <2>5. PICK i \in DOMAIN r.db.stores :
          LET t == r.db.stores[i] IN t.id = m.id /\ t.slug = m.slug /\ t.pw = m.pw
    BY <1>7, <1>12, <2>4 DEF StoreMade
  <2>6. PICK t : t = r.db.stores[i]  OBVIOUS
  <2>7. t.id = m.id /\ t.slug = m.slug /\ t.pw = m.pw  BY <2>5, <2>6
  <2>8. t \in R!Range(r.db.stores) /\ R!ById(r.db.stores, t.id) = t
    BY <1>14, <2>6, RowAt
  <2>9. IsSeq(t.slug) /\ t.slug # <<>>
    <3>1. Row("store", t, r.next)  BY <1>14, <2>8, RowAt
    <3> QED BY <3>1 DEF Row, StoreShape
  <2>10. Head(t.slug) = t.slug[1]  BY <2>9, HeadIs
  <2>11. Head(m.entry.slug) = m.entry.slug[1]  BY <2>3, HeadIs DEF StoreEntry
  <2>12. m.kind = m.entry.kind /\ m.slug[1] = m.entry.slug[1]  BY <2>4 DEF StoreMade
  <2> QED BY <2>3, <2>7, <2>8, <2>10, <2>11, <2>12
<1>16. ASSUME NEW n \in R!Links(s)
       PROVE  n.store \in s.store /\ n.key = n.store.entry.slug[1]
  <2>1. PICK m \in s.store : \E e \in m.entry.binds, q \in s.app :
          n = [store |-> m, app |-> q[2], key |-> e.key]
    BY DEF R!Links
  <2>2. PICK e \in m.entry.binds, q \in s.app : n = [store |-> m, app |-> q[2], key |-> e.key]
    BY <2>1
  <2>3. n.store = m /\ n.key = e.key  BY <2>2
  <2>4. StoreEntry(m.entry)  BY <1>15
  <2>5. e.key = m.entry.slug[1]  BY <2>4 DEF StoreEntry
  <2> QED BY <2>3, <2>5
<1>17. ASSUME NEW n \in R!Links(s), NEW l \in R!Links(s), n.key = l.key
       PROVE  n.store = l.store
  <2>1. n.store \in s.store /\ l.store \in s.store
        /\ n.store.entry.slug[1] = l.store.entry.slug[1]
    BY <1>16, <1>17
  <2>2. PICK i \in 1..Len(b.stores) : n.store.entry = b.stores[i]
    BY <1>3, <1>7, <2>1 DEF OneEach
  <2>3. PICK j \in 1..Len(b.stores) : l.store.entry = b.stores[j]
    BY <1>3, <1>7, <2>1 DEF OneEach
  <2>4. i \in DOMAIN b.stores /\ j \in DOMAIN b.stores  BY SeqFacts DEF Restorable
  <2>5. i = j  BY <2>1, <2>2, <2>3, <2>4 DEF Restorable
  <2>6. n.store.entry = l.store.entry  BY <2>2, <2>3, <2>5
  <2> QED BY <1>3, <1>7, <2>1, <2>6 DEF OneEach
<1>18. ASSUME NEW x \in r.bound PROVE Answering(b.stores, r.db, x)
  <2>1. PICK n \in R!Links(s) : x = [store |-> n.store.id, app |-> n.app, key |-> n.key]
    BY <1>12 DEF R!BindRows
  <2>2. PICK m : m = n.store  OBVIOUS
  <2>3. x.store = m.id /\ x.app = n.app /\ x.key = n.key  BY <2>1, <2>2
  <2>4. m \in s.store  BY <1>16, <2>2
  <2>5. PICK t \in R!Range(r.db.stores) :
          t.slug = m.slug /\ t.pw = m.pw /\ R!ById(r.db.stores, m.id) = t
          /\ Head(t.slug) = Head(m.entry.slug)
    BY <1>15, <2>4
  <2>6. PICK a \in R!Range(r.db.apps), l \in R!Links(s) :
          /\ a.id = n.app /\ l.app = n.app /\ l.key = n.key /\ n.key \in DOMAIN a.env
          /\ a.env[n.key] = R!UrlOf(l.store.kind, l.store.slug, l.store.pw)
    BY <1>12
  <2>7. l.store = m  BY <1>17, <2>2, <2>6
  <2>8. R!ById(r.db.apps, x.app) = a  BY <1>14, <2>3, <2>6, RowAt
  <2>9. R!ById(r.db.stores, x.store) = t  BY <2>3, <2>5
  <2>10. m.kind = m.entry.kind /\ m.entry \in R!Range(b.stores)  BY <1>15, <2>4
  <2>11. ASSUME \A e \in R!Range(b.stores) : Head(e.slug) = Head(t.slug) => e.kind = t.kind
         PROVE  a.env[n.key] = R!UrlOf(t.kind, t.slug, t.pw)
    <3>1. m.kind = t.kind  BY <2>5, <2>10, <2>11
    <3> QED BY <2>5, <2>6, <2>7, <3>1
  <2> QED BY <2>3, <2>6, <2>8, <2>9, <2>11 DEF Answering
<1> QED BY <1>1, <1>12, <1>13, <1>18

-----------------------------------------------------------------------------
(***************************************************************************)
(* Requests between restores.                                              *)
(***************************************************************************)
\* Before a restore every datastore is named and its bindings are named after it.
Named(d) ==
  /\ \A i \in DOMAIN d.stores : d.stores[i].slug = <<d.stores[i].slug[1]>>
  /\ \A i, j \in DOMAIN d.stores : d.stores[i].slug = d.stores[j].slug => i = j
  /\ \A b \in d.binds : \E j \in DOMAIN d.stores :
       d.stores[j].id = b.store /\ d.stores[j].slug[1] = b.key

\* Tables put together.
LEMMA TablesOf ==
  ASSUME NEW n, NEW apps, NEW projs, NEW stores, NEW binds, NEW pbinds,
         Table("app", apps, n), Table("project", projs, n), Table("store", stores, n),
         \A b \in binds : BindRow(b, n), \A b \in pbinds : ProjectBindRow(b, n),
         NEW e, e = [apps |-> apps, projs |-> projs, stores |-> stores,
                     binds |-> binds, pbinds |-> pbinds]
  PROVE  Tables(e, n)
BY DEF Tables

\* An application created.
LEMMA CreateAppTables ==
  ASSUME NEW d, NEW n, Tables(d, n), NEW slug, NEW hosts, NEW primary, NEW x,
         x = [id |-> n, slug |-> slug, hosts |-> hosts,
              env |-> [k \in {Own} |-> R!UserValue], primary |-> primary],
         NEW e, e = [d EXCEPT !.apps = Append(@, x)]
  PROVE  Tables(e, n + 3) /\ (Named(d) => Named(e))
<1>1. n \in Nat /\ n + 3 \in Nat /\ n <= n + 3 /\ n < n + 3  BY DEF Tables, Table
<1>2. /\ Table("app", d.apps, n) /\ Table("project", d.projs, n + 3)
      /\ Table("store", d.stores, n + 3)
      /\ \A b \in d.binds : BindRow(b, n + 3)
      /\ \A b \in d.pbinds : ProjectBindRow(b, n + 3)
  BY <1>1, TablesLater DEF Tables
<1>3. Row("app", x, n + 3)  BY <1>1 DEF Row, AppShape, IsMap
<1>4. x.id = n  OBVIOUS
<1>5. PICK t : t = Append(d.apps, x)  OBVIOUS
<1>6. Table("app", t, n + 3)  BY <1>1, <1>2, <1>3, <1>4, <1>5, RowAdded
<1>7. PICK f : f = [apps |-> t, projs |-> d.projs, stores |-> d.stores,
                          binds |-> d.binds, pbinds |-> d.pbinds]
                 /\ f = e
  BY <1>5 DEF Tables
<1>8. Tables(f, n + 3)
  BY <1>2, <1>6, <1>7, TablesOf DEF Tables
<1> QED BY <1>7, <1>8 DEF Named

AppDeleted(d, i) == [d EXCEPT !.apps = R!RemoveAt(@, i),
                              !.binds = {b \in @ : b.app # d.apps[i].id}]

\* An application deleted, and its bindings.
LEMMA DeleteAppTables ==
  ASSUME NEW d, NEW n, Tables(d, n), NEW i \in DOMAIN d.apps,
         NEW e, e = AppDeleted(d, i)
  PROVE  Tables(e, n + 3) /\ (Named(d) => Named(e))
<1>1. n \in Nat /\ n + 3 \in Nat /\ n <= n + 3  BY DEF Tables, Table
<1>2. PICK t : t = R!RemoveAt(d.apps, i)  OBVIOUS
<1>3. Table("app", t, n)  BY <1>2, RowRemoved DEF Tables
<1>7. PICK u : u = {b \in d.binds : b.app # d.apps[i].id}  OBVIOUS
<1>4. PICK f : f = [apps |-> t, projs |-> d.projs, stores |-> d.stores,
                    binds |-> u, pbinds |-> d.pbinds]
               /\ f = e
  <2>1. e = [d EXCEPT !.apps = t, !.binds = u]  BY <1>2, <1>7 DEF AppDeleted
  <2>2. [d EXCEPT !.apps = t, !.binds = u] =
          [apps |-> t, projs |-> d.projs, stores |-> d.stores, binds |-> u,
           pbinds |-> d.pbinds]
    BY TablesChanged, ZenonT(60)
  <2> QED BY <2>1, <2>2, Zenon
<1>8. u \subseteq d.binds  BY <1>7
<1>5. Tables(f, n)
  BY <1>3, <1>4, <1>8, TablesOf DEF Tables
<1>6. Tables(f, n + 3)  BY <1>1, <1>4, <1>5, TablesLater DEF Tables
<1> QED BY <1>4, <1>6, <1>8 DEF Named

\* A project created, with its services.
LEMMA CreateProjectTables ==
  ASSUME NEW d, NEW n, Tables(d, n), NEW slug, NEW hosts, NEW s, NEW t, NEW x,
         x = [id |-> n, slug |-> slug, svcs |->
               <<[id |-> n + 1, slug |-> s, hosts |-> hosts, deps |-> {}],
                 [id |-> n + 2, slug |-> t, hosts |-> <<>>, deps |-> {n + 1}]>>],
         NEW e, e = [d EXCEPT !.projs = Append(@, x)]
  PROVE  Tables(e, n + 3) /\ (Named(d) => Named(e))
<1>1. n \in Nat /\ n + 3 \in Nat /\ n <= n + 3 /\ n < n + 3  BY DEF Tables, Table
<1>2. /\ Table("project", d.projs, n) /\ Table("app", d.apps, n + 3)
      /\ Table("store", d.stores, n + 3)
      /\ \A b \in d.binds : BindRow(b, n + 3)
      /\ \A b \in d.pbinds : ProjectBindRow(b, n + 3)
  BY <1>1, TablesLater DEF Tables
<1>3. PICK q : q = x.svcs  OBVIOUS
<1>4. /\ q = <<q[1], q[2]>> /\ q[1] = [id |-> n + 1, slug |-> s, hosts |-> hosts, deps |-> {}]
      /\ q[2] = [id |-> n + 2, slug |-> t, hosts |-> <<>>, deps |-> {n + 1}]
  BY <1>3
<1>5. IsSeq(q) /\ DOMAIN q = {1, 2}
  <2>1. <<q[1], q[2]>> \in Seq({q[1], q[2]}) /\ Len(<<q[1], q[2]>>) = 2  OBVIOUS
  <2>2. q \in Seq({q[1], q[2]}) /\ Len(q) = 2  BY <1>4, <2>1
  <2>3. IsSeq(q) /\ DOMAIN q = 1..2  BY <2>2, SeqIs
  <2> QED BY <2>3
<1>6. \A j \in DOMAIN q : q[j] = [id |-> q[j].id, slug |-> q[j].slug,
                                  hosts |-> q[j].hosts, deps |-> q[j].deps]
  BY <1>4, <1>5
<1>7. x = [id |-> x.id, slug |-> x.slug, svcs |-> x.svcs] /\ x.id = n  OBVIOUS
<1>8. Row("project", x, n + 3)  BY <1>1, <1>3, <1>5, <1>6, <1>7 DEF Row, ProjectShape
<1>9. PICK r : r = Append(d.projs, x)  OBVIOUS
<1>10. Table("project", r, n + 3)  BY <1>1, <1>2, <1>7, <1>8, <1>9, RowAdded
<1>11. PICK f : f = [apps |-> d.apps, projs |-> r, stores |-> d.stores,
                     binds |-> d.binds, pbinds |-> d.pbinds]
                /\ f = e
  <2>1. e = [d EXCEPT !.projs = r]  BY <1>9
  <2> QED BY <2>1, TablesChanged
<1>12. Tables(f, n + 3)
  BY <1>2, <1>10, <1>11, TablesOf DEF Tables
<1> QED BY <1>11, <1>12 DEF Named

\* A service deleted.
LEMMA DeleteServiceTables ==
  ASSUME NEW d, NEW n, Tables(d, n), NEW p \in R!Range(d.projs), NEW j \in DOMAIN p.svcs,
         NEW x, x = [p EXCEPT !.svcs = R!RemoveAt(@, j)],
         NEW e, e = [d EXCEPT !.projs = R!Replace(@, x)]
  PROVE  Tables(e, n + 3) /\ (Named(d) => Named(e))
<1>1. n \in Nat /\ n + 3 \in Nat /\ n <= n + 3  BY DEF Tables, Table
<1>2. Row("project", p, n)  BY RowAt DEF Tables
<1>3. p = [id |-> p.id, slug |-> p.slug, svcs |-> p.svcs] /\ IsSeq(p.svcs)
  BY <1>2 DEF Row, ProjectShape
<1>4. PICK q : q = R!RemoveAt(p.svcs, j)  OBVIOUS
<1>5. x = [id |-> p.id, slug |-> p.slug, svcs |-> q]  BY <1>3, <1>4
<1>6. PICK l \in Nat : l = Len(p.svcs) /\ DOMAIN p.svcs = 1..l  BY <1>3, SeqFacts
<1>7. IsSeq(q) /\ Len(q) = l - 1
      /\ \A i \in 1..(l - 1) : q[i] = p.svcs[IF i < j THEN i ELSE i + 1]
  BY <1>3, <1>4, <1>6, RemoveFacts
<1>8. DOMAIN q = 1..(l - 1)  BY <1>7, SeqFacts
<1>9. ASSUME NEW i \in DOMAIN q
      PROVE  q[i] = [id |-> q[i].id, slug |-> q[i].slug, hosts |-> q[i].hosts,
                     deps |-> q[i].deps]
  <2>1. PICK k : k = (IF i < j THEN i ELSE i + 1)  OBVIOUS
  <2>2. k \in 1..l /\ q[i] = p.svcs[k]  BY <1>6, <1>7, <1>8, <2>1
  <2> QED BY <1>2, <1>6, <2>2 DEF Row, ProjectShape
<1>10. Row("project", x, n)  BY <1>2, <1>5, <1>7, <1>9 DEF Row, ProjectShape
<1>11. PICK t : t = R!Replace(d.projs, x)  OBVIOUS
<1>12. Table("project", t, n)  BY <1>1, <1>10, <1>11, RowReplaced DEF Tables
<1>13. PICK f : f = [apps |-> d.apps, projs |-> t, stores |-> d.stores,
                           binds |-> d.binds, pbinds |-> d.pbinds]
                 /\ f = e
  BY <1>11 DEF Tables
<1>14. Tables(f, n)
  BY <1>12, <1>13, TablesOf DEF Tables
<1>15. Tables(f, n + 3)  BY <1>1, <1>13, <1>14, TablesLater DEF Tables
<1> QED BY <1>13, <1>15 DEF Named

\* A datastore created.
LEMMA CreateStoreTables ==
  ASSUME NEW d, NEW n, Tables(d, n), NEW name, R!Slug(name) \notin R!Slugs(d.stores),
         NEW engine, NEW port, NEW x,
         x = [id |-> n, slug |-> R!Slug(name), kind |-> engine, port |-> port, pw |-> n],
         NEW e, e = [d EXCEPT !.stores = Append(@, x)]
  PROVE  Tables(e, n + 3) /\ (Named(d) => Named(e))
<1>1. n \in Nat /\ n + 3 \in Nat /\ n <= n + 3 /\ n < n + 3  BY DEF Tables, Table
<1>2. /\ Table("store", d.stores, n) /\ Table("app", d.apps, n + 3)
      /\ Table("project", d.projs, n + 3)
      /\ \A b \in d.binds : BindRow(b, n + 3)
      /\ \A b \in d.pbinds : ProjectBindRow(b, n + 3)
  BY <1>1, TablesLater DEF Tables
<1>3. x.id = n /\ x.slug = <<name>>  BY DEF R!Slug
<1>4. IsSeq(x.slug) /\ x.slug # <<>> /\ x.slug[1] = name
  <2>1. <<name>> \in Seq({name}) /\ Len(<<name>>) = 1 /\ <<name>>[1] = name  OBVIOUS
  <2>2. IsSeq(<<name>>)  BY <2>1, SeqIs
  <2>3. <<name>> # <<>>  BY <2>1, EmptyFacts
  <2> QED BY <1>3, <2>1, <2>2, <2>3
<1>5. x = [id |-> x.id, slug |-> x.slug, kind |-> x.kind, port |-> x.port, pw |-> x.pw]
  OBVIOUS
<1>6. Row("store", x, n + 3)  BY <1>1, <1>3, <1>4, <1>5 DEF Row, StoreShape
<1>7. PICK t : t = Append(d.stores, x)  OBVIOUS
<1>8. Table("store", t, n + 3)  BY <1>1, <1>2, <1>3, <1>6, <1>7, RowAdded
<1>9. PICK f : f = [apps |-> d.apps, projs |-> d.projs, stores |-> t,
                          binds |-> d.binds, pbinds |-> d.pbinds]
                 /\ f = e
  BY <1>7 DEF Tables
<1>10. Tables(f, n + 3)
  BY <1>2, <1>8, <1>9, TablesOf DEF Tables
<1>11. ASSUME Named(d) PROVE Named(f)
  <2>1. /\ DOMAIN d.stores \subseteq DOMAIN t
        /\ \A i \in DOMAIN d.stores : t[i] = d.stores[i]
        /\ \A y \in R!Range(t) : y \in R!Range(d.stores) \/ y = x
    BY <1>2, <1>7, AddedRange
  <2>2. ASSUME NEW i \in DOMAIN t PROVE t[i] = x \/ \E k \in DOMAIN d.stores : t[i] = d.stores[k]
    <3>1. t[i] \in R!Range(t)  BY DEF R!Range
    <3> QED BY <1>2, <2>1, <3>1, RowAt
  <2>3. \A k \in DOMAIN d.stores : d.stores[k].slug # x.slug
    BY <1>3 DEF R!Slugs, R!Slug, R!Range
  <2>4. \A i \in DOMAIN t : t[i].slug = <<t[i].slug[1]>>
    BY <1>3, <1>4, <1>11, <2>2 DEF Named
  <2>5. ASSUME NEW i \in DOMAIN t, NEW j \in DOMAIN t, t[i].slug = t[j].slug PROVE i = j
    <3>1. CASE t[i] = x /\ t[j] = x  BY <1>8, <3>1 DEF Table
    <3>2. CASE t[i] = x /\ \E k \in DOMAIN d.stores : t[j] = d.stores[k]
      BY <2>3, <2>5, <3>2
    <3>3. CASE t[j] = x /\ \E k \in DOMAIN d.stores : t[i] = d.stores[k]
      BY <2>3, <2>5, <3>3
    <3>4. CASE /\ \E k \in DOMAIN d.stores : t[i] = d.stores[k]
               /\ \E k \in DOMAIN d.stores : t[j] = d.stores[k]
      <4>1. PICK k, l \in DOMAIN d.stores : t[i] = d.stores[k] /\ t[j] = d.stores[l]
        BY <3>4
      <4>2. k = l  BY <1>11, <2>5, <4>1 DEF Named
      <4>3. t[i].id = t[j].id  BY <4>1, <4>2
      <4> QED BY <1>8, <4>3 DEF Table
    <3> QED BY <2>2, <3>1, <3>2, <3>3, <3>4
  <2>6. \A b \in d.binds : \E j \in DOMAIN t : t[j].id = b.store /\ t[j].slug[1] = b.key
    BY <1>11, <2>1 DEF Named
  <2> QED BY <1>9, <2>4, <2>5, <2>6 DEF Named
<1> QED BY <1>9, <1>10, <1>11

\* A datastore without bindings deleted.
LEMMA DeleteStoreTables ==
  ASSUME NEW d, NEW n, Tables(d, n), NEW i \in DOMAIN d.stores,
         \A b \in d.binds \cup d.pbinds : b.store # d.stores[i].id,
         NEW e, e = [d EXCEPT !.stores = R!RemoveAt(@, i)]
  PROVE  Tables(e, n + 3) /\ (Named(d) => Named(e))
<1>1. n \in Nat /\ n + 3 \in Nat /\ n <= n + 3  BY DEF Tables, Table
<1>2. PICK t : t = R!RemoveAt(d.stores, i)  OBVIOUS
<1>3. /\ Table("store", t, n)
      /\ \A k \in DOMAIN t : \E j \in DOMAIN d.stores : j # i /\ t[k] = d.stores[j]
      /\ \A j \in DOMAIN d.stores : j # i => \E k \in DOMAIN t : t[k] = d.stores[j]
  BY <1>2, RowRemoved DEF Tables
<1>4. PICK f : f = [apps |-> d.apps, projs |-> d.projs, stores |-> t,
                          binds |-> d.binds, pbinds |-> d.pbinds]
                 /\ f = e
  BY <1>2 DEF Tables
<1>5. Tables(f, n)
  BY <1>3, <1>4, TablesOf DEF Tables
<1>6. Tables(f, n + 3)  BY <1>1, <1>4, <1>5, TablesLater DEF Tables
<1>7. ASSUME Named(d) PROVE Named(f)
  <2>1. \A k \in DOMAIN t : t[k].slug = <<t[k].slug[1]>>  BY <1>3, <1>7 DEF Named
  <2>2. ASSUME NEW k \in DOMAIN t, NEW l \in DOMAIN t, t[k].slug = t[l].slug PROVE k = l
    <3>1. PICK x, y \in DOMAIN d.stores : t[k] = d.stores[x] /\ t[l] = d.stores[y]  BY <1>3
    <3>2. x = y  BY <1>7, <2>2, <3>1 DEF Named
    <3>3. t[k].id = t[l].id  BY <3>1, <3>2
    <3> QED BY <1>3, <3>3 DEF Table
  <2>3. ASSUME NEW b \in d.binds
        PROVE  \E j \in DOMAIN t : t[j].id = b.store /\ t[j].slug[1] = b.key
    <3>1. PICK j \in DOMAIN d.stores : d.stores[j].id = b.store /\ d.stores[j].slug[1] = b.key
      BY <1>7 DEF Named
    <3>2. j # i  BY <3>1
    <3> QED BY <1>3, <3>1, <3>2
  <2> QED BY <1>4, <2>1, <2>2, <2>3 DEF Named
<1> QED BY <1>4, <1>6, <1>7

AppBound(d, b, x) == [d EXCEPT !.binds = @ \cup {b}, !.apps = R!Replace(@, x)]

\* An application bound to a datastore.
LEMMA BindTables ==
  ASSUME NEW d, NEW n, Tables(d, n), NEW a \in R!Range(d.apps), NEW r \in R!Range(d.stores),
         NEW key, key = R!Key(Head(r.slug)), NEW env, IsMap(env),
         NEW x, x = [a EXCEPT !.env = env],
         NEW b, b = [store |-> r.id, app |-> a.id, key |-> key],
         NEW e, e = AppBound(d, b, x)
  PROVE  Tables(e, n + 3) /\ (Named(d) => Named(e))
<1>1. n \in Nat /\ n + 3 \in Nat /\ n <= n + 3  BY DEF Tables, Table
<1>2. Row("app", a, n)  BY RowAt DEF Tables
<1>3. a = [id |-> a.id, slug |-> a.slug, hosts |-> a.hosts, env |-> a.env,
           primary |-> a.primary] /\ a.id \in Nat /\ a.id < n
  BY <1>2 DEF Row, AppShape
<1>4. x = [id |-> a.id, slug |-> a.slug, hosts |-> a.hosts, env |-> env,
           primary |-> a.primary]
  BY <1>3
<1>5. Row("app", x, n)  BY <1>3, <1>4 DEF Row, AppShape
<1>6. PICK t : t = R!Replace(d.apps, x)  OBVIOUS
<1>7. Table("app", t, n)  BY <1>1, <1>5, <1>6, RowReplaced DEF Tables
<1>9. BindRow(b, n)  BY <1>3 DEF BindRow
<1>10. PICK f : f = [apps |-> t, projs |-> d.projs, stores |-> d.stores,
                     binds |-> d.binds \cup {b}, pbinds |-> d.pbinds]
                /\ f = e
  <2>1. PICK u : u = d.binds \cup {b}  OBVIOUS
  <2>2. e = [d EXCEPT !.binds = u, !.apps = t]  BY <1>6, <2>1 DEF AppBound
  <2>3. [d EXCEPT !.binds = u, !.apps = t] =
          [apps |-> t, projs |-> d.projs, stores |-> d.stores, binds |-> u,
           pbinds |-> d.pbinds]
    BY TablesChanged, ZenonT(60)
  <2> QED BY <2>1, <2>2, <2>3, Zenon
<1>11. Tables(f, n)
  BY <1>7, <1>9, <1>10, TablesOf DEF Tables
<1>12. Tables(f, n + 3)  BY <1>1, <1>10, <1>11, TablesLater DEF Tables
<1>13. PICK j \in DOMAIN d.stores : r = d.stores[j]  BY RowAt DEF Tables
<1>14. Row("store", r, n)  BY RowAt DEF Tables
<1>15. key = r.slug[1]  BY <1>14, HeadIs DEF Row, StoreShape, R!Key
<1>16. b.store = r.id /\ b.key = key  OBVIOUS
<1>17. ASSUME Named(d) PROVE Named(f)
  <2>1. \A c \in d.binds \cup {b} : \E k \in DOMAIN d.stores :
          d.stores[k].id = c.store /\ d.stores[k].slug[1] = c.key
    BY <1>13, <1>15, <1>16, <1>17 DEF Named
  <2>2. f.stores = d.stores /\ f.binds = d.binds \cup {b}  BY <1>10
  <2> QED BY <1>17, <2>1, <2>2 DEF Named
<1> QED BY <1>10, <1>12, <1>17

\* A project bound to a datastore.
LEMMA BindProjectTables ==
  ASSUME NEW d, NEW n, Tables(d, n), NEW p \in R!Range(d.projs), NEW store, NEW ids, NEW key,
         NEW e, e = [d EXCEPT !.pbinds = @ \cup
                       {[store |-> store, proj |-> p.id, svcs |-> ids, key |-> key]}]
  PROVE  Tables(e, n + 3) /\ (Named(d) => Named(e))
<1>1. n \in Nat /\ n + 3 \in Nat /\ n <= n + 3  BY DEF Tables, Table
<1>2. Row("project", p, n)  BY RowAt DEF Tables
<1>3. PICK b : b = [store |-> store, proj |-> p.id, svcs |-> ids, key |-> key]  OBVIOUS
<1>4. ProjectBindRow(b, n)  BY <1>2, <1>3 DEF ProjectBindRow, Row
<1>5. PICK f : f = [apps |-> d.apps, projs |-> d.projs, stores |-> d.stores,
                          binds |-> d.binds, pbinds |-> d.pbinds \cup {b}]
                 /\ f = e
  BY <1>3 DEF Tables
<1>6. Tables(f, n)
  BY <1>4, <1>5, TablesOf DEF Tables
<1>7. Tables(f, n + 3)  BY <1>1, <1>5, <1>6, TablesLater DEF Tables
<1> QED BY <1>5, <1>7 DEF Named

-----------------------------------------------------------------------------
(***************************************************************************)
(* What holds of the organization, the bundle and the last restore.        *)
(***************************************************************************)
BundleShape(b) ==
  /\ b = [pc |-> b.pc, apps |-> b.apps, projs |-> b.projs, stores |-> b.stores,
          secrets |-> b.secrets, torn |-> b.torn, config |-> b.config]
  /\ b.pc \in {"none", "apps", "stores", "full"}

HistoryShape(h) ==
  h = [next |-> h.next, edits |-> h.edits, restores |-> h.restores, last |-> h.last]

\* No restore has been done since.
Quiet(last) == last.policy = None /\ last.bound = {}

OnlyAdds(d, last) ==
  last.policy \in {"skip", "rename"} =>
    /\ Kept(last.of, d)
    /\ last.of.binds \subseteq d.binds /\ last.of.pbinds \subseteq d.pbinds

RestoreState(d, b, h) ==
  /\ HistoryShape(h) /\ Tables(d, h.next)
  /\ BundleShape(b) /\ Restorable(b)
  /\ b.pc # "full" => Named(d) /\ Quiet(h.last)
  /\ OnlyAdds(d, h.last)
  /\ \A x \in h.last.bound : Answering(b.stores, d, x)

\* Without a restore nothing is said.
LEMMA QuietFacts ==
  /\ Quiet(R!NoRestore) /\ \A v : Quiet([R!NoRestore EXCEPT !.failed = v])
  /\ \A last : Quiet(last) =>
       /\ \A d : OnlyAdds(d, last)
       /\ \A d, stores : \A x \in last.bound : Answering(stores, d, x)
<1>1. Quiet(R!NoRestore) /\ \A v : Quiet([R!NoRestore EXCEPT !.failed = v])
  BY DEF Quiet, R!NoRestore
<1>2. ASSUME NEW last, Quiet(last)
      PROVE  /\ \A d : OnlyAdds(d, last)
             /\ \A d, stores : \A x \in last.bound : Answering(stores, d, x)
  BY <1>2, PolicyAssumption DEF Quiet, OnlyAdds
<1> QED BY <1>1, <1>2

Torn(b) == [b EXCEPT !.torn = @ \/ b.pc \in {"apps", "stores"}]
Edited(h) == [h EXCEPT !.edits = @ + 1, !.next = @ + 3, !.last = R!NoRestore]

\* A request of another administrator.
LEMMA EditStep ==
  ASSUME NEW d, NEW b, NEW h, RestoreState(d, b, h),
         NEW e, Tables(e, h.next + 3), Named(d) => Named(e),
         NEW k, k = Edited(h), NEW c, c = Torn(b)
  PROVE  RestoreState(e, c, k)
<1>1. HistoryShape(k) /\ k.next = h.next + 3 /\ k.last = R!NoRestore
  BY DEF RestoreState, HistoryShape, Edited
<1>2. BundleShape(c) /\ c.pc = b.pc /\ c.apps = b.apps /\ c.projs = b.projs
      /\ c.stores = b.stores
  BY DEF RestoreState, BundleShape, Torn
<1>3. Restorable(c)  BY <1>2 DEF RestoreState, Restorable
<1>4. PICK last : last = R!NoRestore  OBVIOUS
<1>5. Quiet(last) /\ k.last = last  BY <1>1, <1>4, QuietFacts
<1>6. OnlyAdds(e, last) /\ \A x \in last.bound : Answering(c.stores, e, x)
  BY <1>5, QuietFacts
<1> QED BY <1>1, <1>2, <1>3, <1>5, <1>6 DEF RestoreState

\* The applications that are read.
LEMMA AppsGathered ==
  ASSUME NEW d, NEW n, Tables(d, n), NEW secrets \in BOOLEAN,
         NEW q, q = R!GatherApps(d, secrets)
  PROVE  IsSeq(q) /\ DOMAIN q = DOMAIN d.apps /\ \A i \in DOMAIN q : AppEntry(q[i])
<1>1. PICK l \in Nat : DOMAIN d.apps = 1..l  BY SeqFacts DEF Tables, Table
<1>2. q = [i \in 1..l |-> q[i]]  BY <1>1 DEF R!GatherApps
<1>3. IsSeq(q) /\ DOMAIN q = 1..l  BY <1>2, SeqOf
<1>4. ASSUME NEW i \in 1..l PROVE AppEntry(q[i])
  <2>1. PICK env : env = IF secrets THEN d.apps[i].env ELSE <<>>  OBVIOUS
  <2>2. q[i] = [slug |-> d.apps[i].slug, hosts |-> d.apps[i].hosts,
                primary |-> d.apps[i].primary, env |-> env]
    BY <1>1, <2>1 DEF R!GatherApps
  <2>3. IsMap(d.apps[i].env)  BY <1>1 DEF Tables, Table, Row, AppShape
  <2>4. IsMap(<<>>)
    <3>1. Len(<<>>) = 0 /\ DOMAIN <<>> = {} /\ <<>> = [j \in 1..Len(<<>>) |-> <<>>[j]]
      BY EmptyFacts, SeqFacts
    <3> QED BY <3>1 DEF IsMap
  <2>5. IsMap(env)  BY <2>1, <2>3, <2>4
  <2> QED BY <2>2, <2>5 DEF AppEntry
<1> QED BY <1>1, <1>3, <1>4

\* The datastores that are read, with their bindings.
LEMMA StoresGathered ==
  ASSUME NEW d, NEW n, Tables(d, n), Named(d), NEW q, q = R!GatherStores(d)
  PROVE  /\ IsSeq(q) /\ DOMAIN q = DOMAIN d.stores /\ \A i \in DOMAIN q : StoreEntry(q[i])
         /\ \A i, j \in DOMAIN q : q[i].slug[1] = q[j].slug[1] => i = j
<1>1. PICK l \in Nat : DOMAIN d.stores = 1..l  BY SeqFacts DEF Tables, Table
<1>2. q = [i \in 1..l |-> q[i]]  BY <1>1 DEF R!GatherStores
<1>3. IsSeq(q) /\ DOMAIN q = 1..l  BY <1>2, SeqOf
<1>4. ASSUME NEW i \in 1..l
      PROVE  /\ q[i].slug = d.stores[i].slug
             /\ \A x \in q[i].binds : \E b \in d.binds :
                  b.store = d.stores[i].id /\ x.key = b.key
  BY <1>1, <1>4 DEF R!GatherStores
<1>5. ASSUME NEW i \in 1..l PROVE StoreEntry(q[i])
  <2>1. IsSeq(d.stores[i].slug) /\ d.stores[i].slug # <<>>
    BY <1>1 DEF Tables, Table, Row, StoreShape
  <2>2. ASSUME NEW x \in q[i].binds PROVE x.key = q[i].slug[1]
    <3>1. PICK b \in d.binds : b.store = d.stores[i].id /\ x.key = b.key  BY <1>4
    <3>2. PICK j \in DOMAIN d.stores : d.stores[j].id = b.store /\ d.stores[j].slug[1] = b.key
      BY DEF Named
    <3>3. i = j  BY <1>1, <3>1, <3>2 DEF Tables, Table
    <3> QED BY <1>4, <3>1, <3>2, <3>3
  <2> QED BY <1>4, <2>1, <2>2 DEF StoreEntry
<1>6. ASSUME NEW i \in 1..l, NEW j \in 1..l, q[i].slug[1] = q[j].slug[1] PROVE i = j
  <2>1. d.stores[i].slug = <<d.stores[i].slug[1]>> /\ d.stores[j].slug = <<d.stores[j].slug[1]>>
    BY <1>1 DEF Named
  <2>2. d.stores[i].slug = d.stores[j].slug  BY <1>4, <1>6, <2>1
  <2> QED BY <1>1, <2>2 DEF Named
<1> QED BY <1>1, <1>3, <1>5, <1>6

\* The projects that are read.
LEMMA ProjectsGathered ==
  ASSUME NEW d, NEW n, Tables(d, n), NEW q, q = R!GatherProjects(d)
  PROVE  /\ IsSeq(q) /\ DOMAIN q = DOMAIN d.projs /\ \A i \in DOMAIN q : IsSeq(q[i].svcs)
<1>1. PICK l \in Nat : DOMAIN d.projs = 1..l  BY SeqFacts DEF Tables, Table
<1>2. q = [i \in 1..l |-> q[i]]  BY <1>1 DEF R!GatherProjects
<1>3. IsSeq(q) /\ DOMAIN q = 1..l  BY <1>2, SeqOf
<1>4. ASSUME NEW i \in 1..l PROVE IsSeq(q[i].svcs)
  <2>1. IsSeq(d.projs[i].svcs)  BY <1>1 DEF Tables, Table, Row, ProjectShape
  <2>2. PICK k \in Nat : DOMAIN d.projs[i].svcs = 1..k  BY <2>1, SeqFacts
  <2>3. PICK t : t = q[i].svcs  OBVIOUS
  <2>4. t = [j \in 1..k |-> t[j]]  BY <1>1, <2>2, <2>3 DEF R!GatherProjects
  <2> QED BY <2>3, <2>4, SeqOf
<1> QED BY <1>1, <1>3, <1>4

\* What older formats leave of a bundle.
LEMMA ParsedBundle ==
  ASSUME NEW b, BundleShape(b), Restorable(b), NEW version \in {1, 5, 9},
         NEW c, c = R!Parse(b, version)
  PROVE  Restorable(c) /\ R!Range(c.stores) \subseteq R!Range(b.stores)
<1>1. PICK apps : apps = IF version >= 4 THEN b.apps
             ELSE [i \in DOMAIN b.apps |->
                     [b.apps[i] EXCEPT !.hosts = IF b.apps[i].primary = None THEN <<>>
                                            ELSE <<b.apps[i].primary>>]]
  OBVIOUS
<1>2. PICK stores : stores = IF version = 1 THEN <<>> ELSE b.stores  OBVIOUS
<1>3. PICK projs : projs = IF version >= 6 THEN b.projs ELSE <<>>  OBVIOUS
<1>4. c = [b EXCEPT !.apps = apps, !.stores = stores, !.projs = projs]
  BY <1>1, <1>2, <1>3 DEF R!Parse, BundleShape
<1>5. c.apps = apps /\ c.stores = stores /\ c.projs = projs  BY <1>4 DEF BundleShape
<1>6. IsSeq(apps) /\ \A i \in DOMAIN apps : AppEntry(apps[i])
  <2>1. CASE version >= 4  BY <1>1, <2>1 DEF Restorable
  <2>2. CASE ~(version >= 4)
    <3>1. PICK l \in Nat : DOMAIN b.apps = 1..l  BY SeqFacts DEF Restorable
    <3>2. apps = [i \in 1..l |-> [b.apps[i] EXCEPT !.hosts =
                    IF b.apps[i].primary = None THEN <<>> ELSE <<b.apps[i].primary>>]]
      BY <1>1, <2>2, <3>1
    <3>3. apps = [i \in 1..l |-> apps[i]]  BY <3>2
    <3>4. IsSeq(apps) /\ DOMAIN apps = 1..l  BY <3>3, SeqOf
    <3>5. ASSUME NEW i \in 1..l PROVE AppEntry(apps[i])
      <4>1. PICK a : a = b.apps[i]  OBVIOUS
      <4>2. AppEntry(a)  BY <3>1, <4>1 DEF Restorable
      <4>3. PICK hosts : hosts = IF a.primary = None THEN <<>> ELSE <<a.primary>>  OBVIOUS
      <4>4. apps[i] = [a EXCEPT !.hosts = hosts]  BY <3>2, <4>1, <4>3
      <4>5. apps[i] = [slug |-> a.slug, hosts |-> hosts, primary |-> a.primary, env |-> a.env]
        BY <4>2, <4>4 DEF AppEntry
      <4> QED BY <4>2, <4>5 DEF AppEntry
    <3> QED BY <3>4, <3>5
  <2> QED BY <2>1, <2>2
<1>7. /\ IsSeq(stores) /\ \A i \in DOMAIN stores : StoreEntry(stores[i])
      /\ \A i, j \in DOMAIN stores : stores[i].slug[1] = stores[j].slug[1] => i = j
      /\ R!Range(stores) \subseteq R!Range(b.stores)
  BY <1>2, EmptyFacts DEF Restorable
<1>8. IsSeq(projs) /\ \A i \in DOMAIN projs : IsSeq(projs[i].svcs)
  BY <1>3, EmptyFacts DEF Restorable
<1> QED BY <1>5, <1>6, <1>7, <1>8 DEF Restorable

\* A request of another administrator, in the state.
LEMMA EditKeeps ==
  ASSUME RestoreState(db, bundle, history),
         NEW e, Tables(e, history.next + 3), Named(db) => Named(e), R!Edit(e)
  PROVE  RestoreState(db', bundle', history')
<1>1. PICK c : c = Torn(bundle)  OBVIOUS
<1>2. PICK k : k = Edited(history)  OBVIOUS
<1>3. db' = e /\ bundle' = c /\ history' = k  BY <1>1, <1>2 DEF R!Edit, Torn, Edited
<1>4. PICK d, b, h : d = db /\ b = bundle /\ h = history  OBVIOUS
<1>5. /\ c = Torn(b) /\ k = Edited(h)
      /\ RestoreState(d, b, h) /\ Tables(e, h.next + 3) /\ (Named(d) => Named(e))
  BY <1>1, <1>2, <1>4
<1>6. RestoreState(e, c, k)  BY <1>5, EditStep
<1> QED BY <1>3, <1>6

\* The reads of an export.
LEMMA ReadKeeps ==
  ASSUME RestoreState(db, bundle, history),
         (\E secrets \in BOOLEAN : R!ReadApps(secrets)) \/ R!ReadStores \/ R!ReadProjects
  PROVE  RestoreState(db', bundle', history')
<1>1. PICK d, h, b : d = db /\ h = history /\ b = bundle'  OBVIOUS
<1>2. db' = d /\ history' = h /\ bundle.pc # "full"
  BY <1>1 DEF R!ReadApps, R!ReadStores, R!ReadProjects
<1>3. /\ HistoryShape(h) /\ Tables(d, h.next) /\ Named(d) /\ Quiet(h.last)
      /\ BundleShape(bundle) /\ Restorable(bundle)
  BY <1>1, <1>2 DEF RestoreState
<1>4. BundleShape(b) /\ Restorable(b)
  <2>1. ASSUME NEW secrets \in BOOLEAN, R!ReadApps(secrets)
        PROVE  BundleShape(b) /\ Restorable(b)
    <3>1. PICK q : q = R!GatherApps(d, secrets)  OBVIOUS
    <3>2. IsSeq(q) /\ \A i \in DOMAIN q : AppEntry(q[i])  BY <1>3, <3>1, AppsGathered
    <3>3. b = [pc |-> "apps", apps |-> q, projs |-> <<>>, stores |-> <<>>,
               secrets |-> secrets, torn |-> FALSE, config |-> d]
      BY <1>1, <2>1, <3>1 DEF R!ReadApps, R!NoBundle
    <3> QED BY <3>2, <3>3, EmptyFacts DEF BundleShape, Restorable
  <2>2. ASSUME R!ReadStores PROVE BundleShape(b) /\ Restorable(b)
    <3>1. PICK q : q = R!GatherStores(d)  OBVIOUS
    <3>2. /\ IsSeq(q) /\ \A i \in DOMAIN q : StoreEntry(q[i])
          /\ \A i, j \in DOMAIN q : q[i].slug[1] = q[j].slug[1] => i = j
      BY <1>3, <3>1, StoresGathered
    <3>3. b = [pc |-> "stores", apps |-> bundle.apps, projs |-> bundle.projs, stores |-> q,
               secrets |-> bundle.secrets, torn |-> bundle.torn, config |-> bundle.config]
      BY <1>1, <1>3, <2>2, <3>1 DEF R!ReadStores, BundleShape
    <3> QED BY <1>3, <3>2, <3>3 DEF BundleShape, Restorable
  <2>3. ASSUME R!ReadProjects PROVE BundleShape(b) /\ Restorable(b)
    <3>1. PICK q : q = R!GatherProjects(d)  OBVIOUS
    <3>2. IsSeq(q) /\ \A i \in DOMAIN q : IsSeq(q[i].svcs)  BY <1>3, <3>1, ProjectsGathered
    <3>3. b = [pc |-> "full", apps |-> bundle.apps, projs |-> q, stores |-> bundle.stores,
               secrets |-> bundle.secrets, torn |-> bundle.torn, config |-> bundle.config]
      BY <1>1, <1>3, <2>3, <3>1 DEF R!ReadProjects, BundleShape
    <3> QED BY <1>3, <3>2, <3>3 DEF BundleShape, Restorable
  <2> QED BY <2>1, <2>2, <2>3
<1>5. OnlyAdds(d, h.last) /\ \A x \in h.last.bound : Answering(b.stores, d, x)
  BY <1>3, QuietFacts
<1>6. RestoreState(d, b, h)  BY <1>3, <1>4, <1>5 DEF RestoreState
<1> QED BY <1>1, <1>2, <1>6

\* The bundle taken to another instance.
LEMMA InstanceKeeps ==
  ASSUME RestoreState(db, bundle, history), NEW hosts, R!NewInstance(hosts)
  PROVE  RestoreState(db', bundle', history')
<1>1. PICK d, h, b : d = R!Empty /\ h = [history EXCEPT !.last = R!NoRestore] /\ b = bundle
  OBVIOUS
<1>2. db' = d /\ history' = h /\ bundle' = b /\ b.pc = "full"  BY <1>1 DEF R!NewInstance
<1>3. HistoryShape(h) /\ h.next = history.next /\ h.last = R!NoRestore
  BY <1>1 DEF RestoreState, HistoryShape
<1>4. /\ BundleShape(b) /\ Restorable(b) /\ Quiet(h.last)
      /\ history.next \in Nat
  BY <1>1, <1>3, QuietFacts DEF RestoreState, Tables, Table
<1>5. Tables(d, h.next)
  <2>1. \A tag : Table(tag, <<>>, h.next)  BY <1>3, <1>4, EmptyFacts DEF Table
  <2>2. d = [apps |-> <<>>, projs |-> <<>>, stores |-> <<>>, binds |-> {}, pbinds |-> {}]
    BY <1>1 DEF R!Empty
  <2> QED BY <2>1, <2>2, TablesOf
<1>6. OnlyAdds(d, h.last) /\ \A x \in h.last.bound : Answering(b.stores, d, x)
  BY <1>4, QuietFacts
<1>7. RestoreState(d, b, h)  BY <1>2, <1>3, <1>4, <1>5, <1>6 DEF RestoreState
<1> QED BY <1>2, <1>7

\* A bundle applied, or refused.
LEMMA RestoreApplyKeeps ==
  ASSUME RestoreState(db, bundle, history),
         NEW policy \in {"skip", "overwrite", "rename"}, NEW version \in {1, 5, 9},
         R!Apply(policy, version)
  PROVE  RestoreState(db', bundle', history')
<1>1. PICK b : b = bundle  OBVIOUS
<1>2. bundle' = b /\ b.pc = "full"  BY <1>1 DEF R!Apply
<1>3. PICK c : c = R!Parse(b, version)  OBVIOUS
<1>4. PICK st : st = R!Restored(policy, c)  OBVIOUS
<1>5. /\ HistoryShape(history) /\ Tables(db, history.next) /\ BundleShape(b) /\ Restorable(b)
  BY <1>1 DEF RestoreState
<1>6. Restorable(c) /\ R!Range(c.stores) \subseteq R!Range(b.stores)
  BY <1>3, <1>5, ParsedBundle
<1>7. /\ Tables(st.db, st.next)
      /\ Keeps(policy) => /\ Kept(db, st.db)
                          /\ db.binds \subseteq st.db.binds
                          /\ db.pbinds \subseteq st.db.pbinds
      /\ \A x \in st.bound : Answering(c.stores, st.db, x)
  BY <1>4, <1>5, <1>6, RestoredFacts
<1>8. PICK last : last = [policy |-> IF version = 9 THEN policy ELSE None, failed |-> FALSE,
                          bound |-> st.bound, of |-> db]
  OBVIOUS
<1>9. CASE /\ db' = st.db
           /\ history' = [history EXCEPT !.restores = @ + 1, !.next = st.next, !.last = last]
  <2>1. PICK h : h = [history EXCEPT !.restores = @ + 1, !.next = st.next, !.last = last]
    OBVIOUS
  <2>2. HistoryShape(h) /\ h.next = st.next /\ h.last = last
    BY <1>5, <2>1 DEF HistoryShape
  <2>3. PICK d : d = st.db  OBVIOUS
  <2>4. OnlyAdds(d, last)
    <3>1. last.policy \in {"skip", "rename"} => Keeps(policy)
      BY <1>8, PolicyAssumption DEF Keeps
    <3>2. last.of = db  BY <1>8
    <3> QED BY <1>7, <2>3, <3>1, <3>2 DEF OnlyAdds
  <2>5. ASSUME NEW x \in last.bound PROVE Answering(b.stores, d, x)
    <3>1. Answering(c.stores, d, x)  BY <1>7, <1>8, <2>3
    <3> QED BY <1>6, <3>1 DEF Answering
  <2>6. RestoreState(d, b, h)  BY <1>2, <1>5, <1>7, <2>2, <2>3, <2>4, <2>5 DEF RestoreState
  <2> QED BY <1>2, <1>9, <2>1, <2>3, <2>6
<1>10. ASSUME NEW v, db' = db,
              history' = [history EXCEPT !.restores = @ + 1,
                                         !.last = [R!NoRestore EXCEPT !.failed = v]]
       PROVE  RestoreState(db', bundle', history')
  <2>1. PICK last1 : last1 = [R!NoRestore EXCEPT !.failed = v]  OBVIOUS
  <2>2. PICK h : h = [history EXCEPT !.restores = @ + 1, !.last = last1]  OBVIOUS
  <2>3. HistoryShape(h) /\ h.next = history.next /\ h.last = last1
    BY <1>5, <2>2 DEF HistoryShape
  <2>4. Quiet(last1)  BY <2>1, QuietFacts
  <2>5. PICK d : d = db  OBVIOUS
  <2>6. OnlyAdds(d, last1) /\ \A x \in last1.bound : Answering(b.stores, d, x)
    BY <2>4, QuietFacts
  <2>7. RestoreState(d, b, h)  BY <1>2, <1>5, <2>3, <2>5, <2>6 DEF RestoreState
  <2> QED BY <1>2, <1>10, <2>1, <2>2, <2>5, <2>7
<1>11. \/ /\ db' = st.db
          /\ history' = [history EXCEPT !.restores = @ + 1, !.next = st.next, !.last = last]
       \/ \E v : /\ db' = db
                 /\ history' = [history EXCEPT !.restores = @ + 1,
                                  !.last = [R!NoRestore EXCEPT !.failed = v]]
  BY <1>1, <1>3, <1>4, <1>8 DEF R!Apply
<1> QED BY <1>9, <1>10, <1>11

\* Every step of Restore.
LEMMA RestoreKeeps ==
  ASSUME RestoreState(db, bundle, history), R!Next
  PROVE  RestoreState(db', bundle', history')
<1>1. Tables(db, history.next)  BY DEF RestoreState
<1>2. ASSUME NEW n \in Names, NEW hosts \in R!HostLists, R!CreateApp(n, hosts)
      PROVE  RestoreState(db', bundle', history')
  <2>1. PICK x : x = [id |-> history.next, slug |-> R!Slug(n), hosts |-> hosts,
                      env |-> [k \in {Own} |-> R!UserValue],
                      primary |-> IF hosts = <<>> THEN None ELSE hosts[1]]
    OBVIOUS
  <2>2. PICK e : e = [db EXCEPT !.apps = Append(@, x)]  OBVIOUS
  <2>3. R!Edit(e)  BY <1>2, <2>1, <2>2 DEF R!CreateApp, R!New
  <2>4. PICK d, m : d = db /\ m = history.next  OBVIOUS
  <2>5. Tables(e, m + 3) /\ (Named(d) => Named(e))
    BY <1>1, <2>1, <2>2, <2>4, CreateAppTables
  <2> QED BY <2>3, <2>4, <2>5, EditKeeps
<1>3. ASSUME NEW n \in Names, NEW hosts \in R!HostLists, R!CreateProject(n, hosts)
      PROVE  RestoreState(db', bundle', history')
  <2>0. PICK s, t \in ServiceNames : 
       R!Edit([db EXCEPT !.projs = Append(@, [id |-> history.next, slug |-> R!Slug(n), svcs |->
         <<[id |-> history.next + 1, slug |-> s, hosts |-> hosts, deps |-> {}],
           [id |-> history.next + 2, slug |-> t, hosts |-> <<>>,
            deps |-> {history.next + 1}]>>])])
    BY <1>3 DEF R!CreateProject, R!New
  <2>1. PICK x : x = [id |-> history.next, slug |-> R!Slug(n), svcs |->
         <<[id |-> history.next + 1, slug |-> s, hosts |-> hosts, deps |-> {}],
           [id |-> history.next + 2, slug |-> t, hosts |-> <<>>,
            deps |-> {history.next + 1}]>>]
    OBVIOUS
  <2>2. PICK e : e = [db EXCEPT !.projs = Append(@, x)]  OBVIOUS
  <2>3. R!Edit(e)  BY <2>0, <2>1, <2>2
  <2>4. PICK d, m : d = db /\ m = history.next  OBVIOUS
  <2>5. Tables(e, m + 3) /\ (Named(d) => Named(e))
    BY <1>1, <2>1, <2>2, <2>4, CreateProjectTables
  <2> QED BY <2>3, <2>4, <2>5, EditKeeps
<1>4. ASSUME NEW n \in Names, NEW k \in Kinds, NEW p \in {None, Port}, R!CreateStore(n, k, p)
      PROVE  RestoreState(db', bundle', history')
  <2>1. PICK x : x = [id |-> history.next, slug |-> R!Slug(n), kind |-> k, port |-> p,
                      pw |-> history.next]
    OBVIOUS
  <2>2. PICK e : e = [db EXCEPT !.stores = Append(@, x)]  OBVIOUS
  <2>3. R!Edit(e) /\ R!Slug(n) \notin R!Slugs(db.stores)
    BY <1>4, <2>1, <2>2 DEF R!CreateStore, R!New
  <2>4. PICK d, m : d = db /\ m = history.next  OBVIOUS
  <2>5. Tables(e, m + 3) /\ (Named(d) => Named(e))
    BY <1>1, <2>1, <2>2, <2>3, <2>4, CreateStoreTables
  <2> QED BY <2>3, <2>4, <2>5, EditKeeps
<1>5. ASSUME NEW i \in DOMAIN db.apps, R!DeleteApp(i)
      PROVE  RestoreState(db', bundle', history')
  <2>1. PICK e : e = AppDeleted(db, i)  OBVIOUS
  <2>2. R!Edit(e)  BY <1>5, <2>1 DEF R!DeleteApp, AppDeleted
  <2>3. PICK d, m : d = db /\ m = history.next  OBVIOUS
  <2>4. /\ e = AppDeleted(d, i) /\ Tables(d, m) /\ i \in DOMAIN d.apps
    BY <1>1, <2>1, <2>3
  <2>5. Tables(e, m + 3) /\ (Named(d) => Named(e))  BY <2>4, DeleteAppTables
  <2> QED BY <2>2, <2>3, <2>5, EditKeeps
<1>6. ASSUME NEW i \in DOMAIN db.stores, R!DeleteStore(i)
      PROVE  RestoreState(db', bundle', history')
  <2>1. PICK e : e = [db EXCEPT !.stores = R!RemoveAt(@, i)]  OBVIOUS
  <2>2. R!Edit(e) /\ \A b \in db.binds \cup db.pbinds : b.store # db.stores[i].id
    BY <1>6, <2>1 DEF R!DeleteStore
  <2>3. PICK d, m : d = db /\ m = history.next  OBVIOUS
  <2>4. Tables(e, m + 3) /\ (Named(d) => Named(e))
    BY <1>1, <2>1, <2>2, <2>3, DeleteStoreTables
  <2> QED BY <2>2, <2>3, <2>4, EditKeeps
<1>7. ASSUME NEW a \in R!Range(db.apps), NEW r \in R!Range(db.stores), R!Bind(r, a)
      PROVE  RestoreState(db', bundle', history')
  <2>1. PICK key : key = R!Key(Head(r.slug))  OBVIOUS
  <2>2. PICK env : env = [k \in DOMAIN a.env \cup {key} |->
                            IF k = key THEN R!UrlOf(r.kind, r.slug, r.pw) ELSE a.env[k]]
    OBVIOUS
  <2>3. PICK x : x = [a EXCEPT !.env = env]  OBVIOUS
  <2>10. PICK b : b = [store |-> r.id, app |-> a.id, key |-> key]  OBVIOUS
  <2>4. PICK e : e = AppBound(db, b, x)  OBVIOUS
  <2>5. R!Edit(e)  BY <1>7, <2>1, <2>2, <2>3, <2>4, <2>10 DEF R!Bind, AppBound
  <2>6. IsMap(env)  BY <2>2 DEF IsMap
  <2>7. PICK d, m : d = db /\ m = history.next  OBVIOUS
  <2>8. /\ e = AppBound(d, b, x) /\ Tables(d, m) /\ a \in R!Range(d.apps) /\ r \in R!Range(d.stores)
    BY <1>1, <2>4, <2>7
  <2>9. Tables(e, m + 3) /\ (Named(d) => Named(e))
    BY <2>1, <2>3, <2>6, <2>8, <2>10, BindTables
  <2> QED BY <2>5, <2>7, <2>9, EditKeeps
<1>8. ASSUME NEW p \in R!Range(db.projs), NEW j \in DOMAIN p.svcs, R!DeleteService(p, j)
      PROVE  RestoreState(db', bundle', history')
  <2>1. PICK x : x = [p EXCEPT !.svcs = R!RemoveAt(@, j)]  OBVIOUS
  <2>2. PICK e : e = [db EXCEPT !.projs = R!Replace(@, x)]  OBVIOUS
  <2>3. R!Edit(e)  BY <1>8, <2>1, <2>2 DEF R!DeleteService
  <2>4. PICK d, m : d = db /\ m = history.next  OBVIOUS
  <2>5. Tables(e, m + 3) /\ (Named(d) => Named(e))
    BY <1>1, <2>1, <2>2, <2>4, DeleteServiceTables
  <2> QED BY <2>3, <2>4, <2>5, EditKeeps
<1>9. ASSUME NEW p \in R!Range(db.projs), NEW r \in R!Range(db.stores), NEW ids,
             R!BindProject(r, p, ids)
      PROVE  RestoreState(db', bundle', history')
  <2>1. PICK key, store : key = R!Key(Head(r.slug)) /\ store = r.id  OBVIOUS
  <2>2. PICK e : e = [db EXCEPT !.pbinds = @ \cup
                        {[store |-> store, proj |-> p.id, svcs |-> ids, key |-> key]}]
    OBVIOUS
  <2>3. R!Edit(e)  BY <1>9, <2>1, <2>2 DEF R!BindProject
  <2>4. PICK d, m : d = db /\ m = history.next  OBVIOUS
  <2>5. Tables(e, m + 3) /\ (Named(d) => Named(e))  BY <1>1, <2>2, <2>4, BindProjectTables
  <2> QED BY <2>3, <2>4, <2>5, EditKeeps
<1>10. CASE (\E secrets \in BOOLEAN : R!ReadApps(secrets)) \/ R!ReadStores \/ R!ReadProjects
  BY <1>10, ReadKeeps
<1>11. ASSUME NEW hosts, R!NewInstance(hosts) PROVE RestoreState(db', bundle', history')
  BY <1>11, InstanceKeeps
<1>12. ASSUME NEW policy \in {"skip", "overwrite", "rename"}, NEW version \in {1, 5, 9},
              R!Apply(policy, version)
       PROVE  RestoreState(db', bundle', history')
  BY <1>12, RestoreApplyKeeps
<1> QED
  BY <1>2, <1>3, <1>4, <1>5, <1>6, <1>7, <1>8, <1>9, <1>10, <1>11, <1>12 DEF R!Next

RestorePart == part = "restore" => RestoreState(db, bundle, history)

\* The invariant of Restore.
LEMMA RestoreInvariant == ConfigurationSpec => []RestorePart
<1>1. ConfigurationInit => RestorePart
  <2>1. SUFFICES ASSUME ConfigurationInit, part = "restore"
                 PROVE  RestoreState(db, bundle, history)
    BY DEF RestorePart
  <2>2. R!Init  BY <2>1 DEF ConfigurationInit
  <2>3. PICK d, b, h : d = db /\ b = bundle /\ h = history  OBVIOUS
  <2>4. d = R!Empty /\ b = R!NoBundle /\ h.next = 1 /\ h.last = R!NoRestore /\ HistoryShape(h)
    BY <2>2, <2>3 DEF R!Init, HistoryShape
  <2>5. Tables(d, h.next)
    <3>1. \A tag : Table(tag, <<>>, 1)  BY EmptyFacts DEF Table
    <3>2. d = [apps |-> <<>>, projs |-> <<>>, stores |-> <<>>, binds |-> {}, pbinds |-> {}]
      BY <2>4 DEF R!Empty
    <3> QED BY <2>4, <3>1, <3>2, TablesOf
  <2>6. BundleShape(b) /\ Restorable(b)
    BY <2>4, EmptyFacts DEF BundleShape, Restorable, R!NoBundle
  <2>7. Named(d)  BY <2>4, EmptyFacts DEF Named, R!Empty
  <2>8. Quiet(h.last)  BY <2>4, QuietFacts
  <2>9. OnlyAdds(d, h.last) /\ \A x \in h.last.bound : Answering(b.stores, d, x)
    BY <2>8, QuietFacts
  <2> QED BY <2>3, <2>4, <2>5, <2>6, <2>7, <2>8, <2>9 DEF RestoreState
<1>2. RestorePart /\ [ConfigurationNext]_allVars => RestorePart'
  <2>1. SUFFICES ASSUME RestorePart, [ConfigurationNext]_allVars, part' = "restore"
                 PROVE  RestoreState(db', bundle', history')
    BY DEF RestorePart
  <2>2. part = "restore"
    BY <2>1 DEF ConfigurationNext, allVars
  <2>3. RestoreState(db, bundle, history)  BY <2>1, <2>2 DEF RestorePart
  <2>4. CASE R!Next  BY <2>3, <2>4, RestoreKeeps
  <2>5. CASE UNCHANGED restoreVars
    BY <2>3, <2>5 DEF restoreVars
  <2> QED BY <2>1, <2>2, <2>4, <2>5 DEF ConfigurationNext, allVars
<1> QED  BY <1>1, <1>2, PTL DEF ConfigurationSpec

\* Whatever the names, the bounds and the bundle: restoring with "skip" or "rename" leaves
\* every application, project, datastore and binding there was as it was (routes/backups.ts).
THEOREM ConfigurationRestoreAdds == ConfigurationSpec => []RestoreOnlyAdds
<1>1. RestorePart => RestoreOnlyAdds
  BY DEF RestorePart, RestoreState, OnlyAdds, Kept, RestoreOnlyAdds, R!RestoreOnlyAdds
<1> QED  BY <1>1, RestoreInvariant, PTL

\* Whatever the names, the bounds and the bundle: a binding that a restore made has its
\* variable set to where the datastore answers on this instance (routes/backups.ts).
THEOREM ConfigurationRestoredBindings == ConfigurationSpec => []RestoredBindingsAnswer
<1>1. RestorePart => RestoredBindingsAnswer
  BY DEF RestorePart, RestoreState, Answering, RestoredBindingsAnswer, R!RestoredBindingsAnswer
<1> QED  BY <1>1, RestoreInvariant, PTL

-----------------------------------------------------------------------------
(***************************************************************************)
(* A restore on an empty instance copies what was exported.                *)
(***************************************************************************)
\* Hostnames none of which is taken stay.
LEMMA HostsStay ==
  ASSUME NEW q, IsSeq(q), NEW taken, \A i \in DOMAIN q : q[i] \notin taken
  PROVE  R!HostsFree(q, taken) = q
<1>1. PICK n \in Nat : n = Len(q) /\ DOMAIN q = 1..n /\ q = [i \in 1..n |-> q[i]]  BY SeqFacts
<1>2. PICK r : r = R!HostsFree(q, taken)  OBVIOUS
<1>3. PICK g : Steps("host", taken, <<>>, q, g, r)  BY <1>2, HostSteps
<1>4. PICK A : A = {k \in 0..n : IsSeq(g[k]) /\ Len(g[k]) = k
                                 /\ \A i \in 1..k : g[k][i] = q[i]}
  OBVIOUS
<1>5. 0 \in A  BY <1>3, <1>4, EmptyFacts DEF Steps
<1>6. ASSUME NEW m \in 0..(n - 1), m \in A PROVE m + 1 \in A
  <2>1. IsSeq(g[m]) /\ Len(g[m]) = m /\ \A i \in 1..m : g[m][i] = q[i]  BY <1>4, <1>6
  <2>2. m + 1 \in DOMAIN q /\ m + 1 \in 0..n  BY <1>1
  <2>3. g[m + 1] = Append(g[m], q[m + 1])
    BY <1>1, <1>3, <2>2 DEF Steps, StepOf
  <2>4. PICK s, x, t : s = g[m] /\ x = q[m + 1] /\ t = Append(s, x)  OBVIOUS
  <2>5. /\ IsSeq(t) /\ Len(t) = m + 1
        /\ \A i \in 1..m : t[i] = s[i]
        /\ t[m + 1] = x
    BY <2>1, <2>4, AppendFacts
  <2>6. \A i \in 1..(m + 1) : t[i] = q[i]
    <3>1. \A i \in 1..(m + 1) : i = m + 1 \/ i \in 1..m  OBVIOUS
    <3> QED BY <2>1, <2>4, <2>5, <3>1
  <2> QED BY <1>4, <2>2, <2>3, <2>4, <2>5, <2>6
<1>7. n \in A  BY <1>5, <1>6, EveryStep
<1>8. r = g[n]  BY <1>1, <1>3 DEF Steps
<1>9. IsSeq(r) /\ Len(r) = n /\ \A i \in 1..n : r[i] = q[i]  BY <1>4, <1>7, <1>8
<1>10. r = [i \in 1..n |-> r[i]]  BY <1>9, SeqFacts
<1> QED BY <1>1, <1>2, <1>9, <1>10

\* What requests alone make of applications, projects and datastores.
NoSharedHost(s, t) == \A i \in DOMAIN s, j \in DOMAIN t : s[i] # t[j]

NeatApps(rs) ==
  /\ \A i, j \in DOMAIN rs : rs[i].slug = rs[j].slug => i = j
  /\ \A i \in DOMAIN rs :
       /\ IsSeq(rs[i].hosts)
       /\ rs[i].primary = IF rs[i].hosts = <<>> THEN None ELSE rs[i].hosts[1]
  /\ \A i, j \in DOMAIN rs : i # j => NoSharedHost(rs[i].hosts, rs[j].hosts)

NeatProjects(rs) ==
  /\ \A i, j \in DOMAIN rs : rs[i].slug = rs[j].slug => i = j
  /\ \A i \in DOMAIN rs : \A j, k \in DOMAIN rs[i].svcs :
       /\ IsSeq(rs[i].svcs[j].hosts)
       /\ rs[i].svcs[j].slug = rs[i].svcs[k].slug => j = k
  /\ \A h, i \in DOMAIN rs : \A j \in DOMAIN rs[h].svcs, k \in DOMAIN rs[i].svcs :
       h # i => NoSharedHost(rs[h].svcs[j].hosts, rs[i].svcs[k].hosts)

NeatBetween(as, ps) ==
  \A i \in DOMAIN as, p \in DOMAIN ps : \A j \in DOMAIN ps[p].svcs :
    NoSharedHost(ps[p].svcs[j].hosts, as[i].hosts)

NeatStores(rs) ==
  \A i, j \in DOMAIN rs : rs[i].slug = rs[j].slug \/ (rs[i].port = rs[j].port /\ rs[i].port # None)
                            => i = j

\* The first k applications copied.
AppCopied(q, k, st) ==
  /\ DOMAIN st.db.apps = 1..k
  /\ \A i \in 1..k :
       /\ st.db.apps[i].slug = q[i].slug /\ st.db.apps[i].hosts = q[i].hosts
       /\ st.db.apps[i].env = q[i].env /\ st.db.apps[i].primary = q[i].primary
  /\ st.app = {<<q[i].slug, st.db.apps[i].id>> : i \in 1..k}

\* The application that has a hostname.
LEMMA AppHost ==
  ASSUME NEW rs, NEW h \in R!AppHosts(R!Range(rs))
  PROVE  \E m \in DOMAIN rs : h \in R!Range(rs[m].hosts)
BY DEF R!AppHosts, R!Range

\* One more application.
LEMMA RestoreAppCopies ==
  ASSUME foreign = {}, NEW policy, NEW q, IsSeq(q), NeatApps(q), NEW k \in Nat, k + 1 \in DOMAIN q,
         NEW st, StateShape(st), Tables(st.db, st.next), AppCopied(q, k, st),
         NEW r, r = R!RestoreApp(policy, st, q[k + 1])
  PROVE  /\ AppCopied(q, k + 1, r)
         /\ r.db.projs = st.db.projs /\ r.db.stores = st.db.stores
         /\ r.proj = st.proj /\ r.store = st.store
<1>1. PICK a : a = q[k + 1]  OBVIOUS
<1>2. Table("app", st.db.apps, st.next) /\ DOMAIN st.db.apps = 1..k  BY DEF Tables, AppCopied
<1>3. DOMAIN q = 1..Len(q) /\ Len(q) \in Nat  BY SeqFacts
<1>4. \A i \in 1..k : i \in DOMAIN q /\ i # k + 1  BY <1>3
<1>5. \A i \in 1..k : st.db.apps[i].slug # a.slug
  BY <1>1, <1>4 DEF AppCopied, NeatApps
<1>6. a.slug \notin R!Slugs(st.db.apps) /\ R!BySlug(st.db.apps, a.slug) = {}
  BY <1>2, <1>5 DEF R!Slugs, R!BySlug, R!Range
<1>7. R!FreeSlug(R!Slugs(st.db.apps), a.slug) = a.slug  BY <1>6 DEF R!FreeSlug
<1>8. PICK taken : taken = R!AppHosts(R!Range(st.db.apps)) \cup foreign  OBVIOUS
<1>9. ASSUME NEW i \in DOMAIN a.hosts PROVE a.hosts[i] \notin taken
  <2>1. SUFFICES ASSUME a.hosts[i] \in taken PROVE FALSE  OBVIOUS
  <2>2. PICK j \in 1..k : a.hosts[i] \in R!Range(st.db.apps[j].hosts)
    BY <1>2, <1>8, <2>1, AppHost
  <2>3. PICK l \in DOMAIN q[j].hosts : a.hosts[i] = q[j].hosts[l]
    BY <2>2 DEF AppCopied, R!Range
  <2>4. NoSharedHost(a.hosts, q[j].hosts)  BY <1>1, <1>4 DEF NeatApps
  <2> QED BY <2>3, <2>4 DEF NoSharedHost
<1>10. IsSeq(a.hosts) /\ a.primary = IF a.hosts = <<>> THEN None ELSE a.hosts[1]
  BY <1>1 DEF NeatApps
<1>11. R!HostsFree(a.hosts, taken) = a.hosts  BY <1>9, <1>10, HostsStay
<1>12. (IF R!PrimaryOf(a) \in R!Range(a.hosts) THEN R!PrimaryOf(a) ELSE None) = a.primary
  <2>1. CASE a.hosts = <<>>
    <3>1. R!Range(a.hosts) = {} /\ a.primary = None  BY <1>10, <2>1, EmptyFacts
    <3> QED BY <3>1
  <2>2. CASE a.hosts # <<>>
    <3>1. R!PrimaryOf(a) = a.hosts[1]  BY <1>10, <2>2 DEF R!PrimaryOf
    <3>2. Len(a.hosts) \in Nat /\ DOMAIN a.hosts = 1..Len(a.hosts)
          /\ a.hosts \in Seq(R!Range(a.hosts))
      BY <1>10, SeqFacts DEF IsSeq
    <3>3. Len(a.hosts) # 0  BY <2>2, <3>2
    <3>4. 1 \in DOMAIN a.hosts  BY <3>2, <3>3
    <3>5. a.hosts[1] \in R!Range(a.hosts)  BY <3>4 DEF R!Range
    <3> QED BY <1>10, <2>2, <3>1, <3>5
  <2> QED BY <2>1, <2>2
<1>13. PICK x : x = [id |-> st.next, slug |-> a.slug, hosts |-> a.hosts, env |-> a.env,
                     primary |-> a.primary]
  OBVIOUS
<1>14. PICK apps : apps = Append(st.db.apps, x)  OBVIOUS
<1>15. R!Range(st.db.apps) \ {} = R!Range(st.db.apps)  OBVIOUS
<1>16. \E ok : r = [[st EXCEPT !.app = @ \cup {<<a.slug, st.next>>}] EXCEPT
                      !.db.apps = apps, !.next = st.next + 1, !.ok = ok]
  <2>1. PICK ok : ok = (st.ok /\ R!Range(a.hosts) \cap R!AppHosts(R!Range(st.db.apps)) = {})
    OBVIOUS
  <2>2. r = [[st EXCEPT !.app = @ \cup {<<a.slug, st.next>>}] EXCEPT
                      !.db.apps = apps, !.next = st.next + 1, !.ok = ok]
    BY <1>1, <1>6, <1>7, <1>8, <1>11, <1>12, <1>13, <1>14, <1>15, <2>1, ZenonT(60)
       DEF R!RestoreApp, StateShape
  <2> QED BY <2>2
<1>17. /\ r.app = st.app \cup {<<a.slug, st.next>>}
       /\ r.proj = st.proj /\ r.store = st.store
       /\ r.db = [apps |-> apps, projs |-> st.db.projs, stores |-> st.db.stores,
                  binds |-> st.db.binds, pbinds |-> st.db.pbinds]
  BY <1>16 DEF StateShape, Tables
<1>18. IsSeq(st.db.apps) /\ Len(st.db.apps) = k
  <2>1. IsSeq(st.db.apps)  BY <1>2 DEF Table
  <2>2. Len(st.db.apps) \in Nat /\ DOMAIN st.db.apps = 1..Len(st.db.apps)  BY <2>1, SeqFacts
  <2>3. 1..Len(st.db.apps) = 1..k  BY <1>2, <2>2
  <2>4. Len(st.db.apps) = k  BY <2>2, <2>3
  <2> QED BY <2>1, <2>4
<1>19. /\ IsSeq(apps) /\ Len(apps) = k + 1 /\ apps[k + 1] = x
       /\ \A i \in 1..k : apps[i] = st.db.apps[i]
  BY <1>14, <1>18, AppendFacts
<1>20. DOMAIN apps = 1..(k + 1)  BY <1>19, SeqFacts
<1>21. \A i \in 1..(k + 1) : i = k + 1 \/ i \in 1..k  OBVIOUS
<1>22. \A i \in 1..(k + 1) :
       /\ apps[i].slug = q[i].slug /\ apps[i].hosts = q[i].hosts
       /\ apps[i].env = q[i].env /\ apps[i].primary = q[i].primary
  BY <1>1, <1>13, <1>19, <1>21 DEF AppCopied
<1>23. st.app \cup {<<a.slug, st.next>>} = {<<q[i].slug, apps[i].id>> : i \in 1..(k + 1)}
  <2>1. st.app = {<<q[i].slug, apps[i].id>> : i \in 1..k}  BY <1>19 DEF AppCopied
  <2>2. <<a.slug, st.next>> = <<q[k + 1].slug, apps[k + 1].id>>  BY <1>1, <1>13, <1>19
  <2>3. 1..(k + 1) = (1..k) \cup {k + 1}  OBVIOUS
  <2> QED BY <2>1, <2>2, <2>3
<1> QED BY <1>17, <1>20, <1>22, <1>23 DEF AppCopied

\* A service depends on services of the bundle.
DepsInside(rs) ==
  \A i \in DOMAIN rs : \A j \in DOMAIN rs[i].svcs : \A s \in rs[i].svcs[j].deps :
    \E k \in DOMAIN rs[i].svcs : rs[i].svcs[k].slug = s

\* The services a service depends on, by their slugs.
DepSlugs(p, j) == {s.slug : s \in {t \in R!Range(p.svcs) : t.id \in p.svcs[j].deps}}

SameProject(p, e) ==
  /\ p.slug = e.slug /\ DOMAIN p.svcs = DOMAIN e.svcs
  /\ \A j \in DOMAIN e.svcs :
       /\ p.svcs[j].slug = e.svcs[j].slug /\ p.svcs[j].hosts = e.svcs[j].hosts
       /\ DepSlugs(p, j) = e.svcs[j].deps
  /\ \A j, k \in DOMAIN p.svcs : p.svcs[j].id = p.svcs[k].id => j = k

\* The first k projects copied.
ProjectCopied(q, k, st) ==
  /\ DOMAIN st.db.projs = 1..k
  /\ \A i \in 1..k : SameProject(st.db.projs[i], q[i])
  /\ st.proj = {<<q[i].slug, st.db.projs[i]>> : i \in 1..k}

\* A table with one more row.
LEMMA OneMore ==
  ASSUME NEW rs, IsSeq(rs), NEW k \in Nat, DOMAIN rs = 1..k, NEW x
  PROVE  /\ DOMAIN Append(rs, x) = 1..(k + 1) /\ Append(rs, x)[k + 1] = x
         /\ \A i \in 1..k : Append(rs, x)[i] = rs[i]
<1>1. Len(rs) \in Nat /\ DOMAIN rs = 1..Len(rs)  BY SeqFacts
<1>2. 1..Len(rs) = 1..k  BY <1>1
<1>3. Len(rs) = k  BY <1>1, <1>2
<1>4. PICK t : t = Append(rs, x)  OBVIOUS
<1>5. /\ IsSeq(t) /\ Len(t) = k + 1 /\ t[k + 1] = x
      /\ \A i \in 1..k : t[i] = rs[i]
  BY <1>3, <1>4, AppendFacts
<1>6. DOMAIN t = 1..(k + 1)  BY <1>5, SeqFacts
<1> QED BY <1>4, <1>5, <1>6

\* The new ids of services, by their slugs.
NewIds(svcs, n, slugs) == {n + CHOOSE k \in DOMAIN svcs : svcs[k].slug = s : s \in slugs}

\* A service is among those another depends on as its slug is.
LEMMA DepNumbers ==
  ASSUME NEW svcs, NEW l \in Nat, DOMAIN svcs = 1..l, NEW n \in Nat,
         \A j, k \in 1..l : svcs[j].slug = svcs[k].slug => j = k,
         NEW deps, \A s \in deps : \E k \in 1..l : svcs[k].slug = s,
         NEW i \in 1..l
  PROVE  n + i \in NewIds(svcs, n, deps) <=> svcs[i].slug \in deps
<1>1. ASSUME NEW k \in 1..l
      PROVE  (CHOOSE m \in DOMAIN svcs : svcs[m].slug = svcs[k].slug) = k
  <2>1. \E m \in 1..l : svcs[m].slug = svcs[k].slug  OBVIOUS
  <2>2. PICK m : m = CHOOSE u \in 1..l : svcs[u].slug = svcs[k].slug  OBVIOUS
  <2>3. m \in 1..l /\ svcs[m].slug = svcs[k].slug  BY <2>1, <2>2
  <2>4. m = k  BY <2>3
  <2> QED BY <2>2, <2>4
<1>2. ASSUME svcs[i].slug \in deps PROVE n + i \in NewIds(svcs, n, deps)
  BY <1>1, <1>2 DEF NewIds
<1>3. ASSUME n + i \in NewIds(svcs, n, deps) PROVE svcs[i].slug \in deps
  <2>1. PICK s \in deps : n + i = n + CHOOSE m \in DOMAIN svcs : svcs[m].slug = s
    BY <1>3 DEF NewIds
  <2>2. PICK k \in 1..l : svcs[k].slug = s  BY <2>1
  <2>3. (CHOOSE m \in DOMAIN svcs : svcs[m].slug = s) = k  BY <1>1, <2>2
  <2>4. n + i = n + k  BY <2>1, <2>3
  <2>5. i = k  BY <2>4
  <2> QED BY <2>1, <2>2, <2>5
<1> QED BY <1>2, <1>3

\* The services of a project copied.
LEMMA ServicesCopied ==
  ASSUME NEW e, NEW l \in Nat, DOMAIN e.svcs = 1..l, NEW n \in Nat,
         \A j \in 1..l : \A s \in e.svcs[j].deps : \E k \in 1..l : e.svcs[k].slug = s,
         NEW x, x.slug = e.slug, DOMAIN x.svcs = 1..l,
         \A j \in 1..l : /\ x.svcs[j].id = n + j /\ x.svcs[j].slug = e.svcs[j].slug
                         /\ x.svcs[j].hosts = e.svcs[j].hosts,
         \A i, j \in 1..l : n + i \in x.svcs[j].deps <=> e.svcs[i].slug \in e.svcs[j].deps
  PROVE  SameProject(x, e)
<1>1. ASSUME NEW j \in 1..l PROVE DepSlugs(x, j) = e.svcs[j].deps
  <2>1. ASSUME NEW s \in e.svcs[j].deps PROVE s \in DepSlugs(x, j)
    <3>1. PICK k \in 1..l : e.svcs[k].slug = s  BY <2>1
    <3>2. x.svcs[k].id \in x.svcs[j].deps /\ x.svcs[k].slug = s  BY <2>1, <3>1
    <3>3. x.svcs[k] \in R!Range(x.svcs)  BY DEF R!Range
    <3> QED BY <3>2, <3>3 DEF DepSlugs
  <2>2. ASSUME NEW s \in DepSlugs(x, j) PROVE s \in e.svcs[j].deps
    <3>1. PICK t \in R!Range(x.svcs) : t.id \in x.svcs[j].deps /\ s = t.slug
      BY <2>2 DEF DepSlugs
    <3>2. PICK k \in 1..l : t = x.svcs[k]  BY <3>1 DEF R!Range
    <3>3. n + k \in x.svcs[j].deps  BY <3>1, <3>2
    <3>4. e.svcs[k].slug \in e.svcs[j].deps  BY <3>3
    <3> QED BY <3>1, <3>2, <3>4
  <2> QED BY <2>1, <2>2
<1>2. \A j, k \in 1..l : x.svcs[j].id = x.svcs[k].id => j = k
  <2>1. TAKE j, k \in 1..l
  <2>2. x.svcs[j].id = n + j /\ x.svcs[k].id = n + k  OBVIOUS
  <2> QED BY <2>2
<1> QED BY <1>1, <1>2 DEF SameProject

\* The service of a project that has a hostname.
LEMMA ServiceHost ==
  ASSUME NEW rs, NEW h \in R!ServiceHosts(R!Range(rs))
  PROVE  \E m \in DOMAIN rs : \E s \in R!Range(rs[m].svcs) : h \in R!Range(s.hosts)
<1>1. PICK p \in R!Range(rs) : \E s \in R!Range(p.svcs) : h \in R!Range(s.hosts)
  BY DEF R!ServiceHosts
<1>2. PICK m \in DOMAIN rs : p = rs[m]  BY <1>1 DEF R!Range
<1> QED BY <1>1, <1>2

\* A copy has the hostnames of the entry.
LEMMA HostOfSame ==
  ASSUME NEW p, NEW e, SameProject(p, e), NEW h, \E s \in R!Range(p.svcs) : h \in R!Range(s.hosts)
  PROVE  \E u \in DOMAIN e.svcs : h \in R!Range(e.svcs[u].hosts)
<1>1. PICK s \in R!Range(p.svcs) : h \in R!Range(s.hosts)  OBVIOUS
<1>2. PICK u \in DOMAIN p.svcs : s = p.svcs[u]  BY <1>1 DEF R!Range
<1>3. u \in DOMAIN e.svcs /\ p.svcs[u].hosts = e.svcs[u].hosts  BY <1>2 DEF SameProject
<1> QED BY <1>1, <1>2, <1>3

\* A project whose slug is free becomes a new row.
NewRow(st, p, taken) ==
  [id |-> st.next, slug |-> R!FreeSlug(R!Slugs(st.db.projs), p.slug),
   svcs |-> [j \in DOMAIN p.svcs |->
              [id |-> st.next + j, slug |-> p.svcs[j].slug,
               hosts |-> R!HostsFree(p.svcs[j].hosts, taken),
               deps |-> {st.next + CHOOSE m \in DOMAIN p.svcs : p.svcs[m].slug = s :
                           s \in p.svcs[j].deps}]]]
WithRow(st, p, x) ==
  [st EXCEPT !.db.projs = Append(@, x), !.proj = @ \cup {<<p.slug, x>>},
             !.next = @ + Len(p.svcs) + 1, !.restricted = @ \/ FALSE]

LEMMA NewProject ==
  ASSUME NEW policy, NEW st, NEW p, R!BySlug(st.db.projs, p.slug) = {},
         NEW taken, taken = R!AppHosts(R!Range(st.db.apps))
                              \cup R!ServiceHosts(R!Range(st.db.projs)) \cup foreign
  PROVE  R!RestoreProject(policy, st, p) = WithRow(st, p, NewRow(st, p, taken))
BY DEF R!RestoreProject, NewRow, WithRow

\* One more project.
LEMMA RestoreProjectCopies ==
  ASSUME foreign = {}, NEW policy, NEW q, IsSeq(q), NeatProjects(q), DepsInside(q),
         \A i \in DOMAIN q : IsSeq(q[i].svcs),
         NEW k \in Nat, k + 1 \in DOMAIN q,
         NEW st, StateShape(st), Tables(st.db, st.next), ProjectCopied(q, k, st),
         NeatBetween(st.db.apps, q),
         NEW r, r = R!RestoreProject(policy, st, q[k + 1])
  PROVE  /\ ProjectCopied(q, k + 1, r)
         /\ r.db.apps = st.db.apps /\ r.db.stores = st.db.stores
         /\ r.app = st.app /\ r.store = st.store
<1>1. PICK p : p = q[k + 1]  OBVIOUS
<1>2. /\ Table("project", st.db.projs, st.next) /\ DOMAIN st.db.projs = 1..k /\ st.next \in Nat
      /\ Table("app", st.db.apps, st.next)
  BY DEF Tables, ProjectCopied, Table
<1>3. DOMAIN q = 1..Len(q) /\ Len(q) \in Nat  BY SeqFacts
<1>4. \A i \in 1..k : i \in DOMAIN q /\ i # k + 1  BY <1>3
<1>5. \A i \in 1..k : st.db.projs[i].slug # p.slug
  BY <1>1, <1>4 DEF ProjectCopied, NeatProjects, SameProject
<1>6. p.slug \notin R!Slugs(st.db.projs) /\ R!BySlug(st.db.projs, p.slug) = {}
  BY <1>2, <1>5 DEF R!Slugs, R!BySlug, R!Range
<1>7. R!FreeSlug(R!Slugs(st.db.projs), p.slug) = p.slug  BY <1>6 DEF R!FreeSlug
<1>8. PICK l \in Nat : l = Len(p.svcs) /\ DOMAIN p.svcs = 1..l  BY <1>1, SeqFacts
<1>9. PICK taken : taken = R!AppHosts(R!Range(st.db.apps))
                             \cup R!ServiceHosts(R!Range(st.db.projs)) \cup foreign
  OBVIOUS
<1>10. ASSUME NEW j \in DOMAIN p.svcs PROVE R!HostsFree(p.svcs[j].hosts, taken) = p.svcs[j].hosts
  <2>1. IsSeq(p.svcs[j].hosts)  BY <1>1, <1>10 DEF NeatProjects
  <2>2. ASSUME NEW i \in DOMAIN p.svcs[j].hosts, p.svcs[j].hosts[i] \in taken PROVE FALSE
    <3>1. CASE p.svcs[j].hosts[i] \in R!AppHosts(R!Range(st.db.apps))
      <4>1. PICK m \in DOMAIN st.db.apps : p.svcs[j].hosts[i] \in R!Range(st.db.apps[m].hosts)
        BY <3>1, AppHost
      <4>2. NoSharedHost(p.svcs[j].hosts, st.db.apps[m].hosts)  BY <1>1, <1>10 DEF NeatBetween
      <4> QED BY <4>1, <4>2 DEF NoSharedHost, R!Range
    <3>2. CASE p.svcs[j].hosts[i] \in R!ServiceHosts(R!Range(st.db.projs))
      <4>1. PICK m \in 1..k : \E s \in R!Range(st.db.projs[m].svcs) :
              p.svcs[j].hosts[i] \in R!Range(s.hosts)
        BY <1>2, <3>2, ServiceHost
      <4>2. SameProject(st.db.projs[m], q[m])  BY DEF ProjectCopied
      <4>3. PICK u \in DOMAIN q[m].svcs : p.svcs[j].hosts[i] \in R!Range(q[m].svcs[u].hosts)
        BY <4>1, <4>2, HostOfSame
      <4>4. NoSharedHost(p.svcs[j].hosts, q[m].svcs[u].hosts)
        BY <1>1, <1>4, <1>10 DEF NeatProjects
      <4> QED BY <4>3, <4>4 DEF NoSharedHost, R!Range
    <3> QED BY <1>9, <2>2, <3>1, <3>2
  <2> QED BY <2>1, <2>2, HostsStay
<1>11. PICK svcs : svcs = [j \in DOMAIN p.svcs |->
                   [id |-> st.next + j, slug |-> p.svcs[j].slug, hosts |-> p.svcs[j].hosts,
                    deps |-> NewIds(p.svcs, st.next, p.svcs[j].deps)]]
  OBVIOUS
<1>12. svcs = [j \in DOMAIN p.svcs |->
                 [id |-> st.next + j, slug |-> p.svcs[j].slug,
                  hosts |-> R!HostsFree(p.svcs[j].hosts, taken),
                  deps |-> {st.next + CHOOSE m \in DOMAIN p.svcs : p.svcs[m].slug = s :
                              s \in p.svcs[j].deps}]]
  BY <1>10, <1>11 DEF NewIds
<1>13. PICK x : x = [id |-> st.next, slug |-> p.slug, svcs |-> svcs]  OBVIOUS
<1>14. PICK projs : projs = Append(st.db.projs, x)  OBVIOUS
<1>15. PICK restricted : restricted = (st.restricted \/ FALSE)  OBVIOUS
<1>16. r = [st EXCEPT !.db.projs = projs, !.proj = @ \cup {<<p.slug, x>>},
                      !.next = @ + Len(p.svcs) + 1, !.restricted = restricted]
  <2>1. r = R!RestoreProject(policy, st, p)  BY <1>1
  <2>2. x = NewRow(st, p, taken)  BY <1>7, <1>12, <1>13 DEF NewRow
  <2>3. R!BySlug(st.db.projs, p.slug) = {}  BY <1>6
  <2>4. R!RestoreProject(policy, st, p) = WithRow(st, p, NewRow(st, p, taken))
    BY <2>3, <1>9, NewProject
  <2>5. r = WithRow(st, p, x)  BY <2>1, <2>2, <2>4
  <2> QED BY <2>5, <1>14, <1>15 DEF WithRow
<1>17. /\ r.proj = st.proj \cup {<<p.slug, x>>}
       /\ r.app = st.app /\ r.store = st.store
       /\ r.db = [apps |-> st.db.apps, projs |-> projs, stores |-> st.db.stores,
                  binds |-> st.db.binds, pbinds |-> st.db.pbinds]
  BY <1>16 DEF StateShape, Tables
<1>18. SameProject(x, p)
  <2>1. \A j, m \in 1..l : p.svcs[j].slug = p.svcs[m].slug => j = m
    BY <1>1, <1>8 DEF NeatProjects
  <2>2. \A j \in 1..l : \A s \in p.svcs[j].deps : \E m \in 1..l : p.svcs[m].slug = s
    BY <1>1, <1>8 DEF DepsInside
  <2>3. DOMAIN svcs = 1..l  BY <1>8, <1>11
  <2>4. \A j \in 1..l : /\ svcs[j].id = st.next + j /\ svcs[j].slug = p.svcs[j].slug
                        /\ svcs[j].hosts = p.svcs[j].hosts
                        /\ svcs[j].deps = NewIds(p.svcs, st.next, p.svcs[j].deps)
    BY <1>8, <1>11
  <2>5. ASSUME NEW i \in 1..l, NEW j \in 1..l
        PROVE  st.next + i \in svcs[j].deps <=> p.svcs[i].slug \in p.svcs[j].deps
    <3>1. st.next + i \in NewIds(p.svcs, st.next, p.svcs[j].deps)
            <=> p.svcs[i].slug \in p.svcs[j].deps
      <4>1. PICK entries : entries = p.svcs  OBVIOUS
      <4>2. PICK deps : deps = p.svcs[j].deps  OBVIOUS
      <4>3. PICK n : n = st.next  OBVIOUS
      <4>4. n \in Nat /\ l \in Nat /\ i \in 1..l /\ DOMAIN entries = 1..l
        BY <1>2, <1>8, <4>1, <4>3
      <4>5. \A s \in deps : \E m \in 1..l : entries[m].slug = s  BY <2>2, <4>1, <4>2
      <4>6. \A u, m \in 1..l : entries[u].slug = entries[m].slug => u = m  BY <2>1, <4>1
      <4>7. n + i \in NewIds(entries, n, deps) <=> entries[i].slug \in deps
        BY <4>4, <4>5, <4>6, DepNumbers
      <4> QED BY <4>1, <4>2, <4>3, <4>7
    <3> QED BY <2>4, <3>1
  <2>6. x.slug = p.slug /\ x.svcs = svcs  BY <1>13
  <2>7. DOMAIN x.svcs = 1..l  BY <2>3, <2>6
  <2>8. \A j \in 1..l : /\ x.svcs[j].id = st.next + j /\ x.svcs[j].slug = p.svcs[j].slug
                        /\ x.svcs[j].hosts = p.svcs[j].hosts
    BY <2>4, <2>6
  <2>9. \A i, j \in 1..l :
          st.next + i \in x.svcs[j].deps <=> p.svcs[i].slug \in p.svcs[j].deps
    BY <2>5, <2>6
  <2>10. st.next \in Nat /\ DOMAIN p.svcs = 1..l /\ x.slug = p.slug  BY <1>2, <1>8, <2>6
  <2> QED BY <2>2, <2>7, <2>8, <2>9, <2>10, ServicesCopied, Zenon
<1>19. /\ DOMAIN projs = 1..(k + 1) /\ projs[k + 1] = x
       /\ \A i \in 1..k : projs[i] = st.db.projs[i]
  BY <1>2, <1>14, OneMore DEF Table
<1>20. \A i \in 1..(k + 1) : i = k + 1 \/ i \in 1..k  OBVIOUS
<1>21. \A i \in 1..(k + 1) : SameProject(projs[i], q[i])
  BY <1>1, <1>18, <1>19, <1>20 DEF ProjectCopied
<1>22. st.proj \cup {<<p.slug, x>>} = {<<q[i].slug, projs[i]>> : i \in 1..(k + 1)}
  <2>1. st.proj = {<<q[i].slug, projs[i]>> : i \in 1..k}  BY <1>19 DEF ProjectCopied
  <2>2. <<p.slug, x>> = <<q[k + 1].slug, projs[k + 1]>>  BY <1>1, <1>19
  <2>3. 1..(k + 1) = (1..k) \cup {k + 1}  OBVIOUS
  <2> QED BY <2>1, <2>2, <2>3
<1> QED BY <1>17, <1>19, <1>21, <1>22 DEF ProjectCopied

\* The first k datastores copied.
StoreBecame(e, t) == [entry |-> e, id |-> t.id, kind |-> e.kind, slug |-> e.slug, pw |-> t.pw]

StoreCopied(q, k, st) ==
  /\ DOMAIN st.db.stores = 1..k
  /\ \A i \in 1..k : /\ st.db.stores[i].slug = q[i].slug /\ st.db.stores[i].kind = q[i].kind
                     /\ st.db.stores[i].port = q[i].port
  /\ st.store = {StoreBecame(q[i], st.db.stores[i]) : i \in 1..k}

\* One more datastore.
LEMMA RestoreStoreCopies ==
  ASSUME NEW policy, NEW q, IsSeq(q), NeatStores(q),
         NEW k \in Nat, k + 1 \in DOMAIN q,
         NEW st, StateShape(st), Tables(st.db, st.next), StoreCopied(q, k, st),
         NEW r, r = R!RestoreStore(policy, st, q[k + 1])
  PROVE  /\ StoreCopied(q, k + 1, r)
         /\ r.db.apps = st.db.apps /\ r.db.projs = st.db.projs
         /\ r.app = st.app /\ r.proj = st.proj
<1>1. PICK e : e = q[k + 1]  OBVIOUS
<1>2. Table("store", st.db.stores, st.next) /\ DOMAIN st.db.stores = 1..k
  BY DEF Tables, StoreCopied
<1>3. DOMAIN q = 1..Len(q) /\ Len(q) \in Nat  BY SeqFacts
<1>4. \A i \in 1..k : i \in DOMAIN q /\ i # k + 1  BY <1>3
<1>5. \A i \in 1..k : /\ st.db.stores[i].slug # e.slug
                      /\ st.db.stores[i].port = e.port => e.port = None
  BY <1>1, <1>4 DEF StoreCopied, NeatStores
<1>6. e.slug \notin R!Slugs(st.db.stores) /\ R!BySlug(st.db.stores, e.slug) = {}
  BY <1>2, <1>5 DEF R!Slugs, R!BySlug, R!Range
<1>7. R!FreeSlug(R!Slugs(st.db.stores), e.slug) = e.slug  BY <1>6 DEF R!FreeSlug
<1>8. (IF e.port \in {t.port : t \in R!Range(st.db.stores)} THEN None ELSE e.port) = e.port
  BY <1>2, <1>5 DEF R!Range
<1>9. PICK x : x = [id |-> st.next, slug |-> e.slug, kind |-> e.kind, port |-> e.port,
                    pw |-> st.next]
  OBVIOUS
<1>10. PICK stores : stores = Append(st.db.stores, x)  OBVIOUS
<1>11. PICK m : m = [entry |-> e, id |-> st.next, kind |-> e.kind, slug |-> e.slug,
                     pw |-> st.next]
  OBVIOUS
<1>12. r = [[st EXCEPT !.store = @ \cup {m}] EXCEPT !.next = st.next + 1,
                                                    !.db.stores = stores]
  BY <1>1, <1>6, <1>7, <1>8, <1>9, <1>10, <1>11 DEF R!RestoreStore, StateShape
<1>13. /\ r.app = st.app /\ r.proj = st.proj /\ r.store = st.store \cup {m}
       /\ r.db = [apps |-> st.db.apps, projs |-> st.db.projs, stores |-> stores,
                  binds |-> st.db.binds, pbinds |-> st.db.pbinds]
  BY <1>12 DEF StateShape, Tables
<1>14. /\ DOMAIN stores = 1..(k + 1) /\ stores[k + 1] = x
       /\ \A i \in 1..k : stores[i] = st.db.stores[i]
  BY <1>2, <1>10, OneMore DEF Table
<1>15. \A i \in 1..(k + 1) : i = k + 1 \/ i \in 1..k  OBVIOUS
<1>16. \A i \in 1..(k + 1) : /\ stores[i].slug = q[i].slug /\ stores[i].kind = q[i].kind
                             /\ stores[i].port = q[i].port
  BY <1>1, <1>9, <1>14, <1>15 DEF StoreCopied
<1>17. st.store \cup {m} = {StoreBecame(q[i], stores[i]) : i \in 1..(k + 1)}
  <2>1. st.store = {StoreBecame(q[i], stores[i]) : i \in 1..k}  BY <1>14 DEF StoreCopied
  <2>2. m = StoreBecame(q[k + 1], stores[k + 1])
    BY <1>1, <1>9, <1>11, <1>14 DEF StoreBecame
  <2>3. 1..(k + 1) = (1..k) \cup {k + 1}  OBVIOUS
  <2> QED BY <2>1, <2>2, <2>3
<1>18. r.db.stores = stores /\ r.store = {StoreBecame(q[i], stores[i]) : i \in 1..(k + 1)}
  BY <1>13, <1>17
<1>19. StoreCopied(q, k + 1, r)  BY <1>14, <1>16, <1>18 DEF StoreCopied
<1> QED BY <1>13, <1>19

\* The loop over the applications copies them.
LEMMA AppsCopied ==
  ASSUME foreign = {}, NEW policy, NEW d, NEW n0, NEW st, Grown(policy, d, n0, st),
         NEW q, IsSeq(q), NeatApps(q), \A i \in DOMAIN q : IsMap(q[i].env),
         AppCopied(q, 0, st), NEW r, r = AppLoop(policy, st, q)
  PROVE  /\ AppCopied(q, Len(q), r)
         /\ r.db.projs = st.db.projs /\ r.db.stores = st.db.stores
         /\ r.proj = st.proj /\ r.store = st.store
<1> DEFINE Copied(k, s) == /\ AppCopied(q, k, s) /\ Grown(policy, d, n0, s)
                           /\ s.db.projs = st.db.projs /\ s.db.stores = st.db.stores
                           /\ s.proj = st.proj /\ s.store = st.store
<1>1. PICK n \in Nat : n = Len(q) /\ DOMAIN q = 1..n  BY SeqFacts
<1>2. PICK g : Steps("app", policy, st, q, g, r)  BY AppSteps
<1>3. PICK A : A = {k \in 0..n : Copied(k, g[k])}  OBVIOUS
<1>4. 0 \in A
  <2>1. g[0] = st  BY <1>2 DEF Steps
  <2> QED BY <1>3, <2>1
<1>5. ASSUME NEW m \in 0..(n - 1), m \in A PROVE m + 1 \in A
  <2>1. PICK s : s = g[m]  OBVIOUS
  <2>2. Copied(m, s)  BY <1>3, <1>5, <2>1
  <2>3. m + 1 \in DOMAIN q /\ m + 1 \in 0..n /\ m \in Nat  BY <1>1
  <2>4. PICK t : t = R!RestoreApp(policy, s, q[m + 1])  OBVIOUS
  <2>5. g[m + 1] = t  BY <1>1, <1>2, <2>1, <2>4 DEF Steps, StepOf
  <2>6. IsMap(q[m + 1].env)  BY <2>3
  <2>7. Grown(policy, d, n0, t)  BY <2>2, <2>4, <2>6, RestoreAppGrows
  <2>8. StateShape(s) /\ Tables(s.db, s.next)  BY <2>2 DEF Grown
  <2>9. /\ AppCopied(q, m + 1, t)
        /\ t.db.projs = s.db.projs /\ t.db.stores = s.db.stores
        /\ t.proj = s.proj /\ t.store = s.store
    BY <2>2, <2>3, <2>4, <2>8, RestoreAppCopies
  <2>10. Copied(m + 1, t)  BY <2>2, <2>7, <2>9
  <2> QED BY <1>3, <2>3, <2>5, <2>10
<1>6. n \in A  BY <1>4, <1>5, EveryStep
<1>7. r = g[n]  BY <1>1, <1>2 DEF Steps
<1> QED BY <1>1, <1>3, <1>6, <1>7

\* The loop over the projects copies them.
LEMMA ProjectsCopied ==
  ASSUME foreign = {}, NEW policy, NEW d, NEW n0, NEW st, Grown(policy, d, n0, st),
         NEW q, IsSeq(q), NeatProjects(q), DepsInside(q), \A i \in DOMAIN q : IsSeq(q[i].svcs),
         NeatBetween(st.db.apps, q),
         ProjectCopied(q, 0, st), NEW r, r = ProjectLoop(policy, st, q)
  PROVE  /\ ProjectCopied(q, Len(q), r)
         /\ r.db.apps = st.db.apps /\ r.db.stores = st.db.stores
         /\ r.app = st.app /\ r.store = st.store
<1> DEFINE Copied(k, s) == /\ ProjectCopied(q, k, s) /\ Grown(policy, d, n0, s)
                           /\ s.db.apps = st.db.apps /\ s.db.stores = st.db.stores
                           /\ s.app = st.app /\ s.store = st.store
<1>1. PICK n \in Nat : n = Len(q) /\ DOMAIN q = 1..n  BY SeqFacts
<1>2. PICK g : Steps("project", policy, st, q, g, r)  BY ProjectSteps
<1>3. PICK A : A = {k \in 0..n : Copied(k, g[k])}  OBVIOUS
<1>4. 0 \in A
  <2>1. g[0] = st  BY <1>2 DEF Steps
  <2> QED BY <1>3, <2>1
<1>5. ASSUME NEW m \in 0..(n - 1), m \in A PROVE m + 1 \in A
  <2>1. PICK s : s = g[m]  OBVIOUS
  <2>2. Copied(m, s)  BY <1>3, <1>5, <2>1
  <2>3. m + 1 \in DOMAIN q /\ m + 1 \in 0..n /\ m \in Nat  BY <1>1
  <2>4. PICK t : t = R!RestoreProject(policy, s, q[m + 1])  OBVIOUS
  <2>5. g[m + 1] = t  BY <1>1, <1>2, <2>1, <2>4 DEF Steps, StepOf
  <2>6. PICK e : e = q[m + 1] /\ IsSeq(e.svcs)  BY <2>3
  <2>7. Grown(policy, d, n0, t)  BY <2>2, <2>4, <2>6, RestoreProjectGrows
  <2>8. StateShape(s) /\ Tables(s.db, s.next) /\ NeatBetween(s.db.apps, q)
    BY <2>2 DEF Grown
  <2>9. /\ ProjectCopied(q, m + 1, t)
        /\ t.db.apps = s.db.apps /\ t.db.stores = s.db.stores
        /\ t.app = s.app /\ t.store = s.store
    BY <2>2, <2>3, <2>4, <2>8, RestoreProjectCopies
  <2>10. Copied(m + 1, t)  BY <2>2, <2>7, <2>9
  <2> QED BY <1>3, <2>3, <2>5, <2>10
<1>6. n \in A  BY <1>4, <1>5, EveryStep
<1>7. r = g[n]  BY <1>1, <1>2 DEF Steps
<1> QED BY <1>1, <1>3, <1>6, <1>7

\* The loop over the datastores copies them.
LEMMA StoresCopied ==
  ASSUME NEW policy, NEW d, NEW n0, NEW st, Grown(policy, d, n0, st),
         NEW q, IsSeq(q), NeatStores(q), \A i \in DOMAIN q : StoreEntry(q[i]),
         StoreCopied(q, 0, st), NEW r, r = StoreLoop(policy, st, q)
  PROVE  /\ StoreCopied(q, Len(q), r) /\ Grown(policy, d, n0, r)
         /\ r.db.apps = st.db.apps /\ r.db.projs = st.db.projs
         /\ r.app = st.app /\ r.proj = st.proj
<1> DEFINE Copied(k, s) == /\ StoreCopied(q, k, s) /\ Grown(policy, d, n0, s)
                           /\ s.db.apps = st.db.apps /\ s.db.projs = st.db.projs
                           /\ s.app = st.app /\ s.proj = st.proj
<1>1. PICK n \in Nat : n = Len(q) /\ DOMAIN q = 1..n  BY SeqFacts
<1>2. PICK g : Steps("store", policy, st, q, g, r)  BY StoreSteps
<1>3. PICK A : A = {k \in 0..n : Copied(k, g[k])}  OBVIOUS
<1>4. 0 \in A
  <2>1. g[0] = st  BY <1>2 DEF Steps
  <2> QED BY <1>3, <2>1
<1>5. ASSUME NEW m \in 0..(n - 1), m \in A PROVE m + 1 \in A
  <2>1. PICK s : s = g[m]  OBVIOUS
  <2>2. Copied(m, s)  BY <1>3, <1>5, <2>1
  <2>3. m + 1 \in DOMAIN q /\ m + 1 \in 0..n /\ m \in Nat  BY <1>1
  <2>4. PICK t : t = R!RestoreStore(policy, s, q[m + 1])  OBVIOUS
  <2>5. g[m + 1] = t  BY <1>1, <1>2, <2>1, <2>4 DEF Steps, StepOf
  <2>6. PICK e : e = q[m + 1] /\ IsSeq(e.slug) /\ e.slug # <<>>
    BY <2>3 DEF StoreEntry
  <2>7. Grown(policy, d, n0, t)  BY <2>2, <2>4, <2>6, RestoreStoreGrows
  <2>8. StateShape(s) /\ Tables(s.db, s.next)  BY <2>2 DEF Grown
  <2>9. /\ StoreCopied(q, m + 1, t)
        /\ t.db.apps = s.db.apps /\ t.db.projs = s.db.projs
        /\ t.app = s.app /\ t.proj = s.proj
    BY <2>2, <2>3, <2>4, <2>8, RestoreStoreCopies
  <2>10. Copied(m + 1, t)  BY <2>2, <2>7, <2>9
  <2> QED BY <1>3, <2>3, <2>5, <2>10
<1>6. n \in A  BY <1>4, <1>5, EveryStep
<1>7. r = g[n]  BY <1>1, <1>2 DEF Steps
<1> QED BY <1>1, <1>3, <1>6, <1>7

\* A bundle that requests alone have led to.
NeatBundle(b) ==
  /\ Restorable(b)
  /\ NeatApps(b.apps) /\ NeatProjects(b.projs) /\ DepsInside(b.projs)
  /\ NeatBetween(b.apps, b.projs) /\ NeatStores(b.stores)

RowsCopied(b, st) ==
  /\ StateShape(st)
  /\ st.db = [apps |-> st.db.apps, projs |-> st.db.projs, stores |-> st.db.stores,
              binds |-> {}, pbinds |-> st.db.pbinds]
  /\ Table("app", st.db.apps, st.next) /\ Table("project", st.db.projs, st.next)
  /\ Table("store", st.db.stores, st.next)
  /\ AppCopied(b.apps, Len(b.apps), st) /\ ProjectCopied(b.projs, Len(b.projs), st)
  /\ StoreCopied(b.stores, Len(b.stores), st)
BundleCopied(b, st) == RowsCopied(b, st) /\ st.db.pbinds = {}

\* The loops of a restore on an empty instance.
LEMMA RestoreCopies ==
  ASSUME foreign = {}, db = R!Empty, Tables(db, history.next),
         NEW policy, NEW b, NeatBundle(b)
  PROVE  \E st : /\ R!Restored(policy, b) = R!RestoreBindings(R!RestoreProjectBindings(st))
                 /\ BundleCopied(b, st)
<1>1. PICK s0 : s0 = StartOf(db, history.next)  OBVIOUS
<1>2. PICK d, n : d = db /\ n = history.next  OBVIOUS
<1>3. Grown(policy, d, n, s0)  BY <1>1, <1>2, StartGrown
<1>4. /\ d.apps = <<>> /\ d.projs = <<>> /\ d.stores = <<>> /\ d.binds = {} /\ d.pbinds = {}
      /\ s0.db = d /\ s0.app = {} /\ s0.proj = {} /\ s0.store = {}
  BY <1>1, <1>2 DEF R!Empty, StartOf
<1>5. 1..0 = {}  OBVIOUS
<1>6. AppCopied(b.apps, 0, s0)  BY <1>4, <1>5, EmptyFacts DEF AppCopied
<1>7. PICK s1 : s1 = AppLoop(policy, s0, b.apps)  OBVIOUS
<1>8. /\ IsSeq(b.apps) /\ \A i \in DOMAIN b.apps : IsMap(b.apps[i].env)
      /\ IsSeq(b.projs) /\ \A i \in DOMAIN b.projs : IsSeq(b.projs[i].svcs)
      /\ IsSeq(b.stores) /\ \A i \in DOMAIN b.stores : StoreEntry(b.stores[i])
  BY DEF NeatBundle, Restorable, AppEntry
<1>9. Grown(policy, d, n, s1) /\ s1.store = {}  BY <1>3, <1>4, <1>7, <1>8, AppsGrow
<1>10. /\ AppCopied(b.apps, Len(b.apps), s1)
       /\ s1.db.projs = <<>> /\ s1.db.stores = <<>> /\ s1.proj = {}
  BY <1>3, <1>4, <1>6, <1>7, <1>8, AppsCopied DEF NeatBundle
<1>11. PICK s2 : s2 = ProjectLoop(policy, s1, b.projs)  OBVIOUS
<1>12. Grown(policy, d, n, s2) /\ s2.store = {}  BY <1>8, <1>9, <1>11, ProjectsGrow
<1>13. NeatBetween(s1.db.apps, b.projs)
  <2>1. DOMAIN b.apps = 1..Len(b.apps)  BY <1>8, SeqFacts
  <2>2. NeatBetween(b.apps, b.projs)  BY DEF NeatBundle
  <2> QED BY <1>10, <2>1, <2>2 DEF AppCopied, NeatBetween
<1>14. ProjectCopied(b.projs, 0, s1)  BY <1>5, <1>10, EmptyFacts DEF ProjectCopied
<1>15. /\ ProjectCopied(b.projs, Len(b.projs), s2)
       /\ s2.db.apps = s1.db.apps /\ s2.db.stores = <<>> /\ s2.app = s1.app
  BY <1>8, <1>9, <1>10, <1>11, <1>13, <1>14, ProjectsCopied DEF NeatBundle
<1>16. PICK s3 : s3 = StoreLoop(policy, s2, b.stores)  OBVIOUS
<1>17. StoreCopied(b.stores, 0, s2)  BY <1>5, <1>12, <1>15, EmptyFacts DEF StoreCopied
<1>18. /\ StoreCopied(b.stores, Len(b.stores), s3) /\ Grown(policy, d, n, s3)
       /\ s3.db.apps = s2.db.apps /\ s3.db.projs = s2.db.projs
       /\ s3.app = s2.app /\ s3.proj = s2.proj
  BY <1>8, <1>12, <1>16, <1>17, StoresCopied DEF NeatBundle
<1>19. AppCopied(b.apps, Len(b.apps), s3)  BY <1>10, <1>15, <1>18 DEF AppCopied
<1>20. ProjectCopied(b.projs, Len(b.projs), s3)  BY <1>15, <1>18 DEF ProjectCopied
<1>21. Grown(policy, d, n, s3) /\ s3.db.binds = {} /\ s3.db.pbinds = {}
  BY <1>4, <1>18 DEF Grown
<1>22. /\ StateShape(s3) /\ Tables(s3.db, s3.next)
  BY <1>21 DEF Grown
<1>23. s3.db = [apps |-> s3.db.apps, projs |-> s3.db.projs, stores |-> s3.db.stores,
                binds |-> {}, pbinds |-> s3.db.pbinds]
  BY <1>21, <1>22 DEF Tables
<1>24. R!Restored(policy, b) = R!RestoreBindings(R!RestoreProjectBindings(s3))
  BY <1>1, <1>7, <1>11, <1>16 DEF R!Restored, StartOf, AppLoop, ProjectLoop, StoreLoop
<1>25. RowsCopied(b, s3)
  BY <1>18, <1>19, <1>20, <1>22, <1>23 DEF RowsCopied, Tables
<1> QED BY <1>21, <1>24, <1>25 DEF BundleCopied

\* Bindings of a bundle are of its own applications, with their variables, and of its own
\* projects, for services it has.
BindInside(b, x) ==
  /\ x = [app |-> x.app, key |-> x.key]
  /\ \E k \in DOMAIN b.apps : /\ b.apps[k].slug = x.app /\ x.key \in DOMAIN b.apps[k].env
                              /\ b.apps[k].env[x.key].sort = Url
ScopeInside(b, x) ==
  /\ x = [proj |-> x.proj, key |-> x.key, svcs |-> x.svcs] /\ x.svcs # {}
  /\ \E k \in DOMAIN b.projs :
       /\ b.projs[k].slug = x.proj
       /\ \A s \in x.svcs : \E j \in DOMAIN b.projs[k].svcs : b.projs[k].svcs[j].slug = s
BindingsInside(b) ==
  \A i \in DOMAIN b.stores : /\ \A x \in b.stores[i].binds : BindInside(b, x)
                             /\ \A x \in b.stores[i].pbinds : ScopeInside(b, x)

\* What a binding of a project is, without ids.
ScopeOf(stores, projs, c) ==
  <<R!ById(stores, c.store).slug, R!ById(projs, c.proj).slug, c.key,
    R!ServiceSlugs(R!ById(projs, c.proj), c.svcs)>>
BundleScopes(b) ==
  UNION {{<<b.stores[i].slug, x.proj, x.key, x.svcs>> : x \in b.stores[i].pbinds} :
           i \in DOMAIN b.stores}

\* The services of a project by their slugs.
IdsOf(p, slugs) == {s.id : s \in {t \in R!Range(p.svcs) : t.slug \in slugs}}

\* A binding for some services of a project is for those of its copy.
LEMMA ScopeCopied ==
  ASSUME NEW p, NEW e, SameProject(p, e), NEW slugs, slugs # {},
         \A s \in slugs : \E j \in DOMAIN e.svcs : e.svcs[j].slug = s
  PROVE  /\ R!ServiceSlugs(p, IdsOf(p, slugs)) = slugs
         /\ slugs \subseteq R!Slugs(p.svcs)
<1>1. ASSUME NEW s \in slugs
      PROVE  \E t \in R!Range(p.svcs) : t.slug = s /\ t.id \in IdsOf(p, slugs)
  <2>1. PICK j \in DOMAIN e.svcs : e.svcs[j].slug = s  OBVIOUS
  <2>2. p.svcs[j].slug = s /\ p.svcs[j] \in R!Range(p.svcs)
    BY <2>1 DEF SameProject, R!Range
  <2> QED BY <2>2 DEF IdsOf
<1>2. IdsOf(p, slugs) # {}  BY <1>1
<1>3. ASSUME NEW t \in R!Range(p.svcs), t.id \in IdsOf(p, slugs) PROVE t.slug \in slugs
  <2>1. PICK u \in R!Range(p.svcs) : u.slug \in slugs /\ u.id = t.id  BY <1>3 DEF IdsOf
  <2>2. PICK i \in DOMAIN p.svcs : t = p.svcs[i]  BY DEF R!Range
  <2>3. PICK j \in DOMAIN p.svcs : u = p.svcs[j]  BY DEF R!Range
  <2>4. i = j  BY <2>1, <2>2, <2>3 DEF SameProject
  <2> QED BY <2>1, <2>2, <2>3, <2>4
<1>4. R!ServiceSlugs(p, IdsOf(p, slugs)) = slugs
  <2>1. PICK ids : ids = IdsOf(p, slugs)  OBVIOUS
  <2>2. R!ServiceSlugs(p, ids) = {s.slug : s \in {t \in R!Range(p.svcs) : t.id \in ids}}
    BY <1>2, <2>1 DEF R!ServiceSlugs
  <2> QED BY <1>1, <1>3, <2>1, <2>2
<1> QED BY <1>1, <1>4 DEF R!Slugs

\* The copies of datastores and of projects.
LEMMA CopyAt ==
  ASSUME NEW b, NeatBundle(b), NEW st, RowsCopied(b, st)
  PROVE  /\ DOMAIN b.apps = DOMAIN st.db.apps /\ DOMAIN b.projs = DOMAIN st.db.projs
         /\ DOMAIN b.stores = DOMAIN st.db.stores
         /\ \A i \in DOMAIN b.apps : <<b.apps[i].slug, st.db.apps[i].id>> \in st.app
         /\ \A q \in st.app : \E i \in DOMAIN b.apps : q = <<b.apps[i].slug, st.db.apps[i].id>>
         /\ \A i \in DOMAIN b.projs : /\ <<b.projs[i].slug, st.db.projs[i]>> \in st.proj
                                      /\ SameProject(st.db.projs[i], b.projs[i])
                                      /\ R!ById(st.db.projs, st.db.projs[i].id) = st.db.projs[i]
         /\ \A q \in st.proj : \E i \in DOMAIN b.projs : q = <<b.projs[i].slug, st.db.projs[i]>>
         /\ \A i \in DOMAIN b.stores : /\ StoreBecame(b.stores[i], st.db.stores[i]) \in st.store
                                       /\ st.db.stores[i].slug = b.stores[i].slug
                                       /\ R!ById(st.db.stores, st.db.stores[i].id)
                                            = st.db.stores[i]
         /\ \A m \in st.store : \E i \in DOMAIN b.stores :
              m = StoreBecame(b.stores[i], st.db.stores[i])
<1>1. IsSeq(b.apps) /\ IsSeq(b.projs) /\ IsSeq(b.stores)  BY DEF NeatBundle, Restorable
<1>2. DOMAIN b.apps = 1..Len(b.apps) /\ DOMAIN b.projs = 1..Len(b.projs)
      /\ DOMAIN b.stores = 1..Len(b.stores)
  BY <1>1, SeqFacts
<1>3. /\ AppCopied(b.apps, Len(b.apps), st) /\ ProjectCopied(b.projs, Len(b.projs), st)
      /\ StoreCopied(b.stores, Len(b.stores), st)
  BY DEF RowsCopied
<1>4. Table("project", st.db.projs, st.next) /\ Table("store", st.db.stores, st.next)
  BY DEF RowsCopied
<1>5. /\ \A i \in DOMAIN st.db.projs : R!ById(st.db.projs, st.db.projs[i].id) = st.db.projs[i]
      /\ \A i \in DOMAIN st.db.stores :
           R!ById(st.db.stores, st.db.stores[i].id) = st.db.stores[i]
  BY <1>4, RowAt
<1>6. DOMAIN b.apps = DOMAIN st.db.apps /\ DOMAIN b.projs = DOMAIN st.db.projs
      /\ DOMAIN b.stores = DOMAIN st.db.stores
  BY <1>2, <1>3 DEF AppCopied, ProjectCopied, StoreCopied
<1>7. /\ \A i \in DOMAIN b.apps : <<b.apps[i].slug, st.db.apps[i].id>> \in st.app
      /\ \A q \in st.app : \E i \in DOMAIN b.apps : q = <<b.apps[i].slug, st.db.apps[i].id>>
  BY <1>2, <1>3 DEF AppCopied
<1>8. /\ \A i \in DOMAIN b.projs : /\ <<b.projs[i].slug, st.db.projs[i]>> \in st.proj
                                   /\ SameProject(st.db.projs[i], b.projs[i])
      /\ \A q \in st.proj : \E i \in DOMAIN b.projs : q = <<b.projs[i].slug, st.db.projs[i]>>
  BY <1>2, <1>3 DEF ProjectCopied
<1>9. /\ \A i \in DOMAIN b.stores : /\ StoreBecame(b.stores[i], st.db.stores[i]) \in st.store
                                    /\ st.db.stores[i].slug = b.stores[i].slug
      /\ \A m \in st.store : \E i \in DOMAIN b.stores :
           m = StoreBecame(b.stores[i], st.db.stores[i])
  BY <1>2, <1>3 DEF StoreCopied
<1> QED BY <1>5, <1>6, <1>7, <1>8, <1>9

\* The bindings of projects come back.
LEMMA ScopesRestored ==
  ASSUME NEW b, NeatBundle(b), BindingsInside(b), NEW st, BundleCopied(b, st)
  PROVE  \E pbinds :
           /\ R!RestoreProjectBindings(st) = [st EXCEPT !.db.pbinds = pbinds]
           /\ {ScopeOf(st.db.stores, st.db.projs, c) : c \in pbinds} = BundleScopes(b)
<1>0. RowsCopied(b, st)  BY DEF BundleCopied
<1>1. PICK fresh : fresh = 
        LET fits(x) == {q \in st.proj : q[1] = x.proj
                          /\ x.svcs \subseteq {s.slug : s \in R!Range(q[2].svcs)}}
            ids(p, slugs) == {s.id : s \in {t \in R!Range(p.svcs) : t.slug \in slugs}}
        IN  UNION {UNION {{[store |-> m.id, proj |-> q[2].id, key |-> x.key,
                            svcs |-> ids(q[2], x.svcs)] : q \in fits(x)} :
                            x \in m.entry.pbinds} : m \in st.store}
  OBVIOUS
<1>2. PICK replaced : replaced =
        {c \in st.db.pbinds : \E n \in fresh : n.store = c.store /\ n.proj = c.proj}
  OBVIOUS
<1>3. PICK pbinds : pbinds = (st.db.pbinds \ replaced) \cup fresh  OBVIOUS
<1>4. R!RestoreProjectBindings(st) = [st EXCEPT !.db.pbinds = pbinds]
  BY <1>1, <1>2, <1>3 DEF R!RestoreProjectBindings
<1>5. pbinds = fresh  BY <1>3 DEF BundleCopied
<1>6. \A c : c \in fresh <=>
        \E m \in st.store : \E x \in m.entry.pbinds : \E q \in st.proj :
          /\ q[1] = x.proj /\ x.svcs \subseteq R!Slugs(q[2].svcs)
          /\ c = [store |-> m.id, proj |-> q[2].id, key |-> x.key, svcs |-> IdsOf(q[2], x.svcs)]
  BY <1>1 DEF IdsOf, R!Slugs
<1>7. ASSUME NEW i \in DOMAIN b.stores, NEW x \in b.stores[i].pbinds,
             NEW k \in DOMAIN b.projs, b.projs[k].slug = x.proj,
             NEW c, c = [store |-> st.db.stores[i].id, proj |-> st.db.projs[k].id,
                         key |-> x.key, svcs |-> IdsOf(st.db.projs[k], x.svcs)]
      PROVE  /\ ScopeOf(st.db.stores, st.db.projs, c)
                  = <<b.stores[i].slug, x.proj, x.key, x.svcs>>
             /\ x.svcs \subseteq R!Slugs(st.db.projs[k].svcs)
  <2>1. PICK p : p = st.db.projs[k]  OBVIOUS
  <2>2. SameProject(p, b.projs[k])  BY <1>0, <2>1, CopyAt
  <2>3. ScopeInside(b, x)  BY DEF BindingsInside
  <2>4. PICK l \in DOMAIN b.projs :
          /\ b.projs[l].slug = x.proj
          /\ \A s \in x.svcs : \E j \in DOMAIN b.projs[l].svcs : b.projs[l].svcs[j].slug = s
    BY <2>3 DEF ScopeInside
  <2>5. l = k  BY <1>7, <2>4 DEF NeatBundle, NeatProjects
  <2>6. \A s \in x.svcs : \E j \in DOMAIN b.projs[k].svcs : b.projs[k].svcs[j].slug = s
    BY <2>4, <2>5
  <2>7. x.svcs # {}  BY <2>3 DEF ScopeInside
  <2>8. /\ R!ServiceSlugs(p, IdsOf(p, x.svcs)) = x.svcs
        /\ x.svcs \subseteq R!Slugs(p.svcs)
    BY <2>2, <2>6, <2>7, ScopeCopied
  <2>9. c.store = st.db.stores[i].id /\ c.proj = p.id /\ c.key = x.key
        /\ c.svcs = IdsOf(p, x.svcs)
    BY <1>7, <2>1
  <2>10. R!ById(st.db.projs, c.proj) = p /\ R!ById(st.db.stores, c.store).slug = b.stores[i].slug
    <3>1. R!ById(st.db.projs, st.db.projs[k].id) = st.db.projs[k]  BY <1>0, CopyAt
    <3>2. /\ R!ById(st.db.stores, st.db.stores[i].id) = st.db.stores[i]
          /\ st.db.stores[i].slug = b.stores[i].slug
      BY <1>0, CopyAt
    <3> QED BY <2>1, <2>9, <3>1, <3>2
  <2>11. p.slug = x.proj  BY <1>7, <2>2 DEF SameProject
  <2> QED BY <2>1, <2>8, <2>9, <2>10, <2>11 DEF ScopeOf
<1>8. ASSUME NEW c \in fresh
      PROVE  ScopeOf(st.db.stores, st.db.projs, c) \in BundleScopes(b)
  <2>1. PICK m \in st.store : \E x \in m.entry.pbinds : \E q \in st.proj :
          /\ q[1] = x.proj /\ x.svcs \subseteq R!Slugs(q[2].svcs)
          /\ c = [store |-> m.id, proj |-> q[2].id, key |-> x.key, svcs |-> IdsOf(q[2], x.svcs)]
    BY <1>6, SMTT(40)
  <2>2. PICK i \in DOMAIN b.stores : m = StoreBecame(b.stores[i], st.db.stores[i])  BY <1>0, CopyAt
  <2>3. m.entry = b.stores[i] /\ m.id = st.db.stores[i].id  BY <2>2 DEF StoreBecame
  <2>4. PICK x \in b.stores[i].pbinds : \E q \in st.proj :
          /\ q[1] = x.proj
          /\ c = [store |-> m.id, proj |-> q[2].id, key |-> x.key, svcs |-> IdsOf(q[2], x.svcs)]
    BY <2>1, <2>3
  <2>5. PICK q \in st.proj :
          /\ q[1] = x.proj
          /\ c = [store |-> m.id, proj |-> q[2].id, key |-> x.key, svcs |-> IdsOf(q[2], x.svcs)]
    BY <2>4
  <2>6. PICK k \in DOMAIN b.projs : q = <<b.projs[k].slug, st.db.projs[k]>>  BY <1>0, CopyAt
  <2>7. b.projs[k].slug = x.proj /\ q[2] = st.db.projs[k]  BY <2>5, <2>6
  <2>8. ScopeOf(st.db.stores, st.db.projs, c) = <<b.stores[i].slug, x.proj, x.key, x.svcs>>
    BY <1>7, <2>3, <2>5, <2>7
  <2> QED BY <2>8 DEF BundleScopes
<1>9. ASSUME NEW y \in BundleScopes(b)
      PROVE  \E c \in fresh : y = ScopeOf(st.db.stores, st.db.projs, c)
  <2>1. PICK i \in DOMAIN b.stores : \E x \in b.stores[i].pbinds :
          y = <<b.stores[i].slug, x.proj, x.key, x.svcs>>
    BY DEF BundleScopes
  <2>2. PICK x \in b.stores[i].pbinds : y = <<b.stores[i].slug, x.proj, x.key, x.svcs>>
    BY <2>1
  <2>3. PICK k \in DOMAIN b.projs : b.projs[k].slug = x.proj
    BY DEF BindingsInside, ScopeInside
  <2>4. PICK c : c = [store |-> st.db.stores[i].id, proj |-> st.db.projs[k].id,
                      key |-> x.key, svcs |-> IdsOf(st.db.projs[k], x.svcs)]
    OBVIOUS
  <2>5. /\ ScopeOf(st.db.stores, st.db.projs, c) = <<b.stores[i].slug, x.proj, x.key, x.svcs>>
        /\ x.svcs \subseteq R!Slugs(st.db.projs[k].svcs)
    BY <1>7, <2>3, <2>4
  <2>6. PICK m : m = StoreBecame(b.stores[i], st.db.stores[i])  OBVIOUS
  <2>7. m \in st.store /\ m.entry = b.stores[i] /\ m.id = st.db.stores[i].id
    BY <1>0, <2>6, CopyAt DEF StoreBecame
  <2>8. PICK q : q = <<b.projs[k].slug, st.db.projs[k]>>  OBVIOUS
  <2>9. q \in st.proj /\ q[1] = x.proj /\ q[2] = st.db.projs[k]  BY <1>0, <2>3, <2>8, CopyAt
  <2>10. x \in m.entry.pbinds  BY <2>7
  <2>11. c \in fresh  BY <1>6, <2>4, <2>5, <2>7, <2>9, <2>10
  <2> QED BY <2>2, <2>5, <2>11
<1>10. {ScopeOf(st.db.stores, st.db.projs, c) : c \in pbinds} = BundleScopes(b)
  BY <1>5, <1>8, <1>9
<1> QED BY <1>4, <1>10

\* What the links of a restore are.
LEMMA LinkAt ==
  ASSUME NEW b, NeatBundle(b), NEW s, RowsCopied(b, s), NEW n
  PROVE  n \in R!Links(s) <=>
           \E i \in DOMAIN b.stores, k \in DOMAIN b.apps : \E x \in b.stores[i].binds :
             /\ b.apps[k].slug = x.app
             /\ n = [store |-> StoreBecame(b.stores[i], s.db.stores[i]),
                     app |-> s.db.apps[k].id, key |-> x.key]
<1>1. n \in R!Links(s) <=>
        \E m \in s.store : \E x \in m.entry.binds : \E q \in s.app :
          q[1] = x.app /\ n = [store |-> m, app |-> q[2], key |-> x.key]
  BY DEF R!Links
<1>2. ASSUME n \in R!Links(s)
      PROVE  \E i \in DOMAIN b.stores, k \in DOMAIN b.apps : \E x \in b.stores[i].binds :
               /\ b.apps[k].slug = x.app
               /\ n = [store |-> StoreBecame(b.stores[i], s.db.stores[i]),
                       app |-> s.db.apps[k].id, key |-> x.key]
  <2>1. PICK m \in s.store : \E x \in m.entry.binds : \E q \in s.app :
          q[1] = x.app /\ n = [store |-> m, app |-> q[2], key |-> x.key]
    BY <1>1, <1>2
  <2>2. PICK i \in DOMAIN b.stores : m = StoreBecame(b.stores[i], s.db.stores[i])  BY CopyAt
  <2>3. m.entry = b.stores[i]  BY <2>2 DEF StoreBecame
  <2>4. PICK x \in b.stores[i].binds : \E q \in s.app :
          q[1] = x.app /\ n = [store |-> m, app |-> q[2], key |-> x.key]
    BY <2>1, <2>3
  <2>5. PICK q \in s.app : q[1] = x.app /\ n = [store |-> m, app |-> q[2], key |-> x.key]
    BY <2>4
  <2>6. PICK k \in DOMAIN b.apps : q = <<b.apps[k].slug, s.db.apps[k].id>>  BY CopyAt
  <2>7. b.apps[k].slug = x.app /\ q[2] = s.db.apps[k].id  BY <2>5, <2>6
  <2> QED BY <2>2, <2>5, <2>7
<1>3. ASSUME NEW i \in DOMAIN b.stores, NEW k \in DOMAIN b.apps, NEW x \in b.stores[i].binds,
             b.apps[k].slug = x.app,
             n = [store |-> StoreBecame(b.stores[i], s.db.stores[i]),
                  app |-> s.db.apps[k].id, key |-> x.key]
      PROVE  n \in R!Links(s)
  <2>1. PICK m : m = StoreBecame(b.stores[i], s.db.stores[i])  OBVIOUS
  <2>2. m \in s.store /\ m.entry = b.stores[i]  BY <2>1, CopyAt DEF StoreBecame
  <2>3. PICK q : q = <<b.apps[k].slug, s.db.apps[k].id>>  OBVIOUS
  <2>4. q \in s.app /\ q[1] = x.app /\ q[2] = s.db.apps[k].id  BY <1>3, <2>3, CopyAt
  <2>5. x \in m.entry.binds /\ n = [store |-> m, app |-> q[2], key |-> x.key]
    BY <1>3, <2>1, <2>2, <2>4
  <2> QED BY <1>1, <2>2, <2>4, <2>5
<1> QED BY <1>2, <1>3

\* The sorts of variables.
SortsOf(env) == [k \in DOMAIN env |-> [sort |-> env[k].sort]]

\* What the bindings make of the applications.
LinksMade(b, s, r) ==
  /\ r.db.projs = s.db.projs /\ r.db.stores = s.db.stores /\ r.db.pbinds = s.db.pbinds
  /\ r.db.binds = R!BindRows(s) /\ DOMAIN r.db.apps = DOMAIN b.apps
  /\ \A i \in DOMAIN b.apps :
       /\ r.db.apps[i].id = s.db.apps[i].id /\ r.db.apps[i].slug = b.apps[i].slug
       /\ r.db.apps[i].hosts = b.apps[i].hosts /\ r.db.apps[i].primary = b.apps[i].primary
       /\ SortsOf(r.db.apps[i].env) = SortsOf(b.apps[i].env)

\* Bindings of applications change neither their names nor what sorts of variables they have.
LEMMA LinksRestored ==
  ASSUME NEW b, NeatBundle(b), BindingsInside(b), NEW s, RowsCopied(b, s),
         NEW r, r = R!RestoreBindings(s)
  PROVE  LinksMade(b, s, r)
<1> DEFINE mine(a) == {n \in R!Links(s) : n.app = a.id}
           keys(a) == {n.key : n \in mine(a)}
           linked(a, k) == CHOOSE x \in mine(a) : x.key = k
           url(a, k) == R!UrlOf(linked(a, k).store.kind, linked(a, k).store.slug,
                                linked(a, k).store.pw)
           env(a) == [k \in DOMAIN a.env \cup keys(a) |->
                        IF k \in keys(a) THEN url(a, k) ELSE a.env[k]]
<1>1. PICK replaced : replaced = {c \in s.db.binds :
        \E x \in R!BindRows(s) : x.store = c.store /\ x.app = c.app}  OBVIOUS
<1>2. PICK binds : binds = (s.db.binds \ replaced) \cup R!BindRows(s)  OBVIOUS
<1>3. PICK apps : apps = [i \in DOMAIN s.db.apps |->
                            [s.db.apps[i] EXCEPT !.env = env(s.db.apps[i])]]  OBVIOUS
<1>4. r = [s EXCEPT !.db.binds = binds, !.bound = R!BindRows(s), !.db.apps = apps]
  BY <1>1, <1>2, <1>3 DEF R!RestoreBindings, RowsCopied, StateShape
<1>5. r.db = [apps |-> apps, projs |-> s.db.projs, stores |-> s.db.stores,
              binds |-> binds, pbinds |-> s.db.pbinds]
  <2>1. StateShape(s) /\ s.db = [apps |-> s.db.apps, projs |-> s.db.projs,
                                 stores |-> s.db.stores, binds |-> {}, pbinds |-> s.db.pbinds]
    BY DEF RowsCopied
  <2>2. PICK d : d = s.db  OBVIOUS
  <2>3. d = [apps |-> d.apps, projs |-> d.projs, stores |-> d.stores, binds |-> d.binds,
             pbinds |-> d.pbinds]
    BY <2>1, <2>2
  <2>4. r.db = [d EXCEPT !.binds = binds, !.apps = apps]  BY <1>4, <2>1, <2>2 DEF StateShape
  <2> QED BY <2>2, <2>3, <2>4
<1>6. s.db.binds = {}  BY DEF RowsCopied
<1>7. binds = R!BindRows(s)  BY <1>2, <1>6
<1> HIDE DEF env, mine, keys, linked, url
<1>8. /\ DOMAIN s.db.apps = 1..Len(b.apps) /\ DOMAIN b.apps = DOMAIN s.db.apps
      /\ \A i, j \in DOMAIN s.db.apps : s.db.apps[i].id = s.db.apps[j].id => i = j
      /\ \A i \in DOMAIN s.db.apps : Row("app", s.db.apps[i], s.next)
      /\ \A i \in DOMAIN s.db.apps :
           /\ s.db.apps[i].slug = b.apps[i].slug /\ s.db.apps[i].hosts = b.apps[i].hosts
           /\ s.db.apps[i].env = b.apps[i].env /\ s.db.apps[i].primary = b.apps[i].primary
  <2>1. AppCopied(b.apps, Len(b.apps), s) /\ Table("app", s.db.apps, s.next)  BY DEF RowsCopied
  <2> QED BY <2>1, CopyAt DEF AppCopied, Table
<1>9. ASSUME NEW i \in DOMAIN b.apps, NEW k \in keys(s.db.apps[i])
      PROVE  k \in DOMAIN b.apps[i].env /\ b.apps[i].env[k].sort = Url
  <2>1. PICK n \in R!Links(s) : n.app = s.db.apps[i].id /\ n.key = k
    BY <1>9 DEF keys, mine
  <2>2. PICK l \in DOMAIN b.stores, j \in DOMAIN b.apps : \E x \in b.stores[l].binds :
          /\ b.apps[j].slug = x.app
          /\ n = [store |-> StoreBecame(b.stores[l], s.db.stores[l]),
                  app |-> s.db.apps[j].id, key |-> x.key]
    BY LinkAt
  <2>3. PICK x \in b.stores[l].binds :
          /\ b.apps[j].slug = x.app
          /\ n = [store |-> StoreBecame(b.stores[l], s.db.stores[l]),
                  app |-> s.db.apps[j].id, key |-> x.key]
    BY <2>2
  <2>4. n.app = s.db.apps[j].id /\ n.key = x.key  BY <2>3
  <2>5. i = j  BY <1>8, <2>1, <2>4
  <2>6. BindInside(b, x)  BY DEF BindingsInside
  <2>7. PICK u \in DOMAIN b.apps : /\ b.apps[u].slug = x.app /\ x.key \in DOMAIN b.apps[u].env
                                   /\ b.apps[u].env[x.key].sort = Url
    BY <2>6 DEF BindInside
  <2>8. u = j  BY <2>3, <2>7 DEF NeatBundle, NeatApps
  <2> QED BY <2>1, <2>4, <2>5, <2>7, <2>8
<1>10. ASSUME NEW i \in DOMAIN b.apps
       PROVE  /\ apps[i].id = s.db.apps[i].id /\ apps[i].slug = b.apps[i].slug
              /\ apps[i].hosts = b.apps[i].hosts /\ apps[i].primary = b.apps[i].primary
              /\ apps[i].env = env(s.db.apps[i])
  <2>1. PICK a : a = s.db.apps[i]  OBVIOUS
  <2>2. apps[i] = [a EXCEPT !.env = env(a)]  BY <1>3, <1>8, <2>1
  <2>3. a = [id |-> a.id, slug |-> a.slug, hosts |-> a.hosts, env |-> a.env,
             primary |-> a.primary]
    BY <1>8, <2>1 DEF Row, AppShape
  <2>4. apps[i] = [id |-> a.id, slug |-> a.slug, hosts |-> a.hosts, env |-> env(a),
                   primary |-> a.primary]
    BY <2>2, <2>3
  <2> QED BY <1>8, <2>1, <2>4
<1>11. ASSUME NEW i \in DOMAIN b.apps
       PROVE  SortsOf(apps[i].env) = SortsOf(b.apps[i].env)
  <2>1. PICK a : a = s.db.apps[i] /\ a.env = b.apps[i].env  BY <1>8
  <2>2. \A k \in keys(a) : k \in DOMAIN a.env /\ a.env[k].sort = Url  BY <1>9, <2>1
  <2>3. DOMAIN env(a) = DOMAIN a.env  BY <2>2 DEF env
  <2>4. ASSUME NEW k \in DOMAIN a.env PROVE env(a)[k].sort = a.env[k].sort
    <3>1. CASE k \in keys(a)
      <4>1. env(a)[k] = url(a, k)  BY <3>1 DEF env
      <4>2. url(a, k).sort = Url  BY DEF url, R!UrlOf
      <4> QED BY <2>2, <3>1, <4>1, <4>2
    <3>2. CASE k \notin keys(a)
      BY <3>2 DEF env
    <3> QED BY <3>1, <3>2
  <2>5. SortsOf(env(a)) = SortsOf(a.env)  BY <2>3, <2>4 DEF SortsOf
  <2> QED BY <1>10, <2>1, <2>5
<1>12. DOMAIN apps = DOMAIN b.apps  BY <1>3, <1>8
<1> QED BY <1>5, <1>7, <1>10, <1>11, <1>12 DEF LinksMade

\* Tables that requests alone have led to.
KeyBound(as, x) ==
  \E i \in DOMAIN as : /\ as[i].id = x.app /\ x.key \in DOMAIN as[i].env
                        /\ as[i].env[x.key].sort = Url
ScopeBound(ss, ps, x) == /\ \E i \in DOMAIN ss : ss[i].id = x.store
                         /\ \E i \in DOMAIN ps : ps[i].id = x.proj
Neat(d) ==
  /\ NeatApps(d.apps) /\ NeatProjects(d.projs) /\ NeatBetween(d.apps, d.projs)
  /\ NeatStores(d.stores)
  /\ \A x \in d.binds : KeyBound(d.apps, x)
  /\ \A x \in d.pbinds : ScopeBound(d.stores, d.projs, x)

\* What is read of the tables, row by row.
ProjectEntry(p) ==
  [slug |-> p.slug,
   svcs |-> [j \in DOMAIN p.svcs |->
               [slug |-> p.svcs[j].slug, hosts |-> p.svcs[j].hosts, deps |-> DepSlugs(p, j)]]]
BindsOf(d, id) == {[app |-> R!ById(d.apps, x.app).slug, key |-> x.key] :
                     x \in {y \in d.binds : y.store = id}}
ScopesOf(d, id) == {[proj |-> R!ById(d.projs, x.proj).slug, key |-> x.key,
                     svcs |-> R!ServiceSlugs(R!ById(d.projs, x.proj), x.svcs)] :
                      x \in {y \in d.pbinds : y.store = id}}
StoreRead(d, i) == [slug |-> d.stores[i].slug, kind |-> d.stores[i].kind,
                    port |-> d.stores[i].port, binds |-> BindsOf(d, d.stores[i].id),
                    pbinds |-> ScopesOf(d, d.stores[i].id)]

\* The bundle of a configuration, with secrets.
BundleOf(b, c) ==
  /\ b.apps = R!GatherApps(c, TRUE) /\ b.stores = R!GatherStores(c)
  /\ b.projs = R!GatherProjects(c)

\* Reading is row by row.
LEMMA GatherRows ==
  ASSUME NEW d
  PROVE  /\ R!GatherProjects(d) = [i \in DOMAIN d.projs |-> ProjectEntry(d.projs[i])]
         /\ R!GatherStores(d) = [i \in DOMAIN d.stores |-> StoreRead(d, i)]
         /\ R!GatherApps(d, TRUE) = [i \in DOMAIN d.apps |->
              [slug |-> d.apps[i].slug, hosts |-> d.apps[i].hosts, primary |-> d.apps[i].primary,
               env |-> d.apps[i].env]]
<1>1. R!GatherProjects(d) = [i \in DOMAIN d.projs |-> ProjectEntry(d.projs[i])]
  BY DEF R!GatherProjects, ProjectEntry, DepSlugs
<1>2. R!GatherStores(d) = [i \in DOMAIN d.stores |-> StoreRead(d, i)]
  BY DEF R!GatherStores, StoreRead, BindsOf, ScopesOf
<1>3. R!GatherApps(d, TRUE) = [i \in DOMAIN d.apps |->
        [slug |-> d.apps[i].slug, hosts |-> d.apps[i].hosts, primary |-> d.apps[i].primary,
         env |-> d.apps[i].env]]
  BY DEF R!GatherApps
<1> QED BY <1>1, <1>2, <1>3

\* The entry of a project.
LEMMA EntryOf ==
  ASSUME NEW p
  PROVE  /\ ProjectEntry(p).slug = p.slug
         /\ DOMAIN ProjectEntry(p).svcs = DOMAIN p.svcs
         /\ \A j \in DOMAIN p.svcs :
              /\ ProjectEntry(p).svcs[j].slug = p.svcs[j].slug
              /\ ProjectEntry(p).svcs[j].hosts = p.svcs[j].hosts
              /\ ProjectEntry(p).svcs[j].deps = DepSlugs(p, j)
BY DEF ProjectEntry

\* The fields of the bundle.
LEMMA BundleRows ==
  ASSUME NEW c, NEW b, BundleOf(b, c)
  PROVE  /\ DOMAIN b.apps = DOMAIN c.apps /\ DOMAIN b.projs = DOMAIN c.projs
         /\ DOMAIN b.stores = DOMAIN c.stores
         /\ \A i \in DOMAIN c.apps :
              /\ b.apps[i].slug = c.apps[i].slug /\ b.apps[i].hosts = c.apps[i].hosts
              /\ b.apps[i].primary = c.apps[i].primary /\ b.apps[i].env = c.apps[i].env
         /\ \A i \in DOMAIN c.projs :
              /\ b.projs[i].slug = c.projs[i].slug
              /\ DOMAIN b.projs[i].svcs = DOMAIN c.projs[i].svcs
              /\ \A j \in DOMAIN c.projs[i].svcs :
                   /\ b.projs[i].svcs[j].slug = c.projs[i].svcs[j].slug
                   /\ b.projs[i].svcs[j].hosts = c.projs[i].svcs[j].hosts
                   /\ b.projs[i].svcs[j].deps = DepSlugs(c.projs[i], j)
         /\ \A i \in DOMAIN c.stores :
              /\ b.stores[i].slug = c.stores[i].slug /\ b.stores[i].kind = c.stores[i].kind
              /\ b.stores[i].port = c.stores[i].port
              /\ b.stores[i].binds = BindsOf(c, c.stores[i].id)
              /\ b.stores[i].pbinds = ScopesOf(c, c.stores[i].id)
<1>1. /\ b.apps = [i \in DOMAIN c.apps |->
           [slug |-> c.apps[i].slug, hosts |-> c.apps[i].hosts, primary |-> c.apps[i].primary,
            env |-> c.apps[i].env]]
      /\ b.projs = [i \in DOMAIN c.projs |-> ProjectEntry(c.projs[i])]
      /\ b.stores = [i \in DOMAIN c.stores |-> StoreRead(c, i)]
  BY GatherRows DEF BundleOf
<1>2. /\ DOMAIN b.apps = DOMAIN c.apps /\ DOMAIN b.projs = DOMAIN c.projs
      /\ DOMAIN b.stores = DOMAIN c.stores
  BY <1>1
<1>3. \A i \in DOMAIN c.apps :
        /\ b.apps[i].slug = c.apps[i].slug /\ b.apps[i].hosts = c.apps[i].hosts
        /\ b.apps[i].primary = c.apps[i].primary /\ b.apps[i].env = c.apps[i].env
  BY <1>1
<1>4. ASSUME NEW i \in DOMAIN c.projs
      PROVE  /\ b.projs[i].slug = c.projs[i].slug
             /\ DOMAIN b.projs[i].svcs = DOMAIN c.projs[i].svcs
             /\ \A j \in DOMAIN c.projs[i].svcs :
                  /\ b.projs[i].svcs[j].slug = c.projs[i].svcs[j].slug
                  /\ b.projs[i].svcs[j].hosts = c.projs[i].svcs[j].hosts
                  /\ b.projs[i].svcs[j].deps = DepSlugs(c.projs[i], j)
  <2>1. b.projs[i] = ProjectEntry(c.projs[i])  BY <1>1
  <2> QED BY <2>1, EntryOf
<1>5. ASSUME NEW i \in DOMAIN c.stores
      PROVE  /\ b.stores[i].slug = c.stores[i].slug /\ b.stores[i].kind = c.stores[i].kind
             /\ b.stores[i].port = c.stores[i].port
             /\ b.stores[i].binds = BindsOf(c, c.stores[i].id)
             /\ b.stores[i].pbinds = ScopesOf(c, c.stores[i].id)
  <2>1. b.stores[i] = StoreRead(c, i)  BY <1>1
  <2> QED BY <2>1 DEF StoreRead
<1> QED BY <1>2, <1>3, <1>4, <1>5

\* The bundle of neat tables is neat, and its bindings are inside.
LEMMA BundleNeat ==
  ASSUME NEW c, NEW n, Tables(c, n), Neat(c), NEW b, Restorable(b), BundleOf(b, c),
         \A x \in c.pbinds : R!Scope(c, x) # {}
  PROVE  NeatBundle(b) /\ BindingsInside(b)
<1>1. NeatApps(b.apps)
  <2>1. NeatApps(c.apps)  BY DEF Neat
  <2> QED BY <2>1, BundleRows DEF NeatApps
<1>2. NeatProjects(b.projs)
  <2>1. NeatProjects(c.projs)  BY DEF Neat
  <2>2. \A i, j \in DOMAIN b.projs : b.projs[i].slug = b.projs[j].slug => i = j
    BY <2>1, BundleRows DEF NeatProjects
  <2>3. ASSUME NEW i \in DOMAIN b.projs, NEW j \in DOMAIN b.projs[i].svcs,
               NEW k \in DOMAIN b.projs[i].svcs
        PROVE  /\ IsSeq(b.projs[i].svcs[j].hosts)
               /\ b.projs[i].svcs[j].slug = b.projs[i].svcs[k].slug => j = k
    <3>1. /\ i \in DOMAIN c.projs /\ j \in DOMAIN c.projs[i].svcs /\ k \in DOMAIN c.projs[i].svcs
          /\ b.projs[i].svcs[j].hosts = c.projs[i].svcs[j].hosts
          /\ b.projs[i].svcs[j].slug = c.projs[i].svcs[j].slug
          /\ b.projs[i].svcs[k].slug = c.projs[i].svcs[k].slug
      BY BundleRows
    <3> QED BY <2>1, <3>1 DEF NeatProjects
  <2>4. ASSUME NEW h \in DOMAIN b.projs, NEW i \in DOMAIN b.projs, h # i,
               NEW j \in DOMAIN b.projs[h].svcs, NEW k \in DOMAIN b.projs[i].svcs
        PROVE  NoSharedHost(b.projs[h].svcs[j].hosts, b.projs[i].svcs[k].hosts)
    <3>1. /\ i \in DOMAIN c.projs /\ h \in DOMAIN c.projs
          /\ j \in DOMAIN c.projs[h].svcs /\ k \in DOMAIN c.projs[i].svcs
          /\ b.projs[h].svcs[j].hosts = c.projs[h].svcs[j].hosts
          /\ b.projs[i].svcs[k].hosts = c.projs[i].svcs[k].hosts
      BY BundleRows
    <3> QED BY <2>1, <2>4, <3>1 DEF NeatProjects
  <2> QED BY <2>2, <2>3, <2>4 DEF NeatProjects
<1>3. DepsInside(b.projs)
  <2>1. SUFFICES ASSUME NEW i \in DOMAIN b.projs, NEW j \in DOMAIN b.projs[i].svcs,
                        NEW s \in b.projs[i].svcs[j].deps
                 PROVE  \E k \in DOMAIN b.projs[i].svcs : b.projs[i].svcs[k].slug = s
    BY DEF DepsInside
  <2>2. i \in DOMAIN c.projs /\ j \in DOMAIN c.projs[i].svcs /\ s \in DepSlugs(c.projs[i], j)
    BY <2>1, BundleRows
  <2>3. PICK t \in R!Range(c.projs[i].svcs) : t.slug = s  BY <2>2 DEF DepSlugs
  <2>4. PICK k \in DOMAIN c.projs[i].svcs : c.projs[i].svcs[k].slug = s
    BY <2>3 DEF R!Range
  <2> QED BY <2>2, <2>4, BundleRows
<1>4. NeatBetween(b.apps, b.projs)
  <2>1. NeatBetween(c.apps, c.projs)  BY DEF Neat
  <2>2. ASSUME NEW i \in DOMAIN b.apps, NEW p \in DOMAIN b.projs, NEW j \in DOMAIN b.projs[p].svcs
        PROVE  NoSharedHost(b.projs[p].svcs[j].hosts, b.apps[i].hosts)
    <3>1. /\ i \in DOMAIN c.apps /\ p \in DOMAIN c.projs /\ j \in DOMAIN c.projs[p].svcs
          /\ b.apps[i].hosts = c.apps[i].hosts
          /\ b.projs[p].svcs[j].hosts = c.projs[p].svcs[j].hosts
      BY BundleRows
    <3> QED BY <2>1, <3>1 DEF NeatBetween
  <2> QED BY <2>2 DEF NeatBetween
<1>5. NeatStores(b.stores)
  <2>1. NeatStores(c.stores)  BY DEF Neat
  <2> QED BY <2>1, BundleRows DEF NeatStores
<1>6. ASSUME NEW i \in DOMAIN b.stores, NEW x \in b.stores[i].binds PROVE BindInside(b, x)
  <2>1. x \in BindsOf(c, c.stores[i].id)  BY BundleRows
  <2>2. PICK y \in c.binds : x = [app |-> R!ById(c.apps, y.app).slug, key |-> y.key]
    BY <2>1 DEF BindsOf
  <2>3. PICK k \in DOMAIN c.apps :
          /\ c.apps[k].id = y.app /\ y.key \in DOMAIN c.apps[k].env
          /\ c.apps[k].env[y.key].sort = Url
    BY DEF Neat, KeyBound
  <2>4. R!ById(c.apps, y.app) = c.apps[k]  BY <2>3, RowAt DEF Tables
  <2>5. x.app = c.apps[k].slug /\ x.key = y.key /\ x = [app |-> x.app, key |-> x.key]
    BY <2>2, <2>4
  <2>6. /\ b.apps[k].slug = x.app /\ x.key \in DOMAIN b.apps[k].env
        /\ b.apps[k].env[x.key].sort = Url /\ k \in DOMAIN b.apps
    BY <2>3, <2>5, BundleRows
  <2> QED BY <2>5, <2>6 DEF BindInside
<1>7. ASSUME NEW i \in DOMAIN b.stores, NEW x \in b.stores[i].pbinds PROVE ScopeInside(b, x)
  <2>1. x \in ScopesOf(c, c.stores[i].id)  BY BundleRows
  <2>2. PICK y \in c.pbinds :
          x = [proj |-> R!ById(c.projs, y.proj).slug, key |-> y.key,
               svcs |-> R!ServiceSlugs(R!ById(c.projs, y.proj), y.svcs)]
    BY <2>1 DEF ScopesOf
  <2>3. PICK k \in DOMAIN c.projs : c.projs[k].id = y.proj
    BY DEF Neat, ScopeBound
  <2>4. R!ById(c.projs, y.proj) = c.projs[k]  BY <2>3, RowAt DEF Tables
  <2>5. PICK slugs : slugs = R!ServiceSlugs(c.projs[k], y.svcs)  OBVIOUS
  <2>6. slugs # {}  BY <2>4, <2>5 DEF R!Scope
  <2>7. x.proj = c.projs[k].slug /\ x.svcs = slugs /\ x = [proj |-> x.proj, key |-> x.key,
                                                          svcs |-> x.svcs]
    BY <2>2, <2>4, <2>5
  <2>8. \A s \in slugs : \E j \in DOMAIN c.projs[k].svcs : c.projs[k].svcs[j].slug = s
    BY <2>5 DEF R!ServiceSlugs, R!Range
  <2>9. k \in DOMAIN b.projs /\ b.projs[k].slug = x.proj  BY <2>7, BundleRows
  <2>10. \A s \in x.svcs : \E j \in DOMAIN b.projs[k].svcs : b.projs[k].svcs[j].slug = s
    BY <2>7, <2>8, BundleRows
  <2> QED BY <2>6, <2>7, <2>9, <2>10 DEF ScopeInside
<1> QED BY <1>1, <1>2, <1>3, <1>4, <1>5, <1>6, <1>7 DEF NeatBundle, BindingsInside

\* The parts of a configuration.
AppConfig(a) == [slug |-> a.slug, hosts |-> R!Range(a.hosts), primary |-> a.primary,
                 env |-> SortsOf(a.env)]
StoreConfig(r) == [slug |-> r.slug, kind |-> r.kind, port |-> r.port]
BindPairs(q) == UNION {{<<e.slug, x>> : x \in e.binds} : e \in R!Range(q)}

\* A configuration, part by part.
LEMMA ConfigParts ==
  ASSUME NEW d
  PROVE  R!Config(d) = [apps |-> {AppConfig(a) : a \in R!Range(d.apps)},
                        projs |-> R!Range(R!GatherProjects(d)),
                        stores |-> {StoreConfig(r) : r \in R!Range(d.stores)},
                        binds |-> BindPairs(R!GatherStores(d)),
                        pbinds |-> {ScopeOf(d.stores, d.projs, x) : x \in d.pbinds}]
BY DEF R!Config, R!Scope, AppConfig, StoreConfig, BindPairs, ScopeOf, SortsOf

\* The bindings of applications come back.
LEMMA BindsRestored ==
  ASSUME NEW b, NeatBundle(b), BindingsInside(b), NEW s, RowsCopied(b, s),
         NEW r, LinksMade(b, s, r), NEW n, Tables(r.db, n),
         NEW i \in DOMAIN b.stores
  PROVE  BindsOf(r.db, r.db.stores[i].id) = b.stores[i].binds
<1>1. PICK id : id = s.db.stores[i].id /\ id = r.db.stores[i].id  BY DEF LinksMade
<1>2. \A c : c \in r.db.binds <=> \E l \in R!Links(s) :
                c = [store |-> l.store.id, app |-> l.app, key |-> l.key]
  BY DEF LinksMade, R!BindRows
<1>3. \A k \in DOMAIN b.apps : R!ById(r.db.apps, s.db.apps[k].id).slug = b.apps[k].slug
  <2>1. TAKE k \in DOMAIN b.apps
  <2>2. k \in DOMAIN r.db.apps /\ r.db.apps[k].id = s.db.apps[k].id
        /\ r.db.apps[k].slug = b.apps[k].slug
    BY DEF LinksMade
  <2>3. R!ById(r.db.apps, r.db.apps[k].id) = r.db.apps[k]  BY <2>2, RowAt DEF Tables
  <2> QED BY <2>2, <2>3
<1>4. ASSUME NEW y \in BindsOf(r.db, id) PROVE y \in b.stores[i].binds
  <2>1. PICK c \in r.db.binds :
          c.store = id /\ y = [app |-> R!ById(r.db.apps, c.app).slug, key |-> c.key]
    BY DEF BindsOf
  <2>2. PICK l \in R!Links(s) : c = [store |-> l.store.id, app |-> l.app, key |-> l.key]
    BY <1>2
  <2>3. PICK j \in DOMAIN b.stores, k \in DOMAIN b.apps : \E x \in b.stores[j].binds :
          /\ b.apps[k].slug = x.app
          /\ l = [store |-> StoreBecame(b.stores[j], s.db.stores[j]),
                  app |-> s.db.apps[k].id, key |-> x.key]
    BY LinkAt
  <2>4. PICK x \in b.stores[j].binds :
          /\ b.apps[k].slug = x.app
          /\ l = [store |-> StoreBecame(b.stores[j], s.db.stores[j]),
                  app |-> s.db.apps[k].id, key |-> x.key]
    BY <2>3
  <2>5. c.store = s.db.stores[j].id /\ c.app = s.db.apps[k].id /\ c.key = x.key
    BY <2>2, <2>4 DEF StoreBecame
  <2>6. i = j
    <3>1. i \in DOMAIN s.db.stores /\ j \in DOMAIN s.db.stores  BY CopyAt
    <3>2. Table("store", s.db.stores, s.next)  BY DEF RowsCopied
    <3> QED BY <1>1, <2>1, <2>5, <3>1, <3>2 DEF Table
  <2>7. y = [app |-> x.app, key |-> x.key]  BY <1>3, <2>1, <2>4, <2>5
  <2>8. BindInside(b, x)  BY DEF BindingsInside
  <2> QED BY <2>6, <2>7, <2>8 DEF BindInside
<1>5. ASSUME NEW x \in b.stores[i].binds PROVE x \in BindsOf(r.db, id)
  <2>1. BindInside(b, x)  BY DEF BindingsInside
  <2>2. PICK k \in DOMAIN b.apps : b.apps[k].slug = x.app  BY <2>1 DEF BindInside
  <2>3. PICK l : l = [store |-> StoreBecame(b.stores[i], s.db.stores[i]),
                      app |-> s.db.apps[k].id, key |-> x.key]
    OBVIOUS
  <2>4. l \in R!Links(s)  BY <2>2, <2>3, LinkAt
  <2>5. PICK c : c = [store |-> l.store.id, app |-> l.app, key |-> l.key]  OBVIOUS
  <2>6. c \in r.db.binds  BY <1>2, <2>4, <2>5
  <2>7. c.store = id /\ c.app = s.db.apps[k].id /\ c.key = x.key
    BY <1>1, <2>3, <2>5 DEF StoreBecame
  <2>8. x = [app |-> R!ById(r.db.apps, c.app).slug, key |-> c.key]
    BY <1>3, <2>1, <2>2, <2>7 DEF BindInside
  <2> QED BY <2>6, <2>7, <2>8 DEF BindsOf
<1> QED BY <1>1, <1>4, <1>5

\* The same entries, row by row.
LEMMA SameEntries ==
  ASSUME NEW q, NEW t, DOMAIN q = DOMAIN t, \A i \in DOMAIN q : q[i] = t[i]
  PROVE  R!Range(q) = R!Range(t)
BY DEF R!Range

\* A project whose services are those of the entry is read as the entry.
LEMMA SameEntry ==
  ASSUME NEW p, NEW c, NEW e, e = ProjectEntry(c), SameProject(p, e)
  PROVE  ProjectEntry(p) = e
<1>1. PICK l : l = [j \in DOMAIN p.svcs |->
         [slug |-> p.svcs[j].slug, hosts |-> p.svcs[j].hosts, deps |-> DepSlugs(p, j)]]
  OBVIOUS
<1>2. PICK t : t = [j \in DOMAIN c.svcs |->
         [slug |-> c.svcs[j].slug, hosts |-> c.svcs[j].hosts, deps |-> DepSlugs(c, j)]]
  OBVIOUS
<1>3. e = [slug |-> c.slug, svcs |-> t] /\ ProjectEntry(p) = [slug |-> p.slug, svcs |-> l]
  BY <1>1, <1>2 DEF ProjectEntry
<1>4. e.slug = c.slug /\ e.svcs = t  BY <1>3
<1>5. p.slug = c.slug /\ DOMAIN p.svcs = DOMAIN t  BY <1>4 DEF SameProject
<1>6. DOMAIN l = DOMAIN t  BY <1>1, <1>5
<1>7. ASSUME NEW j \in DOMAIN t PROVE l[j] = t[j]
  <2>1. p.svcs[j].slug = t[j].slug /\ p.svcs[j].hosts = t[j].hosts /\ DepSlugs(p, j) = t[j].deps
    BY <1>4 DEF SameProject
  <2>2. t[j] = [slug |-> t[j].slug, hosts |-> t[j].hosts, deps |-> t[j].deps]  BY <1>2
  <2>3. l[j] = [slug |-> p.svcs[j].slug, hosts |-> p.svcs[j].hosts, deps |-> DepSlugs(p, j)]
    BY <1>1, <1>5
  <2> QED BY <2>1, <2>2, <2>3
<1>8. l = [j \in DOMAIN l |-> l[j]] /\ t = [j \in DOMAIN t |-> t[j]]  BY <1>1, <1>2
<1>9. l = t  BY <1>6, <1>7, <1>8
<1> QED BY <1>3, <1>5, <1>9

\* A restore on an empty instance brings back the configuration that was exported.
LEMMA ConfigRestored ==
  ASSUME foreign = {}, db = R!Empty, Tables(db, history.next),
         NEW c, NEW n, Tables(c, n), Neat(c), \A x \in c.pbinds : R!Scope(c, x) # {},
         NEW b, Restorable(b), BundleOf(b, c), NEW policy, NEW r, r = R!Restored(policy, b)
  PROVE  R!Config(r.db) = R!Config(c)
<1>1. NeatBundle(b) /\ BindingsInside(b)  BY BundleNeat
<1>2. PICK st : /\ r = R!RestoreBindings(R!RestoreProjectBindings(st))
                /\ BundleCopied(b, st)
  BY <1>1, RestoreCopies
<1>3. PICK pbinds :
         /\ R!RestoreProjectBindings(st) = [st EXCEPT !.db.pbinds = pbinds]
         /\ {ScopeOf(st.db.stores, st.db.projs, x) : x \in pbinds} = BundleScopes(b)
  BY <1>1, <1>2, ScopesRestored
<1>4. PICK s : s = [st EXCEPT !.db.pbinds = pbinds]  OBVIOUS
<1>5. /\ StateShape(s) /\ s.next = st.next /\ s.app = st.app /\ s.proj = st.proj
      /\ s.store = st.store
      /\ s.db = [apps |-> st.db.apps, projs |-> st.db.projs, stores |-> st.db.stores,
                 binds |-> {}, pbinds |-> pbinds]
  <2>1. StateShape(st) /\ RowsCopied(b, st)  BY <1>2 DEF BundleCopied, RowsCopied
  <2>2. st.db = [apps |-> st.db.apps, projs |-> st.db.projs, stores |-> st.db.stores,
                 binds |-> {}, pbinds |-> st.db.pbinds]
    BY <2>1 DEF RowsCopied
  <2>3. PICK d : d = st.db  OBVIOUS
  <2>4. d = [apps |-> d.apps, projs |-> d.projs, stores |-> d.stores, binds |-> {},
             pbinds |-> d.pbinds]
    BY <2>2, <2>3
  <2>5. s = [db |-> [d EXCEPT !.pbinds = pbinds], next |-> st.next, ok |-> st.ok,
             restricted |-> st.restricted, app |-> st.app, proj |-> st.proj,
             store |-> st.store, bound |-> st.bound]
    BY <1>4, <2>1, <2>3 DEF StateShape
  <2>6. [d EXCEPT !.pbinds = pbinds] = [apps |-> d.apps, projs |-> d.projs,
          stores |-> d.stores, binds |-> {}, pbinds |-> pbinds]
    BY <2>4
  <2>7. StateShape(s)  BY <2>5 DEF StateShape
  <2> QED BY <2>3, <2>5, <2>6, <2>7
<1>6. RowsCopied(b, s)
  <2>1. RowsCopied(b, st)  BY <1>2 DEF BundleCopied
  <2>2. AppCopied(b.apps, Len(b.apps), s)  BY <1>5, <2>1 DEF RowsCopied, AppCopied
  <2>3. ProjectCopied(b.projs, Len(b.projs), s)  BY <1>5, <2>1 DEF RowsCopied, ProjectCopied
  <2>4. StoreCopied(b.stores, Len(b.stores), s)  BY <1>5, <2>1 DEF RowsCopied, StoreCopied
  <2> QED BY <1>5, <2>1, <2>2, <2>3, <2>4 DEF RowsCopied
<1>7. LinksMade(b, s, r)
  <2>1. r = R!RestoreBindings(s)  BY <1>2, <1>3, <1>4
  <2> QED BY <1>1, <1>6, <2>1, LinksRestored
<1>8. Tables(r.db, r.next)  BY RestoredFacts
<1>9. R!Range(R!GatherProjects(r.db)) = R!Range(R!GatherProjects(c))
  <2>1. R!GatherProjects(r.db) = [i \in DOMAIN r.db.projs |-> ProjectEntry(r.db.projs[i])]
    BY GatherRows
  <2>2. b.projs = [i \in DOMAIN c.projs |-> ProjectEntry(c.projs[i])]  BY GatherRows DEF BundleOf
  <2>3. r.db.projs = s.db.projs  BY <1>7 DEF LinksMade
  <2>4. DOMAIN r.db.projs = DOMAIN b.projs  BY <1>1, <1>6, <2>3, CopyAt
  <2>5. ASSUME NEW i \in DOMAIN b.projs PROVE ProjectEntry(r.db.projs[i]) = b.projs[i]
    <3>1. SameProject(r.db.projs[i], b.projs[i])  BY <1>1, <1>6, <2>3, CopyAt
    <3>2. b.projs[i] = ProjectEntry(c.projs[i])  BY <2>2
    <3> QED BY <3>1, <3>2, SameEntry
  <2>6. R!Range(R!GatherProjects(r.db)) = R!Range(b.projs)
    BY <2>1, <2>4, <2>5, SameEntries
  <2> QED BY <2>6 DEF BundleOf
<1>10. {AppConfig(a) : a \in R!Range(r.db.apps)} = {AppConfig(a) : a \in R!Range(c.apps)}
  <2>1. DOMAIN r.db.apps = DOMAIN c.apps  BY <1>7, BundleRows DEF LinksMade
  <2>2. ASSUME NEW i \in DOMAIN c.apps PROVE AppConfig(r.db.apps[i]) = AppConfig(c.apps[i])
    <3>1. /\ r.db.apps[i].slug = b.apps[i].slug /\ r.db.apps[i].hosts = b.apps[i].hosts
          /\ r.db.apps[i].primary = b.apps[i].primary
          /\ SortsOf(r.db.apps[i].env) = SortsOf(b.apps[i].env)
      BY <1>7, BundleRows DEF LinksMade
    <3>2. /\ b.apps[i].slug = c.apps[i].slug /\ b.apps[i].hosts = c.apps[i].hosts
          /\ b.apps[i].primary = c.apps[i].primary /\ b.apps[i].env = c.apps[i].env
      BY BundleRows
    <3> QED BY <3>1, <3>2 DEF AppConfig
  <2> QED BY <2>1, <2>2 DEF R!Range
<1>11. r.db.stores = st.db.stores /\ DOMAIN r.db.stores = DOMAIN b.stores
  BY <1>1, <1>5, <1>6, <1>7, CopyAt DEF LinksMade
<1>12. \A i \in DOMAIN b.stores :
         /\ r.db.stores[i].slug = b.stores[i].slug /\ r.db.stores[i].kind = b.stores[i].kind
         /\ r.db.stores[i].port = b.stores[i].port
  <2>1. StoreCopied(b.stores, Len(b.stores), st)  BY <1>2 DEF BundleCopied, RowsCopied
  <2>2. DOMAIN b.stores = 1..Len(b.stores)  BY <1>11, <2>1 DEF StoreCopied
  <2> QED BY <1>11, <2>1, <2>2 DEF StoreCopied
<1>13. {StoreConfig(t) : t \in R!Range(r.db.stores)} = {StoreConfig(t) : t \in R!Range(c.stores)}
  <2>1. DOMAIN r.db.stores = DOMAIN c.stores  BY <1>11, BundleRows
  <2>2. ASSUME NEW i \in DOMAIN c.stores
        PROVE  StoreConfig(r.db.stores[i]) = StoreConfig(c.stores[i])
    BY <1>11, <1>12, <2>1, BundleRows DEF StoreConfig
  <2> QED BY <2>1, <2>2 DEF R!Range
<1>14. BindPairs(R!GatherStores(r.db)) = BindPairs(R!GatherStores(c))
  <2>1. PICK q : q = R!GatherStores(r.db)  OBVIOUS
  <2>2. q = [i \in DOMAIN r.db.stores |-> StoreRead(r.db, i)]  BY <2>1, GatherRows
  <2>3. DOMAIN q = DOMAIN b.stores  BY <1>11, <2>2
  <2>4. ASSUME NEW i \in DOMAIN b.stores
        PROVE  q[i].slug = b.stores[i].slug /\ q[i].binds = b.stores[i].binds
    <3>1. q[i] = StoreRead(r.db, i)  BY <1>11, <2>2
    <3>2. q[i].slug = r.db.stores[i].slug /\ q[i].binds = BindsOf(r.db, r.db.stores[i].id)
      BY <3>1 DEF StoreRead
    <3>3. BindsOf(r.db, r.db.stores[i].id) = b.stores[i].binds
      BY <1>1, <1>6, <1>7, <1>8, BindsRestored
    <3> QED BY <1>12, <3>2, <3>3
  <2>5. \A y : y \in BindPairs(q) <=>
                 \E i \in DOMAIN q : \E x \in q[i].binds : y = <<q[i].slug, x>>
    BY DEF BindPairs, R!Range
  <2>6. \A y : y \in BindPairs(b.stores) <=>
                 \E i \in DOMAIN b.stores : \E x \in b.stores[i].binds : y = <<b.stores[i].slug, x>>
    BY DEF BindPairs, R!Range
  <2>7. ASSUME NEW y \in BindPairs(q) PROVE y \in BindPairs(b.stores)
    <3>1. PICK i \in DOMAIN q : \E x \in q[i].binds : y = <<q[i].slug, x>>  BY <2>5
    <3>2. PICK x \in q[i].binds : y = <<q[i].slug, x>>  BY <3>1
    <3>3. i \in DOMAIN b.stores /\ q[i].slug = b.stores[i].slug /\ q[i].binds = b.stores[i].binds
      BY <2>3, <2>4
    <3>4. x \in b.stores[i].binds /\ y = <<b.stores[i].slug, x>>  BY <3>2, <3>3
    <3> QED BY <2>6, <3>3, <3>4
  <2>8. ASSUME NEW y \in BindPairs(b.stores) PROVE y \in BindPairs(q)
    <3>1. PICK i \in DOMAIN b.stores : \E x \in b.stores[i].binds : y = <<b.stores[i].slug, x>>
      BY <2>6
    <3>2. PICK x \in b.stores[i].binds : y = <<b.stores[i].slug, x>>  BY <3>1
    <3>3. i \in DOMAIN q /\ q[i].slug = b.stores[i].slug /\ q[i].binds = b.stores[i].binds
      BY <2>3, <2>4
    <3>4. x \in q[i].binds /\ y = <<q[i].slug, x>>  BY <3>2, <3>3
    <3> QED BY <2>5, <3>3, <3>4
  <2>9. BindPairs(q) = BindPairs(b.stores)  BY <2>7, <2>8
  <2> QED BY <2>1, <2>9 DEF BundleOf
<1>15. {ScopeOf(r.db.stores, r.db.projs, x) : x \in r.db.pbinds} = BundleScopes(b)
  <2>1. r.db.stores = st.db.stores /\ r.db.projs = st.db.projs /\ r.db.pbinds = pbinds
    BY <1>5, <1>7 DEF LinksMade
  <2> QED BY <1>3, <2>1
<1>16. {ScopeOf(c.stores, c.projs, x) : x \in c.pbinds} = BundleScopes(b)
  <2>1. \A y : y \in BundleScopes(b) <=>
          \E i \in DOMAIN b.stores : \E x \in b.stores[i].pbinds :
            y = <<b.stores[i].slug, x.proj, x.key, x.svcs>>
    BY DEF BundleScopes
  <2>2. ASSUME NEW x \in c.pbinds PROVE ScopeOf(c.stores, c.projs, x) \in BundleScopes(b)
    <3>1. PICK i \in DOMAIN c.stores : c.stores[i].id = x.store
      BY DEF Neat, ScopeBound
    <3>2. R!ById(c.stores, x.store) = c.stores[i]  BY <3>1, RowAt DEF Tables
    <3>3. PICK y : y = [proj |-> R!ById(c.projs, x.proj).slug, key |-> x.key,
                        svcs |-> R!ServiceSlugs(R!ById(c.projs, x.proj), x.svcs)]
      OBVIOUS
    <3>4. y \in ScopesOf(c, c.stores[i].id)  BY <3>1, <3>3 DEF ScopesOf
    <3>5. i \in DOMAIN b.stores /\ y \in b.stores[i].pbinds /\ b.stores[i].slug = c.stores[i].slug
      BY <3>4, BundleRows
    <3>6. ScopeOf(c.stores, c.projs, x) = <<b.stores[i].slug, y.proj, y.key, y.svcs>>
      BY <3>2, <3>3, <3>5 DEF ScopeOf
    <3> QED BY <2>1, <3>5, <3>6
  <2>3. ASSUME NEW y \in BundleScopes(b)
        PROVE  \E x \in c.pbinds : y = ScopeOf(c.stores, c.projs, x)
    <3>1. PICK i \in DOMAIN b.stores : \E x \in b.stores[i].pbinds :
            y = <<b.stores[i].slug, x.proj, x.key, x.svcs>>
      BY <2>1
    <3>2. PICK z \in b.stores[i].pbinds : y = <<b.stores[i].slug, z.proj, z.key, z.svcs>>
      BY <3>1
    <3>3. i \in DOMAIN c.stores /\ z \in ScopesOf(c, c.stores[i].id)
          /\ b.stores[i].slug = c.stores[i].slug
      BY BundleRows
    <3>4. PICK x \in c.pbinds :
            /\ x.store = c.stores[i].id
            /\ z = [proj |-> R!ById(c.projs, x.proj).slug, key |-> x.key,
                    svcs |-> R!ServiceSlugs(R!ById(c.projs, x.proj), x.svcs)]
      BY <3>3 DEF ScopesOf
    <3>5. R!ById(c.stores, x.store) = c.stores[i]  BY <3>3, <3>4, RowAt DEF Tables
    <3>6. /\ z.proj = R!ById(c.projs, x.proj).slug /\ z.key = x.key
          /\ z.svcs = R!ServiceSlugs(R!ById(c.projs, x.proj), x.svcs)
      BY <3>4
    <3>7. y = ScopeOf(c.stores, c.projs, x)  BY <3>2, <3>3, <3>5, <3>6 DEF ScopeOf
    <3> QED BY <3>7
  <2> QED BY <2>2, <2>3
<1> QED BY <1>9, <1>10, <1>13, <1>14, <1>15, <1>16, ConfigParts

-----------------------------------------------------------------------------
(***************************************************************************)
(* Requests leave neat tables neat.                                        *)
(***************************************************************************)
\* The rows of a table with one added.
LEMMA AddedRows ==
  ASSUME NEW tag, NEW rs, NEW n, Table(tag, rs, n), NEW x, NEW t, t = Append(rs, x)
  PROVE  \E m \in DOMAIN t : /\ m \notin DOMAIN rs /\ t[m] = x
                             /\ DOMAIN t = DOMAIN rs \cup {m}
                             /\ \A i \in DOMAIN rs : t[i] = rs[i]
<1>1. IsSeq(rs)  BY DEF Table
<1>2. PICK l \in Nat : l = Len(rs) /\ DOMAIN rs = 1..l  BY <1>1, SeqFacts
<1>3. IsSeq(t) /\ Len(t) = l + 1 /\ (\A i \in 1..l : t[i] = rs[i]) /\ t[l + 1] = x
  BY <1>1, <1>2, AppendFacts
<1>4. DOMAIN t = 1..(l + 1)  BY <1>3, SeqFacts
<1>5. l + 1 \in DOMAIN t /\ l + 1 \notin DOMAIN rs /\ DOMAIN t = DOMAIN rs \cup {l + 1}
  BY <1>2, <1>4
<1> QED BY <1>2, <1>3, <1>5

\* The tables after an application was deleted.
LEMMA AppDeletedFields ==
  ASSUME NEW d, NEW n, Tables(d, n), NEW k, NEW e, e = AppDeleted(d, k)
  PROVE  /\ e.apps = R!RemoveAt(d.apps, k) /\ e.projs = d.projs /\ e.stores = d.stores
         /\ e.binds = {b \in d.binds : b.app # d.apps[k].id} /\ e.pbinds = d.pbinds
<1>1. PICK t : t = R!RemoveAt(d.apps, k)  OBVIOUS
<1>2. PICK u : u = {b \in d.binds : b.app # d.apps[k].id}  OBVIOUS
<1>3. e = [d EXCEPT !.apps = t, !.binds = u]  BY <1>1, <1>2 DEF AppDeleted
<1>4. [d EXCEPT !.apps = t, !.binds = u] =
        [apps |-> t, projs |-> d.projs, stores |-> d.stores, binds |-> u,
         pbinds |-> d.pbinds]
  BY TablesChanged, ZenonT(60)
<1>5. PICK f : /\ f = [apps |-> t, projs |-> d.projs, stores |-> d.stores,
                       binds |-> u, pbinds |-> d.pbinds]
               /\ f = e
  BY <1>3, <1>4, Zenon
<1>6. f.apps = t /\ f.projs = d.projs /\ f.stores = d.stores /\ f.binds = u
      /\ f.pbinds = d.pbinds
  BY <1>5
<1> QED BY <1>1, <1>2, <1>5, <1>6, Zenon

\* A hostname that is asked for is nobody's.
LEMMA FreeHosts ==
  ASSUME NEW hosts, R!Range(hosts) \cap R!UsedHosts = {}
  PROVE  /\ \A i \in DOMAIN db.apps : NoSharedHost(hosts, db.apps[i].hosts)
                                      /\ NoSharedHost(db.apps[i].hosts, hosts)
         /\ \A i \in DOMAIN db.projs : \A k \in DOMAIN db.projs[i].svcs :
              /\ NoSharedHost(hosts, db.projs[i].svcs[k].hosts)
              /\ NoSharedHost(db.projs[i].svcs[k].hosts, hosts)
<1>1. ASSUME NEW i \in DOMAIN db.apps, NEW g \in DOMAIN hosts, NEW h \in DOMAIN db.apps[i].hosts
      PROVE  hosts[g] # db.apps[i].hosts[h]
  <2>1. hosts[g] \in R!Range(hosts) /\ db.apps[i] \in R!Range(db.apps)
        /\ db.apps[i].hosts[h] \in R!Range(db.apps[i].hosts)
    BY DEF R!Range
  <2>2. db.apps[i].hosts[h] \in R!UsedHosts  BY <2>1 DEF R!UsedHosts, R!AppHosts
  <2> QED BY <2>1, <2>2
<1>2. ASSUME NEW i \in DOMAIN db.projs, NEW k \in DOMAIN db.projs[i].svcs,
             NEW g \in DOMAIN hosts, NEW h \in DOMAIN db.projs[i].svcs[k].hosts
      PROVE  hosts[g] # db.projs[i].svcs[k].hosts[h]
  <2>1. hosts[g] \in R!Range(hosts) /\ db.projs[i] \in R!Range(db.projs)
        /\ db.projs[i].svcs[k] \in R!Range(db.projs[i].svcs)
        /\ db.projs[i].svcs[k].hosts[h] \in R!Range(db.projs[i].svcs[k].hosts)
    BY DEF R!Range
  <2>2. db.projs[i].svcs[k].hosts[h] \in R!UsedHosts  BY <2>1 DEF R!UsedHosts, R!ServiceHosts
  <2> QED BY <2>1, <2>2
<1> QED BY <1>1, <1>2 DEF NoSharedHost

\* An application created under hostnames nobody has.
LEMMA CreateAppNeat ==
  ASSUME NEW d, NEW n, Tables(d, n), Neat(d), NEW x,
         \A i \in DOMAIN d.apps : d.apps[i].slug # x.slug,
         IsSeq(x.hosts), x.primary = IF x.hosts = <<>> THEN None ELSE x.hosts[1],
         \A i \in DOMAIN d.apps : /\ NoSharedHost(x.hosts, d.apps[i].hosts)
                                  /\ NoSharedHost(d.apps[i].hosts, x.hosts),
         \A i \in DOMAIN d.projs : \A k \in DOMAIN d.projs[i].svcs :
           NoSharedHost(d.projs[i].svcs[k].hosts, x.hosts),
         NEW e, e = [d EXCEPT !.apps = Append(@, x)]
  PROVE  Neat(e)
<1>1. PICK t : t = Append(d.apps, x)  OBVIOUS
<1>2. /\ e.apps = t /\ e.projs = d.projs /\ e.stores = d.stores
      /\ e.binds = d.binds /\ e.pbinds = d.pbinds
  BY <1>1 DEF Tables
<1>3. PICK m \in DOMAIN t : /\ m \notin DOMAIN d.apps /\ t[m] = x
                            /\ DOMAIN t = DOMAIN d.apps \cup {m}
                            /\ \A i \in DOMAIN d.apps : t[i] = d.apps[i]
  BY <1>1, AddedRows, SMTT(40) DEF Tables
<1>4. NeatApps(t)
  <2>1. NeatApps(d.apps)  BY DEF Neat
  <2>2. ASSUME NEW i \in DOMAIN t, NEW j \in DOMAIN t, t[i].slug = t[j].slug PROVE i = j
    BY <1>3, <2>1, <2>2 DEF NeatApps
  <2>3. ASSUME NEW i \in DOMAIN t
        PROVE  IsSeq(t[i].hosts)
               /\ t[i].primary = IF t[i].hosts = <<>> THEN None ELSE t[i].hosts[1]
    <3>1. CASE i = m  BY <1>3, <3>1
    <3>2. CASE i \in DOMAIN d.apps  BY <1>3, <2>1, <3>2 DEF NeatApps
    <3> QED BY <1>3, <3>1, <3>2
  <2>4. ASSUME NEW i \in DOMAIN t, NEW j \in DOMAIN t, i # j
        PROVE  NoSharedHost(t[i].hosts, t[j].hosts)
    BY <1>3, <2>1, <2>4 DEF NeatApps
  <2> QED BY <2>2, <2>3, <2>4 DEF NeatApps
<1>5. NeatBetween(t, d.projs)
  <2>1. NeatBetween(d.apps, d.projs)  BY DEF Neat
  <2> QED BY <1>3, <2>1 DEF NeatBetween
<1>6. ASSUME NEW b \in d.binds
      PROVE  KeyBound(t, b)
  <2>1. PICK i \in DOMAIN d.apps : /\ d.apps[i].id = b.app /\ b.key \in DOMAIN d.apps[i].env
                                   /\ d.apps[i].env[b.key].sort = Url
    BY DEF Neat, KeyBound
  <2> QED BY <1>3, <2>1 DEF KeyBound
<1> QED BY <1>2, <1>4, <1>5, <1>6, Zenon DEF Neat

\* An application deleted, and its bindings.
LEMMA DeleteAppNeat ==
  ASSUME NEW d, NEW n, Tables(d, n), Neat(d), NEW i \in DOMAIN d.apps,
         NEW e, e = AppDeleted(d, i)
  PROVE  Neat(e)
<1>1. PICK t : t = R!RemoveAt(d.apps, i)  OBVIOUS
<1>2. PICK u : u = {b \in d.binds : b.app # d.apps[i].id}  OBVIOUS
<1>3. /\ e.apps = t /\ e.projs = d.projs /\ e.stores = d.stores
      /\ e.binds = u /\ e.pbinds = d.pbinds
  <2>1. /\ e.apps = R!RemoveAt(d.apps, i) /\ e.projs = d.projs /\ e.stores = d.stores
        /\ e.binds = {b \in d.binds : b.app # d.apps[i].id} /\ e.pbinds = d.pbinds
    BY AppDeletedFields
  <2> QED BY <1>1, <1>2, <2>1
<1>4. /\ Table("app", t, n)
      /\ \A k \in DOMAIN t : \E j \in DOMAIN d.apps : j # i /\ t[k] = d.apps[j]
      /\ \A j \in DOMAIN d.apps : j # i => \E k \in DOMAIN t : t[k] = d.apps[j]
  BY <1>1, RowRemoved DEF Tables
<1>5. NeatApps(d.apps)  BY DEF Neat
<1>6. ASSUME NEW k \in DOMAIN t, NEW l \in DOMAIN t, t[k] = t[l] PROVE k = l
  BY <1>4, <1>6 DEF Table
<1>7. NeatApps(t)
  <2>1. ASSUME NEW k \in DOMAIN t, NEW l \in DOMAIN t, t[k].slug = t[l].slug PROVE k = l
    <3>1. PICK x \in DOMAIN d.apps : t[k] = d.apps[x]  BY <1>4
    <3>2. PICK y \in DOMAIN d.apps : t[l] = d.apps[y]  BY <1>4
    <3>3. x = y  BY <1>5, <2>1, <3>1, <3>2 DEF NeatApps
    <3> QED BY <1>6, <3>1, <3>2, <3>3
  <2>2. \A k \in DOMAIN t :
          IsSeq(t[k].hosts) /\ t[k].primary = IF t[k].hosts = <<>> THEN None ELSE t[k].hosts[1]
    <3> SUFFICES ASSUME NEW k \in DOMAIN t
                 PROVE  IsSeq(t[k].hosts)
                        /\ t[k].primary = IF t[k].hosts = <<>> THEN None ELSE t[k].hosts[1]
      OBVIOUS
    <3>1. PICK x \in DOMAIN d.apps : t[k] = d.apps[x]  BY <1>4
    <3> QED BY <1>5, <3>1 DEF NeatApps
  <2>3. ASSUME NEW k \in DOMAIN t, NEW l \in DOMAIN t, k # l
        PROVE  NoSharedHost(t[k].hosts, t[l].hosts)
    <3>1. PICK x \in DOMAIN d.apps : t[k] = d.apps[x]  BY <1>4
    <3>2. PICK y \in DOMAIN d.apps : t[l] = d.apps[y]  BY <1>4
    <3>3. x # y  BY <1>6, <2>3, <3>1, <3>2
    <3> QED BY <1>5, <3>1, <3>2, <3>3 DEF NeatApps
  <2> QED BY <2>1, <2>2, <2>3 DEF NeatApps
<1>8. NeatBetween(t, d.projs)
  <2>1. NeatBetween(d.apps, d.projs)  BY DEF Neat
  <2>2. ASSUME NEW k \in DOMAIN t, NEW p \in DOMAIN d.projs, NEW j \in DOMAIN d.projs[p].svcs
        PROVE  NoSharedHost(d.projs[p].svcs[j].hosts, t[k].hosts)
    <3>1. PICK x \in DOMAIN d.apps : t[k] = d.apps[x]  BY <1>4
    <3> QED BY <2>1, <3>1 DEF NeatBetween
  <2> QED BY <2>2 DEF NeatBetween
<1>9. ASSUME NEW b \in u
      PROVE  KeyBound(t, b)
  <2>1. b \in d.binds /\ b.app # d.apps[i].id  BY <1>2
  <2>2. PICK j \in DOMAIN d.apps : /\ d.apps[j].id = b.app /\ b.key \in DOMAIN d.apps[j].env
                                   /\ d.apps[j].env[b.key].sort = Url
    BY <2>1 DEF Neat, KeyBound
  <2>3. j # i  BY <2>1, <2>2
  <2> QED BY <1>4, <2>2, <2>3 DEF KeyBound
<1> QED BY <1>3, <1>7, <1>8, <1>9, Zenon DEF Neat

\* A project created, its services under hostnames nobody has.
LEMMA CreateProjectNeat ==
  ASSUME NEW d, NEW n, Tables(d, n), Neat(d), NEW x,
         \A i \in DOMAIN d.projs : d.projs[i].slug # x.slug,
         \A j, k \in DOMAIN x.svcs : /\ IsSeq(x.svcs[j].hosts)
                                     /\ x.svcs[j].slug = x.svcs[k].slug => j = k,
         \A i \in DOMAIN d.projs : \A j \in DOMAIN x.svcs, k \in DOMAIN d.projs[i].svcs :
           /\ NoSharedHost(x.svcs[j].hosts, d.projs[i].svcs[k].hosts)
           /\ NoSharedHost(d.projs[i].svcs[k].hosts, x.svcs[j].hosts),
         \A i \in DOMAIN d.apps : \A j \in DOMAIN x.svcs :
           NoSharedHost(x.svcs[j].hosts, d.apps[i].hosts),
         NEW e, e = [d EXCEPT !.projs = Append(@, x)]
  PROVE  Neat(e)
<1>1. PICK t : t = Append(d.projs, x)  OBVIOUS
<1>2. /\ e.apps = d.apps /\ e.projs = t /\ e.stores = d.stores
      /\ e.binds = d.binds /\ e.pbinds = d.pbinds
  BY <1>1 DEF Tables
<1>3. PICK m \in DOMAIN t : /\ m \notin DOMAIN d.projs /\ t[m] = x
                            /\ DOMAIN t = DOMAIN d.projs \cup {m}
                            /\ \A i \in DOMAIN d.projs : t[i] = d.projs[i]
  BY <1>1, AddedRows, SMTT(40) DEF Tables
<1>4. NeatProjects(t)
  <2>1. NeatProjects(d.projs)  BY DEF Neat
  <2>2. ASSUME NEW i \in DOMAIN t, NEW j \in DOMAIN t, t[i].slug = t[j].slug PROVE i = j
    BY <1>3, <2>1, <2>2 DEF NeatProjects
  <2>3. ASSUME NEW i \in DOMAIN t, NEW j \in DOMAIN t[i].svcs, NEW k \in DOMAIN t[i].svcs
        PROVE  /\ IsSeq(t[i].svcs[j].hosts)
               /\ t[i].svcs[j].slug = t[i].svcs[k].slug => j = k
    <3>1. CASE i = m  BY <1>3, <3>1
    <3>2. CASE i \in DOMAIN d.projs  BY <1>3, <2>1, <3>2 DEF NeatProjects
    <3> QED BY <1>3, <3>1, <3>2
  <2>4. ASSUME NEW h \in DOMAIN t, NEW i \in DOMAIN t, h # i,
               NEW j \in DOMAIN t[h].svcs, NEW k \in DOMAIN t[i].svcs
        PROVE  NoSharedHost(t[h].svcs[j].hosts, t[i].svcs[k].hosts)
    <3>1. CASE h = m  BY <1>3, <2>4, <3>1
    <3>2. CASE i = m  BY <1>3, <2>4, <3>2
    <3>3. CASE h # m /\ i # m
      <4>1. /\ h \in DOMAIN d.projs /\ i \in DOMAIN d.projs
            /\ t[h] = d.projs[h] /\ t[i] = d.projs[i]
        BY <1>3, <3>3
      <4>2. j \in DOMAIN d.projs[h].svcs /\ k \in DOMAIN d.projs[i].svcs  BY <4>1
      <4> QED BY <2>1, <2>4, <4>1, <4>2 DEF NeatProjects
    <3> QED BY <3>1, <3>2, <3>3
  <2> QED BY <2>2, <2>3, <2>4 DEF NeatProjects
<1>5. NeatBetween(d.apps, t)
  <2>1. NeatBetween(d.apps, d.projs)  BY DEF Neat
  <2>2. ASSUME NEW i \in DOMAIN d.apps, NEW p \in DOMAIN t, NEW j \in DOMAIN t[p].svcs
        PROVE  NoSharedHost(t[p].svcs[j].hosts, d.apps[i].hosts)
    <3>1. CASE p = m  BY <1>3, <3>1
    <3>2. CASE p \in DOMAIN d.projs  BY <1>3, <2>1, <3>2 DEF NeatBetween
    <3> QED BY <1>3, <3>1, <3>2
  <2> QED BY <2>2 DEF NeatBetween
<1>6. \A b \in d.pbinds : ScopeBound(d.stores, t, b)
  BY <1>3 DEF Neat, ScopeBound
<1> QED BY <1>2, <1>4, <1>5, <1>6, Zenon DEF Neat

ServiceDeleted(p, j) == [p EXCEPT !.svcs = R!RemoveAt(@, j)]

\* A service deleted.
LEMMA DeleteServiceNeat ==
  ASSUME NEW d, NEW n, Tables(d, n), Neat(d), NEW p \in R!Range(d.projs), NEW j \in DOMAIN p.svcs,
         NEW x, x = ServiceDeleted(p, j),
         NEW e, e = [d EXCEPT !.projs = R!Replace(@, x)]
  PROVE  Neat(e)
<1>1. PICK t : t = R!Replace(d.projs, x)  OBVIOUS
<1>2. /\ e.apps = d.apps /\ e.projs = t /\ e.stores = d.stores
      /\ e.binds = d.binds /\ e.pbinds = d.pbinds
  BY <1>1 DEF Tables
<1>3. Table("project", d.projs, n) /\ n \in Nat /\ n <= n  BY DEF Tables, Table
<1>4. Row("project", p, n) /\ \E i \in DOMAIN d.projs : p = d.projs[i]  BY <1>3, RowAt
<1>5. p = [id |-> p.id, slug |-> p.slug, svcs |-> p.svcs] /\ IsSeq(p.svcs)
      /\ p.id \in Nat /\ p.id < n
  BY <1>4 DEF Row, ProjectShape
<1>6. PICK q : q = R!RemoveAt(p.svcs, j)  OBVIOUS
<1>7. x = [id |-> p.id, slug |-> p.slug, svcs |-> q]  BY <1>5, <1>6 DEF ServiceDeleted
<1>8. PICK l \in Nat : l = Len(p.svcs) /\ DOMAIN p.svcs = 1..l  BY <1>5, SeqFacts
<1>9. IsSeq(q) /\ Len(q) = l - 1
      /\ \A i \in 1..(l - 1) : q[i] = p.svcs[IF i < j THEN i ELSE i + 1]
  BY <1>5, <1>6, <1>8, RemoveFacts
<1>10. DOMAIN q = 1..(l - 1)  BY <1>9, SeqFacts
<1>11. ASSUME NEW g \in DOMAIN q, NEW k \in DOMAIN q
       PROVE  \E a, b \in DOMAIN p.svcs : /\ q[g] = p.svcs[a] /\ q[k] = p.svcs[b]
                                          /\ a = b => g = k
  <2>1. PICK a : a = (IF g < j THEN g ELSE g + 1)  OBVIOUS
  <2>2. PICK b : b = (IF k < j THEN k ELSE k + 1)  OBVIOUS
  <2>3. g \in Nat /\ k \in Nat /\ j \in Nat /\ l - 1 \in Int /\ g <= l - 1 /\ k <= l - 1
        /\ 1 <= g /\ 1 <= k
    BY <1>8, <1>10
  <2>5. a \in 1..l /\ b \in 1..l  BY <1>8, <2>1, <2>2, <2>3
  <2>6. a = b => g = k  BY <2>1, <2>2, <2>3
  <2>4. q[g] = p.svcs[a] /\ q[k] = p.svcs[b]  BY <1>9, <1>10, <2>1, <2>2
  <2> QED BY <1>8, <2>5, <2>6, <2>4
<1>12. DOMAIN t = DOMAIN d.projs
       /\ \A i \in DOMAIN d.projs : t[i] = IF d.projs[i].id = x.id THEN x ELSE d.projs[i]
  <2>1. ProjectShape(x)
    <3>1. ASSUME NEW i \in DOMAIN q
          PROVE  q[i] = [id |-> q[i].id, slug |-> q[i].slug, hosts |-> q[i].hosts,
                         deps |-> q[i].deps]
      <4>1. PICK a \in DOMAIN p.svcs : q[i] = p.svcs[a]  BY <1>11
      <4>2. p.svcs[a] = [id |-> p.svcs[a].id, slug |-> p.svcs[a].slug,
                         hosts |-> p.svcs[a].hosts, deps |-> p.svcs[a].deps]
        BY <1>4 DEF Row, ProjectShape
      <4> QED BY <4>1, <4>2
    <3>2. x = [id |-> x.id, slug |-> x.slug, svcs |-> x.svcs] /\ x.svcs = q  BY <1>7
    <3> QED BY <1>9, <3>1, <3>2 DEF ProjectShape
  <2>2. x.id = p.id  BY <1>7
  <2>3. Row("project", x, n)  BY <1>5, <2>1, <2>2 DEF Row
  <2> QED BY <1>1, <1>3, <2>3, RowReplaced
<1>13. ASSUME NEW i \in DOMAIN d.projs
       PROVE  /\ t[i].slug = d.projs[i].slug /\ t[i].id = d.projs[i].id
              /\ \A g, k \in DOMAIN t[i].svcs : \E a, b \in DOMAIN d.projs[i].svcs :
                   /\ t[i].svcs[g] = d.projs[i].svcs[a] /\ t[i].svcs[k] = d.projs[i].svcs[b]
                   /\ a = b => g = k
  <2>1. CASE d.projs[i].id # x.id
    <3>1. t[i] = d.projs[i]  BY <1>12, <2>1
    <3> QED BY <3>1
  <2>2. CASE d.projs[i].id = x.id
    <3>1. d.projs[i] = p  BY <1>3, <1>4, <1>7, <2>2 DEF Table
    <3>2. t[i] = x  BY <1>12, <2>2
    <3>3. t[i].slug = p.slug /\ t[i].id = p.id /\ t[i].svcs = q  BY <1>7, <3>2
    <3> QED BY <1>11, <3>1, <3>3
  <2> QED BY <2>1, <2>2
<1>14. NeatProjects(t)
  <2>1. NeatProjects(d.projs)  BY DEF Neat
  <2>2. \A h, i \in DOMAIN t : t[h].slug = t[i].slug => h = i
    BY <1>12, <1>13, <2>1 DEF NeatProjects
  <2>3. ASSUME NEW i \in DOMAIN t, NEW g \in DOMAIN t[i].svcs, NEW k \in DOMAIN t[i].svcs
        PROVE  /\ IsSeq(t[i].svcs[g].hosts)
               /\ t[i].svcs[g].slug = t[i].svcs[k].slug => g = k
    <3>1. i \in DOMAIN d.projs  BY <1>12
    <3>2. PICK a, b \in DOMAIN d.projs[i].svcs :
            /\ t[i].svcs[g] = d.projs[i].svcs[a] /\ t[i].svcs[k] = d.projs[i].svcs[b]
            /\ a = b => g = k
      BY <1>13, <3>1
    <3> QED BY <2>1, <3>1, <3>2 DEF NeatProjects
  <2>4. ASSUME NEW h \in DOMAIN t, NEW i \in DOMAIN t, h # i,
               NEW g \in DOMAIN t[h].svcs, NEW k \in DOMAIN t[i].svcs
        PROVE  NoSharedHost(t[h].svcs[g].hosts, t[i].svcs[k].hosts)
    <3>1. i \in DOMAIN d.projs /\ h \in DOMAIN d.projs  BY <1>12
    <3>2. PICK a \in DOMAIN d.projs[h].svcs : t[h].svcs[g] = d.projs[h].svcs[a]  BY <1>13, <3>1
    <3>3. PICK b \in DOMAIN d.projs[i].svcs : t[i].svcs[k] = d.projs[i].svcs[b]  BY <1>13, <3>1
    <3> QED BY <2>1, <2>4, <3>1, <3>2, <3>3 DEF NeatProjects
  <2> QED BY <2>2, <2>3, <2>4 DEF NeatProjects
<1>15. NeatBetween(d.apps, t)
  <2>1. NeatBetween(d.apps, d.projs)  BY DEF Neat
  <2>2. ASSUME NEW i \in DOMAIN d.apps, NEW h \in DOMAIN t, NEW g \in DOMAIN t[h].svcs
        PROVE  NoSharedHost(t[h].svcs[g].hosts, d.apps[i].hosts)
    <3>1. h \in DOMAIN d.projs  BY <1>12
    <3>2. PICK a \in DOMAIN d.projs[h].svcs : t[h].svcs[g] = d.projs[h].svcs[a]  BY <1>13, <3>1
    <3> QED BY <2>1, <3>1, <3>2 DEF NeatBetween
  <2> QED BY <2>2 DEF NeatBetween
<1>16. \A b \in d.pbinds : ScopeBound(d.stores, t, b)
  BY <1>12, <1>13 DEF Neat, ScopeBound
<1> QED BY <1>2, <1>14, <1>15, <1>16, Zenon DEF Neat

\* A datastore created.
LEMMA CreateStoreNeat ==
  ASSUME NEW d, NEW n, Tables(d, n), Neat(d), NEW x,
         \A i \in DOMAIN d.stores : /\ d.stores[i].slug # x.slug
                                    /\ x.port # None => d.stores[i].port # x.port,
         NEW e, e = [d EXCEPT !.stores = Append(@, x)]
  PROVE  Neat(e)
<1>1. PICK t : t = Append(d.stores, x)  OBVIOUS
<1>2. /\ e.apps = d.apps /\ e.projs = d.projs /\ e.stores = t
      /\ e.binds = d.binds /\ e.pbinds = d.pbinds
  BY <1>1 DEF Tables
<1>3. PICK m \in DOMAIN t : /\ m \notin DOMAIN d.stores /\ t[m] = x
                            /\ DOMAIN t = DOMAIN d.stores \cup {m}
                            /\ \A i \in DOMAIN d.stores : t[i] = d.stores[i]
  BY <1>1, AddedRows DEF Tables
<1>4. NeatStores(t)
  <2>1. NeatStores(d.stores)  BY DEF Neat
  <2>2. ASSUME NEW i \in DOMAIN t, NEW j \in DOMAIN t,
               t[i].slug = t[j].slug \/ (t[i].port = t[j].port /\ t[i].port # None)
        PROVE  i = j
    <3>1. CASE i = m /\ j = m  BY <3>1
    <3>2. CASE i = m /\ j \in DOMAIN d.stores  BY <1>3, <2>2, <3>2
    <3>3. CASE j = m /\ i \in DOMAIN d.stores  BY <1>3, <2>2, <3>3
    <3>4. CASE i \in DOMAIN d.stores /\ j \in DOMAIN d.stores
      <4>1. t[i] = d.stores[i] /\ t[j] = d.stores[j]  BY <1>3, <3>4
      <4> QED BY <2>1, <2>2, <3>4, <4>1 DEF NeatStores
    <3> QED BY <1>3, <3>1, <3>2, <3>3, <3>4
  <2> QED BY <2>2 DEF NeatStores
<1>5. \A b \in d.pbinds : ScopeBound(t, d.projs, b)  BY <1>3 DEF Neat, ScopeBound
<1> QED BY <1>2, <1>4, <1>5, Zenon DEF Neat

\* A datastore without bindings deleted.
LEMMA DeleteStoreNeat ==
  ASSUME NEW d, NEW n, Tables(d, n), Neat(d), NEW i \in DOMAIN d.stores,
         \A b \in d.binds \cup d.pbinds : b.store # d.stores[i].id,
         NEW e, e = [d EXCEPT !.stores = R!RemoveAt(@, i)]
  PROVE  Neat(e)
<1>1. PICK t : t = R!RemoveAt(d.stores, i)  OBVIOUS
<1>2. /\ e.apps = d.apps /\ e.projs = d.projs /\ e.stores = t
      /\ e.binds = d.binds /\ e.pbinds = d.pbinds
  BY <1>1 DEF Tables
<1>3. /\ Table("store", t, n)
      /\ \A k \in DOMAIN t : \E j \in DOMAIN d.stores : j # i /\ t[k] = d.stores[j]
      /\ \A j \in DOMAIN d.stores : j # i => \E k \in DOMAIN t : t[k] = d.stores[j]
  BY <1>1, RowRemoved DEF Tables
<1>4. NeatStores(t)
  <2>1. NeatStores(d.stores)  BY DEF Neat
  <2>2. ASSUME NEW k \in DOMAIN t, NEW l \in DOMAIN t,
               t[k].slug = t[l].slug \/ (t[k].port = t[l].port /\ t[k].port # None)
        PROVE  k = l
    <3>1. PICK x \in DOMAIN d.stores : t[k] = d.stores[x]  BY <1>3
    <3>2. PICK y \in DOMAIN d.stores : t[l] = d.stores[y]  BY <1>3
    <3>3. x = y  BY <2>1, <2>2, <3>1, <3>2 DEF NeatStores
    <3> QED BY <1>3, <3>1, <3>2, <3>3 DEF Table
  <2> QED BY <2>2 DEF NeatStores
<1>5. ASSUME NEW b \in d.pbinds PROVE ScopeBound(t, d.projs, b)
  <2>1. PICK j \in DOMAIN d.stores : d.stores[j].id = b.store  BY DEF Neat, ScopeBound
  <2>2. j # i  BY <2>1
  <2>3. \E k \in DOMAIN t : t[k].id = b.store  BY <1>3, <2>1, <2>2
  <2> QED BY <2>3 DEF Neat, ScopeBound
<1> QED BY <1>2, <1>4, <1>5, Zenon DEF Neat

\* The tables after an application was bound.
LEMMA AppBoundFields ==
  ASSUME NEW d, NEW n, Tables(d, n), NEW b, NEW x, NEW e, e = AppBound(d, b, x)
  PROVE  /\ e.apps = R!Replace(d.apps, x) /\ e.projs = d.projs /\ e.stores = d.stores
         /\ e.binds = d.binds \cup {b} /\ e.pbinds = d.pbinds
<1>1. PICK t : t = R!Replace(d.apps, x)  OBVIOUS
<1>2. PICK u : u = d.binds \cup {b}  OBVIOUS
<1>3. e = [d EXCEPT !.binds = u, !.apps = t]  BY <1>1, <1>2 DEF AppBound
<1>4. [d EXCEPT !.binds = u, !.apps = t] =
        [apps |-> t, projs |-> d.projs, stores |-> d.stores, binds |-> u,
         pbinds |-> d.pbinds]
  BY TablesChanged, ZenonT(60)
<1>5. PICK f : /\ f = [apps |-> t, projs |-> d.projs, stores |-> d.stores,
                       binds |-> u, pbinds |-> d.pbinds]
               /\ f = e
  BY <1>3, <1>4, Zenon
<1>6. f.apps = t /\ f.projs = d.projs /\ f.stores = d.stores /\ f.binds = u
      /\ f.pbinds = d.pbinds
  BY <1>5
<1> QED BY <1>1, <1>2, <1>5, <1>6, Zenon

EnvChanged(a, env) == [a EXCEPT !.env = env]

\* An application bound to a datastore.
LEMMA BindNeat ==
  ASSUME NEW d, NEW n, Tables(d, n), Neat(d), NEW a \in R!Range(d.apps),
         NEW key, key \notin DOMAIN a.env, NEW env, IsMap(env),
         key \in DOMAIN env, env[key].sort = Url,
         \A k \in DOMAIN a.env : k \in DOMAIN env /\ env[k] = a.env[k],
         NEW x, x = EnvChanged(a, env),
         NEW b, b.app = a.id, b.key = key, NEW e, e = AppBound(d, b, x)
  PROVE  Neat(e)
<1>1. PICK t : t = R!Replace(d.apps, x)  OBVIOUS
<1>2. /\ e.apps = t /\ e.projs = d.projs /\ e.stores = d.stores
      /\ e.binds = d.binds \cup {b} /\ e.pbinds = d.pbinds
  <2>1. /\ e.apps = R!Replace(d.apps, x) /\ e.projs = d.projs /\ e.stores = d.stores
        /\ e.binds = d.binds \cup {b} /\ e.pbinds = d.pbinds
    BY AppBoundFields
  <2> QED BY <1>1, <2>1
<1>3. Table("app", d.apps, n) /\ n \in Nat /\ n <= n  BY DEF Tables, Table
<1>4. Row("app", a, n) /\ \E i \in DOMAIN d.apps : a = d.apps[i]  BY <1>3, RowAt
<1>5. PICK m \in DOMAIN d.apps : a = d.apps[m]  BY <1>4
<1>6. a = [id |-> a.id, slug |-> a.slug, hosts |-> a.hosts, env |-> a.env,
           primary |-> a.primary]
  BY <1>4 DEF Row, AppShape
<1>7. x = [id |-> a.id, slug |-> a.slug, hosts |-> a.hosts, env |-> env,
           primary |-> a.primary]
  BY <1>6 DEF EnvChanged
<1>8. Row("app", x, n)  BY <1>4, <1>7 DEF Row, AppShape
<1>9. DOMAIN t = DOMAIN d.apps
      /\ \A i \in DOMAIN d.apps : t[i] = IF d.apps[i].id = x.id THEN x ELSE d.apps[i]
  BY <1>1, <1>3, <1>8, RowReplaced
<1>10. \A i \in DOMAIN d.apps : d.apps[i].id = x.id => d.apps[i] = a
  BY <1>3, <1>5, <1>7 DEF Table
<1>11. ASSUME NEW i \in DOMAIN d.apps
       PROVE  /\ t[i].id = d.apps[i].id /\ t[i].slug = d.apps[i].slug
              /\ t[i].hosts = d.apps[i].hosts /\ t[i].primary = d.apps[i].primary
              /\ \A k \in DOMAIN d.apps[i].env : /\ k \in DOMAIN t[i].env
                                                 /\ t[i].env[k] = d.apps[i].env[k]
  <2>1. CASE d.apps[i].id = x.id
    <3>1. t[i] = x /\ d.apps[i] = a  BY <1>9, <1>10, <2>1
    <3>2. x.id = a.id /\ x.slug = a.slug /\ x.hosts = a.hosts /\ x.primary = a.primary
          /\ x.env = env
      BY <1>7
    <3> QED BY <3>1, <3>2
  <2>2. CASE d.apps[i].id # x.id
    <3>1. t[i] = d.apps[i]  BY <1>9, <2>2
    <3> QED BY <3>1
  <2> QED BY <2>1, <2>2
<1>12. NeatApps(t)
  <2>1. NeatApps(d.apps)  BY DEF Neat
  <2> QED BY <1>9, <1>11, <2>1 DEF NeatApps
<1>13. NeatBetween(t, d.projs)
  <2>1. NeatBetween(d.apps, d.projs)  BY DEF Neat
  <2> QED BY <1>9, <1>11, <2>1 DEF NeatBetween
<1>14. ASSUME NEW c \in d.binds PROVE KeyBound(t, c)
  <2>1. PICK i \in DOMAIN d.apps : /\ d.apps[i].id = c.app /\ c.key \in DOMAIN d.apps[i].env
                                   /\ d.apps[i].env[c.key].sort = Url
    BY DEF Neat, KeyBound
  <2>2. t[i].id = c.app /\ c.key \in DOMAIN t[i].env /\ t[i].env[c.key].sort = Url
    BY <1>11, <2>1
  <2> QED BY <1>9, <2>2 DEF KeyBound
<1>15. KeyBound(t, b)
  <2>1. x.id = a.id /\ x.env = env  BY <1>7
  <2>2. t[m] = x /\ m \in DOMAIN t  BY <1>5, <1>9, <2>1
  <2> QED BY <2>1, <2>2 DEF KeyBound
<1>16. \A c \in d.binds \cup {b} : KeyBound(t, c)  BY <1>14, <1>15
<1> QED BY <1>2, <1>12, <1>13, <1>16, Zenon DEF Neat

\* A project bound to a datastore.
LEMMA BindProjectNeat ==
  ASSUME NEW d, NEW n, Tables(d, n), Neat(d), NEW p \in R!Range(d.projs),
         NEW r \in R!Range(d.stores), NEW ids, NEW key, NEW b,
         b = [store |-> r.id, proj |-> p.id, svcs |-> ids, key |-> key],
         NEW e, e = [d EXCEPT !.pbinds = @ \cup {b}]
  PROVE  Neat(e)
<1>1. PICK u : u = d.pbinds \cup {b}  OBVIOUS
<1>2. /\ e.apps = d.apps /\ e.projs = d.projs /\ e.stores = d.stores
      /\ e.binds = d.binds /\ e.pbinds = u
  BY <1>1 DEF Tables
<1>3. (\E i \in DOMAIN d.stores : r = d.stores[i]) /\ \E i \in DOMAIN d.projs : p = d.projs[i]
  BY RowAt DEF Tables
<1>4. b.store = r.id /\ b.proj = p.id  OBVIOUS
<1>5. ScopeBound(d.stores, d.projs, b)  BY <1>3, <1>4 DEF ScopeBound
<1>6. \A c \in u : ScopeBound(d.stores, d.projs, c)  BY <1>1, <1>5 DEF Neat
<1> QED BY <1>2, <1>6, Zenon DEF Neat

-----------------------------------------------------------------------------
(***************************************************************************)
(* An export that no request came between, and what a restore makes of it. *)
(***************************************************************************)
\* The bundle is of one configuration, unless a request came between two reads.
ReadOnce(d, b) ==
  /\ b.pc # "full" => Neat(d)
  /\ b.pc # "none" /\ ~b.torn =>
       /\ \E n : Tables(b.config, n)
       /\ Neat(b.config)
       /\ b.apps = R!GatherApps(b.config, b.secrets)
       /\ b.pc # "apps" => b.stores = R!GatherStores(b.config)
       /\ b.pc = "full" => b.projs = R!GatherProjects(b.config)
       /\ b.pc # "full" => d = b.config

ComesBack(d, b, last, f) ==
  (/\ last.policy # None /\ last.of = R!Empty /\ ~b.torn /\ b.secrets /\ f = {}
   /\ \A x \in b.config.pbinds : R!Scope(b.config, x) # {})
    => R!Config(d) = R!Config(b.config)

RoundState(d, b, h, f) == ReadOnce(d, b) /\ ComesBack(d, b, h.last, f)

\* A request of another administrator.
LEMMA EditRound ==
  ASSUME NEW d, NEW b, BundleShape(b), ReadOnce(d, b), NEW e, Neat(d) => Neat(e),
         NEW c, c = Torn(b)
  PROVE  ReadOnce(e, c)
<1>1. /\ c.pc = b.pc /\ c.apps = b.apps /\ c.projs = b.projs /\ c.stores = b.stores
      /\ c.secrets = b.secrets /\ c.config = b.config
      /\ ~c.torn => ~b.torn /\ b.pc \notin {"apps", "stores"}
  BY DEF BundleShape, Torn
<1>2. b.pc # "full" => Neat(e)  BY DEF ReadOnce
<1>3. ASSUME ~c.torn, b.pc # "none"
      PROVE  ~b.torn /\ b.pc = "full"
  BY <1>1, <1>3 DEF BundleShape
<1> QED BY <1>1, <1>2, <1>3 DEF ReadOnce

\* A request of another administrator, in the state.
LEMMA EditKeepsRound ==
  ASSUME RestoreState(db, bundle, history), RoundState(db, bundle, history, foreign),
         NEW e, Neat(db) => Neat(e), R!Edit(e)
  PROVE  RoundState(db', bundle', history', foreign')
<1>1. PICK c : c = Torn(bundle)  OBVIOUS
<1>2. PICK k : k = Edited(history)  OBVIOUS
<1>3. db' = e /\ bundle' = c /\ history' = k  BY <1>1, <1>2 DEF R!Edit, Torn, Edited
<1>4. PICK d, b, h : d = db /\ b = bundle /\ h = history  OBVIOUS
<1>5. c = Torn(b) /\ BundleShape(b) /\ ReadOnce(d, b) /\ (Neat(d) => Neat(e))
  BY <1>1, <1>4 DEF RestoreState, RoundState
<1>6. ReadOnce(e, c)  BY <1>5, EditRound
<1>7. k = Edited(h) /\ HistoryShape(h)  BY <1>2, <1>4 DEF RestoreState
<1>8. k.last = R!NoRestore  BY <1>7 DEF HistoryShape, Edited
<1>9. k.last.policy = None  BY <1>8 DEF R!NoRestore
<1>10. PICK f : f = foreign'  OBVIOUS
<1>11. ComesBack(e, c, k.last, f)  BY <1>9 DEF ComesBack
<1>12. RoundState(e, c, k, f)  BY <1>6, <1>11 DEF RoundState
<1> QED BY <1>3, <1>10, <1>12

\* The reads of an export.
LEMMA ReadKeepsRound ==
  ASSUME RestoreState(db, bundle, history), RoundState(db, bundle, history, foreign),
         (\E secrets \in BOOLEAN : R!ReadApps(secrets)) \/ R!ReadStores \/ R!ReadProjects
  PROVE  RoundState(db', bundle', history', foreign')
<1>0. db' = db /\ history' = history /\ foreign' = foreign /\ bundle.pc # "full"
  BY DEF R!ReadApps, R!ReadStores, R!ReadProjects
<1>1. PICK d, h, b, c, f : /\ d = db /\ h = history /\ b = bundle' /\ c = bundle
                           /\ f = foreign
  OBVIOUS
<1>2. db' = d /\ history' = h /\ foreign' = f /\ c.pc # "full"  BY <1>0, <1>1
<1>3. /\ Tables(d, h.next) /\ Neat(d) /\ Quiet(h.last) /\ BundleShape(c) /\ ReadOnce(d, c)
  BY <1>1, <1>2 DEF RestoreState, RoundState, ReadOnce
<1>4. ReadOnce(d, b)
  <2>1. ASSUME NEW secrets \in BOOLEAN, R!ReadApps(secrets) PROVE ReadOnce(d, b)
    <3>1. PICK q : q = R!GatherApps(d, secrets)  OBVIOUS
    <3>2. b = [pc |-> "apps", apps |-> q, projs |-> <<>>, stores |-> <<>>,
               secrets |-> secrets, torn |-> FALSE, config |-> d]
      BY <1>1, <2>1, <3>1 DEF R!ReadApps, R!NoBundle
    <3>3. b.pc = "apps" /\ b.apps = q /\ b.secrets = secrets /\ b.config = d  BY <3>2
    <3> QED BY <1>3, <3>1, <3>3 DEF ReadOnce
  <2>2. ASSUME R!ReadStores PROVE ReadOnce(d, b)
    <3>1. c.pc = "apps" /\ b = [c EXCEPT !.pc = "stores", !.stores = R!GatherStores(d)]
      BY <1>1, <2>2 DEF R!ReadStores
    <3>2. PICK q : q = R!GatherStores(d)  OBVIOUS
    <3>3. b = [pc |-> "stores", apps |-> c.apps, projs |-> c.projs, stores |-> q,
               secrets |-> c.secrets, torn |-> c.torn, config |-> c.config]
      BY <1>3, <3>1, <3>2 DEF BundleShape
    <3>4. /\ b.pc = "stores" /\ b.apps = c.apps /\ b.stores = q /\ b.secrets = c.secrets
          /\ b.torn = c.torn /\ b.config = c.config
      BY <3>3
    <3> QED BY <1>3, <3>1, <3>2, <3>4 DEF ReadOnce
  <2>3. ASSUME R!ReadProjects PROVE ReadOnce(d, b)
    <3>1. c.pc = "stores" /\ b = [c EXCEPT !.pc = "full", !.projs = R!GatherProjects(d)]
      BY <1>1, <2>3 DEF R!ReadProjects
    <3>2. PICK q : q = R!GatherProjects(d)  OBVIOUS
    <3>3. b = [pc |-> "full", apps |-> c.apps, projs |-> q, stores |-> c.stores,
               secrets |-> c.secrets, torn |-> c.torn, config |-> c.config]
      BY <1>3, <3>1, <3>2 DEF BundleShape
    <3>4. /\ b.pc = "full" /\ b.apps = c.apps /\ b.projs = q /\ b.stores = c.stores
          /\ b.secrets = c.secrets /\ b.torn = c.torn /\ b.config = c.config
      BY <3>3
    <3> QED BY <1>3, <3>1, <3>2, <3>4 DEF ReadOnce
  <2> QED BY <2>1, <2>2, <2>3
<1>5. ComesBack(d, b, h.last, f)  BY <1>3 DEF Quiet, ComesBack
<1>6. RoundState(d, b, h, f)  BY <1>4, <1>5 DEF RoundState
<1> QED BY <1>1, <1>2, <1>6

\* The bundle taken to another instance.
LEMMA InstanceKeepsRound ==
  ASSUME RestoreState(db, bundle, history), RoundState(db, bundle, history, foreign),
         NEW hosts, R!NewInstance(hosts)
  PROVE  RoundState(db', bundle', history', foreign')
<1>1. PICK d, h, b, f : d = db' /\ h = history' /\ b = bundle /\ f = foreign'  OBVIOUS
<1>2. bundle' = b /\ b.pc = "full" /\ h = [history EXCEPT !.last = R!NoRestore]
  BY <1>1 DEF R!NewInstance
<1>3. HistoryShape(history) /\ ReadOnce(db, b)  BY <1>1 DEF RestoreState, RoundState
<1>4. h.last = R!NoRestore  BY <1>2, <1>3 DEF HistoryShape
<1>5. h.last.policy = None  BY <1>4 DEF R!NoRestore
<1>6. ReadOnce(d, b)  BY <1>2, <1>3 DEF ReadOnce
<1>7. ComesBack(d, b, h.last, f)  BY <1>5 DEF ComesBack
<1>8. RoundState(d, b, h, f)  BY <1>6, <1>7 DEF RoundState
<1> QED BY <1>1, <1>2, <1>8

\* The bundle of the current format is read as it was written.
LEMMA CurrentFormat ==
  ASSUME NEW b, BundleShape(b)
  PROVE  R!Parse(b, 9) = b
<1>1. PICK apps : apps = IF 9 >= 4 THEN b.apps
             ELSE [i \in DOMAIN b.apps |->
                     [b.apps[i] EXCEPT !.hosts = IF b.apps[i].primary = None THEN <<>>
                                            ELSE <<b.apps[i].primary>>]]
  OBVIOUS
<1>2. PICK stores : stores = IF 9 = 1 THEN <<>> ELSE b.stores  OBVIOUS
<1>3. PICK projs : projs = IF 9 >= 6 THEN b.projs ELSE <<>>  OBVIOUS
<1>4. R!Parse(b, 9) = [b EXCEPT !.apps = apps, !.stores = stores, !.projs = projs]
  BY <1>1, <1>2, <1>3 DEF R!Parse, BundleShape
<1>5. apps = b.apps /\ stores = b.stores /\ projs = b.projs  BY <1>1, <1>2, <1>3
<1>6. [b EXCEPT !.apps = apps, !.stores = stores, !.projs = projs] = b
  BY <1>5 DEF BundleShape
<1> QED BY <1>4, <1>6

\* A bundle applied, or refused.
LEMMA ApplyKeepsRound ==
  ASSUME RestoreState(db, bundle, history), RoundState(db, bundle, history, foreign),
         NEW policy \in {"skip", "overwrite", "rename"}, NEW version \in {1, 5, 9},
         R!Apply(policy, version)
  PROVE  RoundState(db', bundle', history', foreign')
<1>1. PICK b, d, h, f : b = bundle /\ d = db' /\ h = history' /\ f = foreign  OBVIOUS
<1>2. bundle' = b /\ foreign' = f /\ b.pc = "full"  BY <1>1 DEF R!Apply
<1>10. PICK a : a = R!Parse(b, version)  OBVIOUS
<1>3. PICK st : st = R!Restored(policy, a)  OBVIOUS
<1>4. /\ HistoryShape(history) /\ Tables(db, history.next) /\ BundleShape(b) /\ Restorable(b)
      /\ ReadOnce(db, b)
  BY <1>1 DEF RestoreState, RoundState
<1>5. ReadOnce(d, b)  BY <1>2, <1>4 DEF ReadOnce
<1>6. PICK last : last = [policy |-> IF version = 9 THEN policy ELSE None, failed |-> FALSE,
                          bound |-> st.bound, of |-> db]
  OBVIOUS
<1>7. CASE /\ db' = st.db
           /\ history' = [history EXCEPT !.restores = @ + 1, !.next = st.next, !.last = last]
  <2>1. h.last = last /\ last.of = db /\ last.policy = IF version = 9 THEN policy ELSE None
    BY <1>1, <1>4, <1>6, <1>7 DEF HistoryShape
  <2>2. SUFFICES ASSUME last.policy # None, last.of = R!Empty, ~b.torn, b.secrets, f = {},
                        \A x \in b.config.pbinds : R!Scope(b.config, x) # {}
                 PROVE  R!Config(d) = R!Config(b.config)
    BY <1>1, <1>2, <1>5, <2>1 DEF ComesBack, RoundState
  <2>3. version = 9  BY <2>1, <2>2
  <2>4. st = R!Restored(policy, b)  BY <1>3, <1>4, <1>10, <2>3, CurrentFormat
  <2>5. PICK c : c = b.config  OBVIOUS
  <2>6. PICK n : Tables(c, n)  BY <1>2, <1>5, <2>2, <2>5 DEF ReadOnce
  <2>7. Neat(c) /\ BundleOf(b, c)
    <3>1. /\ Neat(c) /\ b.apps = R!GatherApps(c, b.secrets) /\ b.stores = R!GatherStores(c)
          /\ b.projs = R!GatherProjects(c)
      BY <1>2, <1>5, <2>2, <2>5 DEF ReadOnce
    <3>2. R!GatherApps(c, b.secrets) = R!GatherApps(c, TRUE)  BY <2>2 DEF R!GatherApps
    <3> QED BY <3>1, <3>2 DEF BundleOf
  <2>8. foreign = {} /\ db = R!Empty /\ \A x \in c.pbinds : R!Scope(c, x) # {}
    BY <1>1, <2>1, <2>2, <2>5
  <2>9. R!Config(st.db) = R!Config(c)  BY <1>4, <2>4, <2>6, <2>7, <2>8, ConfigRestored
  <2> QED BY <1>1, <1>7, <2>5, <2>9
<1>8. ASSUME NEW v, history' = [history EXCEPT !.restores = @ + 1,
                                               !.last = [R!NoRestore EXCEPT !.failed = v]]
      PROVE  RoundState(db', bundle', history', foreign')
  <2>1. PICK last1 : last1 = [R!NoRestore EXCEPT !.failed = v]  OBVIOUS
  <2>2. h.last = last1  BY <1>1, <1>4, <1>8, <2>1 DEF HistoryShape
  <2>3. last1.policy = None  BY <2>1 DEF R!NoRestore
  <2>4. ComesBack(d, b, h.last, f)  BY <2>2, <2>3 DEF ComesBack
  <2>5. RoundState(d, b, h, f)  BY <1>5, <2>4 DEF RoundState
  <2> QED BY <1>1, <1>2, <2>5
<1>9. \/ /\ db' = st.db
         /\ history' = [history EXCEPT !.restores = @ + 1, !.next = st.next, !.last = last]
      \/ \E v : history' = [history EXCEPT !.restores = @ + 1,
                                           !.last = [R!NoRestore EXCEPT !.failed = v]]
  BY <1>1, <1>3, <1>6, <1>10 DEF R!Apply
<1> QED BY <1>7, <1>8, <1>9

\* The hostnames a request asks for.
LEMMA HostListFacts ==
  ASSUME NEW hosts \in R!HostLists
  PROVE  IsSeq(hosts)
<1>1. CASE hosts = <<>>  BY <1>1, EmptyFacts
<1>2. ASSUME NEW h, hosts = <<h>> PROVE IsSeq(hosts)
  <2>1. <<h>> \in Seq({h})  OBVIOUS
  <2> QED BY <1>2, <2>1, SeqIs
<1> QED BY <1>1, <1>2 DEF R!HostLists

\* The services of a project that is created.
TwoServices(n, s, t, hosts) ==
  <<[id |-> n + 1, slug |-> s, hosts |-> hosts, deps |-> {}],
    [id |-> n + 2, slug |-> t, hosts |-> <<>>, deps |-> {n + 1}]>>

\* They are two, and the second has no hostname.
LEMMA NewServices ==
  ASSUME NEW n, NEW s, NEW t, s # t, NEW hosts, IsSeq(hosts), NEW q,
         q = TwoServices(n, s, t, hosts)
  PROVE  /\ \A j, k \in DOMAIN q : IsSeq(q[j].hosts) /\ (q[j].slug = q[k].slug => j = k)
         /\ \A j \in DOMAIN q : q[j].hosts = hosts \/ q[j].hosts = <<>>
<1>1. PICK x, y : /\ x = [id |-> n + 1, slug |-> s, hosts |-> hosts, deps |-> {}]
                  /\ y = [id |-> n + 2, slug |-> t, hosts |-> <<>>, deps |-> {n + 1}]
  OBVIOUS
<1>2. q = <<x, y>> /\ x.slug = s /\ y.slug = t /\ x.hosts = hosts /\ y.hosts = <<>>
  BY <1>1 DEF TwoServices
<1>3. DOMAIN <<x, y>> = {1, 2} /\ <<x, y>>[1] = x /\ <<x, y>>[2] = y
  <2>1. <<x, y>> \in Seq({x, y}) /\ Len(<<x, y>>) = 2  OBVIOUS
  <2>2. DOMAIN <<x, y>> = 1..2  BY <2>1, SeqIs
  <2> QED BY <2>2
<1>4. DOMAIN q = {1, 2} /\ q[1] = x /\ q[2] = y  BY <1>2, <1>3
<1> QED BY <1>2, <1>4, EmptyFacts

\* An application is created under hostnames nobody has.
LEMMA CreateAppRound ==
  ASSUME RestoreState(db, bundle, history), RoundState(db, bundle, history, foreign),
         NEW n \in Names, NEW hosts \in R!HostLists, R!CreateApp(n, hosts)
  PROVE  RoundState(db', bundle', history', foreign')
<1>1. PICK x : x = [id |-> history.next, slug |-> R!Slug(n), hosts |-> hosts,
                    env |-> [k \in {Own} |-> R!UserValue],
                    primary |-> IF hosts = <<>> THEN None ELSE hosts[1]]
  OBVIOUS
<1>2. PICK e : e = [db EXCEPT !.apps = Append(@, x)]  OBVIOUS
<1>3. /\ R!Edit(e) /\ R!Slug(n) \notin R!Slugs(db.apps)
      /\ R!Range(hosts) \cap R!UsedHosts = {}
  BY <1>1, <1>2 DEF R!CreateApp, R!New
<1>4. x.slug = R!Slug(n) /\ x.hosts = hosts
      /\ x.primary = IF hosts = <<>> THEN None ELSE hosts[1]
  BY <1>1
<1>5. \A i \in DOMAIN db.apps : db.apps[i].slug # x.slug
  BY <1>3, <1>4 DEF R!Slugs, R!Range
<1>6. IsSeq(hosts)  BY HostListFacts
<1>7. /\ \A i \in DOMAIN db.apps : NoSharedHost(hosts, db.apps[i].hosts)
                                   /\ NoSharedHost(db.apps[i].hosts, hosts)
      /\ \A i \in DOMAIN db.projs : \A k \in DOMAIN db.projs[i].svcs :
           NoSharedHost(db.projs[i].svcs[k].hosts, hosts)
  BY <1>3, FreeHosts
<1>8. PICK d, m : d = db /\ m = history.next  OBVIOUS
<1>9. /\ Tables(d, m) /\ e = [d EXCEPT !.apps = Append(@, x)]
      /\ \A i \in DOMAIN d.apps : /\ d.apps[i].slug # x.slug
                                  /\ NoSharedHost(x.hosts, d.apps[i].hosts)
                                  /\ NoSharedHost(d.apps[i].hosts, x.hosts)
      /\ \A i \in DOMAIN d.projs : \A k \in DOMAIN d.projs[i].svcs :
           NoSharedHost(d.projs[i].svcs[k].hosts, x.hosts)
      /\ IsSeq(x.hosts) /\ x.primary = IF x.hosts = <<>> THEN None ELSE x.hosts[1]
  BY <1>2, <1>4, <1>5, <1>6, <1>7, <1>8 DEF RestoreState
<1>10. Neat(d) => Neat(e)  BY <1>9, CreateAppNeat
<1> QED BY <1>3, <1>8, <1>10, EditKeepsRound

\* A project is created under hostnames nobody has.
LEMMA CreateProjectRound ==
  ASSUME RestoreState(db, bundle, history), RoundState(db, bundle, history, foreign),
         NEW n \in Names, NEW hosts \in R!HostLists, R!CreateProject(n, hosts)
  PROVE  RoundState(db', bundle', history', foreign')
<1>1. PICK s, t \in ServiceNames : s # t /\
       R!Edit([db EXCEPT !.projs = Append(@, [id |-> history.next, slug |-> R!Slug(n), svcs |->
         <<[id |-> history.next + 1, slug |-> s, hosts |-> hosts, deps |-> {}],
           [id |-> history.next + 2, slug |-> t, hosts |-> <<>>,
            deps |-> {history.next + 1}]>>])])
  BY DEF R!CreateProject, R!New
<1>2. PICK q : q = <<[id |-> history.next + 1, slug |-> s, hosts |-> hosts, deps |-> {}],
                     [id |-> history.next + 2, slug |-> t, hosts |-> <<>>,
                      deps |-> {history.next + 1}]>>
  OBVIOUS
<1>3. PICK x : x = [id |-> history.next, slug |-> R!Slug(n), svcs |-> q]  OBVIOUS
<1>4. PICK e : e = [db EXCEPT !.projs = Append(@, x)]  OBVIOUS
<1>5. R!Edit(e)  BY <1>1, <1>2, <1>3, <1>4
<1>6. R!Slug(n) \notin R!Slugs(db.projs) /\ R!Range(hosts) \cap R!UsedHosts = {}
  BY DEF R!CreateProject
<1>7. x.slug = R!Slug(n) /\ x.svcs = q  BY <1>3
<1>8. \A i \in DOMAIN db.projs : db.projs[i].slug # x.slug
  BY <1>6, <1>7 DEF R!Slugs, R!Range
<1>9. /\ \A j, k \in DOMAIN q : IsSeq(q[j].hosts) /\ (q[j].slug = q[k].slug => j = k)
      /\ \A j \in DOMAIN q : q[j].hosts = hosts \/ q[j].hosts = <<>>
  <2>1. PICK m : m = history.next  OBVIOUS
  <2>2. s # t /\ IsSeq(hosts)  BY <1>1, HostListFacts
  <2>3. q = TwoServices(m, s, t, hosts)  BY <1>2, <2>1 DEF TwoServices
  <2> QED BY <2>2, <2>3, NewServices
<1>10. \A h : NoSharedHost(<<>>, h) /\ NoSharedHost(h, <<>>)  BY EmptyFacts DEF NoSharedHost
<1>11. /\ \A i \in DOMAIN db.projs : \A j \in DOMAIN q, k \in DOMAIN db.projs[i].svcs :
            /\ NoSharedHost(q[j].hosts, db.projs[i].svcs[k].hosts)
            /\ NoSharedHost(db.projs[i].svcs[k].hosts, q[j].hosts)
       /\ \A i \in DOMAIN db.apps : \A j \in DOMAIN q :
            NoSharedHost(q[j].hosts, db.apps[i].hosts)
  BY <1>6, <1>9, <1>10, FreeHosts
<1>12. PICK d, m : d = db /\ m = history.next  OBVIOUS
<1>13. /\ Tables(d, m) /\ e = [d EXCEPT !.projs = Append(@, x)]
       /\ \A i \in DOMAIN d.projs : d.projs[i].slug # x.slug
       /\ \A j, k \in DOMAIN x.svcs : /\ IsSeq(x.svcs[j].hosts)
                                      /\ x.svcs[j].slug = x.svcs[k].slug => j = k
       /\ \A i \in DOMAIN d.projs : \A j \in DOMAIN x.svcs, k \in DOMAIN d.projs[i].svcs :
            /\ NoSharedHost(x.svcs[j].hosts, d.projs[i].svcs[k].hosts)
            /\ NoSharedHost(d.projs[i].svcs[k].hosts, x.svcs[j].hosts)
       /\ \A i \in DOMAIN d.apps : \A j \in DOMAIN x.svcs :
            NoSharedHost(x.svcs[j].hosts, d.apps[i].hosts)
  BY <1>4, <1>7, <1>8, <1>9, <1>11, <1>12 DEF RestoreState
<1>14. Neat(d) => Neat(e)  BY <1>13, CreateProjectNeat
<1> QED BY <1>5, <1>12, <1>14, EditKeepsRound

\* A datastore is created under a name and a port of its own.
LEMMA CreateStoreRound ==
  ASSUME RestoreState(db, bundle, history), RoundState(db, bundle, history, foreign),
         NEW n \in Names, NEW k \in Kinds, NEW p \in {None, Port}, R!CreateStore(n, k, p)
  PROVE  RoundState(db', bundle', history', foreign')
<1>1. PICK x : x = [id |-> history.next, slug |-> R!Slug(n), kind |-> k, port |-> p,
                    pw |-> history.next]
  OBVIOUS
<1>2. PICK e : e = [db EXCEPT !.stores = Append(@, x)]  OBVIOUS
<1>3. /\ R!Edit(e) /\ R!Slug(n) \notin R!Slugs(db.stores)
      /\ p # None => \A r \in R!Range(db.stores) : r.port # p
  BY <1>1, <1>2 DEF R!CreateStore, R!New
<1>4. x.slug = R!Slug(n) /\ x.port = p  BY <1>1
<1>5. \A i \in DOMAIN db.stores : /\ db.stores[i].slug # x.slug
                                  /\ x.port # None => db.stores[i].port # x.port
  BY <1>3, <1>4 DEF R!Slugs, R!Range
<1>6. PICK d, m : d = db /\ m = history.next  OBVIOUS
<1>7. /\ Tables(d, m) /\ e = [d EXCEPT !.stores = Append(@, x)]
      /\ \A i \in DOMAIN d.stores : /\ d.stores[i].slug # x.slug
                                    /\ x.port # None => d.stores[i].port # x.port
  BY <1>2, <1>5, <1>6 DEF RestoreState
<1>8. Neat(d) => Neat(e)  BY <1>7, CreateStoreNeat
<1> QED BY <1>3, <1>6, <1>8, EditKeepsRound

\* An application is bound to a datastore under a variable it does not have.
LEMMA BindRound ==
  ASSUME RestoreState(db, bundle, history), RoundState(db, bundle, history, foreign),
         NEW a \in R!Range(db.apps), NEW r \in R!Range(db.stores), R!Bind(r, a)
  PROVE  RoundState(db', bundle', history', foreign')
<1>1. PICK key : key = R!Key(Head(r.slug))  OBVIOUS
<1>2. PICK url : url = R!UrlOf(r.kind, r.slug, r.pw)  OBVIOUS
<1>3. PICK env : env = [k \in DOMAIN a.env \cup {key} |-> IF k = key THEN url ELSE a.env[k]]
  OBVIOUS
<1>4. PICK x : x = EnvChanged(a, env)  OBVIOUS
<1>5. PICK b : b = [store |-> r.id, app |-> a.id, key |-> key]  OBVIOUS
<1>6. PICK e : e = AppBound(db, b, x)  OBVIOUS
<1>7. R!Edit(e) /\ key \notin DOMAIN a.env
  BY <1>1, <1>2, <1>3, <1>4, <1>5, <1>6 DEF R!Bind, AppBound, EnvChanged
<1>8. IsMap(env)  BY <1>3 DEF IsMap
<1>9. /\ key \in DOMAIN env /\ env[key] = url
      /\ \A k \in DOMAIN a.env : k \in DOMAIN env /\ env[k] = a.env[k]
  BY <1>3, <1>7
<1>10. url.sort = Url  BY <1>2 DEF R!UrlOf
<1>11. b.app = a.id /\ b.key = key  BY <1>5
<1>12. PICK d, m : d = db /\ m = history.next  OBVIOUS
<1>13. Tables(d, m) /\ e = AppBound(d, b, x) /\ a \in R!Range(d.apps)
       /\ env[key].sort = Url
  BY <1>6, <1>9, <1>10, <1>12 DEF RestoreState
<1>14. Neat(d) => Neat(e)  BY <1>4, <1>7, <1>8, <1>9, <1>11, <1>13, BindNeat
<1> QED BY <1>7, <1>12, <1>14, EditKeepsRound

\* Every step of Restore.
LEMMA RoundKeeps ==
  ASSUME RestoreState(db, bundle, history), RoundState(db, bundle, history, foreign), R!Next
  PROVE  RoundState(db', bundle', history', foreign')
<1>1. PICK d, m : d = db /\ m = history.next  OBVIOUS
<1>2. Tables(d, m)  BY <1>1 DEF RestoreState
<1>3. ASSUME NEW i \in DOMAIN db.apps, R!DeleteApp(i)
      PROVE  RoundState(db', bundle', history', foreign')
  <2>1. PICK e : e = AppDeleted(db, i)  OBVIOUS
  <2>2. R!Edit(e)  BY <1>3, <2>1 DEF R!DeleteApp, AppDeleted
  <2>3. e = AppDeleted(d, i) /\ i \in DOMAIN d.apps  BY <1>1, <2>1
  <2>4. Neat(d) => Neat(e)  BY <1>2, <2>3, DeleteAppNeat
  <2> QED BY <1>1, <2>2, <2>4, EditKeepsRound
<1>4. ASSUME NEW i \in DOMAIN db.stores, R!DeleteStore(i)
      PROVE  RoundState(db', bundle', history', foreign')
  <2>1. PICK e : e = [db EXCEPT !.stores = R!RemoveAt(@, i)]  OBVIOUS
  <2>2. R!Edit(e) /\ \A b \in db.binds \cup db.pbinds : b.store # db.stores[i].id
    BY <1>4, <2>1 DEF R!DeleteStore
  <2>3. Neat(d) => Neat(e)  BY <1>1, <1>2, <2>1, <2>2, DeleteStoreNeat
  <2> QED BY <1>1, <2>2, <2>3, EditKeepsRound
<1>5. ASSUME NEW p \in R!Range(db.projs), NEW j \in DOMAIN p.svcs, R!DeleteService(p, j)
      PROVE  RoundState(db', bundle', history', foreign')
  <2>1. PICK x : x = ServiceDeleted(p, j)  OBVIOUS
  <2>2. PICK e : e = [db EXCEPT !.projs = R!Replace(@, x)]  OBVIOUS
  <2>3. R!Edit(e)  BY <1>5, <2>1, <2>2 DEF R!DeleteService, ServiceDeleted
  <2>4. Neat(d) => Neat(e)  BY <1>1, <1>2, <2>1, <2>2, DeleteServiceNeat
  <2> QED BY <1>1, <2>3, <2>4, EditKeepsRound
<1>6. ASSUME NEW p \in R!Range(db.projs), NEW r \in R!Range(db.stores), NEW ids,
             R!BindProject(r, p, ids)
      PROVE  RoundState(db', bundle', history', foreign')
  <2>1. PICK key : key = R!Key(Head(r.slug))  OBVIOUS
  <2>2. PICK b : b = [store |-> r.id, proj |-> p.id, svcs |-> ids, key |-> key]  OBVIOUS
  <2>3. PICK e : e = [db EXCEPT !.pbinds = @ \cup {b}]  OBVIOUS
  <2>4. R!Edit(e)  BY <1>6, <2>1, <2>2, <2>3 DEF R!BindProject
  <2>5. Neat(d) => Neat(e)  BY <1>1, <1>2, <2>2, <2>3, BindProjectNeat
  <2> QED BY <1>1, <2>4, <2>5, EditKeepsRound
<1>7. CASE (\E secrets \in BOOLEAN : R!ReadApps(secrets)) \/ R!ReadStores \/ R!ReadProjects
  BY <1>7, ReadKeepsRound
<1>8. ASSUME NEW hosts, R!NewInstance(hosts)
      PROVE  RoundState(db', bundle', history', foreign')
  BY <1>8, InstanceKeepsRound
<1>9. ASSUME NEW policy \in {"skip", "overwrite", "rename"}, NEW version \in {1, 5, 9},
             R!Apply(policy, version)
      PROVE  RoundState(db', bundle', history', foreign')
  BY <1>9, ApplyKeepsRound
<1>10. ASSUME NEW n \in Names, NEW hosts \in R!HostLists,
              R!CreateApp(n, hosts) \/ R!CreateProject(n, hosts)
       PROVE  RoundState(db', bundle', history', foreign')
  BY <1>10, CreateAppRound, CreateProjectRound
<1>11. ASSUME NEW n \in Names, NEW k \in Kinds, NEW p \in {None, Port}, R!CreateStore(n, k, p)
       PROVE  RoundState(db', bundle', history', foreign')
  BY <1>11, CreateStoreRound
<1>12. ASSUME NEW a \in R!Range(db.apps), NEW r \in R!Range(db.stores), R!Bind(r, a)
       PROVE  RoundState(db', bundle', history', foreign')
  BY <1>12, BindRound
<1> QED BY <1>3, <1>4, <1>5, <1>6, <1>7, <1>8, <1>9, <1>10, <1>11, <1>12 DEF R!Next

RoundPart == part = "restore" => RoundState(db, bundle, history, foreign)

\* Whatever the names, the bounds and the configuration: a bundle with secrets that no
\* request came between, restored on an empty instance, brings back what it carries of the
\* configuration - neither redirect flags nor automatic deployments, which no bundle has
\* (packages/backups/src/export.ts, routes/backups.ts).
THEOREM ConfigurationRoundTrip == ConfigurationSpec => []RoundTrip
<1>1. ConfigurationInit => RoundPart
  <2>1. SUFFICES ASSUME ConfigurationInit, part = "restore"
                 PROVE  RoundState(db, bundle, history, foreign)
    BY DEF RoundPart
  <2>2. R!Init  BY <2>1 DEF ConfigurationInit
  <2>3. PICK d, b, h, f : d = db /\ b = bundle /\ h = history /\ f = foreign  OBVIOUS
  <2>4. d = R!Empty /\ b = R!NoBundle /\ h.last = R!NoRestore
    BY <2>2, <2>3 DEF R!Init
  <2>5. b.pc = "none" /\ h.last.policy = None  BY <2>4 DEF R!NoBundle, R!NoRestore
  <2>6. d.apps = <<>> /\ d.projs = <<>> /\ d.stores = <<>> /\ d.binds = {} /\ d.pbinds = {}
    BY <2>4 DEF R!Empty
  <2>7. NeatApps(<<>>) /\ NeatProjects(<<>>) /\ NeatBetween(<<>>, <<>>) /\ NeatStores(<<>>)
    BY EmptyFacts DEF NeatApps, NeatProjects, NeatBetween, NeatStores
  <2>8. Neat(d)  BY <2>6, <2>7 DEF Neat
  <2>9. ReadOnce(d, b) /\ ComesBack(d, b, h.last, f)  BY <2>5, <2>8 DEF ReadOnce, ComesBack
  <2> QED BY <2>3, <2>9 DEF RoundState
<1>2. RestorePart /\ RoundPart /\ [ConfigurationNext]_allVars => RoundPart'
  <2>1. SUFFICES ASSUME RestorePart, RoundPart, [ConfigurationNext]_allVars,
                        part' = "restore"
                 PROVE  RoundState(db', bundle', history', foreign')
    BY DEF RoundPart
  <2>2. part = "restore"
    BY <2>1 DEF ConfigurationNext, allVars
  <2>3. RestoreState(db, bundle, history) /\ RoundState(db, bundle, history, foreign)
    BY <2>1, <2>2 DEF RestorePart, RoundPart
  <2>4. CASE R!Next  BY <2>3, <2>4, RoundKeeps
  <2>5. CASE UNCHANGED restoreVars
    BY <2>3, <2>5 DEF restoreVars
  <2> QED BY <2>1, <2>2, <2>4, <2>5 DEF ConfigurationNext, allVars
<1>3. RoundPart => RoundTrip
  BY DEF RoundPart, RoundState, ComesBack, RoundTrip, R!RoundTrip
<1> QED  BY <1>1, <1>2, <1>3, RestoreInvariant, PTL DEF ConfigurationSpec
=============================================================================
