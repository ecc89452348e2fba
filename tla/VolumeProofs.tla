---------------------------- MODULE VolumeProofs ----------------------------
(***************************************************************************)
(* Theorems about Volume, for every set of paths, documents, lines and     *)
(* slots and any number of calls and events.                               *)
(***************************************************************************)
EXTENDS Volume, FiniteSetTheorems, SequenceTheorems, TLAPS

(***************************************************************************)
(* Folds.  A fold over a finite set exists: the pairs <<s, v>> that its    *)
(* equation forces make up a function.  The step is a function here, and   *)
(* c chooses the next element.                                             *)
(***************************************************************************)
Chooses(c, S) == \A s \in SUBSET S : s # {} => c[s] \in s
IsFold(f, S, a, c, h) == \A s \in SUBSET S : f[s] = IF s = {} THEN a ELSE h[s][f[s \ {c[s]}]]

LEMMA FoldExists ==
  ASSUME NEW S, IsFiniteSet(S), NEW A, NEW a \in A,
         NEW c, Chooses(c, S), NEW h \in [SUBSET S -> [A -> A]]
  PROVE  \E f \in [SUBSET S -> A] : IsFold(f, S, a, c, h)
<1> DEFINE Pairs == (SUBSET S) \X A
           Closed(Q) == /\ <<{}, a>> \in Q
                        /\ \A s \in SUBSET S, v \in A :
                             s # {} /\ <<s \ {c[s]}, v>> \in Q => <<s, h[s][v]>> \in Q
           R == {p \in Pairs : \A Q \in SUBSET Pairs : Closed(Q) => p \in Q}
<1>1. \A s \in SUBSET S : s # {} => c[s] \in s /\ c[s] \in S /\ s \ {c[s]} \in SUBSET S
  BY DEF Chooses
<1>2. Closed(R)
  <2>1. <<{}, a>> \in R
    OBVIOUS
  <2>2. ASSUME NEW s \in SUBSET S, NEW v \in A, s # {}, <<s \ {c[s]}, v>> \in R
        PROVE  <<s, h[s][v]>> \in R
    <3>0. c[s] \in S /\ <<c[s], v>> \in S \X A
      BY <1>1, <2>2
    <3>1. <<s, h[s][v]>> \in Pairs
            <4> QED BY <3>0
    <3>2. ASSUME NEW Q \in SUBSET Pairs, Closed(Q)
          PROVE  <<s, h[s][v]>> \in Q
      BY <2>2, <3>2
    <3> QED BY <3>1, <3>2
  <2> QED BY <2>1, <2>2
<1>3. \A s \in SUBSET S : \E v \in A : <<s, v>> \in R
  <2> DEFINE Bad == {s \in SUBSET S : ~ \E v \in A : <<s, v>> \in R}
  <2>1. SUFFICES ASSUME Bad # {} PROVE FALSE
    <3> HIDE DEF R
    <3> QED OBVIOUS
  <2>2. IsWellFoundedOn(StrictSubsetOrdering(S), FiniteSubsetsOf(S))
    BY FS_StrictSubsetOrderingWellFounded
  <2>3. Bad \subseteq FiniteSubsetsOf(S)
    BY FS_FiniteSubsetsOfFinite
  <2>4. PICK s \in Bad : \A t \in Bad : <<t, s>> \notin StrictSubsetOrdering(S)
    <3> HIDE DEF Bad
    <3> QED BY <2>1, <2>2, <2>3, WFMin
  <2>5. s # {}
    BY <1>2, <2>4
  <2>6. <<s \ {c[s]}, s>> \in StrictSubsetOrdering(S)
    BY <1>1, <2>5 DEF StrictSubsetOrdering
  <2>7. PICK v \in A : <<s \ {c[s]}, v>> \in R
    BY <1>1, <2>4, <2>5, <2>6
  <2>8. <<s, h[s][v]>> \in R
    BY <1>2, <2>5, <2>7
  <2>9. h[s][v] \in A
    <3>1. <<c[s], v>> \in S \X A
      BY <1>1, <2>5
    <3> QED BY <3>1
  <2> HIDE DEF R
  <2> QED BY <2>4, <2>8, <2>9
<1>4. ASSUME NEW s \in SUBSET S, NEW v \in A, <<s, v>> \in R
      PROVE  IF s = {} THEN v = a
             ELSE \E u \in A : <<s \ {c[s]}, u>> \in R /\ v = h[s][u]
  <2> DEFINE Q == {p \in R : IF p[1] = {} THEN p[2] = a
                   ELSE \E u \in A : <<p[1] \ {c[p[1]]}, u>> \in R /\ p[2] = h[p[1]][u]}
  <2>1. Q \in SUBSET Pairs
    OBVIOUS
  <2>2. <<{}, a>> \in Q
    BY <1>2
  <2>3. ASSUME NEW t \in SUBSET S, NEW u \in A, t # {}, <<t \ {c[t]}, u>> \in Q
        PROVE  <<t, h[t][u]>> \in Q
    <3>1. <<t \ {c[t]}, u>> \in R
      BY <2>3
    <3>2. <<t, h[t][u]>> \in R
      BY <1>2, <2>3, <3>1
    <3> HIDE DEF R
    <3> QED BY <2>3, <3>1, <3>2
  <2>4. Closed(Q)
    BY <2>2, <2>3
  <2>5. <<s, v>> \in Q
    BY <1>4, <2>1, <2>4
  <2> HIDE DEF R
  <2> QED BY <2>5
<1>5. \A s \in SUBSET S : \A v, w \in A : <<s, v>> \in R /\ <<s, w>> \in R => v = w
  <2> DEFINE Bad == {s \in SUBSET S : \E v, w \in A : <<s, v>> \in R /\ <<s, w>> \in R /\ v # w}
  <2>1. SUFFICES ASSUME Bad # {} PROVE FALSE
    <3> HIDE DEF R
    <3> QED OBVIOUS
  <2>2. IsWellFoundedOn(StrictSubsetOrdering(S), FiniteSubsetsOf(S))
    BY FS_StrictSubsetOrderingWellFounded
  <2>3. Bad \subseteq FiniteSubsetsOf(S)
    BY FS_FiniteSubsetsOfFinite
  <2>4. PICK s \in Bad : \A t \in Bad : <<t, s>> \notin StrictSubsetOrdering(S)
    <3> HIDE DEF Bad
    <3> QED BY <2>1, <2>2, <2>3, WFMin
  <2>5. PICK v \in A, w \in A : <<s, v>> \in R /\ <<s, w>> \in R /\ v # w
    BY <2>4
  <2>6. s # {}
    <3> HIDE DEF R
    <3> QED BY <1>4, <2>4, <2>5
  <2>7. PICK x \in A : <<s \ {c[s]}, x>> \in R /\ v = h[s][x]
    <3> HIDE DEF R
    <3> QED BY <1>4, <2>4, <2>5, <2>6
  <2>7a. PICK y \in A : <<s \ {c[s]}, y>> \in R /\ w = h[s][y]
    <3> HIDE DEF R
    <3> QED BY <1>4, <2>4, <2>5, <2>6
  <2>8. <<s \ {c[s]}, s>> \in StrictSubsetOrdering(S)
    BY <1>1, <2>6, <2>4 DEF StrictSubsetOrdering
  <2>9. s \ {c[s]} \notin Bad
    BY <2>4, <2>8
  <2>10. x = y
    <3> HIDE DEF R
    <3> QED BY <1>1, <2>4, <2>7, <2>7a, <2>9
  <2> QED BY <2>5, <2>7, <2>7a, <2>10
<1> DEFINE f == [s \in SUBSET S |-> CHOOSE v \in A : <<s, v>> \in R]
<1>6. \A s \in SUBSET S : f[s] \in A /\ <<s, f[s]>> \in R
  <2> HIDE DEF R
  <2> QED BY <1>3
<1>7. ASSUME NEW s \in SUBSET S
      PROVE  f[s] = IF s = {} THEN a ELSE h[s][f[s \ {c[s]}]]
  <2>1. CASE s = {}
    <3> HIDE DEF R, f
    <3> QED BY <1>4, <1>6, <2>1
  <2>2. CASE s # {}
    <3>1. PICK u \in A : <<s \ {c[s]}, u>> \in R /\ f[s] = h[s][u]
      <4> HIDE DEF R, f
      <4> QED BY <1>4, <1>6, <2>2
    <3>2. u = f[s \ {c[s]}]
      <4> HIDE DEF R, f
      <4> QED BY <1>5, <1>6, <3>1
    <3> QED BY <2>2, <3>1, <3>2
  <2> QED BY <2>1, <2>2
<1>8. f \in [SUBSET S -> A]
  <2> HIDE DEF R
  <2> QED BY <1>3
<1> HIDE DEF f, R
<1> QED BY <1>7, <1>8 DEF IsFold

(* Induction over the sets that a fold goes through.                       *)
Unfolds(f, S, A, c, h) ==
  \A s \in SUBSET S : s # {} => c[s] \in s /\ (f[s \ {c[s]}] \in A => f[s] = h[c[s]][f[s \ {c[s]}]])
Keeps(h, S, G) == \A s \in SUBSET S : \A x \in s : \A g \in G[s \ {x}] : h[x][g] \in G[s]

LEMMA FoldInduction ==
  ASSUME NEW S, IsFiniteSet(S), NEW A,
         NEW f, NEW c, NEW h, NEW G \in [SUBSET S -> SUBSET A],
         f[{}] \in G[{}], Unfolds(f, S, A, c, h), Keeps(h, S, G)
  PROVE  f[S] \in G[S]
<1> DEFINE Bad == {s \in SUBSET S : f[s] \notin G[s]}
<1>1. SUFFICES ASSUME Bad # {} PROVE FALSE
  OBVIOUS
<1>2. IsWellFoundedOn(StrictSubsetOrdering(S), FiniteSubsetsOf(S))
  BY FS_StrictSubsetOrderingWellFounded
<1>3. Bad \subseteq FiniteSubsetsOf(S)
  BY FS_FiniteSubsetsOfFinite
<1>4. PICK s \in Bad : \A t \in Bad : <<t, s>> \notin StrictSubsetOrdering(S)
  <2> HIDE DEF Bad
  <2> QED BY <1>1, <1>2, <1>3, WFMin
<1>5. s \in SUBSET S /\ s # {} /\ c[s] \in s
  BY <1>4 DEF Unfolds
<1>6. <<s \ {c[s]}, s>> \in StrictSubsetOrdering(S)
  BY <1>5 DEF StrictSubsetOrdering
<1>7. f[s \ {c[s]}] \in G[s \ {c[s]}]
  BY <1>4, <1>5, <1>6
<1>8. f[s] = h[c[s]][f[s \ {c[s]}]]
  BY <1>5, <1>7 DEF Unfolds
<1> QED BY <1>4, <1>5, <1>7, <1>8 DEF Keeps

IndexType == [files : [Path -> Doc \cup {None}], byDoc : [Doc -> Path \cup {None}], dirs : SUBSET Path]

Agrees(ix) == \A d \in Doc : ix.byDoc[d] # None => ix.files[ix.byDoc[d]] = d

(* One insertion, and one removal.                                         *)
LEMMA InsertDoes ==
  ASSUME NEW ix \in IndexType, NEW p \in Path, NEW d \in Doc
  PROVE  /\ Insert(ix, p, d) \in IndexType
         /\ Insert(ix, p, d).dirs = ix.dirs
         /\ Insert(ix, p, d).files = [ix.files EXCEPT ![p] = d]
         /\ Agrees(ix) => Agrees(Insert(ix, p, d))
<1> DEFINE n == Insert(ix, p, d)
<1>1. /\ n.files = [ix.files EXCEPT ![p] = d] /\ n.dirs = ix.dirs
      /\ n.byDoc = [e \in Doc |-> IF e = d THEN p ELSE IF e = ix.files[p] THEN None ELSE ix.byDoc[e]]
  BY DEF Insert, IndexType
<1>2. n \in IndexType
  <2>1. n = [ix EXCEPT !.files = n.files, !.byDoc = n.byDoc]
    BY DEF Insert, IndexType
  <2>2. n.files \in [Path -> Doc \cup {None}] /\ n.byDoc \in [Doc -> Path \cup {None}]
    BY <1>1 DEF IndexType
  <2> HIDE DEF n
  <2> QED BY <2>1, <2>2 DEF IndexType
<1>3. ASSUME Agrees(ix) PROVE Agrees(Insert(ix, p, d))
  <2> SUFFICES ASSUME NEW e \in Doc, Insert(ix, p, d).byDoc[e] # None
               PROVE  Insert(ix, p, d).files[Insert(ix, p, d).byDoc[e]] = e
    BY DEF Agrees
  <2>1. Insert(ix, p, d).byDoc[e] = IF e = d THEN p ELSE IF e = ix.files[p] THEN None ELSE ix.byDoc[e]
    BY <1>1
  <2>2. ix.byDoc[e] # None => ix.byDoc[e] \in Path /\ ix.files[ix.byDoc[e]] = e
    BY <1>3 DEF Agrees, IndexType
  <2>3. ix.files \in [Path -> Doc \cup {None}] /\ Insert(ix, p, d).files = [ix.files EXCEPT ![p] = d]
    BY <1>1 DEF IndexType
  <2> QED BY <2>1, <2>2, <2>3
<1> QED BY <1>1, <1>2, <1>3

LEMMA RemovePathDoes ==
  ASSUME NEW ix \in IndexType, NEW p \in Path
  PROVE  /\ RemovePath(ix, p) \in IndexType
         /\ RemovePath(ix, p).dirs = ix.dirs
         /\ RemovePath(ix, p).files = [ix.files EXCEPT ![p] = None]
         /\ Agrees(ix) => Agrees(RemovePath(ix, p))
<1> DEFINE n == RemovePath(ix, p)
<1>1. /\ n.files = [ix.files EXCEPT ![p] = None] /\ n.dirs = ix.dirs
      /\ n.byDoc = [e \in Doc |-> IF e = ix.files[p] THEN None ELSE ix.byDoc[e]]
  BY DEF RemovePath, IndexType
<1>2. n \in IndexType
  <2>1. n = [ix EXCEPT !.files = n.files, !.byDoc = n.byDoc]
    BY DEF RemovePath, IndexType
  <2>2. n.files \in [Path -> Doc \cup {None}] /\ n.byDoc \in [Doc -> Path \cup {None}]
    BY <1>1 DEF IndexType
  <2> HIDE DEF n
  <2> QED BY <2>1, <2>2 DEF IndexType
<1>3. ASSUME Agrees(ix) PROVE Agrees(RemovePath(ix, p))
  <2> SUFFICES ASSUME NEW e \in Doc, RemovePath(ix, p).byDoc[e] # None
               PROVE  RemovePath(ix, p).files[RemovePath(ix, p).byDoc[e]] = e
    BY DEF Agrees
  <2>1. RemovePath(ix, p).byDoc[e] = IF e = ix.files[p] THEN None ELSE ix.byDoc[e]
    BY <1>1
  <2>2. ix.byDoc[e] # None => ix.byDoc[e] \in Path /\ ix.files[ix.byDoc[e]] = e
    BY <1>3 DEF Agrees, IndexType
  <2>3. ix.files \in [Path -> Doc \cup {None}] /\ RemovePath(ix, p).files = [ix.files EXCEPT ![p] = None]
    BY <1>1 DEF IndexType
  <2> QED BY <2>1, <2>2, <2>3
<1> QED BY <1>1, <1>2, <1>3

(* The folds of the model satisfy their equations.                         *)
RemoveStep(es) == [e \in es |-> [g \in IndexType |-> RemovePath(g, e)]]
InsertStep(es) == [e \in es |-> [g \in IndexType |-> Insert(g, e.path, e.doc)]]
Chosen(S) == [s \in SUBSET S |-> CHOOSE x \in s : TRUE]

LEMMA InsertAllRule ==
  ASSUME NEW ix \in IndexType, NEW es \in SUBSET Entries, IsFiniteSet(es),
         NEW G \in [SUBSET es -> SUBSET IndexType], ix \in G[{}],
         \A s \in SUBSET es : \A e \in s : \A g \in G[s \ {e}] : Insert(g, e.path, e.doc) \in G[s]
  PROVE  InsertAll(ix, es) \in G[es]
<1> DEFINE Iter(f) == f = [s \in SUBSET es |->
                 IF s = {} THEN ix
                 ELSE Insert(f[s \ {CHOOSE x \in s : TRUE}],
                             (CHOOSE x \in s : TRUE).path, (CHOOSE x \in s : TRUE).doc)]
<1>1. PICK c : \A s \in SUBSET es : s # {} => c[s] \in s /\ c[s] = CHOOSE x \in s : TRUE
  <2>1. \A s \in SUBSET es : s # {} =>
          Chosen(es)[s] \in s /\ Chosen(es)[s] = CHOOSE x \in s : TRUE
    BY DEF Chosen
  <2> QED BY <2>1
<1>2. \A e \in es : e.path \in Path /\ e.doc \in Doc
  BY DEF Entries
<1>3. PICK h : \A e \in es : \A g \in IndexType :
        h[e][g] = Insert(g, e.path, e.doc) /\ h[e][g] \in IndexType
  <2>1. \A e \in es : \A g \in IndexType : InsertStep(es)[e][g] = Insert(g, e.path, e.doc)
    BY DEF InsertStep
  <2>2. \A e \in es : \A g \in IndexType : Insert(g, e.path, e.doc) \in IndexType
    BY <1>2, InsertDoes
  <2>3. \A e \in es : \A g \in IndexType :
          InsertStep(es)[e][g] = Insert(g, e.path, e.doc) /\ InsertStep(es)[e][g] \in IndexType
    BY <2>1, <2>2
  <2> QED BY <2>3, Zenon
<1>4. PICK k \in [SUBSET es -> [IndexType -> IndexType]] :
        \A s \in SUBSET es : \A g \in IndexType : s # {} => k[s][g] = h[c[s]][g]
  <2> DEFINE k == [s \in SUBSET es |-> [g \in IndexType |-> IF s = {} THEN g ELSE h[c[s]][g]]]
  <2>1. k \in [SUBSET es -> [IndexType -> IndexType]]
    BY <1>1, <1>3
  <2>2. \A s \in SUBSET es : \A g \in IndexType : s # {} => k[s][g] = h[c[s]][g]
    OBVIOUS
  <2> HIDE DEF k
  <2> QED BY <2>1, <2>2
<1>5. \E f : Iter(f)
  <2>1. PICK f \in [SUBSET es -> IndexType] :
          IsFold(f, es, ix, c, k)
    <3>1. Chooses(c, es)
      BY <1>1 DEF Chooses
    <3> QED BY <3>1, FoldExists
  <2>2. ASSUME NEW s \in SUBSET es, s # {}
        PROVE  f[s] = Insert(f[s \ {CHOOSE x \in s : TRUE}],
                             (CHOOSE x \in s : TRUE).path, (CHOOSE x \in s : TRUE).doc)
    <3>1. f[s] = k[s][f[s \ {c[s]}]]
      BY <2>1, <2>2 DEF IsFold
    <3>2. c[s] \in es /\ f[s \ {c[s]}] \in IndexType
      BY <1>1, <2>2
    <3>3. f[s] = h[c[s]][f[s \ {c[s]}]]
      BY <1>4, <2>2, <3>1, <3>2
    <3>4. f[s] = Insert(f[s \ {c[s]}], c[s].path, c[s].doc)
      BY <1>3, <3>2, <3>3
    <3> QED BY <1>1, <2>2, <3>4
  <2>3. f[{}] = ix
    BY <2>1 DEF IsFold
  <2>4. Iter(f)
    BY <2>2, <2>3
  <2> HIDE DEF Iter
  <2> QED BY <2>4
<1> DEFINE f == CHOOSE g : Iter(g)
<1>6. Iter(f)
  <2> HIDE DEF Iter
  <2> QED BY <1>5
<1>7. InsertAll(ix, es) = f[es]
  BY DEF InsertAll, FoldSet, MapThenFoldSet
<1>8. f[{}] = ix
  <2> HIDE DEF f
  <2> QED BY <1>6
<1>9. ASSUME NEW s \in SUBSET es, s # {}, f[s \ {c[s]}] \in IndexType
      PROVE  f[s] = h[c[s]][f[s \ {c[s]}]]
  <2>1. f[s] = Insert(f[s \ {c[s]}], c[s].path, c[s].doc)
    <3> HIDE DEF f
    <3> QED BY <1>1, <1>6, <1>9
  <2>2. c[s] \in es
    BY <1>1, <1>9
  <2> HIDE DEF f
  <2> QED BY <1>3, <1>9, <2>1, <2>2
<1>10. Keeps(h, es, G)
  BY <1>3 DEF Keeps
<1>11. f[es] \in G[es]
  <2> HIDE DEF f
  <2>1. Unfolds(f, es, IndexType, c, h)
    BY <1>1, <1>9 DEF Unfolds
  <2>2. f[{}] \in G[{}]
    BY <1>8
  <2> QED BY <1>10, <2>1, <2>2, FoldInduction
<1> HIDE DEF f
<1> QED BY <1>7, <1>11

(* What a listing does to the index: a path takes one of the documents     *)
(* listed at it, the others stay.                                          *)
LEMMA InsertAllDoes ==
  ASSUME NEW ix \in IndexType, NEW es \in SUBSET Entries, IsFiniteSet(es)
  PROVE  /\ InsertAll(ix, es) \in IndexType
         /\ InsertAll(ix, es).dirs = ix.dirs
         /\ Agrees(ix) => Agrees(InsertAll(ix, es))
         /\ \A p \in Path :
              IF \E e \in es : e.path = p
              THEN \E e \in es : e.path = p /\ InsertAll(ix, es).files[p] = e.doc
              ELSE InsertAll(ix, es).files[p] = ix.files[p]
<1> DEFINE At(g, s, p) == IF \E e \in s : e.path = p
                          THEN \E e \in s : e.path = p /\ g.files[p] = e.doc
                          ELSE g.files[p] = ix.files[p]
           G == [s \in SUBSET es |-> {g \in IndexType :
                   /\ g.dirs = ix.dirs
                   /\ Agrees(ix) => Agrees(g)
                   /\ \A p \in Path : At(g, s, p)}]
<1>1. ix \in G[{}]
  OBVIOUS
<1>2. ASSUME NEW s \in SUBSET es, NEW e \in s, NEW g \in G[s \ {e}]
      PROVE  Insert(g, e.path, e.doc) \in G[s]
  <2> DEFINE n == Insert(g, e.path, e.doc)
  <2>1. g \in IndexType /\ g.dirs = ix.dirs /\ (Agrees(ix) => Agrees(g))
        /\ \A p \in Path : At(g, s \ {e}, p)
    OBVIOUS
  <2>2. e.path \in Path /\ e.doc \in Doc
    BY DEF Entries
  <2>3. /\ n \in IndexType /\ n.dirs = g.dirs /\ (Agrees(g) => Agrees(n))
        /\ n.files = [g.files EXCEPT ![e.path] = e.doc]
    BY <2>1, <2>2, InsertDoes
  <2>4. g.files \in [Path -> Doc \cup {None}]
    BY <2>1 DEF IndexType
  <2>5. ASSUME NEW p \in Path PROVE At(n, s, p)
    <3> HIDE DEF n
    <3>1. CASE p = e.path
      BY <2>3, <2>4, <3>1
    <3>2. CASE p # e.path
      <4>1. n.files[p] = g.files[p]
        BY <2>3, <2>4, <3>2
      <4>2. At(g, s \ {e}, p)
        BY <2>1
      <4> QED BY <3>2, <4>1, <4>2
    <3> QED BY <3>1, <3>2
  <2> HIDE DEF n, At
  <2>6. n \in G[s]
    BY <2>1, <2>3, <2>5
  <2> QED BY <2>6 DEF n
<1>3. G \in [SUBSET es -> SUBSET IndexType]
  OBVIOUS
<1>4. InsertAll(ix, es) \in G[es]
  <2> HIDE DEF G
  <2> QED BY <1>1, <1>2, <1>3, InsertAllRule
<1> QED BY <1>4
LEMMA RemoveAllRule ==
  ASSUME NEW ix \in IndexType, NEW es \in SUBSET Path, IsFiniteSet(es),
         NEW G \in [SUBSET es -> SUBSET IndexType], ix \in G[{}],
         \A s \in SUBSET es : \A e \in s : \A g \in G[s \ {e}] : RemovePath(g, e) \in G[s]
  PROVE  RemoveAll(ix, es) \in G[es]
<1> DEFINE Iter(f) == f = [s \in SUBSET es |->
                 IF s = {} THEN ix
                 ELSE RemovePath(f[s \ {CHOOSE x \in s : TRUE}], CHOOSE x \in s : TRUE)]
<1>1. PICK c : \A s \in SUBSET es : s # {} => c[s] \in s /\ c[s] = CHOOSE x \in s : TRUE
  <2>1. \A s \in SUBSET es : s # {} =>
          Chosen(es)[s] \in s /\ Chosen(es)[s] = CHOOSE x \in s : TRUE
    BY DEF Chosen
  <2> QED BY <2>1
<1>2. es \subseteq Path
  OBVIOUS
<1>3. PICK h : \A e \in es : \A g \in IndexType :
        h[e][g] = RemovePath(g, e) /\ h[e][g] \in IndexType
  <2>1. \A e \in es : \A g \in IndexType : RemoveStep(es)[e][g] = RemovePath(g, e)
    BY DEF RemoveStep
  <2>2. \A e \in es : \A g \in IndexType : RemovePath(g, e) \in IndexType
    BY <1>2, RemovePathDoes
  <2>3. \A e \in es : \A g \in IndexType :
          RemoveStep(es)[e][g] = RemovePath(g, e) /\ RemoveStep(es)[e][g] \in IndexType
    BY <2>1, <2>2
  <2> QED BY <2>3, Zenon
<1>4. PICK k \in [SUBSET es -> [IndexType -> IndexType]] :
        \A s \in SUBSET es : \A g \in IndexType : s # {} => k[s][g] = h[c[s]][g]
  <2> DEFINE k == [s \in SUBSET es |-> [g \in IndexType |-> IF s = {} THEN g ELSE h[c[s]][g]]]
  <2>1. k \in [SUBSET es -> [IndexType -> IndexType]]
    BY <1>1, <1>3
  <2>2. \A s \in SUBSET es : \A g \in IndexType : s # {} => k[s][g] = h[c[s]][g]
    OBVIOUS
  <2> HIDE DEF k
  <2> QED BY <2>1, <2>2
<1>5. \E f : Iter(f)
  <2>1. PICK f \in [SUBSET es -> IndexType] :
          IsFold(f, es, ix, c, k)
    <3>1. Chooses(c, es)
      BY <1>1 DEF Chooses
    <3> QED BY <3>1, FoldExists
  <2>2. ASSUME NEW s \in SUBSET es, s # {}
        PROVE  f[s] = RemovePath(f[s \ {CHOOSE x \in s : TRUE}], CHOOSE x \in s : TRUE)
    <3>1. f[s] = k[s][f[s \ {c[s]}]]
      BY <2>1, <2>2 DEF IsFold
    <3>2. c[s] \in es /\ f[s \ {c[s]}] \in IndexType
      BY <1>1, <2>2
    <3>3. f[s] = h[c[s]][f[s \ {c[s]}]]
      BY <1>4, <2>2, <3>1, <3>2
    <3>4. f[s] = RemovePath(f[s \ {c[s]}], c[s])
      BY <1>3, <3>2, <3>3
    <3> QED BY <1>1, <2>2, <3>4
  <2>3. f[{}] = ix
    BY <2>1 DEF IsFold
  <2>4. Iter(f)
    BY <2>2, <2>3
  <2> HIDE DEF Iter
  <2> QED BY <2>4
<1> DEFINE f == CHOOSE g : Iter(g)
<1>6. Iter(f)
  <2> HIDE DEF Iter
  <2> QED BY <1>5
<1>7. RemoveAll(ix, es) = f[es]
  BY DEF RemoveAll, FoldSet, MapThenFoldSet
<1>8. f[{}] = ix
  <2> HIDE DEF f
  <2> QED BY <1>6
<1>9. ASSUME NEW s \in SUBSET es, s # {}, f[s \ {c[s]}] \in IndexType
      PROVE  f[s] = h[c[s]][f[s \ {c[s]}]]
  <2>1. f[s] = RemovePath(f[s \ {c[s]}], c[s])
    <3> HIDE DEF f
    <3> QED BY <1>1, <1>6, <1>9
  <2>2. c[s] \in es
    BY <1>1, <1>9
  <2> HIDE DEF f
  <2> QED BY <1>3, <1>9, <2>1, <2>2
<1>10. Keeps(h, es, G)
  BY <1>3 DEF Keeps
<1>11. f[es] \in G[es]
  <2> HIDE DEF f
  <2>1. Unfolds(f, es, IndexType, c, h)
    BY <1>1, <1>9 DEF Unfolds
  <2>2. f[{}] \in G[{}]
    BY <1>8
  <2> QED BY <1>10, <2>1, <2>2, FoldInduction
<1> HIDE DEF f
<1> QED BY <1>7, <1>11

LEMMA RemoveAllDoes ==
  ASSUME NEW ix \in IndexType, NEW ps \in SUBSET Path, IsFiniteSet(ps)
  PROVE  /\ RemoveAll(ix, ps) \in IndexType
         /\ RemoveAll(ix, ps).dirs = ix.dirs
         /\ Agrees(ix) => Agrees(RemoveAll(ix, ps))
         /\ \A p \in Path : RemoveAll(ix, ps).files[p] = IF p \in ps THEN None ELSE ix.files[p]
<1> DEFINE G == [s \in SUBSET ps |-> {g \in IndexType :
                   /\ g.dirs = ix.dirs
                   /\ Agrees(ix) => Agrees(g)
                   /\ \A p \in Path : g.files[p] = IF p \in s THEN None ELSE ix.files[p]}]
<1>1. ix \in G[{}]
  OBVIOUS
<1>2. ASSUME NEW s \in SUBSET ps, NEW e \in s, NEW g \in G[s \ {e}]
      PROVE  RemovePath(g, e) \in G[s]
  <2> DEFINE n == RemovePath(g, e)
  <2>1. g \in IndexType /\ g.dirs = ix.dirs /\ (Agrees(ix) => Agrees(g))
        /\ \A p \in Path : g.files[p] = IF p \in s \ {e} THEN None ELSE ix.files[p]
    OBVIOUS
  <2>2. /\ n \in IndexType /\ n.dirs = g.dirs /\ (Agrees(g) => Agrees(n))
        /\ n.files = [g.files EXCEPT ![e] = None]
    BY <2>1, RemovePathDoes
  <2>3. g.files \in [Path -> Doc \cup {None}]
    BY <2>1 DEF IndexType
  <2>4. \A p \in Path : n.files[p] = IF p \in s THEN None ELSE ix.files[p]
    <3> HIDE DEF n
    <3> QED BY <2>1, <2>2, <2>3
  <2> HIDE DEF n
  <2>5. n \in G[s]
    BY <2>1, <2>2, <2>4
  <2> QED BY <2>5 DEF n
<1>3. G \in [SUBSET ps -> SUBSET IndexType]
  OBVIOUS
<1>4. RemoveAll(ix, ps) \in G[ps]
  <2> HIDE DEF G
  <2> QED BY <1>1, <1>2, <1>3, RemoveAllRule
<1> QED BY <1>4

(***************************************************************************)
(* Paths.                                                                  *)
(***************************************************************************)
LEMMA PrefixIs ==
  ASSUME NEW a \in Seq(STRING), NEW b \in Seq(STRING)
  PROVE  IsPrefix(a, b) <=> Len(a) <= Len(b) /\ \A i \in 1..Len(a) : a[i] = b[i]
<1>1. ASSUME Len(a) <= Len(b)
      PROVE  SubSeq(a, 1, Len(a)) = a /\ SubSeq(b, 1, Len(a)) = [i \in 1..Len(a) |-> b[i]]
  BY <1>1
<1>2. a = [i \in 1..Len(a) |-> a[i]]
  OBVIOUS
<1>3. ASSUME Len(a) <= Len(b), a = [i \in 1..Len(a) |-> b[i]]
      PROVE  \A i \in 1..Len(a) : a[i] = b[i]
  BY <1>3
<1>4. ASSUME \A i \in 1..Len(a) : a[i] = b[i]
      PROVE  a = [i \in 1..Len(a) |-> b[i]]
  BY <1>2, <1>4
<1> QED BY <1>1, <1>3, <1>4 DEF IsPrefix

LEMMA PrefixRefl ==
  ASSUME NEW a \in Seq(STRING)
  PROVE  IsPrefix(a, a) /\ IsPrefix(Root, a)
<1>1. Root \in Seq(STRING) /\ Len(Root) = 0
  BY DEF Root
<1>2. Len(a) \in Nat /\ Len(a) <= Len(a)
  OBVIOUS
<1>3. IsPrefix(a, a)
  BY <1>2, PrefixIs
<1>4. IsPrefix(Root, a)
  <2>1. \A i \in 1..Len(Root) : Root[i] = a[i]
    BY <1>1
  <2>2. Len(Root) <= Len(a)
    BY <1>1, <1>2
  <2> HIDE DEF Root
  <2> QED BY <1>1, <2>1, <2>2, PrefixIs
<1> QED BY <1>3, <1>4

LEMMA PrefixTrans ==
  ASSUME NEW a \in Seq(STRING), NEW b \in Seq(STRING), NEW c \in Seq(STRING),
         IsPrefix(a, b), IsPrefix(b, c)
  PROVE  IsPrefix(a, c)
<1>1. Len(a) \in Nat /\ Len(b) \in Nat /\ Len(c) \in Nat
  OBVIOUS
<1>2. Len(a) <= Len(b) /\ Len(b) <= Len(c)
  BY PrefixIs
<1>3. ASSUME NEW i \in 1..Len(a) PROVE a[i] = c[i]
  <2>1. i \in 1..Len(b)
    BY <1>1, <1>2
  <2> QED BY <2>1, PrefixIs
<1> QED BY <1>1, <1>2, <1>3, PrefixIs

(* Two prefixes of one path.                                               *)
LEMMA PrefixComparable ==
  ASSUME NEW a \in Seq(STRING), NEW b \in Seq(STRING), NEW c \in Seq(STRING),
         IsPrefix(a, c), IsPrefix(b, c)
  PROVE  IsPrefix(a, b) \/ IsPrefix(b, a)
<1>1. Len(a) \in Nat /\ Len(b) \in Nat /\ Len(c) \in Nat
  OBVIOUS
<1>2. /\ \A i \in 1..Len(a) : a[i] = c[i]
      /\ \A i \in 1..Len(b) : b[i] = c[i]
  BY PrefixIs
<1>3. CASE Len(a) <= Len(b)
  <2>1. \A i \in 1..Len(a) : i \in 1..Len(b)
    BY <1>1, <1>3
  <2> QED BY <1>2, <1>3, <2>1, PrefixIs
<1>4. CASE Len(b) <= Len(a)
  <2>1. \A i \in 1..Len(b) : i \in 1..Len(a)
    BY <1>1, <1>4
  <2> QED BY <1>2, <1>4, <2>1, PrefixIs
<1> QED BY <1>1, <1>3, <1>4

LEMMA PrefixAntisym ==
  ASSUME NEW a \in Seq(STRING), NEW b \in Seq(STRING), IsPrefix(a, b), IsPrefix(b, a)
  PROVE  a = b
<1>1. Len(a) \in Nat /\ Len(b) \in Nat /\ Len(a) <= Len(b) /\ Len(b) <= Len(a)
  BY PrefixIs
<1>2. Len(a) = Len(b)
  BY <1>1
<1>3. \A i \in 1..Len(a) : a[i] = b[i]
  BY PrefixIs
<1> QED BY <1>2, <1>3

(* Moving a path to another directory keeps what is below what.            *)
LEMMA MovedIs ==
  ASSUME NEW p \in Seq(STRING), NEW from \in Seq(STRING), NEW to \in Seq(STRING), IsPrefix(from, p)
  PROVE  LET m == Moved(p, from, to)
         IN  /\ m \in Seq(STRING)
             /\ Len(m) = Len(to) + (Len(p) - Len(from))
             /\ \A i \in 1..Len(to) : m[i] = to[i]
             /\ \A i \in 1..(Len(p) - Len(from)) : m[Len(to) + i] = p[Len(from) + i]
<1> DEFINE t == SubSeq(p, Len(from) + 1, Len(p))
<1>1. Len(p) \in Nat /\ Len(from) \in Nat /\ Len(to) \in Nat /\ Len(from) <= Len(p)
  BY PrefixIs
<1>2. /\ t \in Seq(STRING) /\ Len(t) = Len(p) - Len(from)
      /\ \A i \in 1..(Len(p) - Len(from)) : t[i] = p[Len(from) + i]
  BY <1>1
<1> HIDE DEF t
<1>3. /\ to \o t \in Seq(STRING) /\ Len(to \o t) = Len(to) + Len(t)
      /\ \A i \in 1..Len(to) + Len(t) : (to \o t)[i] = IF i <= Len(to) THEN to[i] ELSE t[i - Len(to)]
  BY <1>2, ConcatProperties
<1>4. Moved(p, from, to) = to \o t
  BY DEF Moved, t
<1>5. \A i \in 1..Len(to) : (to \o t)[i] = to[i]
  BY <1>1, <1>2, <1>3
<1>6. ASSUME NEW i \in 1..(Len(p) - Len(from)) PROVE (to \o t)[Len(to) + i] = p[Len(from) + i]
  <2>1. /\ Len(to) + i \in 1..Len(to) + Len(t) /\ ~(Len(to) + i <= Len(to))
        /\ (Len(to) + i) - Len(to) = i
    BY <1>1, <1>2
  <2> QED BY <1>2, <1>3, <2>1
<1> QED BY <1>2, <1>3, <1>4, <1>5, <1>6

LEMMA MovedBelow ==
  ASSUME NEW p \in Seq(STRING), NEW from \in Seq(STRING), NEW to \in Seq(STRING), IsPrefix(from, p)
  PROVE  IsPrefix(to, Moved(p, from, to))
<1>1. Len(p) \in Nat /\ Len(from) \in Nat /\ Len(to) \in Nat /\ Len(from) <= Len(p)
  BY PrefixIs
<1>2. /\ Moved(p, from, to) \in Seq(STRING)
      /\ Len(to) <= Len(Moved(p, from, to))
      /\ \A i \in 1..Len(to) : to[i] = Moved(p, from, to)[i]
  <2> DEFINE m == Moved(p, from, to)
  <2>1. m \in Seq(STRING) /\ Len(m) = Len(to) + (Len(p) - Len(from)) /\ \A i \in 1..Len(to) : m[i] = to[i]
    BY MovedIs
  <2> HIDE DEF m
  <2>2. Len(to) <= Len(m) /\ \A i \in 1..Len(to) : to[i] = m[i]
    BY <1>1, <2>1
  <2> QED BY <2>1, <2>2 DEF m
<1> QED BY <1>2, PrefixIs

LEMMA MovedReflects ==
  ASSUME NEW p \in Seq(STRING), NEW q \in Seq(STRING), NEW from \in Seq(STRING), NEW to \in Seq(STRING),
         IsPrefix(from, p), IsPrefix(from, q),
         IsPrefix(Moved(p, from, to), Moved(q, from, to))
  PROVE  IsPrefix(p, q)
<1> DEFINE m == Moved(p, from, to)
           n == Moved(q, from, to)
<1>1. /\ Len(p) \in Nat /\ Len(from) \in Nat /\ Len(to) \in Nat /\ Len(q) \in Nat
      /\ Len(from) <= Len(p) /\ Len(from) <= Len(q)
      /\ \A i \in 1..Len(from) : from[i] = p[i] /\ from[i] = q[i]
  BY PrefixIs
<1>2. /\ m \in Seq(STRING) /\ Len(m) = Len(to) + (Len(p) - Len(from))
      /\ \A i \in 1..(Len(p) - Len(from)) : m[Len(to) + i] = p[Len(from) + i]
  BY MovedIs
<1>3. /\ n \in Seq(STRING) /\ Len(n) = Len(to) + (Len(q) - Len(from))
      /\ \A i \in 1..(Len(q) - Len(from)) : n[Len(to) + i] = q[Len(from) + i]
  BY MovedIs
<1> HIDE DEF m, n
<1>4. Len(m) <= Len(n) /\ \A i \in 1..Len(m) : m[i] = n[i]
  BY <1>2, <1>3, PrefixIs DEF m, n
<1>5. Len(p) <= Len(q)
  BY <1>1, <1>2, <1>3, <1>4
<1>6. ASSUME NEW i \in 1..Len(p) PROVE p[i] = q[i]
  <2>1. CASE i <= Len(from)
    BY <1>1, <2>1
  <2>2. CASE i > Len(from)
    <3>1. PICK j \in 1..(Len(p) - Len(from)) : i = Len(from) + j
      <4>1. i - Len(from) \in 1..(Len(p) - Len(from)) /\ i = Len(from) + (i - Len(from))
        BY <1>1, <2>2
      <4> QED BY <4>1
    <3>2. j \in 1..(Len(q) - Len(from)) /\ Len(to) + j \in 1..Len(m)
      BY <1>1, <1>2, <1>5
    <3>3. m[Len(to) + j] = n[Len(to) + j]
      BY <1>4, <3>2
    <3> QED BY <1>2, <1>3, <3>1, <3>2, <3>3
  <2> QED BY <1>1, <2>1, <2>2
<1> QED BY <1>5, <1>6, PrefixIs

(***************************************************************************)
(* The type invariant, for all hazards.  A call is a record whose request  *)
(* and answer fit its operation, and a child of a tree's batch is about an *)
(* entry of the tree, which waits for it.                                  *)
(***************************************************************************)
TreeOps == {"mvtree", "cptree"}
Kinds == {"none", "find", "list", "add", "update", "rename", "delete", "bulk"}
Requests == [kind : Kinds, path : Path \cup {Root, None}, doc : Doc \cup {None}, text : Texts]
Answers == [status : {"none", "ok", "missing", "failed"}, docs : SUBSET Entries]
Records == [op : Ops \cup {"free"}, path : Path \cup {Root, None}, dest : Path \cup {None},
            text : Texts, doc : Doc \cup {None}, req : Requests, ans : Answers,
            kids : SUBSET Entries, failed : BOOLEAN, of : Slot \cup {None}]

ReadOK(c) ==
  c.op \in {"read", "append", "copy"} =>
    /\ c.path \in Path /\ c.of = None
    /\ c.req.kind = "find" /\ c.req.path = c.path
    /\ IF c.op = "copy" THEN c.dest \in Path ELSE c.dest = None

WriteOK(c) ==
  c.op = "write" =>
    /\ c.path \in Path /\ c.dest \in {None, c.path}
    /\ c.req.kind \in {"none", "add", "update"}
    /\ c.req.kind = "none" => c.of # None
    /\ c.req.kind # "none" => c.req.path = c.path /\ c.req.text = c.text
    /\ c.req.kind = "update" => c.req.doc \in Doc

RemoveOK(c) ==
  /\ c.op = "remove" => /\ c.path \in Path /\ c.of = None
                        /\ c.req.kind = "delete" /\ c.req.path = c.path /\ c.req.doc \in Doc
  /\ c.op = "rmtree" => /\ c.path \in Path \cup {Root} /\ c.of = None
                        /\ c.req.kind = "bulk" /\ c.req.path = c.path

ListOK(c) ==
  c.op \in {"rmdir", "list", "warm"} =>
    c.path \in Path \cup {Root} /\ c.of = None /\ c.req.kind = "list" /\ c.req.path = c.path

MoveOK(c) ==
  c.op = "move" =>
    /\ c.path \in Path /\ c.dest \in Path /\ c.req.kind \in {"none", "find", "rename"}
    /\ c.req.kind = "none" => c.of # None /\ c.doc = None
    /\ c.req.kind = "find" => c.req.path = IF c.doc = None THEN c.path ELSE c.dest
    /\ c.req.kind = "rename" => c.doc \in Doc /\ c.req.doc = c.doc /\ c.req.path = c.dest

TreeOK(c) ==
  /\ c.op \in TreeOps =>
       /\ c.path \in Path /\ c.dest \in Path /\ c.of = None /\ c.req.kind \in {"none", "list"}
       /\ c.req.kind = "list" => c.req.path = c.path /\ c.kids = {}
       /\ \A e \in c.kids : e.path \in Under(c.path)
       /\ {Moved(r, c.path, c.dest) : r \in Under(c.path)} \subseteq Path
  /\ c.op \notin TreeOps => c.kids = {}

AnswerOK(c) ==
  /\ c.req.kind \notin {"update", "rename", "delete"} => c.req.doc = None
  /\ c.op # "move" => c.doc = None
  /\ c.req.kind = "none" => c.req = NoReq /\ c.ans = NoAns
  /\ c.ans.status = "none" => c.ans = NoAns
  /\ c.ans.status = "missing" => c.req.kind \in {"update", "rename", "delete"}
  /\ IsFiniteSet(c.ans.docs)
  /\ c.ans.status = "ok" =>
       /\ c.req.kind = "add" =>
            \E e \in c.ans.docs : c.ans.docs = {e} /\ e.path = c.path /\ e.text = c.text
       /\ c.req.kind = "find" =>
            c.ans.docs = {} \/ \E e \in c.ans.docs : c.ans.docs = {e} /\ e.path = c.req.path
       /\ c.req.kind = "list" => \A e \in c.ans.docs : e.path \in Under(c.req.path)

WellFormed(c) ==
  /\ ReadOK(c) /\ WriteOK(c) /\ RemoveOK(c) /\ ListOK(c) /\ MoveOK(c) /\ TreeOK(c) /\ AnswerOK(c)
  /\ c.op = "free" => c = Free

Calls == {c \in Records : WellFormed(c)}

KidOf(c, u) ==
  /\ u.op = IF c.op = "move" THEN "mvtree" ELSE "cptree"
  /\ u.req = NoReq
  /\ c.op \in {"move", "write"}
  /\ \E r \in Under(u.path) :
       LET to == Moved(r, u.path, u.dest)
       IN  IF c.op = "move" THEN c.path = r /\ c.dest = to ELSE c.path = to /\ c.dest = None

Family == \A s \in Slot : call[s].of # None => KidOf(call[s], call[call[s].of])

TypeInv ==
  /\ docs \in [Doc -> {None, Gone} \cup [path : Path, text : Texts, broken : BOOLEAN]]
  /\ index \in IndexType
  /\ cache \in [Path -> Texts \cup {None}]
  /\ call \in [Slot -> Calls]
  /\ calls \in 0..MaxCalls /\ events \in 0..MaxEvents /\ foreign \subseteq Path
  /\ Family

(* It implies the type invariant that TLC checks.                          *)
LEMMA TypeInvImplies == TypeInv => VolumeTypeOK
<1> SUFFICES ASSUME TypeInv PROVE VolumeTypeOK
  OBVIOUS
<1>1. ASSUME NEW s \in Slot, call[s] # Free
      PROVE  /\ call[s].op \in Ops
             /\ call[s].path \in Path \cup {Root} /\ call[s].dest \in Path \cup {None}
             /\ call[s].text \in Texts /\ call[s].doc \in Doc \cup {None}
             /\ call[s].kids \subseteq Entries /\ call[s].failed \in BOOLEAN
             /\ call[s].ans.docs \subseteq Entries
             /\ call[s].of \in Slot \cup {None}
             /\ call[s].of # None => call[call[s].of].op \in {"mvtree", "cptree"}
  <2>1. call[s] \in Records /\ WellFormed(call[s])
    BY DEF TypeInv, Calls
  <2>2. call[s].op \in Ops
    BY <1>1, <2>1 DEF WellFormed, Records
  <2>3. call[s].path \in Path \cup {Root}
    BY <2>1, <2>2 DEF WellFormed, ReadOK, WriteOK, RemoveOK, ListOK, MoveOK, TreeOK, TreeOps, Ops
  <2>4. call[s].of # None => call[call[s].of].op \in {"mvtree", "cptree"}
    BY DEF TypeInv, Family, KidOf
  <2> QED BY <2>1, <2>2, <2>3, <2>4 DEF Records, Answers
<1>2. /\ index.files \in [Path -> Doc \cup {None}]
      /\ index.byDoc \in [Doc -> Path \cup {None}] /\ index.dirs \subseteq Path
  BY DEF TypeInv, IndexType
<1> QED BY <1>1, <1>2 DEF TypeInv, VolumeTypeOK

LEMMA FreeIsCall == Free \in Calls /\ Free.of = None /\ Free.op = "free"
<1>1. NoReq \in Requests /\ NoAns \in Answers /\ NoReq.kind = "none" /\ NoAns.status = "none"
      /\ NoAns.docs = {} /\ NoReq.doc = None
  BY DEF NoReq, NoAns, Requests, Answers, Kinds, Texts
<1> HIDE DEF NoReq, NoAns
<1>2. Free \in Records
  BY <1>1 DEF Free, Records, Texts
<1>3. WellFormed(Free)
  BY <1>1, FS_EmptySet DEF Free, WellFormed, ReadOK, WriteOK, RemoveOK, ListOK, MoveOK, TreeOK, AnswerOK, TreeOps
<1> QED BY <1>2, <1>3 DEF Calls, Free

(* What a request makes of a call.                                         *)
LEMMA AskIs ==
  ASSUME NEW job \in Records, NEW kind \in Kinds, NEW path \in Path \cup {Root},
         NEW doc \in Doc \cup {None}, NEW text \in Texts, NEW s \in Slot,
         Ask(s, job, kind, path, doc, text)
  PROVE  \E c \in Records :
           /\ call' = [call EXCEPT ![s] = c]
           /\ c.op = job.op /\ c.path = job.path /\ c.dest = job.dest /\ c.text = job.text
           /\ c.doc = job.doc /\ c.kids = job.kids /\ c.of = job.of /\ c.ans = NoAns
           /\ c.req.kind = kind /\ c.req.path = path /\ c.req.doc = doc /\ c.req.text = text
<1> DEFINE r == [kind |-> kind, path |-> path, doc |-> doc, text |-> text]
           c == [job EXCEPT !.req = r, !.ans = NoAns]
<1>1. r \in Requests /\ NoAns \in Answers
  BY DEF Requests, NoAns, Answers
<1>2. c \in Records /\ c.req = r /\ c.ans = NoAns
  <2> HIDE DEF r
  <2> QED BY <1>1 DEF Records
<1>3. /\ c.op = job.op /\ c.path = job.path /\ c.dest = job.dest /\ c.text = job.text
      /\ c.doc = job.doc /\ c.kids = job.kids /\ c.of = job.of
  <2> HIDE DEF r
  <2> QED BY DEF Records
<1>4. call' = [call EXCEPT ![s] = c]
  BY DEF Ask
<1>5. c.req.kind = kind /\ c.req.path = path /\ c.req.doc = doc /\ c.req.text = text
  BY <1>2
<1> HIDE DEF c
<1> QED BY <1>2, <1>3, <1>4, <1>5

(* How the steps of a call end.                                            *)
LEMMA AddDocEnds ==
  ASSUME NEW job \in Records, NEW p \in Path, NEW text \in Texts, NEW ix \in IndexType,
         NEW s \in Slot, AddDoc(s, job, p, text, ix), job.kids = {}, job.doc = None, job.dest \in {None, p}
  PROVE  \/ ~Writable(ix, p) /\ Throw(s)
         \/ /\ Writable(ix, p)
            /\ \E c \in Calls :
                 /\ call' = [call EXCEPT ![s] = c]
                 /\ c.op = "write" /\ c.path = p /\ c.dest = job.dest /\ c.text = text
                 /\ c.doc = job.doc /\ c.kids = {} /\ c.of = job.of /\ c.ans = NoAns
                 /\ c.req.kind = IF ix.files[p] = None THEN "add" ELSE "update"
                 /\ c.req.doc = ix.files[p]
<1> DEFINE write == [job EXCEPT !.op = "write", !.path = p, !.text = text]
<1>1. /\ write \in Records
      /\ write.op = "write" /\ write.path = p /\ write.dest = job.dest /\ write.text = text
      /\ write.doc = job.doc /\ write.kids = {} /\ write.of = job.of
  BY DEF Records, Ops
<1>2. ix.files[p] \in Doc \cup {None} /\ p # Root
  BY VolumeAssumption DEF IndexType, Root
<1>3. CASE ~Writable(ix, p)
  BY <1>3 DEF AddDoc
<1>4. CASE Writable(ix, p)
  <2> DEFINE kind == IF ix.files[p] = None THEN "add" ELSE "update"
  <2>1. Ask(s, write, kind, p, ix.files[p], text)
    BY <1>2, <1>4 DEF AddDoc, IsFile
  <2>2. kind \in Kinds
    BY DEF Kinds
  <2> HIDE DEF write
  <2>3. PICK c \in Records :
           /\ call' = [call EXCEPT ![s] = c]
           /\ c.op = write.op /\ c.path = write.path /\ c.dest = write.dest /\ c.text = write.text
           /\ c.doc = write.doc /\ c.kids = write.kids /\ c.of = write.of /\ c.ans = NoAns
           /\ c.req.kind = kind /\ c.req.path = p /\ c.req.doc = ix.files[p] /\ c.req.text = text
    <3> HIDE DEF kind
    <3> QED BY <1>1, <1>2, <2>1, <2>2, AskIs
  <2>4. NoAns.status = "none" /\ NoAns.docs = {} /\ IsFiniteSet(NoAns.docs)
    BY FS_EmptySet DEF NoAns
  <2>5. WellFormed(c)
    BY <1>1, <1>2, <2>3, <2>4
    DEF WellFormed, ReadOK, WriteOK, RemoveOK, ListOK, MoveOK, TreeOK, AnswerOK, TreeOps
  <2>6. c \in Calls
    BY <2>3, <2>5 DEF Calls
  <2> QED BY <1>1, <1>4, <2>3, <2>6
<1> QED BY <1>3, <1>4

LEMMA GotEnds ==
  ASSUME NEW job \in Records, NEW text \in Texts \cup {None}, NEW ix \in IndexType, NEW s \in Slot,
         job.op \in {"read", "append", "copy"}, ReadOK(job), job.kids = {}, job.doc = None,
         Got(s, job, text, ix)
  PROVE  \/ Done(s)
         \/ Throw(s)
         \/ \E p \in Path : /\ p = IF job.op = "copy" THEN job.dest ELSE job.path
                            /\ Writable(ix, p)
                            /\ \E c \in Calls :
                                 /\ call' = [call EXCEPT ![s] = c]
                                 /\ c.op = "write" /\ c.path = p /\ c.dest = job.dest
                                 /\ c.doc = job.doc /\ c.kids = {} /\ c.of = None /\ c.ans = NoAns
                                 /\ c.req.kind = IF ix.files[p] = None THEN "add" ELSE "update"
                                 /\ c.req.doc = ix.files[p]
<1>1. CASE job.op = "read"
  BY <1>1 DEF Got
<1>2. CASE job.op = "append"
  <2> DEFINE all == job.text \cup (IF text = None THEN {} ELSE text)
  <2>1. AddDoc(s, job, job.path, all, ix)
    BY <1>2 DEF Got
  <2>2. all \in Texts
    BY DEF Records, Texts
  <2>3. job.path \in Path /\ job.dest = None /\ job.of = None
    BY <1>2 DEF ReadOK
  <2>4. job.kids = {} /\ job.doc = None /\ job.dest \in {None, job.path}
    BY <2>3
  <2> HIDE DEF all
  <2>5. \/ ~Writable(ix, job.path) /\ Throw(s)
        \/ /\ Writable(ix, job.path)
           /\ \E c \in Calls :
                /\ call' = [call EXCEPT ![s] = c]
                /\ c.op = "write" /\ c.path = job.path /\ c.dest = job.dest /\ c.text = all
                /\ c.doc = job.doc /\ c.kids = {} /\ c.of = job.of /\ c.ans = NoAns
                /\ c.req.kind = IF ix.files[job.path] = None THEN "add" ELSE "update"
                /\ c.req.doc = ix.files[job.path]
    BY <2>1, <2>2, <2>3, <2>4, AddDocEnds
  <2> QED BY <1>2, <2>3, <2>5
<1>3. CASE job.op = "copy" /\ text # None
  <2>1. AddDoc(s, job, job.dest, text, ix)
    BY <1>3 DEF Got
  <2>2. job.dest \in Path /\ job.of = None
    BY <1>3 DEF ReadOK
  <2>3. PICK q \in Path : q = job.dest
    BY <2>2
  <2>4. AddDoc(s, job, q, text, ix) /\ text \in Texts /\ job.kids = {} /\ job.dest \in {None, q}
    BY <1>3, <2>1, <2>3
  <2>5. \/ ~Writable(ix, q) /\ Throw(s)
        \/ /\ Writable(ix, q)
           /\ \E c \in Calls :
                /\ call' = [call EXCEPT ![s] = c]
                /\ c.op = "write" /\ c.path = q /\ c.dest = job.dest /\ c.text = text
                /\ c.doc = job.doc /\ c.kids = {} /\ c.of = job.of /\ c.ans = NoAns
                /\ c.req.kind = IF ix.files[q] = None THEN "add" ELSE "update"
                /\ c.req.doc = ix.files[q]
    BY <2>4, AddDocEnds
  <2> QED BY <1>3, <2>2, <2>3, <2>5
<1>4. CASE job.op = "copy" /\ text = None
  BY <1>4 DEF Got
<1> QED BY <1>1, <1>2, <1>3, <1>4

LEMMA GetDocEnds ==
  ASSUME TypeInv, NEW job \in Records, NEW s \in Slot,
         job.op \in {"read", "append", "copy"}, job.path \in Path, job.of = None, job.kids = {},
         job.doc = None,
         IF job.op = "copy" THEN job.dest \in Path ELSE job.dest = None,
         GetDoc(s, job)
  PROVE  \/ Done(s)
         \/ Throw(s)
         \/ \E p \in Path : /\ p = IF job.op = "copy" THEN job.dest ELSE job.path
                            /\ Writable(index, p)
                            /\ \E c \in Calls :
                                 /\ call' = [call EXCEPT ![s] = c]
                                 /\ c.op = "write" /\ c.path = p /\ c.dest = job.dest
                                 /\ c.doc = job.doc /\ c.kids = {} /\ c.of = None /\ c.ans = NoAns
                                 /\ c.req.kind = IF index.files[p] = None THEN "add" ELSE "update"
                                 /\ c.req.doc = index.files[p]
         \/ \E c \in Calls :
              /\ call' = [call EXCEPT ![s] = c]
              /\ c.op = job.op /\ c.path = job.path /\ c.dest = job.dest
              /\ c.doc = job.doc /\ c.kids = {} /\ c.of = None /\ c.ans = NoAns
              /\ c.req.kind = "find" /\ c.req.path = job.path
<1>1. CASE cache[job.path] # None /\ IsFile(index, job.path)
  <2>1. Got(s, job, cache[job.path], index) /\ cache[job.path] \in Texts \cup {None} /\ index \in IndexType
    BY <1>1 DEF GetDoc, TypeInv
  <2>2. CASE job.op = "read"
    BY <2>1, <2>2 DEF Got
  <2>3. CASE job.op = "append"
    <3> DEFINE text == job.text \cup cache[job.path]
    <3>1. AddDoc(s, job, job.path, text, index) /\ text \in Texts
      BY <1>1, <2>1, <2>3 DEF Got, Records, Texts
    <3> HIDE DEF text
    <3>2. job.dest \in {None, job.path} /\ job.doc = None /\ job.kids = {} /\ job.path \in Path
      BY <2>3
    <3>3. \/ ~Writable(index, job.path) /\ Throw(s)
          \/ /\ Writable(index, job.path)
             /\ \E c \in Calls :
                 /\ call' = [call EXCEPT ![s] = c]
                 /\ c.op = "write" /\ c.path = job.path /\ c.dest = job.dest /\ c.text = text
                 /\ c.doc = job.doc /\ c.kids = {} /\ c.of = job.of /\ c.ans = NoAns
                 /\ c.req.kind = IF index.files[job.path] = None THEN "add" ELSE "update"
                 /\ c.req.doc = index.files[job.path]
      BY <2>1, <3>1, <3>2, AddDocEnds
    <3> QED BY <2>3, <3>3
  <2>4. CASE job.op = "copy"
    <3>1. AddDoc(s, job, job.dest, cache[job.path], index) /\ cache[job.path] \in Texts
      BY <1>1, <2>1, <2>4 DEF Got
    <3> QED BY <2>1, <2>4, <3>1, AddDocEnds
  <2> QED BY <2>2, <2>3, <2>4
<1>2. CASE ~(cache[job.path] # None /\ IsFile(index, job.path))
  <2>1. Ask(s, job, "find", job.path, None, {}) /\ "find" \in Kinds /\ {} \in Texts
    BY <1>2 DEF GetDoc, Kinds, Texts
  <2>a. job.path \in Path \cup {Root} /\ None \in Doc \cup {None}
    OBVIOUS
  <2>2. PICK c \in Records :
           /\ call' = [call EXCEPT ![s] = c]
           /\ c.op = job.op /\ c.path = job.path /\ c.dest = job.dest /\ c.text = job.text
           /\ c.doc = job.doc /\ c.kids = job.kids /\ c.of = job.of /\ c.ans = NoAns
           /\ c.req.kind = "find" /\ c.req.path = job.path /\ c.req.doc = None /\ c.req.text = {}
    BY <2>1, <2>a, AskIs
  <2>3. NoAns.status = "none" /\ NoAns.docs = {} /\ IsFiniteSet(NoAns.docs)
    BY FS_EmptySet DEF NoAns
  <2>4. WellFormed(c)
    BY <2>2, <2>3
    DEF WellFormed, ReadOK, WriteOK, RemoveOK, ListOK, MoveOK, TreeOK, AnswerOK, TreeOps
  <2> QED BY <2>2, <2>4 DEF Calls
<1> QED BY <1>1, <1>2

LEMMA MoveDocEnds ==
  ASSUME NEW job \in Records, NEW ix \in IndexType, NEW s \in Slot,
         job.op = "move", job.path \in Path, job.dest \in Path, job.doc = None, job.kids = {},
         MoveDoc(s, job, ix)
  PROVE  \/ ix.files[job.path] # None /\ ix.files[job.dest] # None /\ Throw(s)
         \/ \E c \in Calls :
              /\ call' = [call EXCEPT ![s] = c]
              /\ c.op = "move" /\ c.path = job.path /\ c.dest = job.dest
              /\ c.doc = ix.files[job.path] /\ c.kids = {} /\ c.of = job.of /\ c.ans = NoAns
              /\ c.req.kind = "find"
              /\ c.doc # None => ix.files[job.dest] = None
<1>1. ix.files[job.path] \in Doc \cup {None} /\ job.path # Root /\ job.dest # Root
  BY VolumeAssumption DEF IndexType, Root
<1>2. NoAns.status = "none" /\ NoAns.docs = {} /\ IsFiniteSet(NoAns.docs)
  BY FS_EmptySet DEF NoAns
<1>3. "find" \in Kinds /\ {} \in Texts
  BY DEF Kinds, Texts
<1>4. CASE ix.files[job.path] = None
  <2>1. Ask(s, job, "find", job.path, None, {})
    BY <1>4 DEF MoveDoc, IsFile
  <2>2. PICK c \in Records :
           /\ call' = [call EXCEPT ![s] = c]
           /\ c.op = job.op /\ c.path = job.path /\ c.dest = job.dest /\ c.text = job.text
           /\ c.doc = job.doc /\ c.kids = job.kids /\ c.of = job.of /\ c.ans = NoAns
           /\ c.req.kind = "find" /\ c.req.path = job.path /\ c.req.doc = None /\ c.req.text = {}
    <3>1. job.path \in Path \cup {Root} /\ None \in Doc \cup {None}
      OBVIOUS
    <3> QED BY <1>3, <2>1, <3>1, AskIs
  <2>3. WellFormed(c)
    BY <1>2, <2>2
    DEF WellFormed, ReadOK, WriteOK, RemoveOK, ListOK, MoveOK, TreeOK, AnswerOK, TreeOps
  <2> QED BY <1>4, <2>2, <2>3 DEF Calls
<1>5. CASE ix.files[job.path] # None /\ ix.files[job.dest] # None
  BY <1>1, <1>5 DEF MoveDoc, IsFile
<1>6. CASE ix.files[job.path] # None /\ ix.files[job.dest] = None
  <2> DEFINE next == [job EXCEPT !.doc = ix.files[job.path]]
  <2>1. Ask(s, next, "find", job.dest, None, {})
    BY <1>1, <1>6 DEF MoveDoc, IsFile
  <2>2. /\ next \in Records /\ next.op = "move" /\ next.path = job.path /\ next.dest = job.dest
        /\ next.doc = ix.files[job.path] /\ next.kids = {} /\ next.of = job.of
    BY <1>1 DEF Records
  <2> HIDE DEF next
  <2>3. PICK c \in Records :
           /\ call' = [call EXCEPT ![s] = c]
           /\ c.op = next.op /\ c.path = next.path /\ c.dest = next.dest /\ c.text = next.text
           /\ c.doc = next.doc /\ c.kids = next.kids /\ c.of = next.of /\ c.ans = NoAns
           /\ c.req.kind = "find" /\ c.req.path = job.dest /\ c.req.doc = None /\ c.req.text = {}
    BY <1>3, <2>1, <2>2, AskIs
  <2>4. WellFormed(c)
    BY <1>2, <1>6, <2>2, <2>3
    DEF WellFormed, ReadOK, WriteOK, RemoveOK, ListOK, MoveOK, TreeOK, AnswerOK, TreeOps
  <2> QED BY <1>6, <2>2, <2>3, <2>4 DEF Calls
<1> QED BY <1>4, <1>5, <1>6

(* A request that a new call asks, what the index says of it.              *)
Fresh(c, ix) ==
  /\ c.ans = NoAns /\ c.req.kind # "none"
  /\ c.req.kind \in {"update", "delete"} => c.req.doc \in Doc /\ ix.files[c.path] = c.req.doc
  /\ c.req.kind = "add" => ix.files[c.path] = None /\ Writable(ix, c.path)
  /\ c.op = "move" =>
       /\ c.req.kind = "find" /\ ix.files[c.path] = c.doc
       /\ c.doc # None => ix.files[c.dest] = None

LEMMA JobIs ==
  ASSUME NEW op \in Ops, NEW p \in Path \cup {Root}, NEW q \in Path \cup {None}, NEW text \in Texts
  PROVE  LET j == Job(op, p, q, text)
         IN  /\ j \in Records /\ j.op = op /\ j.path = p /\ j.dest = q /\ j.text = text
             /\ j.doc = None /\ j.kids = {} /\ j.of = None
<1>1. Free \in Records
  BY FreeIsCall DEF Calls
<1>2. Job(op, p, q, text) = [Free EXCEPT !.op = op, !.path = p, !.dest = q, !.text = text]
  BY DEF Job
<1>3. Free.doc = None /\ Free.kids = {} /\ Free.of = None
  BY DEF Free
<1> HIDE DEF Job
<1> QED BY <1>1, <1>2, <1>3 DEF Records

(* The first request of the calls that do not look for a document.         *)
Plain(op, kind, p, q, doc) ==
  \/ op = "remove" /\ kind = "delete" /\ p \in Path /\ doc \in Doc
  \/ op = "rmtree" /\ kind = "bulk" /\ doc = None
  \/ op \in {"rmdir", "list", "warm"} /\ kind = "list" /\ doc = None
  \/ /\ op \in TreeOps /\ kind = "list" /\ doc = None /\ p \in Path /\ q \in Path
     /\ {Moved(r, p, q) : r \in Under(p)} \subseteq Path

AsksPlain(s, op, kind, p, q, doc) ==
  \E c \in Calls :
    /\ call' = [call EXCEPT ![s] = c]
    /\ c.op = op /\ c.path = p /\ c.dest = q /\ c.kids = {} /\ c.of = None
    /\ c.ans = NoAns /\ c.req.kind = kind /\ c.req.doc = doc

LEMMA AskNew ==
  ASSUME NEW op \in Ops, NEW kind \in Kinds, NEW p \in Path \cup {Root}, NEW q \in Path \cup {None},
         NEW doc \in Doc \cup {None}, NEW s \in Slot,
         Ask(s, Job(op, p, q, {}), kind, p, doc, {}),
         Plain(op, kind, p, q, doc)
  PROVE  AsksPlain(s, op, kind, p, q, doc)
<1>1. PICK j \in Records :
        /\ j = Job(op, p, q, {}) /\ j.op = op /\ j.path = p /\ j.dest = q /\ j.text = {}
        /\ j.doc = None /\ j.kids = {} /\ j.of = None
  BY JobIs DEF Texts
<1>2. Ask(s, j, kind, p, doc, {}) /\ {} \in Texts
  BY <1>1 DEF Texts
<1>3. PICK c \in Records :
           /\ call' = [call EXCEPT ![s] = c]
           /\ c.op = j.op /\ c.path = j.path /\ c.dest = j.dest /\ c.text = j.text
           /\ c.doc = j.doc /\ c.kids = j.kids /\ c.of = j.of /\ c.ans = NoAns
           /\ c.req.kind = kind /\ c.req.path = p /\ c.req.doc = doc /\ c.req.text = {}
  BY <1>2, AskIs
<1>4. NoAns.status = "none" /\ NoAns.docs = {} /\ IsFiniteSet(NoAns.docs)
  BY FS_EmptySet DEF NoAns
<1>5. WellFormed(c)
  BY <1>1, <1>3, <1>4
  DEF WellFormed, ReadOK, WriteOK, RemoveOK, ListOK, MoveOK, TreeOK, AnswerOK, TreeOps, Plain
<1> QED BY <1>1, <1>3, <1>5 DEF Calls, AsksPlain

(* A call that has just begun holds no path related to one of another's.   *)
Begun(s, c) ==
  /\ call[s] = Free /\ call' = [call EXCEPT ![s] = c]
  /\ c.op # "free" /\ c.of = None /\ c.kids = {} /\ Fresh(c, index)
  /\ c.op = "move" => Writable(index, c.dest)
  /\ \/ "overlap" \in Hazards
     \/ \A t \in Slot, u \in {c.path, c.dest} :
          call[t] # Free => ~Related(u, call[t].path) /\ ~Related(u, call[t].dest)

LEMMA FreeEnds ==
  ASSUME TypeInv, NEW s \in Slot, call[s] = Free, Done(s) \/ Throw(s)
  PROVE  call' = call
<1>1. call[s].of = None /\ None \notin Slot /\ call \in [Slot -> Calls]
  BY VolumeAssumption, FreeIsCall DEF TypeInv
<1>2. CASE Done(s)
  BY <1>1, <1>2 DEF Done
<1>3. CASE Throw(s)
  <2> DEFINE f == [t \in Slot |-> IF t = s THEN Free
                          ELSE IF t = call[s].of THEN [call[t] EXCEPT !.failed = TRUE]
                          ELSE call[t]]
  <2>1. \A t \in Slot : f[t] = call[t]
    BY <1>1
  <2>2. call' = f
    BY <1>3 DEF Throw
  <2>3. f \in [Slot -> Calls]
    BY <1>1, <2>1
  <2> HIDE DEF f
  <2> QED BY <1>1, <2>1, <2>2, <2>3
<1> QED BY <1>2, <1>3

LEMMA MayCallIs ==
  ASSUME NEW s \in Slot, NEW p \in Path \cup {Root}, NEW q \in Path \cup {None}, MayCall(s, p, q)
  PROVE  /\ call[s] = Free /\ calls < MaxCalls /\ calls' = calls + 1
         /\ docs' = docs /\ events' = events /\ foreign' = foreign
         /\ \A u \in {p, q, None} :
              \/ "overlap" \in Hazards
              \/ \A t \in Slot :
                   call[t] # Free => ~Related(u, call[t].path) /\ ~Related(u, call[t].dest)
BY DEF MayCall, Related

LEMMA BegunIs ==
  ASSUME NEW s \in Slot, NEW p \in Path \cup {Root}, NEW q \in Path \cup {None}, MayCall(s, p, q),
         NEW c \in Calls, call' = [call EXCEPT ![s] = c],
         c.op # "free", c.of = None, c.kids = {}, Fresh(c, index), {c.path, c.dest} \subseteq {p, q, None},
         c.op = "move" => Writable(index, c.dest)
  PROVE  Begun(s, c)
BY MayCallIs DEF Begun

LEMMA StartEnds ==
  ASSUME TypeInv, NEW s \in Slot, Start(s)
  PROVE  /\ docs' = docs /\ cache' = cache /\ events' = events /\ foreign' = foreign
         /\ calls < MaxCalls /\ calls' = calls + 1
         /\ index' \in IndexType /\ index'.files = index.files /\ index'.byDoc = index.byDoc
         /\ call' = call \/ \E c \in Calls : Begun(s, c)
<1> DEFINE Kept == /\ docs' = docs /\ cache' = cache /\ events' = events /\ foreign' = foreign
                   /\ calls < MaxCalls /\ calls' = calls + 1
           Same == index' \in IndexType /\ index'.files = index.files /\ index'.byDoc = index.byDoc
           Ends == call' = call \/ \E c \in Calls : Begun(s, c)
<1>i. index \in IndexType /\ {} \in Texts /\ None \in Path \cup {None}
  BY DEF TypeInv, Texts
<1>1. ASSUME NEW op \in {"read", "append", "copy"}, NEW p \in Path, NEW q \in Path \cup {None},
             NEW text \in Texts, IF op = "copy" THEN q \in Path ELSE q = None,
             MayCall(s, p, q), GetDoc(s, Job(op, p, q, text)), UNCHANGED <<index, cache>>
      PROVE  Kept /\ Same /\ Ends
  <2>1. Kept /\ Same /\ call[s] = Free
    BY <1>i, <1>1, MayCallIs
  <2>2. PICK j \in Records :
          /\ j = Job(op, p, q, text) /\ j.op = op /\ j.path = p /\ j.dest = q
          /\ j.doc = None /\ j.kids = {} /\ j.of = None
    BY JobIs DEF Ops
  <2>3. GetDoc(s, j) /\ j.op \in {"read", "append", "copy"} /\ j.path \in Path
        /\ IF j.op = "copy" THEN j.dest \in Path ELSE j.dest = None
    BY <1>1, <2>2
  <2>4. \/ Done(s)
        \/ Throw(s)
        \/ \E u \in Path : /\ u = IF j.op = "copy" THEN j.dest ELSE j.path
                           /\ Writable(index, u)
                           /\ \E c \in Calls :
                                /\ call' = [call EXCEPT ![s] = c]
                                /\ c.op = "write" /\ c.path = u /\ c.dest = j.dest
                                /\ c.doc = j.doc /\ c.kids = {} /\ c.of = None /\ c.ans = NoAns
                                /\ c.req.kind = IF index.files[u] = None THEN "add" ELSE "update"
                                /\ c.req.doc = index.files[u]
        \/ \E c \in Calls :
             /\ call' = [call EXCEPT ![s] = c]
             /\ c.op = j.op /\ c.path = j.path /\ c.dest = j.dest
             /\ c.doc = j.doc /\ c.kids = {} /\ c.of = None /\ c.ans = NoAns
             /\ c.req.kind = "find" /\ c.req.path = j.path
    BY <2>2, <2>3, GetDocEnds
  <2>5. CASE Done(s) \/ Throw(s)
    BY <2>1, <2>5, FreeEnds
  <2>6. ASSUME NEW u \in Path, u = IF j.op = "copy" THEN j.dest ELSE j.path, Writable(index, u),
               NEW c \in Calls, call' = [call EXCEPT ![s] = c],
               c.op = "write" /\ c.path = u /\ c.dest = j.dest
               /\ c.kids = {} /\ c.of = None /\ c.ans = NoAns
               /\ c.req.kind = (IF index.files[u] = None THEN "add" ELSE "update")
               /\ c.req.doc = index.files[u]
        PROVE  Ends
    <3>1. index.files[u] \in Doc \cup {None}
      BY <1>i DEF IndexType
    <3>2. Fresh(c, index)
      BY <2>6, <3>1 DEF Fresh
    <3>3. {c.path, c.dest} \subseteq {p, q, None}
      BY <2>2, <2>6
    <3> QED BY <1>1, <2>6, <3>2, <3>3, BegunIs
  <2>7. ASSUME NEW c \in Calls, call' = [call EXCEPT ![s] = c],
               c.op = j.op /\ c.path = j.path /\ c.dest = j.dest
               /\ c.kids = {} /\ c.of = None /\ c.ans = NoAns /\ c.req.kind = "find"
        PROVE  Ends
    <3>1. Fresh(c, index)
      BY <2>3, <2>7 DEF Fresh
    <3>2. {c.path, c.dest} \subseteq {p, q, None} /\ c.op # "free" /\ c.op # "move"
      BY <2>2, <2>3, <2>7
    <3> QED BY <1>1, <2>7, <3>1, <3>2, BegunIs
  <2> QED BY <2>1, <2>4, <2>5, <2>6, <2>7
<1>2. ASSUME NEW op \in Ops, NEW kind \in Kinds, NEW p \in Path \cup {Root}, NEW q \in Path \cup {None},
             NEW doc \in Doc \cup {None}, MayCall(s, p, q), UNCHANGED <<index, cache>>,
             Ask(s, Job(op, p, q, {}), kind, p, doc, {}),
             Plain(op, kind, p, q, doc), op = "remove" => doc = index.files[p]
      PROVE  Kept /\ Same /\ Ends
  <2>1. Kept /\ Same
    BY <1>i, <1>2, MayCallIs
  <2>2. PICK c \in Calls :
           /\ call' = [call EXCEPT ![s] = c]
           /\ c.op = op /\ c.path = p /\ c.dest = q /\ c.kids = {} /\ c.of = None
           /\ c.ans = NoAns /\ c.req.kind = kind /\ c.req.doc = doc
    <3>1. Ask(s, Job(op, p, q, {}), kind, p, doc, {}) /\ Plain(op, kind, p, q, doc)
      BY <1>2
    <3>2. AsksPlain(s, op, kind, p, q, doc)
      BY <3>1, AskNew
    <3> QED BY <3>2 DEF AsksPlain
  <2>3. Fresh(c, index) /\ c.op # "free" /\ c.op # "move"
    BY <1>2, <2>2 DEF Fresh, TreeOps, Plain
  <2> QED BY <1>2, <2>1, <2>2, <2>3, BegunIs
<1>3. CASE ReadFile(s)
  <2>1. PICK p \in Path : MayCall(s, p, None) /\ GetDoc(s, Job("read", p, None, {})) /\ UNCHANGED <<index, cache>>
    BY <1>3 DEF ReadFile
  <2> QED BY <1>i, <2>1, <1>1
<1>4. CASE WriteFile(s)
  <2>1. PICK p \in Path, l \in Line :
          MayCall(s, p, None) /\ AddDoc(s, Job("write", p, None, {l}), p, {l}, index) /\ UNCHANGED <<index, cache>>
    BY <1>4 DEF WriteFile
  <2>2. Kept /\ Same /\ call[s] = Free /\ \E t \in Texts : t = {l}
    BY <1>i, <2>1, MayCallIs DEF Texts
  <2>a. PICK t \in Texts : t = {l}
    BY <2>2
  <2>3. PICK j \in Records :
          /\ j = Job("write", p, None, t) /\ j.dest = None /\ j.doc = None /\ j.kids = {} /\ j.of = None
    <3>1. "write" \in Ops /\ p \in Path \cup {Root} /\ None \in Path \cup {None}
      BY DEF Ops
    <3> QED BY <3>1, JobIs
  <2>4. AddDoc(s, j, p, t, index) /\ j.dest \in {None, p}
    BY <2>1, <2>3, <2>a
  <2>5. \/ ~Writable(index, p) /\ Throw(s)
        \/ /\ Writable(index, p)
           /\ \E c \in Calls :
                 /\ call' = [call EXCEPT ![s] = c]
                 /\ c.op = "write" /\ c.path = p /\ c.dest = j.dest /\ c.text = t
                 /\ c.doc = j.doc /\ c.kids = {} /\ c.of = j.of /\ c.ans = NoAns
                 /\ c.req.kind = IF index.files[p] = None THEN "add" ELSE "update"
                 /\ c.req.doc = index.files[p]
    BY <1>i, <2>2, <2>3, <2>4, AddDocEnds
  <2>6. CASE Throw(s)
    BY <2>2, <2>6, FreeEnds
  <2>7. ASSUME Writable(index, p), NEW c \in Calls, call' = [call EXCEPT ![s] = c],
               c.op = "write" /\ c.path = p /\ c.dest = None
               /\ c.kids = {} /\ c.of = None /\ c.ans = NoAns
               /\ c.req.kind = (IF index.files[p] = None THEN "add" ELSE "update")
               /\ c.req.doc = index.files[p]
        PROVE  Ends
    <3>1. index.files[p] \in Doc \cup {None}
      BY <1>i DEF IndexType
    <3>2. Fresh(c, index)
      BY <2>7, <3>1 DEF Fresh
    <3>3. c.op # "free" /\ {c.path, c.dest} \subseteq {p, None, None} /\ None \in Path \cup {None}
      BY <2>7
    <3> QED BY <2>1, <2>7, <3>2, <3>3, BegunIs
  <2> QED BY <2>2, <2>3, <2>5, <2>6, <2>7
<1>5. CASE \E l \in Line : AppendFile(s, l)
  <2>1. PICK l \in Line, p \in Path :
          MayCall(s, p, None) /\ GetDoc(s, Job("append", p, None, {l})) /\ UNCHANGED <<index, cache>>
    BY <1>5 DEF AppendFile
  <2>2. {l} \in Texts
    BY DEF Texts
  <2> QED BY <1>i, <2>1, <2>2, <1>1
<1>6. CASE Cp(s)
  <2>1. PICK p \in Path, q \in Path :
          MayCall(s, p, q) /\ GetDoc(s, Job("copy", p, q, {})) /\ UNCHANGED <<index, cache>>
    BY <1>6 DEF Cp
  <2> QED BY <1>i, <2>1, <1>1
<1>7. CASE Mkdir(s)
  <2>1. PICK p \in DirPath : \E ds \in {{p}, {q \in Path : IsPrefix(q, p)}} :
          MayCall(s, p, None) /\ index' = [index EXCEPT !.dirs = @ \cup ds] /\ UNCHANGED <<cache, call>>
    BY <1>7 DEF Mkdir
  <2>a. PICK ds \in {{p}, {q \in Path : IsPrefix(q, p)}} :
          MayCall(s, p, None) /\ index' = [index EXCEPT !.dirs = @ \cup ds] /\ UNCHANGED <<cache, call>>
    BY <2>1
  <2>2. p \in Path /\ ds \subseteq Path
    BY VolumeAssumption
  <2>3. Same
    BY <1>i, <2>a, <2>2 DEF IndexType
  <2>4. Kept
    BY <2>a, <2>2, MayCallIs
  <2> QED BY <2>a, <2>3, <2>4
<1>8. CASE Rm(s)
  <2>1. PICK p \in Path :
          /\ MayCall(s, p, None) /\ IsFile(index, p) /\ UNCHANGED <<index, cache>>
          /\ Ask(s, Job("remove", p, None, {}), "delete", p, index.files[p], {})
    BY <1>8 DEF Rm
  <2>2. index.files[p] \in Doc
    BY <1>i, <2>1 DEF IsFile, IndexType
  <2>3. "remove" \in Ops /\ "delete" \in Kinds
    BY DEF Ops, Kinds
  <2> QED BY <1>i, <2>1, <2>2, <2>3, <1>2 DEF Plain
<1>9. CASE RmTree(s)
  <2>1. PICK p \in Path \cup {Root} :
          /\ MayCall(s, p, None) /\ UNCHANGED <<index, cache>>
          /\ Ask(s, Job("rmtree", p, None, {}), "bulk", p, None, {})
    BY <1>9 DEF RmTree
  <2>2. "rmtree" \in Ops /\ "bulk" \in Kinds
    BY DEF Ops, Kinds
  <2> QED BY <1>i, <2>1, <2>2, <1>2 DEF Plain
<1>10. CASE Rmdir(s)
  <2>1. PICK p \in Path :
          /\ MayCall(s, p, None) /\ UNCHANGED <<index, cache>>
          /\ Ask(s, Job("rmdir", p, None, {}), "list", p, None, {})
    BY <1>10 DEF Rmdir
  <2>2. "rmdir" \in Ops /\ "list" \in Kinds
    BY DEF Ops, Kinds
  <2> QED BY <1>i, <2>1, <2>2, <1>2 DEF Plain
<1>11. CASE Readdir(s)
  <2>1. PICK p \in Path \cup {Root} :
          /\ MayCall(s, p, None) /\ UNCHANGED <<index, cache>>
          /\ Ask(s, Job("list", p, None, {}), "list", p, None, {})
    BY <1>11 DEF Readdir
  <2>2. "list" \in Ops /\ "list" \in Kinds
    BY DEF Ops, Kinds
  <2> QED BY <1>i, <2>1, <2>2, <1>2 DEF Plain
<1>12. CASE Warm(s)
  <2>1. /\ MayCall(s, Root, None) /\ UNCHANGED <<index, cache>>
        /\ Ask(s, Job("warm", Root, None, {}), "list", Root, None, {})
    BY <1>12 DEF Warm
  <2>2. "warm" \in Ops /\ "list" \in Kinds /\ Root \in Path \cup {Root}
    BY DEF Ops, Kinds
  <2> HIDE DEF Root
  <2> QED BY <1>i, <2>1, <2>2, <1>2 DEF Plain
<1>13. CASE Mv(s)
  <2>1. PICK p \in Path, q \in Path :
          /\ MayCall(s, p, q) /\ Writable(index, q) /\ UNCHANGED <<index, cache>>
          /\ MoveDoc(s, Job("move", p, q, {}), index)
    BY <1>13 DEF Mv
  <2>2. Kept /\ Same /\ call[s] = Free
    BY <1>i, <2>1, MayCallIs
  <2>3. PICK j \in Records :
          /\ j = Job("move", p, q, {}) /\ j.op = "move" /\ j.path = p /\ j.dest = q
          /\ j.doc = None /\ j.kids = {} /\ j.of = None
    BY <1>i, JobIs DEF Ops
  <2>4. MoveDoc(s, j, index) /\ j.path \in Path /\ j.dest \in Path
    BY <2>1, <2>3
  <2>5. \/ index.files[j.path] # None /\ index.files[j.dest] # None /\ Throw(s)
        \/ \E c \in Calls :
             /\ call' = [call EXCEPT ![s] = c]
             /\ c.op = "move" /\ c.path = j.path /\ c.dest = j.dest
             /\ c.doc = index.files[j.path] /\ c.kids = {} /\ c.of = j.of /\ c.ans = NoAns
             /\ c.req.kind = "find"
             /\ c.doc # None => index.files[j.dest] = None
    BY <1>i, <2>3, <2>4, MoveDocEnds
  <2>6. CASE Throw(s)
    BY <2>2, <2>6, FreeEnds
  <2>7. ASSUME NEW c \in Calls, call' = [call EXCEPT ![s] = c],
               c.op = "move" /\ c.path = p /\ c.dest = q
               /\ c.doc = index.files[p] /\ c.kids = {} /\ c.of = None /\ c.ans = NoAns
               /\ c.req.kind = "find" /\ (c.doc # None => index.files[q] = None)
        PROVE  Ends
    <3>1. Fresh(c, index)
      BY <2>1, <2>7 DEF Fresh
    <3>2. c.op # "free" /\ {c.path, c.dest} \subseteq {p, q, None} /\ q \in Path \cup {None}
      BY <2>7
    <3> QED BY <2>1, <2>7, <3>1, <3>2, BegunIs
  <2> QED BY <2>2, <2>3, <2>5, <2>6, <2>7
<1>14. CASE MvTree(s)
  <2>1. PICK p \in Path, q \in Path, op \in {"mvtree", "cptree"} :
          /\ MayCall(s, p, q) /\ UNCHANGED <<index, cache>>
          /\ {Moved(r, p, q) : r \in Under(p)} \subseteq Path
          /\ Ask(s, Job(op, p, q, {}), "list", p, None, {})
    BY <1>14 DEF MvTree
  <2>2. op \in Ops /\ op \in TreeOps /\ "list" \in Kinds
    BY DEF Ops, Kinds, TreeOps
  <2> QED BY <1>i, <2>1, <2>2, <1>2 DEF Plain
<1> QED BY <1>3, <1>4, <1>5, <1>6, <1>7, <1>8, <1>9, <1>10, <1>11, <1>12, <1>13, <1>14 DEF Start

(* A tree that waits for its batch.                                        *)
Idle(c) == c.op \in TreeOps /\ c.req = NoReq
Alike(a, b) == a = b \/ (Idle(b) /\ a = [b EXCEPT !.failed = TRUE])

(* A document that is named anywhere has existed.                          *)
KnownIn(c) ==
  /\ c.req.doc # None => docs[c.req.doc] # None
  /\ c.doc # None => docs[c.doc] # None
  /\ \A e \in c.ans.docs : docs[e.doc] # None

Known ==
  /\ \A p \in Path : index.files[p] # None => docs[index.files[p]] # None
  /\ \A s \in Slot : KnownIn(call[s])

TInv == TypeInv /\ Agrees(index) /\ Known

LEMMA PutIs ==
  ASSUME TypeInv, NEW s \in Slot, NEW c \in Calls, call' = [call EXCEPT ![s] = c],
         c.of # None => /\ c.of = call[s].of /\ c.op = call[s].op
                        /\ c.path = call[s].path /\ c.dest = call[s].dest,
         Idle(call[s]) => \/ /\ Idle(c) /\ c.op = call[s].op
                             /\ c.path = call[s].path /\ c.dest = call[s].dest
                          \/ \A t \in Slot : call[t].of # s
  PROVE  /\ call' \in [Slot -> Calls] /\ call'[s] = c
         /\ \A t \in Slot \ {s} : call'[t] = call[t]
         /\ Family'
<1>1. call \in [Slot -> Calls] /\ Family
  BY DEF TypeInv
<1>2. call' \in [Slot -> Calls] /\ call'[s] = c /\ \A t \in Slot \ {s} : call'[t] = call[t]
  BY <1>1
<1>3. ASSUME NEW t \in Slot, call'[t].of # None
      PROVE  KidOf(call'[t], call'[call'[t].of])
  <2>1. call[t] \in Calls /\ (call[t].of # None => call[t].of \in Slot /\ KidOf(call[t], call[call[t].of]))
    BY <1>1 DEF Family, Calls, Records
  <2>2. CASE t = s
    <3>1. c.of = call[t].of /\ c.of # None /\ KidOf(c, call[c.of])
      BY <1>2, <1>3, <2>1, <2>2 DEF KidOf
    <3>2. c.of # s
      BY <3>1, <2>2, <1>3, <1>2 DEF KidOf
    <3> QED BY <1>2, <2>1, <2>2, <3>1, <3>2
  <2>3. CASE t # s /\ call[t].of # s
    BY <1>2, <1>3, <2>1, <2>3
  <2>4. CASE t # s /\ call[t].of = s
    <3>1. KidOf(call[t], call[s]) /\ call'[t] = call[t]
      BY <1>2, <1>3, <2>1, <2>4
    <3>2. Idle(call[s])
      BY <3>1 DEF KidOf, Idle, TreeOps
    <3>3. Idle(c) /\ c.op = call[s].op /\ c.path = call[s].path /\ c.dest = call[s].dest
      BY <3>2, <2>4
    <3>4. KidOf(call[t], c)
      BY <3>1, <3>3 DEF KidOf, Idle
    <3> QED BY <1>2, <2>4, <3>1, <3>4
  <2> QED BY <2>2, <2>3, <2>4
<1> QED BY <1>2, <1>3 DEF Family

LEMMA FailedIsCall ==
  ASSUME NEW c \in Calls, Idle(c)
  PROVE  LET f == [c EXCEPT !.failed = TRUE]
         IN  /\ f \in Calls /\ f.op = c.op /\ f.path = c.path /\ f.dest = c.dest /\ f.text = c.text
             /\ f.doc = c.doc /\ f.req = c.req /\ f.ans = c.ans /\ f.kids = c.kids /\ f.of = c.of
             /\ f.failed = TRUE
<1> DEFINE f == [c EXCEPT !.failed = TRUE]
<1>1. /\ f \in Records /\ f.op = c.op /\ f.path = c.path /\ f.dest = c.dest /\ f.text = c.text
      /\ f.doc = c.doc /\ f.req = c.req /\ f.ans = c.ans /\ f.kids = c.kids /\ f.of = c.of
      /\ f.failed = TRUE
  BY DEF Calls, Records
<1>2. WellFormed(c) /\ c.op # "free"
  BY DEF Calls, Idle, TreeOps
<1> HIDE DEF f
<1>3. WellFormed(f)
  BY <1>1, <1>2 DEF WellFormed, ReadOK, WriteOK, RemoveOK, ListOK, MoveOK, TreeOK, AnswerOK, TreeOps
<1> QED BY <1>1, <1>3 DEF Calls, f

LEMMA AlikeIs ==
  ASSUME NEW c \in Calls, NEW f, Alike(f, c)
  PROVE  /\ f \in Calls /\ f.op = c.op /\ f.path = c.path /\ f.dest = c.dest /\ f.text = c.text
         /\ f.doc = c.doc /\ f.req = c.req /\ f.ans = c.ans /\ f.kids = c.kids /\ f.of = c.of
         /\ c.failed => f.failed
<1>1. CASE f = c
  BY <1>1
<1>2. CASE Idle(c) /\ f = [c EXCEPT !.failed = TRUE]
  BY <1>2, FailedIsCall
<1> QED BY <1>1, <1>2 DEF Alike

LEMMA ThrowIs ==
  ASSUME TypeInv, NEW s \in Slot, Throw(s), ~Idle(call[s])
  PROVE  /\ call' \in [Slot -> Calls] /\ call'[s] = Free
         /\ \A t \in Slot \ {s} : Alike(call'[t], call[t])
         /\ \A t \in Slot \ {s} : call[s].of = t => call'[t].failed
         /\ \A t \in Slot \ {s} : call[s].of # t => call'[t] = call[t]
         /\ Family'
<1>1. call \in [Slot -> Calls] /\ Family
  BY DEF TypeInv
<1>2. /\ call'[s] = Free
      /\ \A t \in Slot \ {s} : call'[t] = IF t = call[s].of THEN [call[t] EXCEPT !.failed = TRUE] ELSE call[t]
  BY DEF Throw
<1>3. ASSUME NEW t \in Slot \ {s}
      PROVE  /\ Alike(call'[t], call[t]) /\ call'[t] \in Calls
             /\ (call[s].of = t => call'[t].failed) /\ (call[s].of # t => call'[t] = call[t])
  <2>0. call[t] \in Calls
    BY <1>1
  <2>1. CASE t = call[s].of
    <3>1. call'[t] = [call[t] EXCEPT !.failed = TRUE]
      BY <1>2, <2>1
    <3>2. KidOf(call[s], call[t])
      BY <1>1, <2>1, VolumeAssumption DEF Family
    <3>3. Idle(call[t])
      BY <3>2 DEF KidOf, Idle, TreeOps
    <3> QED BY <2>0, <2>1, <3>1, <3>3, FailedIsCall DEF Alike
  <2>2. CASE t # call[s].of
    BY <1>2, <2>0, <2>2 DEF Alike
  <2> QED BY <2>1, <2>2
<1>4. call' \in [Slot -> Calls]
  <2>1. \A t \in Slot : call'[t] \in Calls
    BY <1>2, <1>3, FreeIsCall
  <2>2. call' = [t \in Slot |-> call'[t]]
    BY DEF Throw
  <2> QED BY <2>1, <2>2
<1>5. ASSUME NEW t \in Slot, call'[t].of # None
      PROVE  KidOf(call'[t], call'[call'[t].of])
  <2>1. t # s
    BY <1>2, <1>5, FreeIsCall
  <2>2. call[t] \in Calls /\ Alike(call'[t], call[t])
    BY <1>1, <1>3, <2>1
  <2>3. call'[t].of = call[t].of /\ call'[t].op = call[t].op /\ call'[t].path = call[t].path
        /\ call'[t].dest = call[t].dest
    BY <2>2, AlikeIs
  <2> DEFINE u == call[t].of
  <2>4. u \in Slot /\ KidOf(call[t], call[u])
    BY <1>1, <1>5, <2>2, <2>3 DEF Family, Calls, Records
  <2>5. Idle(call[u])
    BY <2>4 DEF KidOf, Idle, TreeOps
  <2>6. u # s
    BY <2>5
  <2>7. call[u] \in Calls /\ Alike(call'[u], call[u])
    BY <1>1, <1>3, <2>4, <2>6
  <2>8. call'[u].op = call[u].op /\ call'[u].path = call[u].path /\ call'[u].dest = call[u].dest
        /\ call'[u].req = call[u].req
    BY <2>7, AlikeIs
  <2>9. KidOf(call'[t], call'[u])
    BY <2>3, <2>4, <2>8 DEF KidOf
  <2> QED BY <2>3, <2>9
<1> QED BY <1>2, <1>3, <1>4, <1>5 DEF Family

(* A call that ends.                                                       *)
LEMMA DoneIs ==
  ASSUME TypeInv, NEW s \in Slot, Done(s), Idle(call[s]) => \A t \in Slot : call[t].of # s
  PROVE  /\ call' \in [Slot -> Calls] /\ call'[s] = Free
         /\ \A t \in Slot \ {s} : call'[t] = call[t]
         /\ Family'
<1>1. PICK c \in Calls : c = Free
  BY FreeIsCall
<1>2. call' = [call EXCEPT ![s] = c] /\ c.of = None
  BY <1>1, FreeIsCall DEF Done
<1>3. /\ call' \in [Slot -> Calls] /\ call'[s] = c
      /\ \A t \in Slot \ {s} : call'[t] = call[t]
      /\ Family'
  BY <1>2, PutIs
<1> QED BY <1>1, <1>3

(* A call that has an answer.                                              *)
LEMMA AnswerIs ==
  ASSUME TypeInv, NEW s \in Slot, NEW status \in {"ok", "missing", "failed"},
         NEW found \in SUBSET Entries, Answer(s, status, found), IsFiniteSet(found),
         call[s].req # NoReq,
         status = "missing" => call[s].req.kind \in {"update", "rename", "delete"},
         status = "ok" =>
           /\ call[s].req.kind = "add" =>
                \E e \in found : found = {e} /\ e.path = call[s].path /\ e.text = call[s].text
           /\ call[s].req.kind = "find" =>
                found = {} \/ \E e \in found : found = {e} /\ e.path = call[s].req.path
           /\ call[s].req.kind = "list" => \A e \in found : e.path \in Under(call[s].req.path)
  PROVE  /\ call' \in [Slot -> Calls] /\ Family'
         /\ \A t \in Slot \ {s} : call'[t] = call[t]
         /\ call'[s].ans = [status |-> status, docs |-> found]
         /\ call'[s].op = call[s].op /\ call'[s].path = call[s].path /\ call'[s].dest = call[s].dest
         /\ call'[s].text = call[s].text /\ call'[s].doc = call[s].doc /\ call'[s].req = call[s].req
         /\ call'[s].kids = call[s].kids /\ call'[s].failed = call[s].failed /\ call'[s].of = call[s].of
<1> DEFINE a == [status |-> status, docs |-> found]
           c == [call[s] EXCEPT !.ans = a]
<1>1. call \in [Slot -> Calls] /\ call[s] \in Records /\ WellFormed(call[s])
  BY DEF TypeInv, Calls
<1>2. a \in Answers /\ a.status = status /\ a.docs = found
  BY DEF Answers
<1>3. /\ call' = [call EXCEPT ![s] = c]
  BY <1>1 DEF Answer
<1> HIDE DEF a
<1>4. /\ c \in Records /\ c.ans = a
      /\ c.op = call[s].op /\ c.path = call[s].path /\ c.dest = call[s].dest
      /\ c.text = call[s].text /\ c.doc = call[s].doc /\ c.req = call[s].req
      /\ c.kids = call[s].kids /\ c.failed = call[s].failed /\ c.of = call[s].of
  BY <1>1, <1>2 DEF Records
<1> HIDE DEF c
<1>5. call[s].op # "free" /\ call[s].req.kind # "none" /\ ~Idle(call[s])
  BY <1>1 DEF WellFormed, AnswerOK, Free, Idle
<1>6. ReadOK(c) /\ WriteOK(c) /\ RemoveOK(c) /\ ListOK(c) /\ MoveOK(c) /\ TreeOK(c)
  BY <1>1, <1>4 DEF WellFormed, ReadOK, WriteOK, RemoveOK, ListOK, MoveOK, TreeOK
<1>7. AnswerOK(c)
  BY <1>1, <1>2, <1>4, <1>5 DEF WellFormed, AnswerOK
<1>8. c \in Calls
  BY <1>4, <1>5, <1>6, <1>7 DEF Calls, WellFormed
<1>9. /\ call' \in [Slot -> Calls] /\ call'[s] = c /\ Family'
      /\ \A t \in Slot \ {s} : call'[t] = call[t]
  BY <1>3, <1>4, <1>5, <1>8, PutIs
<1>10. /\ call'[s].ans = a
       /\ call'[s].op = call[s].op /\ call'[s].path = call[s].path /\ call'[s].dest = call[s].dest
       /\ call'[s].text = call[s].text /\ call'[s].doc = call[s].doc /\ call'[s].req = call[s].req
       /\ call'[s].kids = call[s].kids /\ call'[s].failed = call[s].failed /\ call'[s].of = call[s].of
  BY <1>4, <1>9
<1>11. call'[s].ans = [status |-> status, docs |-> found]
  BY <1>10 DEF a
<1> QED BY <1>9, <1>10, <1>11

LEMMA FreeKnown == KnownIn(Free)
BY DEF KnownIn, Free, NoReq, NoAns

LEMMA FreshKnown ==
  ASSUME NEW c \in Calls, c.op # "free", NEW ix \in IndexType, Fresh(c, ix),
         \A p \in Path : ix.files[p] # None => docs[ix.files[p]] # None
  PROVE  KnownIn(c)
<1>1. c \in Records /\ WellFormed(c)
  BY DEF Calls
<1>2. c.ans.docs = {}
  BY DEF Fresh, NoAns
<1>3. c.op \in Ops
  BY <1>1 DEF Records
<1>4. c.req.doc # None => c.req.kind \in {"update", "delete"}
  BY <1>1, <1>3 DEF WellFormed, AnswerOK, Fresh, MoveOK, ReadOK, WriteOK, RemoveOK, ListOK, TreeOK, Ops, TreeOps
<1>5. c.req.kind \in {"update", "delete"} => c.path \in Path
  BY <1>1, <1>3 DEF WellFormed, AnswerOK, Fresh, MoveOK, ReadOK, WriteOK, RemoveOK, ListOK, TreeOK, Ops, TreeOps
<1>6. c.req.doc # None => docs[c.req.doc] # None
  BY <1>4, <1>5 DEF Fresh
<1>7. c.doc # None => c.op = "move" /\ c.path \in Path
  BY <1>1 DEF WellFormed, AnswerOK, MoveOK
<1>8. c.doc # None => docs[c.doc] # None
  BY <1>7 DEF Fresh
<1> QED BY <1>2, <1>6, <1>8 DEF KnownIn

LEMMA KnownKept ==
  ASSUME NEW c \in Calls, NEW f, Alike(f, c), KnownIn(c)
  PROVE  KnownIn(f)
BY AlikeIs DEF KnownIn

Born == \A d \in Doc : docs[d] # None => docs'[d] # None

LEMMA KnownLater ==
  ASSUME NEW c \in Calls, KnownIn(c), Born, NEW f \in Calls, f = c
  PROVE  /\ f.req.doc # None => docs'[f.req.doc] # None
         /\ f.doc # None => docs'[f.doc] # None
         /\ \A e \in f.ans.docs : docs'[e.doc] # None
<1>1. /\ f.req.doc \in Doc \cup {None} /\ f.doc \in Doc \cup {None}
      /\ \A e \in f.ans.docs : e.doc \in Doc
  BY DEF Calls, Records, Requests, Answers, Entries
<1> QED BY <1>1 DEF KnownIn, Born

(* A step of one call: the others' calls go on as they are.                *)
LEMMA TypeStep ==
  ASSUME TInv, NEW s \in Slot, call' \in [Slot -> Calls], Family',
         \A t \in Slot \ {s} : Alike(call'[t], call[t]),
         docs' \in [Doc -> {None, Gone} \cup [path : Path, text : Texts, broken : BOOLEAN]], Born,
         index' \in IndexType, Agrees(index'),
         \A p \in Path : index'.files[p] # None => docs'[index'.files[p]] # None,
         KnownIn(call[s])',
         cache' \in [Path -> Texts \cup {None}],
         calls' \in 0..MaxCalls, events' \in 0..MaxEvents, foreign' \subseteq Path
  PROVE  TInv'
<1>1. TypeInv'
  BY DEF TypeInv
<1>2. ASSUME NEW t \in Slot PROVE KnownIn(call[t])'
  <2>1. CASE t = s
    BY <2>1
  <2>2. CASE t # s
    <3>1. call[t] \in Calls /\ call'[t] \in Calls /\ Alike(call'[t], call[t]) /\ KnownIn(call[t])
      BY <2>2 DEF TInv, TypeInv, Known
    <3>2. KnownIn(call'[t])
      BY <3>1, KnownKept
    <3> QED BY <3>1, <3>2, KnownLater DEF KnownIn
  <2> QED BY <2>1, <2>2
<1>3. Known'
  BY <1>2 DEF Known
<1>4. Agrees(index)'
  BY DEF Agrees
<1> QED BY <1>1, <1>3, <1>4 DEF TInv

(* A step that leaves the documents, and has no business with the counters.*)
LEMMA TypeQuiet ==
  ASSUME TInv, NEW s \in Slot, call' \in [Slot -> Calls], Family',
         \A t \in Slot \ {s} : Alike(call'[t], call[t]),
         docs' = docs, calls' \in 0..MaxCalls, events' \in 0..MaxEvents, foreign' \subseteq Path,
         index' \in IndexType, Agrees(index'),
         \A p \in Path : index'.files[p] # None => docs[index'.files[p]] # None,
         KnownIn(call'[s]),
         cache' \in [Path -> Texts \cup {None}]
  PROVE  TInv'
<1>1. docs' \in [Doc -> {None, Gone} \cup [path : Path, text : Texts, broken : BOOLEAN]]
  BY DEF TInv, TypeInv
<1>2. Born
  BY DEF Born
<1>3. KnownIn(call[s])'
  BY DEF KnownIn
<1> QED BY <1>1, <1>2, <1>3, TypeStep

LEMMA AlikeRefl == \A c : Alike(c, c)
BY DEF Alike

LEMMA StartType ==
  ASSUME TInv, NEW s \in Slot, Start(s)
  PROVE  TInv'
<1>0. TypeInv /\ Agrees(index) /\ Known
  BY DEF TInv
<1>1. /\ docs' = docs /\ cache' = cache /\ events' = events /\ foreign' = foreign
      /\ calls < MaxCalls /\ calls' = calls + 1
      /\ index' \in IndexType /\ index'.files = index.files /\ index'.byDoc = index.byDoc
      /\ call' = call \/ \E c \in Calls : Begun(s, c)
  BY <1>0, StartEnds
<1>2. /\ calls' \in 0..MaxCalls /\ events' \in 0..MaxEvents /\ foreign' \subseteq Path
      /\ cache' \in [Path -> Texts \cup {None}] /\ Agrees(index') /\ index \in IndexType
      /\ call \in [Slot -> Calls]
      /\ \A p \in Path : index'.files[p] # None => docs[index'.files[p]] # None
  BY <1>0, <1>1, VolumeAssumption DEF TypeInv, Agrees, Known
<1>3. CASE call' = call
  <2>1. Family' /\ call' \in [Slot -> Calls] /\ KnownIn(call'[s])
    BY <1>0, <1>3 DEF TypeInv, Family, Known
  <2> QED BY <1>1, <1>2, <1>3, <2>1, AlikeRefl, TypeQuiet
<1>4. ASSUME NEW c \in Calls, Begun(s, c)
      PROVE  TInv'
  <2>1. call[s] = Free /\ call' = [call EXCEPT ![s] = c] /\ c.op # "free" /\ c.of = None /\ Fresh(c, index)
    BY <1>4 DEF Begun
  <2>2. ~Idle(call[s])
    BY <2>1 DEF Idle, Free, TreeOps
  <2>3. /\ call' \in [Slot -> Calls] /\ call'[s] = c /\ Family'
        /\ \A t \in Slot \ {s} : call'[t] = call[t]
    BY <1>0, <2>1, <2>2, PutIs
  <2>4. KnownIn(c)
    BY <1>0, <1>2, <2>1, FreshKnown DEF Known
  <2> QED BY <1>1, <1>2, <2>3, <2>4, AlikeRefl, TypeQuiet
<1> QED BY <1>1, <1>3, <1>4

LEMMA EntryIs ==
  ASSUME docs \in [Doc -> {None, Gone} \cup [path : Path, text : Texts, broken : BOOLEAN]],
         NEW p \in Path, NEW d \in LiveAt(p)
  PROVE  /\ d \in Doc /\ docs[d] \in [path : Path, text : Texts, broken : BOOLEAN] /\ docs[d] # None /\ docs[d] # Gone
         /\ docs[d].path = p
         /\ Entry(d) \in Entries /\ Entry(d).doc = d /\ Entry(d).path = p /\ Entry(d).text = docs[d].text /\ Entry(d).broken = docs[d].broken
<1>1. d \in Doc /\ docs[d] # None /\ docs[d].path = p
  BY DEF LiveAt, Unused
<1>2. Gone.path = None /\ None # p
  BY VolumeAssumption DEF Gone
<1>3. docs[d] # Gone
  BY <1>1, <1>2
<1>4. docs[d] \in [path : Path, text : Texts, broken : BOOLEAN]
  BY <1>1, <1>3
<1> QED BY <1>1, <1>3, <1>4 DEF Entry, Entries

(* What the server answers.                                                *)
Fits(s, status, found) ==
  /\ status \in {"ok", "missing", "failed"} /\ found \in SUBSET Entries /\ IsFiniteSet(found)
  /\ Answer(s, status, found) /\ call[s].req # NoReq
  /\ status = "missing" => call[s].req.kind \in {"update", "rename", "delete"}
  /\ status = "ok" =>
       /\ call[s].req.kind = "add" =>
            \E e \in found : found = {e} /\ e.path = call[s].path /\ e.text = call[s].text
       /\ call[s].req.kind = "find" =>
            found = {} \/ \E e \in found : found = {e} /\ e.path = call[s].req.path
       /\ call[s].req.kind = "list" => \A e \in found : e.path \in Under(call[s].req.path)

Answering(s, status, found) ==
  /\ call' \in [Slot -> Calls] /\ Family'
  /\ \A t \in Slot \ {s} : call'[t] = call[t]
  /\ call'[s].ans = [status |-> status, docs |-> found]
  /\ call'[s].op = call[s].op /\ call'[s].path = call[s].path /\ call'[s].dest = call[s].dest
  /\ call'[s].text = call[s].text /\ call'[s].doc = call[s].doc /\ call'[s].req = call[s].req
  /\ call'[s].kids = call[s].kids /\ call'[s].failed = call[s].failed /\ call'[s].of = call[s].of

LEMMA FitsAnswers ==
  ASSUME TypeInv, NEW s \in Slot, NEW status, NEW found, Fits(s, status, found)
  PROVE  Answering(s, status, found)
BY AnswerIs DEF Fits, Answering

(* A request waits for the server.                                         *)
LEMMA AskedIs ==
  ASSUME TypeInv, NEW s \in Slot, NEW kind, kind # "none", Asked(s, kind)
  PROVE  /\ call[s] \in Calls /\ call[s].req.kind = kind /\ call[s].ans = NoAns /\ call[s].req # NoReq
         /\ call[s].op \in Ops /\ ~Idle(call[s])
         /\ kind = "find" => call[s].req.path \in Path
         /\ kind = "list" => call[s].req.path \in Path \cup {Root}
         /\ kind = "add" => /\ call[s].op = "write" /\ call[s].req.path \in Path /\ call[s].path = call[s].req.path
                            /\ call[s].req.text = call[s].text /\ call[s].text \in Texts
         /\ kind = "bulk" => call[s].op = "rmtree" /\ call[s].req.path = call[s].path
         /\ kind \in {"update", "rename", "delete"} => call[s].req.doc \in Doc
         /\ kind = "update" => call[s].op = "write" /\ call[s].req.text = call[s].text /\ call[s].text \in Texts
         /\ kind = "rename" => /\ call[s].op = "move" /\ call[s].req.path = call[s].dest /\ call[s].dest \in Path
                               /\ call[s].doc = call[s].req.doc
         /\ kind = "delete" => call[s].op = "remove"
<1>1. call[s] \in Calls /\ call[s] \in Records /\ WellFormed(call[s]) /\ call[s].req.kind = kind /\ call[s].ans = NoAns
  BY DEF TypeInv, Calls, Asked
<1>2. call[s].req # NoReq
  BY <1>1 DEF NoReq
<1>3. call[s].op \in Ops
  BY <1>1, <1>2 DEF WellFormed, Free, Records
<1> QED BY <1>1, <1>2, <1>3
    DEF Idle, WellFormed, ReadOK, WriteOK, RemoveOK, ListOK, MoveOK, TreeOK, Ops, TreeOps, Records

FindDoes(s) ==
  LET p == call[s].req.path
  IN  \E found : /\ Fits(s, "ok", found) /\ p \in Path
                 /\ \/ found = {} /\ LiveAt(p) = {}
                    \/ \E d \in LiveAt(p) : found = {Entry(d)}

LEMMA FindEnds ==
  ASSUME TypeInv, NEW s \in Slot, Find(s)
  PROVE  docs' = docs /\ call[s].req.kind = "find" /\ FindDoes(s)
<1>1. docs' = docs /\ Asked(s, "find")
  BY DEF Find
<1>2. call[s].req.kind = "find" /\ call[s].req # NoReq /\ call[s].req.path \in Path
  BY <1>1, AskedIs
<1> DEFINE p == call[s].req.path
<1>3. CASE LiveAt(p) = {} /\ Answer(s, "ok", {})
  <2>1. Fits(s, "ok", {})
    BY <1>2, <1>3, FS_EmptySet DEF Fits
  <2> QED BY <1>1, <1>2, <1>3, <2>1 DEF FindDoes
<1>4. ASSUME NEW d \in LiveAt(p), Answer(s, "ok", {Entry(d)})
      PROVE  FindDoes(s)
  <2>1. Entry(d) \in Entries /\ Entry(d).path = p
    BY <1>2, EntryIs DEF TypeInv
  <2>2. IsFiniteSet({Entry(d)})
    BY FS_Singleton
  <2> DEFINE f == {Entry(d)}
  <2>3. f \in SUBSET Entries /\ \E e \in f : f = {e} /\ e.path = p
    BY <2>1
  <2>4. Fits(s, "ok", f)
    <3> HIDE DEF f
    <3>1. Answer(s, "ok", f) /\ IsFiniteSet(f)
      BY <1>4, <2>2 DEF f
    <3> QED BY <1>2, <2>3, <3>1 DEF Fits
  <2> QED BY <1>2, <2>4 DEF FindDoes
<1> QED BY <1>1, <1>2, <1>3, <1>4 DEF Find

ListDoes(s) ==
  LET dir == call[s].req.path
  IN  \E found : /\ Fits(s, "ok", found) /\ dir \in Path \cup {Root}
                 /\ \A e : e \in found <=> \E p \in Under(dir) : \E d \in LiveAt(p) : e = Entry(d)

LEMMA ListEnds ==
  ASSUME TypeInv, NEW s \in Slot, ListDocs(s)
  PROVE  docs' = docs /\ call[s].req.kind = "list" /\ ListDoes(s)
<1> DEFINE dir == call[s].req.path
           live == UNION {LiveAt(p) : p \in Under(dir)}
           found == {Entry(d) : d \in live}
<1>1. docs' = docs /\ Asked(s, "list") /\ Answer(s, "ok", found)
  BY DEF ListDocs
<1>2. call[s].req.kind = "list" /\ call[s].req # NoReq /\ dir \in Path \cup {Root}
  BY <1>1, AskedIs
<1>3. \A e : e \in found <=> \E p \in Under(dir) : \E d \in LiveAt(p) : e = Entry(d)
  OBVIOUS
<1>4. ASSUME NEW e \in found PROVE e \in Entries /\ e.path \in Under(dir)
  <2>1. PICK p \in Under(dir) : \E d \in LiveAt(p) : e = Entry(d)
    BY <1>3
  <2>2. p \in Path
    BY DEF Under
  <2> QED BY <2>1, <2>2, EntryIs DEF TypeInv
<1>5. IsFiniteSet(found)
  <2>1. live \subseteq Doc
    BY DEF LiveAt
  <2>2. IsFiniteSet(live)
    BY <2>1, VolumeAssumption, FS_Subset
  <2>3. PICK f : f = [d \in live |-> Entry(d)]
    OBVIOUS
  <2>4. f \in Surjection(live, found)
    <3>1. f \in [live -> found]
      BY <2>3
    <3>2. \A e \in found : \E d \in live : f[d] = e
      BY <2>3
    <3> HIDE DEF live, found
    <3> QED BY <3>1, <3>2 DEF Surjection
  <2> HIDE DEF live, found
  <2> QED BY <2>2, <2>4, FS_Surjection
<1> HIDE DEF found
<1>6. Fits(s, "ok", found)
  BY <1>1, <1>2, <1>4, <1>5 DEF Fits
<1> QED BY <1>1, <1>2, <1>3, <1>6 DEF ListDoes

AddDoes(s) ==
  /\ call[s].op = "write" /\ call[s].path \in Path /\ call[s].text \in Texts
  /\ \E d \in Doc : \E found :
       LET e == [doc |-> d, path |-> call[s].path, text |-> call[s].text, broken |-> FALSE]
       IN  /\ docs[d] = None
           /\ docs' = [docs EXCEPT ![d] = [path |-> call[s].path, text |-> call[s].text, broken |-> FALSE]]
           /\ found = {e} /\ Fits(s, "ok", found)

LEMMA AddEnds ==
  ASSUME TypeInv, NEW s \in Slot, Add(s)
  PROVE  call[s].req.kind = "add" /\ AddDoes(s)
<1>1. Asked(s, "add")
  BY DEF Add
<1>2. /\ call[s].req.kind = "add" /\ call[s].req # NoReq /\ call[s].op = "write"
      /\ call[s].req.path \in Path /\ call[s].path = call[s].req.path
      /\ call[s].req.text = call[s].text /\ call[s].text \in Texts
  BY <1>1, AskedIs
<1>3. PICK d \in Unused :
        /\ docs' = [docs EXCEPT ![d] = [path |-> call[s].path, text |-> call[s].text, broken |-> FALSE]]
        /\ Answer(s, "ok", {[doc |-> d, path |-> call[s].path, text |-> call[s].text, broken |-> FALSE]})
  BY <1>2 DEF Add
<1> DEFINE e == [doc |-> d, path |-> call[s].path, text |-> call[s].text, broken |-> FALSE]
<1>4. d \in Doc /\ docs[d] = None
  BY DEF Unused
<1>5. e \in Entries /\ e.path = call[s].path /\ e.text = call[s].text
  BY <1>2, <1>4 DEF Entries
<1>6. IsFiniteSet({e})
  BY FS_Singleton
<1>7. PICK found : found = {e}
  OBVIOUS
<1>8. Fits(s, "ok", found)
  <2>1. Answer(s, "ok", found) /\ IsFiniteSet(found)
    BY <1>3, <1>6, <1>7
  <2> HIDE DEF e
  <2> QED BY <1>2, <1>5, <1>7, <2>1 DEF Fits
<1> QED BY <1>2, <1>3, <1>4, <1>7, <1>8 DEF AddDoes

PatchDoes(s, kind) ==
  LET d == call[s].req.doc
  IN  /\ d \in Doc /\ call[s].req.kind = kind /\ call[s].ans = NoAns
      /\ kind = "update" => call[s].op = "write" /\ call[s].text \in Texts
      /\ kind = "rename" => call[s].op = "move" /\ call[s].dest \in Path /\ call[s].doc = d
      /\ kind = "delete" => call[s].op = "remove"
      /\ \/ docs[d] = Gone /\ docs' = docs /\ Fits(s, "missing", {})
         \/ /\ docs[d] # Gone /\ Fits(s, "ok", {})
            /\ kind = "update" => docs' = [docs EXCEPT ![d] = [@ EXCEPT !.text = call[s].text, !.broken = FALSE]]
            /\ kind = "rename" => docs' = [docs EXCEPT ![d] = [@ EXCEPT !.path = call[s].dest]]
            /\ kind = "delete" => docs' = [docs EXCEPT ![d] = Gone]

LEMMA PatchEnds ==
  ASSUME TypeInv, NEW s \in Slot, Patch(s)
  PROVE  \E kind \in {"update", "rename", "delete"} : PatchDoes(s, kind)
<1>1. PICK kind \in {"update", "rename", "delete"} :
        /\ Asked(s, kind)
        /\ LET req == call[s].req
           IN  IF docs[req.doc] = Gone THEN Answer(s, "missing", {}) /\ UNCHANGED docs
               ELSE /\ docs' = [docs EXCEPT ![req.doc] =
                         CASE kind = "update" -> [@ EXCEPT !.text = req.text, !.broken = FALSE]
                           [] kind = "rename" -> [@ EXCEPT !.path = req.path]
                           [] kind = "delete" -> Gone]
                    /\ Answer(s, "ok", {})
  BY DEF Patch
<1>2. /\ call[s].req.kind = kind /\ call[s].req # NoReq /\ call[s].req.doc \in Doc /\ call[s].ans = NoAns
      /\ kind = "update" => call[s].op = "write" /\ call[s].req.text = call[s].text /\ call[s].text \in Texts
      /\ kind = "rename" => /\ call[s].op = "move" /\ call[s].req.path = call[s].dest /\ call[s].dest \in Path
                            /\ call[s].doc = call[s].req.doc
      /\ kind = "delete" => call[s].op = "remove"
  BY <1>1, AskedIs
<1>3. {} \in SUBSET Entries /\ IsFiniteSet({})
  BY FS_EmptySet
<1>4. CASE docs[call[s].req.doc] = Gone
  <2>1. Fits(s, "missing", {})
    BY <1>1, <1>2, <1>3, <1>4 DEF Fits
  <2> QED BY <1>1, <1>2, <1>4, <2>1 DEF PatchDoes
<1>5. CASE docs[call[s].req.doc] # Gone
  <2>1. Fits(s, "ok", {})
    BY <1>1, <1>2, <1>3, <1>5 DEF Fits
  <2>2. /\ kind = "update" => docs' = [docs EXCEPT ![call[s].req.doc] = [@ EXCEPT !.text = call[s].text, !.broken = FALSE]]
        /\ kind = "rename" => docs' = [docs EXCEPT ![call[s].req.doc] = [@ EXCEPT !.path = call[s].dest]]
        /\ kind = "delete" => docs' = [docs EXCEPT ![call[s].req.doc] = Gone]
    BY <1>1, <1>2, <1>5
  <2> QED BY <1>2, <1>5, <2>1, <2>2 DEF PatchDoes
<1> QED BY <1>4, <1>5

BulkDoes(s) ==
  LET hit == {d \in Doc : \E p \in Under(call[s].path) : d \in LiveAt(p)}
  IN  /\ call[s].op = "rmtree" /\ Fits(s, "ok", {})
      /\ \E del \in SUBSET hit :
           /\ "partial" \notin Hazards => del = hit
           /\ docs' = [d \in Doc |-> IF d \in del THEN Gone ELSE docs[d]]

LEMMA BulkEnds ==
  ASSUME TypeInv, NEW s \in Slot, Bulk(s)
  PROVE  call[s].req.kind = "bulk" /\ BulkDoes(s)
<1>1. Asked(s, "bulk") /\ Answer(s, "ok", {})
  BY DEF Bulk
<1>2. call[s].req.kind = "bulk" /\ call[s].req # NoReq /\ call[s].op = "rmtree" /\ call[s].req.path = call[s].path
  BY <1>1, AskedIs
<1>3. Fits(s, "ok", {})
  BY <1>1, <1>2, FS_EmptySet DEF Fits
<1> DEFINE hit == {d \in Doc : \E p \in Under(call[s].path) : d \in LiveAt(p)}
<1>4. UNION {LiveAt(p) : p \in Under(call[s].path)} = hit
  BY DEF LiveAt
<1>5. \E del \in IF "partial" \in Hazards THEN SUBSET hit ELSE {hit} :
           docs' = [d \in Doc |-> IF d \in del THEN Gone ELSE docs[d]]
  BY <1>2, <1>4 DEF Bulk
<1>6. \E del \in SUBSET hit :
           /\ "partial" \notin Hazards => del = hit
           /\ docs' = [d \in Doc |-> IF d \in del THEN Gone ELSE docs[d]]
  <2> HIDE DEF hit
  <2> QED BY <1>5
<1> QED BY <1>2, <1>3, <1>6 DEF BulkDoes

LEMMA ServeType ==
  ASSUME TInv, NEW s \in Slot, Serve(s)
  PROVE  TInv'
<1> DEFINE Content == {None, Gone} \cup [path : Path, text : Texts, broken : BOOLEAN]
<1>0. TypeInv /\ Agrees(index) /\ Known /\ call[s] \in Calls /\ KnownIn(call[s])
  BY DEF TInv, TypeInv, Known
<1>1. /\ index' = index /\ cache' = cache /\ calls' = calls /\ events' = events
      /\ index \in IndexType /\ cache \in [Path -> Texts \cup {None}] /\ docs \in [Doc -> Content]
      /\ calls \in 0..MaxCalls /\ events \in 0..MaxEvents /\ foreign \subseteq Path
  BY <1>0 DEF Serve, TypeInv
<1>2. foreign' \subseteq Path
  <2>1. call[s].req.kind = "rename" => call[s].dest \in Path
    BY <1>0 DEF Calls, Records, WellFormed, ReadOK, WriteOK, RemoveOK, ListOK, MoveOK, TreeOK, AnswerOK, Ops, TreeOps, Free, NoReq
  <2>2. foreign' = foreign \cup
           (IF call[s].req.kind = "rename" /\ call[s].path \in foreign THEN {call[s].dest} ELSE {})
           \cup (IF call[s].req.kind = "bulk"
                 THEN {p \in Under(call[s].path) : \E d \in Doc : docs'[d] \notin {None, Gone} /\ docs'[d].path = p}
                 ELSE {})
    BY DEF Serve
  <2> QED BY <1>1, <2>1, <2>2 DEF Under
<1>3. ASSUME NEW status, NEW found, Fits(s, status, found), docs' \in [Doc -> Content], Born,
             \A e \in found : docs'[e.doc] # None
      PROVE  TInv'
  <2>1. Answering(s, status, found)
    BY <1>0, <1>3, FitsAnswers
  <2>2. call[s].req.doc \in Doc \cup {None} /\ call[s].doc \in Doc \cup {None}
    BY <1>0 DEF Calls, Records, Requests
  <2>3. KnownIn(call[s])'
    BY <1>0, <1>3, <2>1, <2>2 DEF KnownIn, Answering, Born
  <2>4. \A p \in Path : index'.files[p] # None => docs'[index'.files[p]] # None
    BY <1>0, <1>1, <1>3 DEF Known, Born, IndexType
  <2>5. call' \in [Slot -> Calls] /\ Family' /\ \A t \in Slot \ {s} : Alike(call'[t], call[t])
    BY <2>1, AlikeRefl DEF Answering
  <2> QED BY <1>0, <1>1, <1>2, <1>3, <2>3, <2>4, <2>5, TypeStep
<1>4. docs' = docs => docs' \in [Doc -> Content] /\ Born
  BY <1>1 DEF Born
<1>5. CASE Find(s)
  <2>1. docs' = docs /\ FindDoes(s)
    BY <1>0, <1>5, FindEnds
  <2>2. PICK found : /\ Fits(s, "ok", found) /\ call[s].req.path \in Path
                     /\ \/ found = {}
                        \/ \E d \in LiveAt(call[s].req.path) : found = {Entry(d)}
    BY <2>1 DEF FindDoes
  <2>3. \A e \in found : docs[e.doc] # None
    BY <1>1, <2>2, EntryIs
  <2> QED BY <1>3, <1>4, <2>1, <2>2, <2>3
<1>6. CASE ListDocs(s)
  <2>1. docs' = docs /\ ListDoes(s)
    BY <1>0, <1>6, ListEnds
  <2>2. PICK found : /\ Fits(s, "ok", found)
                     /\ \A e : e \in found <=> \E p \in Under(call[s].req.path) : \E d \in LiveAt(p) : e = Entry(d)
    BY <2>1 DEF ListDoes
  <2>3. ASSUME NEW e \in found PROVE docs[e.doc] # None
    <3>1. PICK p \in Under(call[s].req.path) : \E d \in LiveAt(p) : e = Entry(d)
      BY <2>2
    <3>2. p \in Path
      BY DEF Under
    <3> QED BY <1>1, <3>1, <3>2, EntryIs
  <2> QED BY <1>3, <1>4, <2>1, <2>2, <2>3
<1>7. CASE Add(s)
  <2>1. AddDoes(s)
    BY <1>0, <1>7, AddEnds
  <2>a. PICK d \in Doc : \E found :
          /\ docs' = [docs EXCEPT ![d] = [path |-> call[s].path, text |-> call[s].text, broken |-> FALSE]]
          /\ found = {[doc |-> d, path |-> call[s].path, text |-> call[s].text, broken |-> FALSE]} /\ Fits(s, "ok", found)
    BY <2>1 DEF AddDoes
  <2>2. PICK found :
          /\ docs' = [docs EXCEPT ![d] = [path |-> call[s].path, text |-> call[s].text, broken |-> FALSE]]
          /\ found = {[doc |-> d, path |-> call[s].path, text |-> call[s].text, broken |-> FALSE]} /\ Fits(s, "ok", found)
    BY <2>a
  <2> DEFINE new == [path |-> call[s].path, text |-> call[s].text, broken |-> FALSE]
  <2>3. new \in Content /\ new # None
    BY <2>1, VolumeAssumption DEF AddDoes, Texts
  <2>4. docs' \in [Doc -> Content] /\ Born /\ docs'[d] # None
    <3>1. docs' = [docs EXCEPT ![d] = new]
      BY <2>2
    <3> HIDE DEF new
    <3> QED BY <1>1, <2>3, <3>1 DEF Born
  <2>5. \A e \in found : docs'[e.doc] # None
    BY <2>2, <2>4
  <2> QED BY <1>3, <2>2, <2>4, <2>5
<1>8. CASE Patch(s)
  <2>1. PICK kind \in {"update", "rename", "delete"} : PatchDoes(s, kind)
    BY <1>0, <1>8, PatchEnds
  <2>2. CASE docs' = docs /\ Fits(s, "missing", {})
    BY <1>3, <1>4, <2>2
  <2>3. CASE docs[call[s].req.doc] # Gone /\ Fits(s, "ok", {})
    <3> DEFINE d == call[s].req.doc
    <3>1. d \in Doc /\ docs[d] # None /\ docs[d] # Gone
      <4>1. d # None
        BY <2>1, VolumeAssumption DEF PatchDoes
      <4> QED BY <1>0, <2>1, <2>3, <4>1 DEF PatchDoes, KnownIn
    <3>2. docs[d] \in [path : Path, text : Texts, broken : BOOLEAN]
      BY <1>1, <3>1
    <3>3. PICK v \in [path : Path, text : Texts, broken : BOOLEAN] \cup {Gone} : docs' = [docs EXCEPT ![d] = v]
      <4>1. CASE kind = "update"
        <5>1. [docs[d] EXCEPT !.text = call[s].text, !.broken = FALSE] \in [path : Path, text : Texts, broken : BOOLEAN]
          BY <2>1, <3>2, <4>1 DEF PatchDoes
        <5> QED BY <2>1, <2>3, <4>1, <5>1 DEF PatchDoes
      <4>2. CASE kind = "rename"
        <5>1. [docs[d] EXCEPT !.path = call[s].dest] \in [path : Path, text : Texts, broken : BOOLEAN]
          BY <2>1, <3>2, <4>2 DEF PatchDoes
        <5> QED BY <2>1, <2>3, <4>2, <5>1 DEF PatchDoes
      <4>3. CASE kind = "delete"
        BY <2>1, <2>3, <4>3 DEF PatchDoes
      <4> QED BY <4>1, <4>2, <4>3
    <3>4. v # None
      BY VolumeAssumption DEF Texts, Gone
    <3>5. docs' \in [Doc -> Content] /\ Born
      <4> HIDE DEF d
      <4> QED BY <1>1, <3>1, <3>3, <3>4 DEF Born
    <3> QED BY <1>3, <2>3, <3>5
  <2> QED BY <2>1, <2>2, <2>3 DEF PatchDoes
<1>9. CASE Bulk(s)
  <2>1. BulkDoes(s)
    BY <1>0, <1>9, BulkEnds
  <2>2. PICK del \in SUBSET Doc : docs' = [d \in Doc |-> IF d \in del THEN Gone ELSE docs[d]]
    BY <2>1 DEF BulkDoes
  <2>3. Gone # None
    BY VolumeAssumption DEF Gone
  <2>4. docs' \in [Doc -> Content] /\ Born
    <3> HIDE DEF Gone
    <3> QED BY <1>1, <2>2, <2>3 DEF Born
  <2> QED BY <1>3, <2>1, <2>4 DEF BulkDoes
<1> QED BY <1>5, <1>6, <1>7, <1>8, <1>9 DEF Serve

LEMMA FailEnds ==
  ASSUME TypeInv, NEW s \in Slot, Fail(s)
  PROVE  /\ Answering(s, "failed", {}) /\ call[s].req # NoReq
         /\ docs' = docs /\ index' = index /\ cache' = cache /\ foreign' = foreign /\ calls' = calls
         /\ "lost" \notin Hazards => call[s].ans.status = "none"
<1>1. Fits(s, "failed", {})
  BY FS_EmptySet DEF Fail, Fits
<1> QED BY <1>1, FitsAnswers DEF Fail

LEMMA FailType ==
  ASSUME TInv, NEW s \in Slot, Fail(s)
  PROVE  TInv'
<1>0. TypeInv /\ Agrees(index) /\ Known /\ call[s] \in Calls /\ KnownIn(call[s])
  BY DEF TInv, TypeInv, Known
<1>1. /\ Answering(s, "failed", {})
      /\ docs' = docs /\ index' = index /\ cache' = cache /\ foreign' = foreign /\ calls' = calls
  BY <1>0, FailEnds
<1>2. events < MaxEvents /\ events' = events + 1
  BY DEF Fail, Happens
<1>3. events' \in 0..MaxEvents
  BY <1>0, <1>2, VolumeAssumption DEF TypeInv
<1>4. /\ calls' \in 0..MaxCalls /\ foreign' \subseteq Path
      /\ index' \in IndexType /\ Agrees(index')
      /\ \A p \in Path : index'.files[p] # None => docs[index'.files[p]] # None
      /\ cache' \in [Path -> Texts \cup {None}]
  BY <1>0, <1>1 DEF TypeInv, Known
<1>5. KnownIn(call'[s])
  BY <1>0, <1>1 DEF Answering, KnownIn
<1>6. call' \in [Slot -> Calls] /\ Family' /\ \A t \in Slot \ {s} : Alike(call'[t], call[t])
  BY <1>1, AlikeRefl DEF Answering
<1> QED BY <1>1, <1>3, <1>4, <1>5, <1>6, TypeQuiet

LEMMA AnsweredIs ==
  ASSUME TypeInv, NEW s \in Slot, call[s].ans.status # "none"
  PROVE  /\ call[s] \in Calls /\ call[s].op \in Ops /\ call[s].req.kind # "none" /\ ~Idle(call[s])
         /\ call[s].req # NoReq
<1>1. call[s] \in Calls /\ call[s] \in Records /\ WellFormed(call[s])
  BY DEF TypeInv, Calls
<1>2. call[s].req.kind # "none"
  BY <1>1 DEF WellFormed, AnswerOK, NoAns
<1>3. call[s].req # NoReq
  BY <1>2 DEF NoReq
<1>4. call[s].op # "free"
  BY <1>1, <1>3 DEF WellFormed, Free
<1> QED BY <1>1, <1>2, <1>3, <1>4 DEF Idle, Records

(* A step of the call s, that goes on as c.                                *)
Goes(s, c) ==
  /\ call' \in [Slot -> Calls] /\ Family' /\ call'[s] = c
  /\ \A t \in Slot \ {s} : Alike(call'[t], call[t])

LEMMA EndGoes ==
  ASSUME TypeInv, NEW s \in Slot, ~Idle(call[s]), Done(s) \/ Throw(s)
  PROVE  Goes(s, Free)
BY DoneIs, ThrowIs, AlikeRefl DEF Goes

LEMMA PutGoes ==
  ASSUME TypeInv, NEW s \in Slot, ~Idle(call[s]), NEW c \in Calls, call' = [call EXCEPT ![s] = c],
         c.of # None => /\ c.of = call[s].of /\ c.op = call[s].op
                        /\ c.path = call[s].path /\ c.dest = call[s].dest
  PROVE  Goes(s, c)
BY PutIs, AlikeRefl DEF Goes

(* What a resumed call does to the index and the cache, and the type.      *)
Known2(ix) == \A p \in Path : ix.files[p] # None => docs[ix.files[p]] # None

LEMMA ResumeType ==
  ASSUME TInv, NEW s \in Slot, UNCHANGED <<docs, calls, events, foreign>>,
         NEW c \in Calls, Goes(s, c), KnownIn(c),
         index' \in IndexType, Agrees(index'), Known2(index'),
         cache' \in [Path -> Texts \cup {None}]
  PROVE  TInv'
<1>1. calls' \in 0..MaxCalls /\ events' \in 0..MaxEvents /\ foreign' \subseteq Path /\ docs' = docs
  BY DEF TInv, TypeInv
<1>2. /\ call' \in [Slot -> Calls] /\ Family' /\ KnownIn(call'[s])
      /\ \A t \in Slot \ {s} : Alike(call'[t], call[t])
      /\ \A p \in Path : index'.files[p] # None => docs[index'.files[p]] # None
  BY DEF Goes, Known2
<1> QED BY <1>1, <1>2, TypeQuiet

LEMMA EntriesKnown ==
  ASSUME TInv, NEW s \in Slot
  PROVE  /\ call[s].ans.docs \in SUBSET Entries /\ IsFiniteSet(call[s].ans.docs)
         /\ Agrees(InsertAll(index, call[s].ans.docs)) /\ Known2(InsertAll(index, call[s].ans.docs))
         /\ InsertAll(index, call[s].ans.docs) \in IndexType
         /\ InsertAll(index, call[s].ans.docs).dirs = index.dirs
<1>1. index \in IndexType /\ Agrees(index) /\ Known2(index) /\ KnownIn(call[s]) /\ call[s] \in Calls
  BY DEF TInv, TypeInv, Known, Known2
<1>2. call[s].ans.docs \in SUBSET Entries /\ IsFiniteSet(call[s].ans.docs)
  BY <1>1 DEF Calls, Records, Answers, WellFormed, AnswerOK
<1>3. PICK es \in SUBSET Entries : es = call[s].ans.docs
  BY <1>2
<1>4. /\ InsertAll(index, es) \in IndexType
      /\ InsertAll(index, es).dirs = index.dirs
      /\ Agrees(InsertAll(index, es))
      /\ \A p \in Path :
              IF \E e \in es : e.path = p
              THEN \E e \in es : e.path = p /\ InsertAll(index, es).files[p] = e.doc
              ELSE InsertAll(index, es).files[p] = index.files[p]
  BY <1>1, <1>2, <1>3, InsertAllDoes
<1>5. Known2(InsertAll(index, es))
  <2>1. \A e \in es : docs[e.doc] # None
    BY <1>1, <1>3 DEF KnownIn
  <2> QED BY <1>1, <1>4, <2>1 DEF Known2
<1> QED BY <1>2, <1>3, <1>4, <1>5

LEMMA EioType ==
  ASSUME TInv, NEW s \in Slot, Eio(s), UNCHANGED <<docs, calls, events, foreign>>
  PROVE  TInv' /\ Goes(s, Free) /\ index' = index /\ cache' = cache
<1>0. TypeInv /\ index \in IndexType /\ Agrees(index) /\ Known2(index) /\ cache \in [Path -> Texts \cup {None}]
  BY DEF TInv, TypeInv, Known, Known2
<1>1. call[s].ans.status # "none" /\ Throw(s) /\ index' = index /\ cache' = cache
  BY DEF Eio, Answered
<1>2. Goes(s, Free)
  BY <1>0, <1>1, AnsweredIs, EndGoes
<1> QED BY <1>0, <1>1, <1>2, FreeIsCall, FreeKnown, ResumeType

GotDocDoes(s) ==
  LET job == call[s]
      p == job.path
  IN  /\ job.op \in {"read", "append", "copy"} /\ p \in Path /\ job.req.kind = "find" /\ job.req.path = p
      /\ job.ans.status = "ok" /\ job.of = None
      /\ \/ /\ job.ans.docs = {} /\ cache' = [cache EXCEPT ![p] = None]
            /\ index'.files = [index.files EXCEPT ![p] = None]
         \/ \E e \in Entries :
              /\ job.ans.docs = {e} /\ e.path = p
              /\ \/ cache' = [cache EXCEPT ![p] = e.text]
                 \/ e.broken /\ cache' = [cache EXCEPT ![p] = {Blurb}]
              /\ index'.files = [index.files EXCEPT ![p] = e.doc]
      /\ \E c \in Calls :
           /\ Goes(s, c) /\ KnownIn(c)
           /\ c = Free \/ /\ c.op = "write" /\ c.path \in {p, job.dest} /\ c.path \in Path
                          /\ c.dest = job.dest /\ c.of = None /\ c.kids = {} /\ Fresh(c, index')

LEMMA GotDocType ==
  ASSUME TInv, NEW s \in Slot, GotDoc(s), UNCHANGED <<docs, calls, events, foreign>>
  PROVE  TInv' /\ GotDocDoes(s)
<1>0. /\ TypeInv /\ index \in IndexType /\ Agrees(index) /\ Known2(index) /\ cache \in [Path -> Texts \cup {None}]
      /\ KnownIn(call[s])
  BY DEF TInv, TypeInv, Known, Known2
<1> DEFINE job == call[s]
           p == job.path
           found == job.ans.docs
           ix == IF found = {} THEN RemovePath(index, p) ELSE InsertAll(index, found)
           texts == IF found = {} THEN {None} ELSE TextsOf(job.op, CHOOSE e \in found : TRUE)
<1>a. PICK text : /\ text \in texts /\ job.op \in {"read", "append", "copy"} /\ job.req.kind = "find"
                  /\ job.ans.status = "ok"
                  /\ index' = ix /\ cache' = [cache EXCEPT ![p] = text] /\ Got(s, job, text, ix)
  BY DEF GotDoc, Answered, Put
<1>1. /\ job.op \in {"read", "append", "copy"} /\ job.req.kind = "find" /\ job.ans.status = "ok"
      /\ index' = ix /\ cache' = [cache EXCEPT ![p] = text] /\ Got(s, job, text, ix)
  BY <1>a
<1>2. job \in Calls /\ ~Idle(job)
  BY <1>0, <1>1, AnsweredIs
<1>3. /\ job \in Records /\ p \in Path /\ job.of = None /\ job.req.path = p /\ ReadOK(job) /\ job.kids = {} /\ job.doc = None
      /\ found = {} \/ \E e \in found : found = {e} /\ e.path = p
      /\ found \in SUBSET Entries
  BY <1>1, <1>2 DEF Calls, WellFormed, ReadOK, TreeOK, TreeOps, AnswerOK, Records, Answers
<1>4. /\ ix \in IndexType /\ Agrees(ix) /\ Known2(ix) /\ text \in Texts \cup {None}
      /\ \/ found = {} /\ text = None /\ ix.files = [index.files EXCEPT ![p] = None]
         \/ \E e \in Entries : found = {e} /\ e.path = p /\ (text = e.text \/ (e.broken /\ text = {Blurb}))
                              /\ ix.files = [index.files EXCEPT ![p] = e.doc]
  <2>1. CASE found = {}
    <3>1. /\ RemovePath(index, p) \in IndexType /\ Agrees(RemovePath(index, p))
          /\ RemovePath(index, p).files = [index.files EXCEPT ![p] = None]
      BY <1>0, <1>3, RemovePathDoes
    <3>2. Known2(RemovePath(index, p))
      BY <1>0, <1>3, <3>1 DEF Known2, IndexType
    <3> QED BY <1>a, <2>1, <3>1, <3>2
  <2>2. CASE found # {}
    <3>1. PICK e \in Entries : found = {e} /\ e.path = p
      BY <1>3, <2>2
    <3>2. (CHOOSE x \in found : TRUE) = e /\ e.text \in Texts /\ e.broken \in BOOLEAN /\ {Blurb} \in Texts
      BY <3>1 DEF Entries, Texts
    <3>a. text \in TextsOf(job.op, e)
      BY <1>a, <2>2, <3>2
    <3>b. text = e.text \/ (e.broken /\ text = {Blurb})
      BY <3>2, <3>a DEF TextsOf
    <3>3. PICK es \in SUBSET Entries : es = found
      BY <1>3
    <3>4. /\ InsertAll(index, es) \in IndexType /\ Agrees(InsertAll(index, es)) /\ Known2(InsertAll(index, es))
          /\ IsFiniteSet(es)
      BY <3>3, EntriesKnown
    <3>5. \A q \in Path :
              IF \E x \in es : x.path = q
              THEN \E x \in es : x.path = q /\ InsertAll(index, es).files[q] = x.doc
              ELSE InsertAll(index, es).files[q] = index.files[q]
      BY <1>0, <3>4, InsertAllDoes
    <3>6. \A q \in Path : InsertAll(index, es).files[q] = IF q = p THEN e.doc ELSE index.files[q]
      BY <3>1, <3>3, <3>5
    <3>7. InsertAll(index, es).files = [index.files EXCEPT ![p] = e.doc]
      BY <1>0, <3>4, <3>6 DEF IndexType
    <3> QED BY <2>2, <3>1, <3>2, <3>b, <3>3, <3>4, <3>7
  <2> QED BY <2>1, <2>2
<1>5. \E c \in Calls :
           /\ Goes(s, c) /\ KnownIn(c)
           /\ c = Free \/ /\ c.op = "write" /\ c.path \in {p, job.dest} /\ c.path \in Path
                          /\ c.dest = job.dest /\ c.of = None /\ c.kids = {} /\ Fresh(c, ix)
  <2> HIDE DEF ix
  <2>1. \/ Done(s)
        \/ Throw(s)
        \/ \E u \in Path : /\ u = IF job.op = "copy" THEN job.dest ELSE job.path
                           /\ Writable(ix, u)
                           /\ \E c \in Calls :
                                /\ call' = [call EXCEPT ![s] = c]
                                /\ c.op = "write" /\ c.path = u /\ c.dest = job.dest
                                /\ c.doc = job.doc /\ c.kids = {} /\ c.of = None /\ c.ans = NoAns
                                /\ c.req.kind = IF ix.files[u] = None THEN "add" ELSE "update"
                                /\ c.req.doc = ix.files[u]
    <3> HIDE DEF job
    <3> QED BY <1>1, <1>3, <1>4, GotEnds
  <2>2. CASE Done(s) \/ Throw(s)
    <3>1. Goes(s, Free) /\ Free \in Calls /\ KnownIn(Free)
      BY <1>0, <1>2, <2>2, EndGoes, FreeIsCall, FreeKnown
    <3> QED BY <3>1
  <2>3. ASSUME NEW u \in Path, u = IF job.op = "copy" THEN job.dest ELSE job.path, Writable(ix, u),
               NEW c \in Calls, call' = [call EXCEPT ![s] = c],
               c.op = "write", c.path = u, c.dest = job.dest, c.kids = {}, c.of = None, c.ans = NoAns,
               c.req.kind = IF ix.files[u] = None THEN "add" ELSE "update",
               c.req.doc = ix.files[u]
        PROVE  Goes(s, c) /\ KnownIn(c) /\ Fresh(c, ix) /\ c.path \in {p, job.dest}
    <3>1. Goes(s, c)
      BY <1>0, <1>2, <2>3, PutGoes
    <3>2. ix.files[u] \in Doc \cup {None}
      BY <1>4 DEF IndexType
    <3>3. Fresh(c, ix)
      BY <2>3, <3>2 DEF Fresh
    <3>4. c.op # "free"
      BY <2>3
    <3>5. KnownIn(c)
      BY <1>4, <3>3, <3>4, FreshKnown DEF Known2
    <3> QED BY <2>3, <3>1, <3>3, <3>5
  <2> QED BY <2>1, <2>2, <2>3
<1>6. GotDocDoes(s)
  <2> HIDE DEF ix
  <2> QED BY <1>1, <1>3, <1>4, <1>5 DEF GotDocDoes
<1>7. cache' \in [Path -> Texts \cup {None}]
  <2> QED BY <1>0, <1>1, <1>3, <1>4
<1> QED
  <2> HIDE DEF ix
  <2> QED BY <1>1, <1>4, <1>5, <1>6, <1>7, ResumeType

WrittenDoes(s) ==
  LET job == call[s]
  IN  /\ job.op = "write" /\ job.path \in Path /\ job.text \in Texts /\ job.ans.status = "ok"
      /\ \E d \in Doc :
           /\ \/ job.req.kind = "update" /\ d = job.req.doc
              \/ job.req.kind = "add" /\ \E e \in job.ans.docs : job.ans.docs = {e} /\ d = e.doc /\ e.path = job.path
           /\ index'.files = [index.files EXCEPT ![job.path] = d]
      /\ cache' = [cache EXCEPT ![job.path] = job.text]
      /\ Goes(s, Free)

LEMMA WrittenType ==
  ASSUME TInv, NEW s \in Slot, Written(s), UNCHANGED <<docs, calls, events, foreign>>
  PROVE  TInv' /\ WrittenDoes(s)
<1>0. /\ TypeInv /\ index \in IndexType /\ Agrees(index) /\ Known2(index) /\ cache \in [Path -> Texts \cup {None}]
      /\ KnownIn(call[s])
  BY DEF TInv, TypeInv, Known, Known2
<1> DEFINE job == call[s]
           d == IF job.req.kind = "update" THEN job.req.doc ELSE (CHOOSE e \in job.ans.docs : TRUE).doc
<1>1. /\ job.op = "write" /\ job.req.kind \in {"add", "update"} /\ job.ans.status = "ok" /\ Done(s)
      /\ index' = Insert(index, job.path, d) /\ cache' = [cache EXCEPT ![job.path] = job.text]
  BY DEF Written, Answered, Put
<1>2. job \in Calls /\ ~Idle(job)
  BY <1>0, <1>1, AnsweredIs
<1>3. /\ job.path \in Path /\ job.text \in Texts
      /\ job.req.kind = "update" => job.req.doc \in Doc
      /\ job.req.kind = "add" => \E e \in job.ans.docs : job.ans.docs = {e} /\ e.path = job.path
      /\ job.ans.docs \subseteq Entries
  BY <1>1, <1>2 DEF Calls, WellFormed, WriteOK, AnswerOK, Records, Answers
<1>4. /\ d \in Doc /\ docs[d] # None
      /\ \/ job.req.kind = "update" /\ d = job.req.doc
         \/ job.req.kind = "add" /\ \E e \in job.ans.docs : job.ans.docs = {e} /\ d = e.doc /\ e.path = job.path
  <2>1. CASE job.req.kind = "update"
    <3>1. job.req.doc # None
      BY <1>3, <2>1, VolumeAssumption
    <3> QED BY <1>0, <1>3, <2>1, <3>1 DEF KnownIn
  <2>2. CASE job.req.kind = "add"
    <3>1. PICK e \in job.ans.docs : job.ans.docs = {e} /\ e.path = job.path
      BY <1>3, <2>2
    <3>2. (CHOOSE x \in job.ans.docs : TRUE) = e
      BY <3>1
    <3>3. e.doc \in Doc /\ docs[e.doc] # None
      BY <1>0, <1>3, <3>1 DEF Entries, KnownIn
    <3> QED BY <2>2, <3>1, <3>2, <3>3
  <2> QED BY <1>1, <2>1, <2>2
<1> HIDE DEF d
<1>5. index' \in IndexType /\ Agrees(index') /\ index'.files = [index.files EXCEPT ![job.path] = d]
  BY <1>0, <1>1, <1>3, <1>4, InsertDoes
<1>6. Known2(index')
  BY <1>0, <1>3, <1>4, <1>5 DEF Known2, IndexType
<1>7. cache' \in [Path -> Texts \cup {None}]
  BY <1>0, <1>1, <1>3
<1>8. Goes(s, Free)
  BY <1>0, <1>1, <1>2, EndGoes
<1>9. WrittenDoes(s)
  BY <1>1, <1>3, <1>4, <1>5, <1>8 DEF WrittenDoes
<1> QED BY <1>5, <1>6, <1>7, <1>8, <1>9, FreeIsCall, FreeKnown, ResumeType

RemovedDoes(s) ==
  LET job == call[s]
  IN  /\ job.op = "remove" /\ job.path \in Path /\ job.req.kind = "delete"
      /\ job.ans.status \in {"ok", "missing"} /\ job.of = None
      /\ index'.files = [index.files EXCEPT ![job.path] = None]
      /\ \A q \in Path : cache'[q] = IF q = job.path THEN None ELSE cache[q]
      /\ Goes(s, Free)

LEMMA EvictIs ==
  ASSUME cache \in [Path -> Texts \cup {None}], NEW ps, Evict(ps)
  PROVE  /\ cache' \in [Path -> Texts \cup {None}]
         /\ \A q \in Path : cache'[q] = IF q \in ps THEN None ELSE cache[q]
BY DEF Evict

LEMMA RemovedType ==
  ASSUME TInv, NEW s \in Slot, Removed(s), UNCHANGED <<docs, calls, events, foreign>>
  PROVE  TInv' /\ RemovedDoes(s)
<1>0. /\ TypeInv /\ index \in IndexType /\ Agrees(index) /\ Known2(index) /\ cache \in [Path -> Texts \cup {None}]
  BY DEF TInv, TypeInv, Known, Known2
<1> DEFINE job == call[s]
<1>1. /\ job.op = "remove" /\ job.req.kind = "delete" /\ job.ans.status \in {"ok", "missing"} /\ Done(s)
      /\ index' = RemovePath(index, job.path) /\ Evict({job.path})
  BY DEF Removed, Answered
<1>2. job \in Calls /\ ~Idle(job)
  BY <1>0, <1>1, AnsweredIs
<1>3. job.path \in Path /\ job.of = None
  BY <1>1, <1>2 DEF Calls, WellFormed, RemoveOK
<1>4. index' \in IndexType /\ Agrees(index') /\ index'.files = [index.files EXCEPT ![job.path] = None]
  BY <1>0, <1>1, <1>3, RemovePathDoes
<1>5. Known2(index')
  BY <1>0, <1>3, <1>4 DEF Known2, IndexType
<1>6. /\ cache' \in [Path -> Texts \cup {None}]
      /\ \A q \in Path : cache'[q] = IF q \in {job.path} THEN None ELSE cache[q]
  BY <1>0, <1>1, EvictIs
<1>7. Goes(s, Free)
  BY <1>0, <1>1, <1>2, EndGoes
<1>8. RemovedDoes(s)
  BY <1>1, <1>3, <1>4, <1>6, <1>7 DEF RemovedDoes
<1> QED BY <1>4, <1>5, <1>6, <1>7, <1>8, FreeIsCall, FreeKnown, ResumeType

TreeRemovedDoes(s) ==
  LET job == call[s]
  IN  /\ job.op = "rmtree" /\ job.path \in Path \cup {Root} /\ job.req.kind = "bulk"
      /\ job.ans.status = "ok" /\ job.of = None
      /\ \A q \in Path : index'.files[q] = IF q \in Under(job.path) THEN None ELSE index.files[q]
      /\ \A q \in Path : cache'[q] = IF q \in Under(job.path) /\ index.files[q] # None THEN None ELSE cache[q]
      /\ Goes(s, Free)

LEMMA TreeRemovedType ==
  ASSUME TInv, NEW s \in Slot, TreeRemoved(s), UNCHANGED <<docs, calls, events, foreign>>
  PROVE  TInv' /\ TreeRemovedDoes(s)
<1>0. /\ TypeInv /\ index \in IndexType /\ Agrees(index) /\ Known2(index) /\ cache \in [Path -> Texts \cup {None}]
  BY DEF TInv, TypeInv, Known, Known2
<1> DEFINE job == call[s]
           below == {p \in Under(job.path) : IsFile(index, p)}
           ix == RemoveAll(index, below)
<1>1. /\ job.op = "rmtree" /\ job.req.kind = "bulk" /\ job.ans.status = "ok" /\ Done(s)
      /\ index' = [ix EXCEPT !.dirs = @ \ ({job.path} \cup Under(job.path))] /\ Evict(below)
  BY DEF TreeRemoved, Answered
<1>2. job \in Calls /\ ~Idle(job)
  BY <1>0, <1>1, AnsweredIs
<1>3. job.path \in Path \cup {Root} /\ job.of = None
  BY <1>1, <1>2 DEF Calls, WellFormed, RemoveOK
<1>4. below \in SUBSET Path /\ IsFiniteSet(below)
  <2>1. below \in SUBSET Path
    BY DEF Under
  <2> HIDE DEF below
  <2> QED BY <2>1, VolumeAssumption, FS_Subset
<1>5. \A q \in Path : q \in below <=> q \in Under(job.path) /\ index.files[q] # None
  BY VolumeAssumption DEF IsFile, Root
<1>6. /\ ix \in IndexType /\ (Agrees(index) => Agrees(ix))
      /\ \A p \in Path : ix.files[p] = IF p \in below THEN None ELSE index.files[p]
  <2> HIDE DEF below
  <2> QED BY <1>0, <1>4, RemoveAllDoes
<1> HIDE DEF ix, below
<1>7. index' \in IndexType /\ index'.files = ix.files /\ index'.byDoc = ix.byDoc
  BY <1>1, <1>6 DEF IndexType
<1>8. Agrees(index') /\ Known2(index')
  BY <1>0, <1>6, <1>7 DEF Agrees, Known2, IndexType
<1>9. /\ cache' \in [Path -> Texts \cup {None}]
      /\ \A q \in Path : cache'[q] = IF q \in below THEN None ELSE cache[q]
  BY <1>0, <1>1, EvictIs
<1>10. Goes(s, Free)
  BY <1>0, <1>1, <1>2, EndGoes
<1>11. \A q \in Path : index'.files[q] = IF q \in Under(job.path) THEN None ELSE index.files[q]
  BY <1>0, <1>5, <1>6, <1>7 DEF IndexType
<1>12. TreeRemovedDoes(s)
  BY <1>1, <1>3, <1>5, <1>9, <1>10, <1>11 DEF TreeRemovedDoes
<1> QED BY <1>7, <1>8, <1>9, <1>10, <1>12, FreeIsCall, FreeKnown, ResumeType

(* What an answer with entries teaches the index.                          *)
Learns(ix, found) ==
  \A p \in Path : IF \E e \in found : e.path = p
                  THEN \E e \in found : e.path = p /\ ix.files[p] = e.doc
                  ELSE ix.files[p] = index.files[p]

LEMMA InsertAllLearns ==
  ASSUME TInv, NEW es \in SUBSET Entries, IsFiniteSet(es), \A e \in es : docs[e.doc] # None
  PROVE  LET ix == InsertAll(index, es)
         IN  /\ ix \in IndexType /\ Agrees(ix) /\ Known2(ix) /\ Learns(ix, es) /\ ix.dirs = index.dirs
<1>1. index \in IndexType /\ Agrees(index) /\ Known2(index)
  BY DEF TInv, TypeInv, Known, Known2
<1>4. /\ InsertAll(index, es) \in IndexType
      /\ InsertAll(index, es).dirs = index.dirs
      /\ Agrees(InsertAll(index, es))
      /\ \A p \in Path :
              IF \E e \in es : e.path = p
              THEN \E e \in es : e.path = p /\ InsertAll(index, es).files[p] = e.doc
              ELSE InsertAll(index, es).files[p] = index.files[p]
  BY <1>1, InsertAllDoes
<1>5. Known2(InsertAll(index, es))
  BY <1>1, <1>4 DEF Known2
<1> QED BY <1>4, <1>5 DEF Learns

LEMMA FoundIs ==
  ASSUME TInv, NEW s \in Slot
  PROVE  /\ call[s].ans.docs \in SUBSET Entries /\ IsFiniteSet(call[s].ans.docs)
         /\ \A e \in call[s].ans.docs : docs[e.doc] # None /\ e.path \in Path /\ e.text \in Texts
<1>1. KnownIn(call[s]) /\ call[s] \in Calls
  BY DEF TInv, TypeInv, Known
<1> QED BY <1>1 DEF Calls, Records, Answers, WellFormed, AnswerOK, KnownIn, Entries

RmdirListedDoes(s) ==
  /\ call[s].op = "rmdir" /\ call[s].req.kind = "list" /\ call[s].ans.status = "ok" /\ call[s].of = None
  /\ cache' = cache /\ Goes(s, Free)
  /\ \E es \in SUBSET call[s].ans.docs : Learns(index', es)

LEMMA RmdirListedType ==
  ASSUME TInv, NEW s \in Slot, RmdirListed(s), UNCHANGED <<docs, calls, events, foreign>>
  PROVE  TInv' /\ RmdirListedDoes(s)
<1>0. /\ TypeInv /\ index \in IndexType /\ Agrees(index) /\ Known2(index) /\ cache \in [Path -> Texts \cup {None}]
  BY DEF TInv, TypeInv, Known, Known2
<1> DEFINE job == call[s]
           found == job.ans.docs
<1>1. job.op = "rmdir" /\ job.req.kind = "list" /\ job.ans.status = "ok" /\ cache' = cache
  BY DEF RmdirListed, Answered
<1>2. job \in Calls /\ ~Idle(job)
  BY <1>0, <1>1, AnsweredIs
<1>3. job.of = None
  BY <1>1, <1>2 DEF Calls, WellFormed, ListOK
<1>4. /\ found \in SUBSET Entries /\ IsFiniteSet(found)
      /\ \A e \in found : docs[e.doc] # None
  BY FoundIs
<1>5. Done(s) \/ Throw(s)
  BY DEF RmdirListed
<1>6. /\ index' \in IndexType /\ Agrees(index') /\ Known2(index')
      /\ \E es \in SUBSET found : Learns(index', es)
  <2>1. CASE \E e \in found : index' = InsertAll(index, {e})
    <3>1. PICK e \in found : index' = InsertAll(index, {e})
      BY <2>1
    <3>2. PICK es \in SUBSET found : es = {e}
      OBVIOUS
    <3>3. es \in SUBSET Entries /\ IsFiniteSet(es) /\ \A x \in es : docs[x.doc] # None
      BY <1>4, <3>2, FS_Singleton
    <3>4. index' = InsertAll(index, es)
      BY <3>1, <3>2
    <3> QED BY <3>3, <3>4, InsertAllLearns
  <2>2. CASE index' = index
    <3>1. Learns(index', {}) /\ {} \in SUBSET found
      BY <2>2 DEF Learns
    <3> QED BY <1>0, <2>2, <3>1
  <2>3. CASE index' = [index EXCEPT !.dirs = @ \ {job.path}]
    <3>1. index' \in IndexType /\ index'.files = index.files /\ index'.byDoc = index.byDoc
      BY <1>0, <2>3 DEF IndexType
    <3>2. Learns(index', {}) /\ {} \in SUBSET found
      BY <3>1 DEF Learns
    <3> QED BY <1>0, <3>1, <3>2 DEF Agrees, Known2
  <2> QED BY <2>1, <2>2, <2>3 DEF RmdirListed
<1>7. Goes(s, Free)
  BY <1>0, <1>2, <1>5, EndGoes
<1>8. RmdirListedDoes(s)
  BY <1>1, <1>3, <1>6, <1>7 DEF RmdirListedDoes
<1> QED BY <1>0, <1>1, <1>6, <1>7, <1>8, FreeIsCall, FreeKnown, ResumeType

(* The texts that a listing with content puts in the cache.                *)
Caches(found, with) ==
  \A p \in Path : IF with /\ \E e \in found : e.path = p
                  THEN \E e \in found : e.path = p /\ cache'[p] = e.text
                  ELSE cache'[p] = cache[p]

LEMMA CachesIs ==
  ASSUME NEW found, NEW with, cache \in [Path -> Texts \cup {None}],
         \A e \in found : e.path \in Path /\ e.text \in Texts,
         cache' = [p \in Path |-> IF with /\ \E e \in found : e.path = p
                                  THEN (CHOOSE e \in found : e.path = p).text ELSE cache[p]]
  PROVE  Caches(found, with) /\ cache' \in [Path -> Texts \cup {None}]
<1>1. ASSUME NEW p \in Path, with, \E e \in found : e.path = p
      PROVE  \E e \in found : e.path = p /\ cache'[p] = e.text /\ e.text \in Texts
  <2>1. PICK e : e = CHOOSE x \in found : x.path = p
    OBVIOUS
  <2>2. e \in found /\ e.path = p
    BY <1>1, <2>1
  <2>3. cache'[p] = e.text
    BY <1>1, <2>1
  <2> QED BY <2>2, <2>3
<1>2. \A p \in Path : ~(with /\ \E e \in found : e.path = p) => cache'[p] = cache[p]
  OBVIOUS
<1>3. \A p \in Path : cache'[p] \in Texts \cup {None}
  BY <1>1, <1>2
<1> QED BY <1>1, <1>2, <1>3 DEF Caches

ListedDoes(s) ==
  /\ call[s].op \in {"list", "warm"} /\ call[s].req.kind = "list" /\ call[s].ans.status = "ok" /\ call[s].of = None
  /\ Goes(s, Free) /\ Learns(index', call[s].ans.docs)
  /\ Caches(call[s].ans.docs, call[s].op = "warm")

LEMMA ListedType ==
  ASSUME TInv, NEW s \in Slot, Listed(s), UNCHANGED <<docs, calls, events, foreign>>
  PROVE  TInv' /\ ListedDoes(s)
<1>0. /\ TypeInv /\ cache \in [Path -> Texts \cup {None}]
  BY DEF TInv, TypeInv
<1> DEFINE job == call[s]
           found == job.ans.docs
<1>1. job.op \in {"list", "warm"} /\ job.req.kind = "list" /\ job.ans.status = "ok" /\ Done(s)
      /\ index' = InsertAll(index, found)
  BY DEF Listed, Answered
<1>2. job \in Calls /\ ~Idle(job)
  BY <1>0, <1>1, AnsweredIs
<1>3. job.of = None
  BY <1>1, <1>2 DEF Calls, WellFormed, ListOK
<1>4. /\ found \in SUBSET Entries /\ IsFiniteSet(found)
      /\ \A e \in found : docs[e.doc] # None /\ e.path \in Path /\ e.text \in Texts
  BY FoundIs
<1>5. index' \in IndexType /\ Agrees(index') /\ Known2(index') /\ Learns(index', found)
  BY <1>1, <1>4, InsertAllLearns
<1>6. Caches(found, job.op = "warm") /\ cache' \in [Path -> Texts \cup {None}]
  <2>1. cache' = [p \in Path |-> IF job.op = "warm" /\ \E e \in found : e.path = p
                                  THEN (CHOOSE e \in found : e.path = p).text ELSE cache[p]]
    BY DEF Listed
  <2> HIDE DEF found
  <2> QED BY <1>0, <1>4, <2>1, CachesIs
<1>7. Goes(s, Free)
  BY <1>0, <1>1, <1>2, EndGoes
<1>8. ListedDoes(s)
  BY <1>1, <1>3, <1>5, <1>6, <1>7 DEF ListedDoes
<1> QED BY <1>5, <1>6, <1>7, <1>8, FreeIsCall, FreeKnown, ResumeType

TreeListedDoes(s) ==
  LET job == call[s]
  IN  /\ job.op \in TreeOps /\ job.req.kind = "list" /\ job.ans.status = "ok" /\ job.of = None /\ job.path \in Path
      /\ Learns(index', job.ans.docs) /\ Caches(job.ans.docs, job.op = "cptree")
      /\ \E c \in Calls :
           /\ Goes(s, c) /\ c.op = job.op /\ c.path = job.path /\ c.dest = job.dest /\ c.of = None
           /\ c.req = NoReq /\ c.ans = NoAns /\ c.kids = job.ans.docs /\ c.doc = job.doc /\ c.failed = job.failed

LEMMA TreeListedType ==
  ASSUME TInv, NEW s \in Slot, TreeListed(s), UNCHANGED <<docs, calls, events, foreign>>
  PROVE  TInv' /\ TreeListedDoes(s)
<1>0. /\ TypeInv /\ cache \in [Path -> Texts \cup {None}] /\ KnownIn(call[s])
  BY DEF TInv, TypeInv, Known
<1> DEFINE job == call[s]
           found == job.ans.docs
           c == [job EXCEPT !.req = NoReq, !.ans = NoAns, !.kids = found]
<1>1. job.op \in TreeOps /\ job.req.kind = "list" /\ job.ans.status = "ok"
      /\ index' = InsertAll(index, found) /\ call' = [call EXCEPT ![s] = c]
  BY DEF TreeListed, Answered, TreeOps
<1>2. job \in Calls /\ ~Idle(job)
  BY <1>0, <1>1, AnsweredIs
<1>3. /\ job.of = None /\ job.path \in Path /\ job \in Records /\ TreeOK(job) /\ job.req.path = job.path
      /\ \A e \in found : e.path \in Under(job.path)
      /\ AnswerOK(job) /\ WellFormed(job)
  BY <1>1, <1>2 DEF Calls, WellFormed, TreeOK, AnswerOK
<1>4. /\ found \in SUBSET Entries /\ IsFiniteSet(found)
      /\ \A e \in found : docs[e.doc] # None /\ e.path \in Path /\ e.text \in Texts
  BY FoundIs
<1>5. index' \in IndexType /\ Agrees(index') /\ Known2(index') /\ Learns(index', found)
  BY <1>1, <1>4, InsertAllLearns
<1>6. Caches(found, job.op = "cptree") /\ cache' \in [Path -> Texts \cup {None}]
  <2>1. cache' = [p \in Path |-> IF job.op = "cptree" /\ \E e \in found : e.path = p
                                  THEN (CHOOSE e \in found : e.path = p).text ELSE cache[p]]
    BY DEF TreeListed
  <2> HIDE DEF found
  <2> QED BY <1>0, <1>4, <2>1, CachesIs
<1>7. /\ NoReq \in Requests /\ NoAns \in Answers /\ NoReq.kind = "none" /\ NoReq.doc = None
      /\ NoAns.docs = {} /\ NoAns.status = "none"
  BY DEF NoReq, NoAns, Requests, Answers, Kinds, Texts
<1>8. /\ c \in Records /\ c.op = job.op /\ c.path = job.path /\ c.dest = job.dest /\ c.of = job.of
      /\ c.req = NoReq /\ c.ans = NoAns /\ c.kids = found /\ c.doc = job.doc /\ c.failed = job.failed
  BY <1>3, <1>4, <1>7 DEF Records
<1> HIDE DEF c
<1>9. WellFormed(c)
  <2>1. AnswerOK(c)
    BY <1>1, <1>3, <1>7, <1>8, FS_EmptySet DEF AnswerOK, TreeOps
  <2>2. TreeOK(c)
    BY <1>1, <1>3, <1>7, <1>8 DEF TreeOK
  <2>3. c.op \in {"mvtree", "cptree"} /\ c.path \in Path
    BY <1>1, <1>3, <1>8 DEF TreeOps
  <2> QED BY <2>1, <2>2, <2>3 DEF WellFormed, ReadOK, WriteOK, RemoveOK, ListOK, MoveOK
<1>10. c \in Calls
  BY <1>8, <1>9 DEF Calls
<1>11. Goes(s, c)
  BY <1>0, <1>1, <1>2, <1>3, <1>8, <1>10, PutGoes
<1>12. KnownIn(c)
  BY <1>0, <1>7, <1>8 DEF KnownIn
<1>13. TreeListedDoes(s)
  BY <1>1, <1>3, <1>5, <1>6, <1>8, <1>10, <1>11 DEF TreeListedDoes
<1> QED BY <1>5, <1>6, <1>10, <1>11, <1>12, <1>13, ResumeType

StartKidDoes(s) ==
  LET job == call[s]
  IN  /\ job.of # None /\ job.req = NoReq /\ job.op \in {"write", "move"}
      /\ index' = index /\ cache' = cache
      /\ \E c \in Calls :
           /\ Goes(s, c)
           /\ c = Free \/ /\ c.op = job.op /\ c.path = job.path /\ c.dest = job.dest
                          /\ c.of = job.of /\ c.kids = {} /\ Fresh(c, index)
                          /\ c.op = "move" => Writable(index, c.dest)

LEMMA StartKidType ==
  ASSUME TInv, NEW s \in Slot, StartKid(s), UNCHANGED <<docs, calls, events, foreign>>
  PROVE  TInv' /\ StartKidDoes(s)
<1>0. /\ TypeInv /\ index \in IndexType /\ Agrees(index) /\ Known2(index) /\ cache \in [Path -> Texts \cup {None}]
      /\ KnownIn(call[s])
  BY DEF TInv, TypeInv, Known, Known2
<1> DEFINE job == call[s]
<1>1. /\ job.of # None /\ job.req = NoReq /\ index' = index /\ cache' = cache
      /\ IF job.op = "write" THEN AddDoc(s, job, job.path, job.text, index)
         ELSE IF ~Writable(index, job.dest) THEN Throw(s) ELSE MoveDoc(s, job, index)
  BY DEF StartKid
<1>2. /\ job \in Calls /\ job \in Records /\ WellFormed(job) /\ KidOf(job, call[job.of])
  BY <1>0, <1>1 DEF TypeInv, Calls, Family
<1>3. /\ job.op \in {"write", "move"} /\ job.path \in Path /\ job.kids = {} /\ job.doc = None /\ ~Idle(job)
      /\ job.op = "write" => job.dest = None /\ job.text \in Texts
      /\ job.op = "move" => job.dest \in Path
  BY <1>1, <1>2 DEF KidOf, WellFormed, WriteOK, MoveOK, TreeOK, AnswerOK, TreeOps, Idle, Records, NoReq
<1>4. CASE Throw(s)
  <2>1. Goes(s, Free)
    BY <1>0, <1>3, <1>4, EndGoes
  <2>2. StartKidDoes(s)
    BY <1>1, <1>3, <2>1, FreeIsCall DEF StartKidDoes
  <2> QED BY <1>0, <1>1, <2>1, <2>2, FreeIsCall, FreeKnown, ResumeType
<1>5. ASSUME NEW c \in Calls, call' = [call EXCEPT ![s] = c], c.op = job.op, c.path = job.path, c.dest = job.dest,
             c.of = job.of, c.kids = {}, Fresh(c, index), c.op = "move" => Writable(index, c.dest)
      PROVE  TInv' /\ StartKidDoes(s)
  <2>1. Goes(s, c)
    BY <1>0, <1>3, <1>5, PutGoes
  <2>2. KnownIn(c)
    <3>1. c.op # "free"
      BY <1>3, <1>5
    <3> QED BY <1>0, <1>5, <3>1, FreshKnown DEF Known2
  <2>3. StartKidDoes(s)
    BY <1>1, <1>3, <1>5, <2>1 DEF StartKidDoes
  <2> QED BY <1>0, <1>1, <2>1, <2>2, <2>3, ResumeType
<1>6. CASE job.op = "write"
  <2>1. PICK j \in Records : j = job
    BY <1>2
  <2>a. PICK p \in Path, text \in Texts : p = j.path /\ text = j.text
    BY <1>3, <1>6, <2>1
  <2>2. AddDoc(s, j, p, text, index) /\ j.dest \in {None, p}
        /\ j.kids = {} /\ j.doc = None /\ index \in IndexType
    BY <1>0, <1>1, <1>3, <1>6, <2>1, <2>a
  <2>3. \/ ~Writable(index, p) /\ Throw(s)
        \/ /\ Writable(index, p)
           /\ \E c \in Calls :
                 /\ call' = [call EXCEPT ![s] = c]
                 /\ c.op = "write" /\ c.path = p /\ c.dest = j.dest /\ c.text = text
                 /\ c.doc = j.doc /\ c.kids = {} /\ c.of = j.of /\ c.ans = NoAns
                 /\ c.req.kind = IF index.files[p] = None THEN "add" ELSE "update"
                 /\ c.req.doc = index.files[p]
    BY <2>2, AddDocEnds
  <2>4. ASSUME Writable(index, p), NEW c \in Calls, call' = [call EXCEPT ![s] = c],
               c.op = "write", c.path = p, c.dest = j.dest, c.kids = {}, c.of = j.of, c.ans = NoAns,
               c.req.kind = IF index.files[p] = None THEN "add" ELSE "update",
               c.req.doc = index.files[p]
        PROVE  TInv' /\ StartKidDoes(s)
    <3>1. index.files[p] \in Doc \cup {None}
      BY <1>0, <2>2 DEF IndexType
    <3>2. Fresh(c, index)
      BY <2>4, <3>1 DEF Fresh
    <3> QED BY <1>5, <1>6, <2>1, <2>a, <2>4, <3>2
  <2> QED BY <1>4, <2>3, <2>4
<1>7. CASE job.op = "move" /\ ~Writable(index, job.dest)
  BY <1>1, <1>4, <1>7
<1>8. CASE job.op = "move" /\ Writable(index, job.dest)
  <2>1. PICK j \in Records : j = job
    BY <1>2
  <2>2. MoveDoc(s, j, index) /\ j.op = "move" /\ j.path \in Path /\ j.dest \in Path /\ j.doc = None /\ j.kids = {}
    BY <1>1, <1>3, <1>8, <2>1
  <2>3. \/ index.files[j.path] # None /\ index.files[j.dest] # None /\ Throw(s)
        \/ \E c \in Calls :
              /\ call' = [call EXCEPT ![s] = c]
              /\ c.op = "move" /\ c.path = j.path /\ c.dest = j.dest
              /\ c.doc = index.files[j.path] /\ c.kids = {} /\ c.of = j.of /\ c.ans = NoAns
              /\ c.req.kind = "find"
              /\ c.doc # None => index.files[j.dest] = None
    BY <1>0, <2>2, MoveDocEnds
  <2>4. ASSUME NEW c \in Calls, call' = [call EXCEPT ![s] = c],
               c.op = "move", c.path = j.path, c.dest = j.dest,
               c.doc = index.files[j.path], c.kids = {}, c.of = j.of, c.ans = NoAns,
               c.req.kind = "find", c.doc # None => index.files[j.dest] = None
        PROVE  TInv' /\ StartKidDoes(s)
    <3>1. Fresh(c, index)
      BY <2>4 DEF Fresh
    <3> QED BY <1>5, <1>8, <2>1, <2>4, <3>1
  <2> QED BY <1>4, <2>3, <2>4
<1> QED BY <1>3, <1>6, <1>7, <1>8

TreeDoneDoes(s) ==
  /\ Idle(call[s]) /\ call[s].kids = {} /\ \A t \in Slot : call[t].of # s
  /\ index'.files = index.files /\ cache' = cache /\ Goes(s, Free)

LEMMA TreeDoneType ==
  ASSUME TInv, NEW s \in Slot, TreeDone(s), UNCHANGED <<docs, calls, events, foreign>>
  PROVE  TInv' /\ TreeDoneDoes(s)
<1>0. /\ TypeInv /\ index \in IndexType /\ Agrees(index) /\ Known2(index) /\ cache \in [Path -> Texts \cup {None}]
  BY DEF TInv, TypeInv, Known, Known2
<1>1. /\ call[s].op \in TreeOps /\ call[s].req = NoReq /\ call[s].kids = {} /\ \A t \in Slot : call[t].of # s
  BY DEF TreeDone, KidsDone, TreeOps
<1>2. Done(s) /\ cache' = cache
  BY DEF TreeDone
<1>3. call[s] \in Records /\ TreeOK(call[s])
  BY <1>0 DEF TypeInv, Calls, WellFormed
<1>4. /\ {Moved(d, call[s].path, call[s].dest) : d \in index.dirs \cap Under(call[s].path)} \subseteq Path
      /\ call[s].dest \in Path /\ index.dirs \subseteq Path
  BY <1>0, <1>1, <1>3 DEF TreeOK, IndexType
<1>5. PICK ds \in SUBSET Path : index' = [index EXCEPT !.dirs = ds]
  <2> DEFINE from == call[s].path
             below == index.dirs \cap Under(from)
             made == {Moved(d, from, call[s].dest) : d \in below} \cup {call[s].dest}
             ds == (IF call[s].op = "mvtree" THEN index.dirs \ (below \cup {from}) ELSE index.dirs) \cup made
  <2>1. index' = [index EXCEPT !.dirs = ds]
    BY DEF TreeDone
  <2>2. made \subseteq Path
    BY <1>4
  <2>3. ds \in SUBSET Path
    <3> HIDE DEF made, below
    <3> QED BY <1>4, <2>2
  <2> HIDE DEF ds
  <2> QED BY <2>1, <2>3
<1>6. index' \in IndexType /\ index'.files = index.files /\ index'.byDoc = index.byDoc
  BY <1>0, <1>5 DEF IndexType
<1>7. Goes(s, Free)
  BY <1>0, <1>1, <1>2, DoneIs, AlikeRefl DEF Goes
<1>8. TreeDoneDoes(s)
  BY <1>1, <1>2, <1>6, <1>7 DEF TreeDoneDoes, Idle
<1>9. Agrees(index') /\ Known2(index')
  BY <1>0, <1>6 DEF Agrees, Known2
<1> QED BY <1>0, <1>2, <1>6, <1>7, <1>8, <1>9, FreeIsCall, FreeKnown, ResumeType

MoveAnswered(s, kind, status) ==
  LET job == call[s]
  IN  /\ job.op = "move" /\ job.req.kind = kind /\ job.ans.status = status
      /\ job \in Calls /\ job.path \in Path /\ job.dest \in Path /\ job.kids = {} /\ ~Idle(job)
      /\ job.of \in Slot \cup {None} /\ MoveOK(job) /\ AnswerOK(job)

LEMMA MoveAnsweredIs ==
  ASSUME TypeInv, NEW s \in Slot, NEW kind, NEW status, status # "none", Answered(s, {"move"}, kind, status)
  PROVE  MoveAnswered(s, kind, status)
<1>1. call[s].op = "move" /\ call[s].req.kind = kind /\ call[s].ans.status = status
  BY DEF Answered
<1>2. call[s] \in Calls /\ ~Idle(call[s])
  BY <1>1, AnsweredIs
<1> QED BY <1>1, <1>2 DEF MoveAnswered, Calls, WellFormed, MoveOK, TreeOK, TreeOps, Records

FoundSourceDoes(s) ==
  LET job == call[s]
  IN  /\ MoveAnswered(s, "find", "ok") /\ job.doc = None
      /\ Learns(index', job.ans.docs) /\ cache' = cache
      /\ \E c \in Calls :
           /\ Goes(s, c)
           /\ c = Free \/ /\ job.ans.docs # {}
                          /\ c.op = "move" /\ c.path = job.path /\ c.dest = job.dest
                          /\ c.of = job.of /\ c.kids = {} /\ Fresh(c, index') /\ c.doc # None

LEMMA FoundSourceType ==
  ASSUME TInv, NEW s \in Slot, FoundSource(s), UNCHANGED <<docs, calls, events, foreign>>
  PROVE  TInv' /\ FoundSourceDoes(s)
<1>0. TypeInv /\ cache \in [Path -> Texts \cup {None}]
  BY DEF TInv, TypeInv
<1> DEFINE job == call[s]
           found == job.ans.docs
           ix == InsertAll(index, found)
<1>1. /\ MoveAnswered(s, "find", "ok") /\ job.doc = None /\ index' = ix /\ cache' = cache
      /\ IF found = {} THEN Throw(s) ELSE MoveDoc(s, job, ix)
  BY <1>0, MoveAnsweredIs DEF FoundSource
<1>2. /\ found \in SUBSET Entries /\ IsFiniteSet(found)
      /\ \A e \in found : docs[e.doc] # None /\ e.path \in Path /\ e.text \in Texts
  BY FoundIs
<1>3. ix \in IndexType /\ Agrees(ix) /\ Known2(ix) /\ Learns(ix, found)
  BY <1>2, InsertAllLearns
<1> HIDE DEF ix
<1>4. CASE Throw(s)
  <2>1. Goes(s, Free)
    BY <1>0, <1>1, <1>4, EndGoes DEF MoveAnswered
  <2>2. FoundSourceDoes(s)
    BY <1>1, <1>3, <2>1, FreeIsCall DEF FoundSourceDoes
  <2> QED BY <1>0, <1>1, <1>3, <2>1, <2>2, FreeIsCall, FreeKnown, ResumeType
<1>5. CASE found # {} /\ MoveDoc(s, job, ix)
  <2>1. PICK j \in Records : j = job
    BY <1>1 DEF MoveAnswered, Calls
  <2>2. PICK g \in IndexType : g = ix
    BY <1>3
  <2>3. MoveDoc(s, j, g) /\ j.op = "move" /\ j.path \in Path /\ j.dest \in Path /\ j.doc = None /\ j.kids = {}
    BY <1>1, <1>5, <2>1, <2>2 DEF MoveAnswered
  <2>4. \/ g.files[j.path] # None /\ g.files[j.dest] # None /\ Throw(s)
        \/ \E c \in Calls :
              /\ call' = [call EXCEPT ![s] = c]
              /\ c.op = "move" /\ c.path = j.path /\ c.dest = j.dest
              /\ c.doc = g.files[j.path] /\ c.kids = {} /\ c.of = j.of /\ c.ans = NoAns
              /\ c.req.kind = "find"
              /\ c.doc # None => g.files[j.dest] = None
    BY <2>3, MoveDocEnds
  <2>5. ASSUME NEW c \in Calls, call' = [call EXCEPT ![s] = c],
               c.op = "move", c.path = j.path, c.dest = j.dest,
               c.doc = g.files[j.path], c.kids = {}, c.of = j.of, c.ans = NoAns,
               c.req.kind = "find", c.doc # None => g.files[j.dest] = None
        PROVE  TInv' /\ FoundSourceDoes(s)
    <3>1. Fresh(c, g)
      BY <2>5 DEF Fresh
    <3>2. Goes(s, c)
      BY <1>0, <1>1, <2>1, <2>5, PutGoes DEF MoveAnswered
    <3>3. KnownIn(c)
      <4>1. c.op # "free"
        BY <2>5
      <4> QED BY <1>3, <2>2, <3>1, <4>1, FreshKnown DEF Known2
    <3>4. c.doc # None
      <4>1. PICK e \in found : e.path = job.path
        BY <1>1, <1>5 DEF MoveAnswered, MoveOK, AnswerOK
      <4>2. PICK x \in found : ix.files[job.path] = x.doc
        BY <1>1, <1>3, <4>1 DEF Learns, MoveAnswered
      <4> QED BY <1>2, <2>1, <2>2, <2>5, <4>2, VolumeAssumption DEF Entries
    <3>5. FoundSourceDoes(s)
      BY <1>1, <1>3, <1>5, <2>1, <2>2, <2>5, <3>1, <3>2, <3>4 DEF FoundSourceDoes
    <3> QED BY <1>0, <1>1, <1>3, <3>2, <3>3, <3>5, ResumeType
  <2> QED BY <1>4, <2>4, <2>5
<1> QED BY <1>1, <1>4, <1>5

FoundTargetDoes(s) ==
  LET job == call[s]
  IN  /\ MoveAnswered(s, "find", "ok") /\ job.doc # None
      /\ Learns(index', job.ans.docs) /\ cache' = cache
      /\ \E c \in Calls :
           /\ Goes(s, c)
           /\ c = Free \/ /\ job.ans.docs = {}
                          /\ c.op = "move" /\ c.path = job.path /\ c.dest = job.dest /\ c.doc = job.doc
                          /\ c.of = job.of /\ c.kids = {} /\ c.ans = NoAns /\ c.req.kind = "rename"

LEMMA FoundTargetType ==
  ASSUME TInv, NEW s \in Slot, FoundTarget(s), UNCHANGED <<docs, calls, events, foreign>>
  PROVE  TInv' /\ FoundTargetDoes(s)
<1>0. TypeInv /\ cache \in [Path -> Texts \cup {None}] /\ KnownIn(call[s])
  BY DEF TInv, TypeInv, Known
<1> DEFINE job == call[s]
           found == job.ans.docs
           ix == InsertAll(index, found)
<1>1. /\ MoveAnswered(s, "find", "ok") /\ job.doc # None /\ index' = ix /\ cache' = cache
      /\ IF found = {} THEN MoveTo(s, job) ELSE Throw(s)
  BY <1>0, MoveAnsweredIs DEF FoundTarget
<1>2. /\ found \in SUBSET Entries /\ IsFiniteSet(found)
      /\ \A e \in found : docs[e.doc] # None /\ e.path \in Path /\ e.text \in Texts
  BY FoundIs
<1>3. ix \in IndexType /\ Agrees(ix) /\ Known2(ix) /\ Learns(ix, found)
  BY <1>2, InsertAllLearns
<1> HIDE DEF ix
<1>4. CASE Throw(s)
  <2>1. Goes(s, Free)
    BY <1>0, <1>1, <1>4, EndGoes DEF MoveAnswered
  <2>2. FoundTargetDoes(s)
    BY <1>1, <1>3, <2>1, FreeIsCall DEF FoundTargetDoes
  <2> QED BY <1>0, <1>1, <1>3, <2>1, <2>2, FreeIsCall, FreeKnown, ResumeType
<1>5. CASE found = {} /\ MoveTo(s, job)
  <2>1. /\ job \in Records /\ job.op = "move" /\ job.path \in Path /\ job.dest \in Path /\ job.doc \in Doc
        /\ job.kids = {}
    BY <1>1 DEF MoveAnswered, Calls, Records
  <2>2. /\ Ask(s, job, "rename", job.dest, job.doc, {}) /\ "rename" \in Kinds /\ job.dest \in Path \cup {Root}
        /\ {} \in Texts /\ job.doc \in Doc \cup {None}
    BY <1>5, <2>1 DEF MoveTo, Kinds, Texts
  <2>3. PICK c \in Records :
           /\ call' = [call EXCEPT ![s] = c]
           /\ c.op = job.op /\ c.path = job.path /\ c.dest = job.dest /\ c.text = job.text
           /\ c.doc = job.doc /\ c.kids = job.kids /\ c.of = job.of /\ c.ans = NoAns
           /\ c.req.kind = "rename" /\ c.req.path = job.dest /\ c.req.doc = job.doc /\ c.req.text = {}
    BY <2>1, <2>2, AskIs
  <2>4. NoAns.status = "none" /\ NoAns.docs = {} /\ IsFiniteSet(NoAns.docs)
    BY FS_EmptySet DEF NoAns
  <2>5. WellFormed(c)
    BY <2>1, <2>3, <2>4
    DEF WellFormed, ReadOK, WriteOK, RemoveOK, ListOK, MoveOK, TreeOK, AnswerOK, TreeOps
  <2>6. c \in Calls
    BY <2>5 DEF Calls
  <2>7. Goes(s, c)
    BY <1>0, <1>1, <2>3, <2>6, PutGoes DEF MoveAnswered
  <2>8. KnownIn(c)
    BY <1>0, <2>3, <2>4 DEF KnownIn
  <2>9. FoundTargetDoes(s)
    BY <1>1, <1>3, <1>5, <2>1, <2>3, <2>6, <2>7 DEF FoundTargetDoes
  <2> QED BY <1>0, <1>1, <1>3, <2>6, <2>7, <2>8, <2>9, ResumeType
<1> QED BY <1>1, <1>4, <1>5

RenamedDoes(s) ==
  LET job == call[s]
      from == job.path
      to == job.dest
  IN  /\ MoveAnswered(s, "rename", "ok") /\ job.doc \in Doc
      /\ \A q \in Path : index'.files[q] = IF q = to THEN job.doc ELSE IF q = from THEN None ELSE index.files[q]
      /\ \A q \in Path : cache'[q] = IF q = from THEN None
                                     ELSE IF q = to /\ cache[from] # None THEN cache[from] ELSE cache[q]
      /\ Goes(s, Free)

LEMMA RenamedType ==
  ASSUME TInv, NEW s \in Slot, Renamed(s), UNCHANGED <<docs, calls, events, foreign>>
  PROVE  TInv' /\ RenamedDoes(s)
<1>0. /\ TypeInv /\ index \in IndexType /\ Agrees(index) /\ Known2(index) /\ cache \in [Path -> Texts \cup {None}]
      /\ KnownIn(call[s])
  BY DEF TInv, TypeInv, Known, Known2
<1> DEFINE job == call[s]
           from == job.path
           to == job.dest
<1>1. /\ MoveAnswered(s, "rename", "ok") /\ Done(s)
      /\ index' = Insert(RemovePath(index, from), to, job.doc)
      /\ cache' = IF cache[from] = None THEN cache ELSE [cache EXCEPT ![to] = cache[from], ![from] = None]
  BY <1>0, MoveAnsweredIs DEF Renamed
<1>2. from \in Path /\ to \in Path /\ job.doc \in Doc /\ docs[job.doc] # None
  BY <1>0, <1>1, VolumeAssumption DEF MoveAnswered, MoveOK, KnownIn
<1>3. PICK ix \in IndexType : ix = RemovePath(index, from) /\ ix.files = [index.files EXCEPT ![from] = None] /\ Agrees(ix)
  BY <1>0, <1>2, RemovePathDoes
<1>4. index' \in IndexType /\ index'.files = [ix.files EXCEPT ![to] = job.doc] /\ Agrees(index')
  BY <1>1, <1>2, <1>3, InsertDoes
<1>5. \A q \in Path : index'.files[q] = IF q = to THEN job.doc ELSE IF q = from THEN None ELSE index.files[q]
  BY <1>0, <1>2, <1>3, <1>4 DEF IndexType
<1>6. Known2(index')
  BY <1>0, <1>2, <1>5 DEF Known2
<1>7. /\ cache' \in [Path -> Texts \cup {None}]
      /\ \A q \in Path : cache'[q] = IF q = from THEN None
                                     ELSE IF q = to /\ cache[from] # None THEN cache[from] ELSE cache[q]
  <2>1. CASE cache[from] = None
    BY <1>0, <1>1, <2>1
  <2>2. CASE cache[from] # None
    <3>1. cache' = [[cache EXCEPT ![to] = cache[from]] EXCEPT ![from] = None]
      BY <1>1, <2>2
    <3> QED BY <1>0, <1>2, <2>2, <3>1
  <2> QED BY <2>1, <2>2
<1>8. Goes(s, Free)
  BY <1>0, <1>1, EndGoes DEF MoveAnswered
<1>9. RenamedDoes(s)
  BY <1>1, <1>2, <1>5, <1>7, <1>8 DEF RenamedDoes
<1> QED BY <1>4, <1>6, <1>7, <1>8, <1>9, FreeIsCall, FreeKnown, ResumeType

RenamedNothingDoes(s) ==
  /\ MoveAnswered(s, "rename", "missing")
  /\ index'.files = [index.files EXCEPT ![call[s].path] = None]
  /\ \A q \in Path : cache'[q] = IF q = call[s].path THEN None ELSE cache[q]
  /\ Goes(s, Free)

LEMMA RenamedNothingType ==
  ASSUME TInv, NEW s \in Slot, RenamedNothing(s), UNCHANGED <<docs, calls, events, foreign>>
  PROVE  TInv' /\ RenamedNothingDoes(s)
<1>0. /\ TypeInv /\ index \in IndexType /\ Agrees(index) /\ Known2(index) /\ cache \in [Path -> Texts \cup {None}]
  BY DEF TInv, TypeInv, Known, Known2
<1> DEFINE job == call[s]
<1>1. /\ MoveAnswered(s, "rename", "missing") /\ Throw(s)
      /\ index' = RemovePath(index, job.path) /\ Evict({job.path})
  BY <1>0, MoveAnsweredIs DEF RenamedNothing
<1>3. job.path \in Path
  BY <1>1 DEF MoveAnswered
<1>4. index' \in IndexType /\ Agrees(index') /\ index'.files = [index.files EXCEPT ![job.path] = None]
  BY <1>0, <1>1, <1>3, RemovePathDoes
<1>5. Known2(index')
  BY <1>0, <1>3, <1>4 DEF Known2, IndexType
<1>6. /\ cache' \in [Path -> Texts \cup {None}]
      /\ \A q \in Path : cache'[q] = IF q \in {job.path} THEN None ELSE cache[q]
  BY <1>0, <1>1, EvictIs
<1>7. Goes(s, Free)
  BY <1>0, <1>1, EndGoes DEF MoveAnswered
<1>8. RenamedNothingDoes(s)
  BY <1>1, <1>4, <1>6, <1>7 DEF RenamedNothingDoes
<1> QED BY <1>4, <1>5, <1>6, <1>7, <1>8, FreeIsCall, FreeKnown, ResumeType

SpawnDoes(s, t, e) ==
  LET tree == call[s]
      to == Moved(e.path, tree.path, tree.dest)
      kid == call'[t]
  IN  /\ e \in tree.kids /\ s # t /\ call[t] = Free /\ Idle(tree) /\ tree \in Calls
      /\ tree.path \in Path /\ tree.dest \in Path /\ tree.of = None
      /\ e \in Entries /\ e.path \in Under(tree.path) /\ to \in Path
      /\ call' \in [Slot -> Calls]
      /\ \A u \in Slot \ {s, t} : call'[u] = call[u]
      /\ call'[s].op = tree.op /\ call'[s].path = tree.path /\ call'[s].dest = tree.dest
      /\ call'[s].kids = tree.kids \ {e} /\ call'[s].of = None /\ call'[s].req = tree.req /\ call'[s].doc = tree.doc
      /\ call'[s].ans = tree.ans /\ call'[s].failed = tree.failed
      /\ kid.of = s /\ kid.req = NoReq /\ kid.ans = NoAns /\ kid.doc = None /\ kid.kids = {}
      /\ IF tree.op = "mvtree" THEN kid.op = "move" /\ kid.path = e.path /\ kid.dest = to
                               ELSE kid.op = "write" /\ kid.path = to /\ kid.dest = None
      /\ docs' = docs /\ index' = index /\ cache' = cache /\ calls' = calls /\ events' = events
      /\ foreign' = foreign \cup (IF e.path \in foreign THEN {to} ELSE {})

LEMMA SpawnEnds ==
  ASSUME TypeInv, NEW s \in Slot, Spawn(s)
  PROVE  \E t \in Slot, e \in Entries : SpawnDoes(s, t, e)
<1> DEFINE tree == call[s]
<1>1. PICK e \in tree.kids, t \in Slot :
        /\ call[t] = Free
        /\ call' = [call EXCEPT ![s].kids = @ \ {e},
                      ![t] = [Free EXCEPT !.op = IF tree.op = "mvtree" THEN "move" ELSE "write",
                   !.path = IF tree.op = "mvtree" THEN e.path ELSE Moved(e.path, tree.path, tree.dest),
                   !.dest = IF tree.op = "mvtree" THEN Moved(e.path, tree.path, tree.dest) ELSE None,
                   !.text = IF tree.op = "mvtree" THEN {} ELSE e.text, !.of = s]]
        /\ foreign' = foreign \cup IF e.path \in foreign THEN {Moved(e.path, tree.path, tree.dest)} ELSE {}
        /\ UNCHANGED <<docs, index, cache, calls, events>>
  BY DEF Spawn
<1> DEFINE to == Moved(e.path, tree.path, tree.dest)
           kid == [Free EXCEPT !.op = IF tree.op = "mvtree" THEN "move" ELSE "write",
                   !.path = IF tree.op = "mvtree" THEN e.path ELSE to,
                   !.dest = IF tree.op = "mvtree" THEN to ELSE None,
                   !.text = IF tree.op = "mvtree" THEN {} ELSE e.text, !.of = s]
           rest == [tree EXCEPT !.kids = @ \ {e}]
<1>2. call \in [Slot -> Calls] /\ tree \in Calls /\ tree \in Records /\ WellFormed(tree)
  BY DEF TypeInv, Calls
<1>3. tree.op \in TreeOps
  BY <1>2 DEF WellFormed, TreeOK
<1>4. /\ tree.req = NoReq /\ tree.ans = NoAns
      /\ tree.path \in Path /\ tree.dest \in Path /\ tree.of = None
      /\ e.path \in Under(tree.path)
      /\ {Moved(r, tree.path, tree.dest) : r \in Under(tree.path)} \subseteq Path
  BY <1>2, <1>3 DEF WellFormed, TreeOK, AnswerOK
<1>5. to \in Path /\ e \in Entries /\ e.path \in Path /\ e.text \in Texts
  BY <1>2, <1>4 DEF Records, Under, Entries
<1> HIDE DEF to
<1>6. s # t
  BY <1>1, <1>3 DEF Free, TreeOps
<1>7. /\ Free \in Records /\ Free.req = NoReq /\ Free.ans = NoAns /\ Free.kids = {} /\ Free.doc = None
  BY FreeIsCall DEF Free, Calls
<1>8. /\ kid \in Records
      /\ kid.op = (IF tree.op = "mvtree" THEN "move" ELSE "write")
      /\ kid.path = (IF tree.op = "mvtree" THEN e.path ELSE to)
      /\ kid.dest = (IF tree.op = "mvtree" THEN to ELSE None)
      /\ kid.of = s /\ kid.req = NoReq /\ kid.ans = NoAns /\ kid.doc = None /\ kid.kids = {}
  <2>1. {} \in Texts
    BY DEF Texts
  <2> HIDE DEF Free
  <2> QED BY <1>5, <1>7, <2>1 DEF Records, Ops
<1> HIDE DEF kid
<1>9. /\ NoReq.kind = "none" /\ NoReq.doc = None /\ NoAns.status = "none" /\ NoAns.docs = {} /\ IsFiniteSet({})
      /\ s # None
  BY FS_EmptySet, VolumeAssumption DEF NoReq, NoAns
<1>10. WellFormed(kid)
  <2>1. kid.op \in {"write", "move"}
    BY <1>8
  <2>2. ReadOK(kid) /\ RemoveOK(kid) /\ ListOK(kid) /\ TreeOK(kid)
    BY <1>8, <2>1 DEF ReadOK, RemoveOK, ListOK, TreeOK, TreeOps
  <2>3. WriteOK(kid) /\ MoveOK(kid)
    BY <1>5, <1>8, <1>9 DEF WriteOK, MoveOK
  <2>4. AnswerOK(kid)
    BY <1>8, <1>9 DEF AnswerOK
  <2> QED BY <2>1, <2>2, <2>3, <2>4 DEF WellFormed
<1>11. kid \in Calls
  BY <1>8, <1>10 DEF Calls
<1>12. /\ rest \in Records /\ rest.op = tree.op /\ rest.path = tree.path /\ rest.dest = tree.dest
       /\ rest.kids = tree.kids \ {e} /\ rest.of = tree.of /\ rest.req = tree.req /\ rest.doc = tree.doc
       /\ rest.ans = tree.ans /\ rest.failed = tree.failed /\ rest.text = tree.text
  BY <1>2 DEF Records
<1> HIDE DEF rest
<1>13. WellFormed(rest)
  BY <1>2, <1>3, <1>4, <1>12
  DEF WellFormed, ReadOK, WriteOK, RemoveOK, ListOK, MoveOK, TreeOK, AnswerOK, TreeOps
<1>14. rest \in Calls
  BY <1>12, <1>13 DEF Calls
<1>15. /\ call' = [[call EXCEPT ![s] = rest] EXCEPT ![t] = kid]
  BY <1>1, <1>2 DEF rest, kid, to
<1>16. /\ call' \in [Slot -> Calls] /\ call'[s] = rest /\ call'[t] = kid
       /\ \A u \in Slot \ {s, t} : call'[u] = call[u]
  BY <1>2, <1>6, <1>11, <1>14, <1>15
<1>17. foreign' = foreign \cup (IF e.path \in foreign THEN {to} ELSE {})
  BY <1>1 DEF to
<1>18. Idle(tree)
  BY <1>3, <1>4 DEF Idle
<1>19. SpawnDoes(s, t, e)
  BY <1>1, <1>2, <1>3, <1>4, <1>5, <1>6, <1>8, <1>12, <1>16, <1>17, <1>18 DEF SpawnDoes, to
<1> QED BY <1>5, <1>19

LEMMA SpawnType ==
  ASSUME TInv, NEW s \in Slot, Spawn(s)
  PROVE  TInv'
<1>0. TypeInv /\ Agrees(index) /\ Known /\ Family /\ call \in [Slot -> Calls]
  BY DEF TInv, TypeInv
<1>1. PICK t \in Slot, e \in Entries : SpawnDoes(s, t, e)
  BY <1>0, SpawnEnds
<1> DEFINE to == Moved(e.path, call[s].path, call[s].dest)
<1>2. /\ e \in call[s].kids /\ s # t /\ call[t] = Free /\ Idle(call[s]) /\ to \in Path
      /\ e.path \in Under(call[s].path)
      /\ call' \in [Slot -> Calls]
      /\ \A u \in Slot \ {s, t} : call'[u] = call[u]
      /\ call'[s].op = call[s].op /\ call'[s].path = call[s].path /\ call'[s].dest = call[s].dest
      /\ call'[s].of = None /\ call'[s].req = call[s].req /\ call'[s].doc = call[s].doc /\ call'[s].ans = call[s].ans
      /\ call'[t].of = s /\ call'[t].req = NoReq /\ call'[t].ans = NoAns /\ call'[t].doc = None
      /\ IF call[s].op = "mvtree" THEN call'[t].op = "move" /\ call'[t].path = e.path /\ call'[t].dest = to
                               ELSE call'[t].op = "write" /\ call'[t].path = to /\ call'[t].dest = None
      /\ docs' = docs /\ index' = index /\ cache' = cache /\ calls' = calls /\ events' = events
      /\ foreign' = foreign \cup (IF e.path \in foreign THEN {to} ELSE {})
  BY <1>1 DEF SpawnDoes
<1> HIDE DEF to
<1>3. KidOf(call'[t], call[s]) /\ KidOf(call'[t], call'[s])
  BY <1>2 DEF KidOf, Idle, TreeOps, to
<1>4. Family'
  <2>1. ASSUME NEW u \in Slot, call'[u].of # None
        PROVE  KidOf(call'[u], call'[call'[u].of])
    <3>1. CASE u = t
      BY <1>2, <1>3, <3>1
    <3>2. CASE u # t
      <4>1. u # s /\ call'[u] = call[u]
        BY <1>2, <2>1, <3>2
      <4>2. call[u].of \in Slot /\ KidOf(call[u], call[call[u].of])
        BY <1>0, <2>1, <4>1 DEF Family, Calls, Records
      <4>3. call[u].of # t
        BY <1>2, <4>2 DEF KidOf, Free
      <4>4. CASE call[u].of = s
        <5>1. KidOf(call[u], call'[s])
          BY <1>2, <4>2, <4>4 DEF KidOf
        <5> QED BY <4>1, <4>4, <5>1
      <4>5. CASE call[u].of # s
        BY <1>2, <4>1, <4>2, <4>3, <4>5
      <4> QED BY <4>4, <4>5
    <3> QED BY <3>1, <3>2
  <2> QED BY <2>1 DEF Family
<1>5. TypeInv'
  BY <1>0, <1>2, <1>4 DEF TypeInv
<1>6. ASSUME NEW u \in Slot PROVE KnownIn(call[u])'
  <2>0. NoReq.doc = None /\ NoAns.docs = {}
    BY DEF NoReq, NoAns
  <2>1. KnownIn(call[u]) /\ KnownIn(call[s])
    BY <1>0 DEF Known
  <2>2. CASE u = t
    BY <1>2, <2>0, <2>2 DEF KnownIn
  <2>3. CASE u = s
    BY <1>2, <2>1, <2>3 DEF KnownIn
  <2>4. CASE u \in Slot \ {s, t}
    BY <1>2, <2>1, <2>4 DEF KnownIn
  <2> QED BY <2>2, <2>3, <2>4
<1>7. Known'
  BY <1>0, <1>2, <1>6 DEF Known
<1> QED BY <1>0, <1>2, <1>5, <1>7 DEF TInv, Agrees

(* What others do to a document.                                           *)
OthersDo(p) ==
  /\ p \in Path /\ foreign' = foreign \cup {p} /\ "others" \in Hazards
  /\ index' = index /\ cache' = cache /\ call' = call /\ calls' = calls
  /\ events < MaxEvents /\ events' = events + 1
  /\ \E d \in Doc, v \in {Gone} \cup [path : {p}, text : Texts, broken : BOOLEAN] :
       /\ docs' = [docs EXCEPT ![d] = v]
       /\ docs[d] = None \/ d \in LiveAt(p)

LEMMA OthersEnds ==
  ASSUME TypeInv, Others
  PROVE  \E p \in Path : OthersDo(p)
<1>1. PICK p \in Path :
       /\ foreign' = foreign \cup {p}
       /\ \/ \E d \in Unused, t \in Texts :
               LiveAt(p) = {} /\ docs' = [docs EXCEPT ![d] = [path |-> p, text |-> t, broken |-> FALSE]]
          \/ \E d \in LiveAt(p), t \in Texts : docs' = [docs EXCEPT ![d].text = t, ![d].broken = FALSE]
          \/ \E d \in LiveAt(p) : docs' = [docs EXCEPT ![d] = Gone]
  BY DEF Others
<1>2. /\ "others" \in Hazards /\ index' = index /\ cache' = cache /\ call' = call /\ calls' = calls
      /\ events < MaxEvents /\ events' = events + 1
  BY DEF Others, Happens
<1>3. \E d \in Doc, v \in {Gone} \cup [path : {p}, text : Texts, broken : BOOLEAN] :
       /\ docs' = [docs EXCEPT ![d] = v]
       /\ docs[d] = None \/ d \in LiveAt(p)
  <2>1. ASSUME NEW d \in Unused, NEW t \in Texts, docs' = [docs EXCEPT ![d] = [path |-> p, text |-> t, broken |-> FALSE]]
        PROVE  \E x \in Doc, v \in {Gone} \cup [path : {p}, text : Texts, broken : BOOLEAN] :
                 docs' = [docs EXCEPT ![x] = v] /\ (docs[x] = None \/ x \in LiveAt(p))
    BY <2>1 DEF Unused
  <2>2. ASSUME NEW d \in LiveAt(p), NEW t \in Texts, docs' = [docs EXCEPT ![d].text = t, ![d].broken = FALSE]
        PROVE  \E x \in Doc, v \in {Gone} \cup [path : {p}, text : Texts, broken : BOOLEAN] :
                 docs' = [docs EXCEPT ![x] = v] /\ (docs[x] = None \/ x \in LiveAt(p))
    <3>1. d \in Doc /\ docs[d] \in [path : Path, text : Texts, broken : BOOLEAN] /\ docs[d].path = p
      BY EntryIs DEF TypeInv
    <3>2. PICK v : v = [docs[d] EXCEPT !.text = t, !.broken = FALSE]
      OBVIOUS
    <3>3. v \in [path : {p}, text : Texts, broken : BOOLEAN]
      BY <3>1, <3>2
    <3>4. docs' = [docs EXCEPT ![d] = v]
      BY <2>2, <3>2
    <3> QED BY <3>1, <3>3, <3>4
  <2>3. ASSUME NEW d \in LiveAt(p), docs' = [docs EXCEPT ![d] = Gone]
        PROVE  \E x \in Doc, v \in {Gone} \cup [path : {p}, text : Texts, broken : BOOLEAN] :
                 docs' = [docs EXCEPT ![x] = v] /\ (docs[x] = None \/ x \in LiveAt(p))
    BY <2>3 DEF LiveAt
  <2> QED BY <1>1, <2>1, <2>2, <2>3
<1> QED BY <1>1, <1>2, <1>3 DEF OthersDo

LEMMA OthersType ==
  ASSUME TInv, Others
  PROVE  TInv'
<1>0. TypeInv /\ Agrees(index) /\ Known
  BY DEF TInv
<1>1. PICK p \in Path : OthersDo(p)
  BY <1>0, OthersEnds
<1>2. PICK d \in Doc, v \in {Gone} \cup [path : {p}, text : Texts, broken : BOOLEAN] : docs' = [docs EXCEPT ![d] = v]
  BY <1>1 DEF OthersDo
<1>3. v # None /\ v \in {None, Gone} \cup [path : Path, text : Texts, broken : BOOLEAN]
  BY VolumeAssumption DEF Gone, Texts
<1>4. docs' \in [Doc -> {None, Gone} \cup [path : Path, text : Texts, broken : BOOLEAN]] /\ Born
  BY <1>0, <1>2, <1>3 DEF TypeInv, Born
<1>5. /\ foreign' \subseteq Path /\ index' = index /\ cache' = cache /\ call' = call /\ calls' = calls
      /\ events' \in 0..MaxEvents
  BY <1>0, <1>1, VolumeAssumption DEF TypeInv, OthersDo
<1>6. TypeInv'
  BY <1>0, <1>4, <1>5 DEF TypeInv, Family
<1>7. ASSUME NEW u \in Slot PROVE KnownIn(call[u])'
  <2>1. KnownIn(call[u]) /\ call[u] \in Calls
    BY <1>0 DEF Known, TypeInv
  <2> QED BY <1>4, <1>5, <2>1, KnownLater DEF KnownIn
<1>8. \A q \in Path : index'.files[q] # None => docs'[index'.files[q]] # None
  BY <1>0, <1>4, <1>5 DEF Known, Born, TypeInv, IndexType
<1> QED BY <1>0, <1>5, <1>6, <1>7, <1>8 DEF TInv, Known, Agrees

(* A document whose path and text stay.                                    *)
Kept(d) ==
  \/ docs'[d] = docs[d]
  \/ /\ {docs[d], docs'[d]} \cap {None, Gone} = {}
     /\ docs'[d].path = docs[d].path /\ docs'[d].text = docs[d].text
     /\ docs[d].broken => docs'[d].broken

LEMMA KeptLive ==
  ASSUME \A d \in Doc : Kept(d)
  PROVE  \A p \in Path : LiveAt(p)' = LiveAt(p)
<1> SUFFICES ASSUME NEW p \in Path, NEW d \in Doc PROVE d \in LiveAt(p)' <=> d \in LiveAt(p)
  BY DEF LiveAt, Unused
<1>1. Kept(d)
  OBVIOUS
<1>2. p # None /\ Gone.path = None
  BY VolumeAssumption DEF Gone
<1> QED BY <1>1, <1>2 DEF LiveAt, Unused, Kept

ProcessingDoes ==
  /\ index' = index /\ cache' = cache /\ call' = call /\ calls' = calls /\ foreign' = foreign
  /\ \A d \in Doc : Kept(d)

LEMMA ProcessingType ==
  ASSUME TInv, ProcessingFails
  PROVE  TInv' /\ ProcessingDoes
<1>0. TypeInv /\ Agrees(index) /\ Known
  BY DEF TInv
<1>1. PICK d \in Doc \ Unused :
        docs[d] # Gone /\ Happens /\ docs' = [docs EXCEPT ![d].broken = TRUE]
  BY DEF ProcessingFails
<1>2. index' = index /\ cache' = cache /\ call' = call /\ calls' = calls /\ foreign' = foreign
  BY DEF ProcessingFails
<1>3. /\ docs[d] # None /\ docs[d] \in [path : Path, text : Texts, broken : BOOLEAN]
      /\ docs \in [Doc -> {None, Gone} \cup [path : Path, text : Texts, broken : BOOLEAN]]
  BY <1>0, <1>1 DEF TypeInv, Unused
<1>4. PICK v : v = [docs[d] EXCEPT !.broken = TRUE]
  OBVIOUS
<1>5. /\ v \in [path : Path, text : Texts, broken : BOOLEAN]
      /\ v.path = docs[d].path /\ v.text = docs[d].text /\ v.broken
  BY <1>3, <1>4
<1>6. v # None /\ v # Gone
  <2>1. v # None
    BY <1>5, VolumeAssumption DEF Texts
  <2>2. v.path # None /\ Gone.path = None
    BY <1>5, VolumeAssumption DEF Gone
  <2> QED BY <2>1, <2>2
<1>7. docs' = [docs EXCEPT ![d] = v]
  BY <1>1, <1>4
<1>8. docs' \in [Doc -> {None, Gone} \cup [path : Path, text : Texts, broken : BOOLEAN]] /\ Born
  BY <1>3, <1>5, <1>6, <1>7 DEF Born
<1>9. ASSUME NEW e \in Doc PROVE Kept(e)
  <2>1. CASE e = d
    <3>1. docs'[d] = v
      BY <1>3, <1>7
    <3> QED BY <1>1, <1>3, <1>5, <1>6, <2>1, <3>1 DEF Kept
  <2>2. CASE e # d
    BY <1>3, <1>7, <2>2 DEF Kept
  <2> QED BY <2>1, <2>2
<1>10. events' \in 0..MaxEvents
  BY <1>0, <1>1, VolumeAssumption DEF TypeInv, Happens
<1>11. TypeInv'
  BY <1>0, <1>2, <1>8, <1>10 DEF TypeInv, Family
<1>12. ASSUME NEW u \in Slot PROVE KnownIn(call[u])'
  <2>1. KnownIn(call[u]) /\ call[u] \in Calls
    BY <1>0 DEF Known, TypeInv
  <2> QED BY <1>2, <1>8, <2>1, KnownLater DEF KnownIn
<1>13. \A q \in Path : index'.files[q] # None => docs'[index'.files[q]] # None
  BY <1>0, <1>2, <1>8 DEF Known, Born, TypeInv, IndexType
<1>14. TInv'
  BY <1>0, <1>2, <1>11, <1>12, <1>13 DEF TInv, Known, Agrees
<1> QED BY <1>2, <1>9, <1>14 DEF ProcessingDoes

LEMMA ExpireType ==
  ASSUME TInv, Expire
  PROVE  TInv' /\ docs' = docs /\ index' = index /\ call' = call /\ foreign' = foreign
         /\ \A q \in Path : cache'[q] \in {None, cache[q]}
<1>0. TypeInv /\ Agrees(index) /\ Known
  BY DEF TInv
<1>1. PICK p \in Path : Evict({p}) /\ Happens /\ UNCHANGED <<docs, index, call, calls, foreign>>
  BY DEF Expire
<1>2. /\ cache' \in [Path -> Texts \cup {None}]
      /\ \A q \in Path : cache'[q] = IF q \in {p} THEN None ELSE cache[q]
  BY <1>0, <1>1, EvictIs DEF TypeInv
<1>3. events' \in 0..MaxEvents
  BY <1>0, <1>1, VolumeAssumption DEF TypeInv, Happens
<1>4. TypeInv'
  BY <1>0, <1>1, <1>2, <1>3 DEF TypeInv, Family
<1>5. Known'
  BY <1>0, <1>1 DEF Known, KnownIn
<1> QED BY <1>0, <1>1, <1>2, <1>4, <1>5 DEF TInv, Agrees

LEMMA StutterType ==
  ASSUME TInv, UNCHANGED vars
  PROVE  TInv'
<1>1. TypeInv'
  BY DEF TInv, TypeInv, Family, vars
<1>2. Known'
  BY DEF TInv, Known, KnownIn, vars
<1> QED BY <1>1, <1>2 DEF TInv, Agrees, vars

LEMMA ResumeTypes ==
  ASSUME TInv, NEW s \in Slot, Resume(s)
  PROVE  TInv'
<1>1. UNCHANGED <<docs, calls, events, foreign>>
  BY DEF Resume
<1> QED BY <1>1, EioType, GotDocType, WrittenType, RemovedType, TreeRemovedType, RmdirListedType,
           ListedType, TreeListedType, StartKidType, TreeDoneType, FoundSourceType, FoundTargetType,
           RenamedType, RenamedNothingType DEF Resume

LEMMA NextType == TInv /\ [Next]_vars => TInv'
<1> SUFFICES ASSUME TInv, [Next]_vars PROVE TInv'
  OBVIOUS
<1>1. CASE UNCHANGED vars
  BY <1>1, StutterType
<1>2. ASSUME NEW s \in Slot, Start(s) \/ Serve(s) \/ Fail(s) \/ Resume(s) \/ Spawn(s) PROVE TInv'
  BY <1>2, StartType, ServeType, FailType, ResumeTypes, SpawnType
<1>3. CASE Others \/ ProcessingFails \/ Expire
  BY <1>3, OthersType, ProcessingType, ExpireType
<1> QED BY <1>1, <1>2, <1>3 DEF Next

LEMMA InitIs ==
  ASSUME Init
  PROVE  \E at \in [Doc -> Path \cup {None}] :
           /\ \A d, e \in Doc : d # e /\ at[d] # None /\ at[e] # None => ~IsPrefix(at[d], at[e])
           /\ docs = [d \in Doc |-> IF at[d] # None THEN [path |-> at[d], text |-> {}, broken |-> FALSE] ELSE None]
           /\ index.byDoc = at /\ index \in IndexType
           /\ \A p \in Path : \/ index.files[p] = None /\ \A d \in Doc : at[d] # p
                              \/ index.files[p] \in Doc /\ at[index.files[p]] = p
           /\ cache \in [Path -> Texts \cup {None}]
           /\ \A p \in Path : cache[p] # None => cache[p] = {} /\ index.files[p] # None
<1>1. PICK at \in [Doc -> Path \cup {None}], content \in BOOLEAN :
        LET there == {d \in Doc : at[d] # None}
        IN  /\ \A d, e \in there : d # e => ~IsPrefix(at[d], at[e])
            /\ docs = [d \in Doc |-> IF d \in there THEN [path |-> at[d], text |-> {}, broken |-> FALSE] ELSE None]
            /\ index = [files |-> [p \in Path |-> IF \E d \in there : at[d] = p
                                            THEN CHOOSE d \in there : at[d] = p ELSE None],
                        byDoc |-> at, dirs |-> {}]
            /\ cache = [p \in Path |-> IF content /\ \E d \in there : at[d] = p THEN {} ELSE None]
  BY DEF Init
<1> DEFINE there == {d \in Doc : at[d] # None}
           files == [p \in Path |-> IF \E d \in there : at[d] = p THEN CHOOSE d \in there : at[d] = p ELSE None]
<1>2. None \notin Path /\ None \notin Doc
  BY VolumeAssumption
<1>3. \A p \in Path : \/ files[p] = None /\ \A d \in Doc : at[d] # p
                      \/ files[p] \in Doc /\ at[files[p]] = p /\ \E d \in there : at[d] = p
  <2>1. ASSUME NEW p \in Path, \E d \in there : at[d] = p
        PROVE  files[p] \in Doc /\ at[files[p]] = p
    <3>1. PICK x : x = CHOOSE d \in there : at[d] = p
      OBVIOUS
    <3>2. x \in there /\ at[x] = p
      BY <2>1, <3>1
    <3> QED BY <2>1, <3>1, <3>2
  <2>2. ASSUME NEW p \in Path, ~\E d \in there : at[d] = p
        PROVE  files[p] = None /\ \A d \in Doc : at[d] # p
    BY <1>2, <2>2
  <2> QED BY <2>1, <2>2
<1>4. files \in [Path -> Doc \cup {None}]
  <2>1. \A p \in Path : files[p] \in Doc \cup {None}
    BY <1>3
  <2> QED BY <2>1
<1>5. index.files = files /\ index.byDoc = at /\ index \in IndexType
  <2>1. index = [files |-> files, byDoc |-> at, dirs |-> {}]
    BY <1>1
  <2> HIDE DEF files
  <2> QED BY <1>4, <2>1 DEF IndexType
<1>6. /\ cache \in [Path -> Texts \cup {None}]
      /\ \A p \in Path : cache[p] # None => cache[p] = {} /\ index.files[p] # None
  <2>1. cache = [p \in Path |-> IF content /\ \E d \in there : at[d] = p THEN {} ELSE None]
    BY <1>1
  <2>2. {} \in Texts
    BY DEF Texts
  <2>3. \A p \in Path : cache[p] # None => cache[p] = {} /\ \E d \in there : at[d] = p
    BY <2>1
  <2>4. \A p \in Path : (\E d \in there : at[d] = p) => files[p] # None
    BY <1>2, <1>3
  <2> HIDE DEF files, there
  <2> QED BY <1>5, <2>1, <2>2, <2>3, <2>4
<1>7. docs = [d \in Doc |-> IF at[d] # None THEN [path |-> at[d], text |-> {}, broken |-> FALSE] ELSE None]
  BY <1>1
<1>8. \A d, e \in Doc : d # e /\ at[d] # None /\ at[e] # None => ~IsPrefix(at[d], at[e])
  BY <1>1
<1> HIDE DEF files
<1> QED BY <1>3, <1>5, <1>6, <1>7, <1>8

LEMMA InitType == Init => TInv
<1> SUFFICES ASSUME Init PROVE TInv
  OBVIOUS
<1>1. PICK at \in [Doc -> Path \cup {None}] :
           /\ \A d, e \in Doc : d # e /\ at[d] # None /\ at[e] # None => ~IsPrefix(at[d], at[e])
           /\ docs = [d \in Doc |-> IF at[d] # None THEN [path |-> at[d], text |-> {}, broken |-> FALSE] ELSE None]
           /\ index.byDoc = at /\ index \in IndexType
           /\ \A p \in Path : \/ index.files[p] = None /\ \A d \in Doc : at[d] # p
                              \/ index.files[p] \in Doc /\ at[index.files[p]] = p
           /\ cache \in [Path -> Texts \cup {None}]
           /\ \A p \in Path : cache[p] # None => cache[p] = {} /\ index.files[p] # None
  BY InitIs
<1>2. call = [s \in Slot |-> Free] /\ calls = 0 /\ events = 0 /\ foreign = {}
  BY DEF Init
<1>3. \A d \in Doc, p \in Path : docs[d] # None => at[d] \in Path
  BY <1>1
<1>4. TypeInv
  <2>1. {} \in Texts
    BY DEF Texts
  <2>2. docs \in [Doc -> {None, Gone} \cup [path : Path, text : Texts, broken : BOOLEAN]]
    BY <1>1, <2>1
  <2>3. \A s \in Slot : call[s] = Free /\ call[s].of = None
    BY <1>2, FreeIsCall
  <2>4. call \in [Slot -> Calls]
    BY <1>2, FreeIsCall
  <2>5. calls \in 0..MaxCalls /\ events \in 0..MaxEvents
    BY <1>2, VolumeAssumption
  <2> QED BY <1>1, <1>2, <2>2, <2>3, <2>4, <2>5 DEF TypeInv, Family
<1>5. Agrees(index)
  <2> SUFFICES ASSUME NEW d \in Doc, at[d] # None PROVE index.files[at[d]] = d
    BY <1>1 DEF Agrees
  <2>1. at[d] \in Path /\ at[d] \in Seq(STRING)
    BY VolumeAssumption
  <2>2. index.files[at[d]] \in Doc /\ at[index.files[at[d]]] = at[d]
    BY <1>1, <2>1
  <2>3. IsPrefix(at[d], at[index.files[at[d]]])
    BY <2>1, <2>2, PrefixRefl
  <2>4. at[d] # None /\ at[index.files[at[d]]] # None
    BY <2>2
  <2> QED BY <1>1, <2>2, <2>3, <2>4
<1>6. Known
  <2>1. \A s \in Slot : KnownIn(call[s])
    BY <1>2, FreeKnown
  <2>2. ASSUME NEW p \in Path, index.files[p] # None PROVE docs[index.files[p]] # None
    <3>1. index.files[p] \in Doc /\ at[index.files[p]] = p /\ p # None
      BY <1>1, <2>2, VolumeAssumption
    <3>2. docs[index.files[p]] = [path |-> p, text |-> {}, broken |-> FALSE]
      BY <1>1, <3>1
    <3> QED BY <3>2, VolumeAssumption
  <2> QED BY <2>1, <2>2 DEF Known
<1> QED BY <1>4, <1>5, <1>6 DEF TInv

(* PathIndex's two maps agree: the type invariant, and the path by which   *)
(* sgrep names a document (PathIndex.findPath) is the one that leads back  *)
(* to it, for all hazards.                                                 *)
THEOREM FindPathTheorem == Spec => []FindPathAgrees
<1>1. TInv => FindPathAgrees
  BY TypeInvImplies DEF TInv, FindPathAgrees, Agrees
<1> QED BY <1>1, InitType, NextType, PTL DEF Spec

(***************************************************************************)
(* What the session knows about its own paths.  Without overlapping calls  *)
(* and lost answers, every call relies on what it was told of its paths,   *)
(* and no other call touches them.                                         *)
(***************************************************************************)
File(p) == index.files[p]

(* A call and its tree, or two of one tree.                                *)
Kin(s, t) == call[s].of = t \/ call[t].of = s \/ (call[s].of = call[t].of /\ call[s].of # None)

Apart(a, b) == \A u \in {a.path, a.dest}, v \in {b.path, b.dest} : ~Related(u, v)

Locks ==
  \A s, t \in Slot : s # t /\ call[s] # Free /\ call[t] # Free /\ ~Kin(s, t) => Apart(call[s], call[t])

(* What a child writes; a child that moves its source; one that goes on to *)
(* its target.                                                             *)
Target(c) == IF c.op = "move" THEN c.dest ELSE c.path
Renaming(c) == c.req.kind = "rename" /\ c.ans.status = "ok"
Mine(c) ==
  /\ c.op = "move" /\ c.ans.status \in {"none", "ok"}
  /\ c.path \notin foreign \/ (Renaming(c) /\ c.dest \notin foreign)
Past(c) == c.op = "move" /\ c.ans.status \in {"none", "ok"} /\ c.doc # None

Siblings ==
  \A s, t \in Slot : s # t /\ call[s].of # None /\ call[s].of = call[t].of =>
    /\ Target(call[s]) \notin foreign /\ Target(call[t]) \notin foreign
         => ~Related(Target(call[s]), Target(call[t]))
    /\ Mine(call[s]) => call[t].path # call[s].path
    /\ Mine(call[s]) /\ Past(call[t]) => call[t].dest # call[s].path

(* The entries of a tree that have no child yet.                           *)
Batch ==
  \A u \in Slot : \A e \in call[u].kids :
    /\ \A f \in call[u].kids :
         e # f /\ e.path \notin foreign /\ f.path \notin foreign => ~Related(e.path, f.path)
    /\ \A t \in Slot : call[t].of = u =>
         /\ e.path \notin foreign /\ Target(call[t]) \notin foreign
              => ~Related(Moved(e.path, call[u].path, call[u].dest), Target(call[t]))
         /\ call[t].op = "move" /\ (e.path \notin foreign \/ Mine(call[t])) => e.path # call[t].path

(* The document, if it is still there and not on a foreign path, is at p.  *)
Holds(p, d) == docs[d] # None /\ (docs[d] # Gone /\ docs[d].path \notin foreign => docs[d].path = p)
Near(r, p) == IsStrictPrefix(r, p) \/ IsStrictPrefix(p, r)
Clear(p) == \A r \in Path \ foreign : Near(r, p) => File(r) = None

(* What a call knows.                                                      *)
AskedOK(c) ==
  c.ans.status = "none" /\ c.req.kind \in {"update", "delete"} =>
    Holds(c.path, c.req.doc) /\ (c.path \notin foreign => File(c.path) = c.req.doc)
AddingOK(c) ==
  c.ans.status = "none" /\ c.req.kind = "add" /\ c.path \notin foreign => File(c.path) = None /\ Clear(c.path)
HasEntry(p, e) ==
  /\ docs[e.doc] \notin {None, Gone} /\ docs[e.doc].path = p /\ docs[e.doc].text = e.text
  /\ e.broken => docs[e.doc].broken
Shows(text, d) == text = docs[d].text \/ (docs[d].broken /\ text = {Blurb})
HasText(p, d, text) == LiveAt(p) = {d} /\ docs[d].text = text
UpdatedOK(c) ==
  c.ans.status = "ok" /\ c.req.kind = "update" =>
    Holds(c.path, c.req.doc) /\ (c.path \notin foreign => HasText(c.path, c.req.doc, c.text))
AddedOK(c) ==
  c.ans.status = "ok" /\ c.req.kind = "add" =>
    \A e \in c.ans.docs : Holds(c.path, e.doc) /\ (c.path \notin foreign => HasText(c.path, e.doc, c.text))
DeletedOK(c) ==
  c.ans.status \in {"ok", "missing"} /\ c.req.kind = "delete" /\ c.path \notin foreign => LiveAt(c.path) = {}
OneEach(found) == \A e, f \in found : e.doc = f.doc => e = f
ListingOK(c) ==
  c.ans.status = "ok" /\ c.req.kind \in {"find", "list"} =>
    /\ OneEach(c.ans.docs)
    /\ \A e \in c.ans.docs :
         /\ Holds(e.path, e.doc)
         /\ e.path \notin foreign => File(e.path) = e.doc /\ HasEntry(e.path, e)
FoundOK(c) ==
  c.ans.status = "ok" /\ c.req.kind = "find" /\ c.ans.docs = {} /\ c.req.path \notin foreign => File(c.req.path) = None
ListedOK(c) ==
  c.ans.status = "ok" /\ c.req.kind = "list" =>
    \A p \in Under(c.path) \ foreign : LiveAt(p) # {} => \E e \in c.ans.docs : e.path = p
BulkedOK(c) ==
  c.ans.status = "ok" /\ c.req.kind = "bulk" => \A p \in Under(c.path) \ foreign : LiveAt(p) = {}
KidsOK(c) ==
  c.op = "mvtree" => \A e \in c.kids : e.path \notin foreign => File(e.path) # None
LookingOK(c) ==
  c.op = "move" /\ c.ans.status \in {"none", "ok"} /\ c.doc = None /\ c.path \notin foreign =>
    IF c.of = None THEN File(c.path) = None ELSE c.req.kind = "none" /\ File(c.path) # None
PastOK(c) ==
  Past(c) /\ ~Renaming(c) =>
    /\ Holds(c.path, c.doc)
    /\ c.path \notin foreign => File(c.path) = c.doc
    /\ c.dest \notin foreign => File(c.dest) = None
    /\ c.path \notin foreign /\ c.dest \notin foreign => Clear(c.dest)
RenamedOK(c) ==
  Renaming(c) =>
    /\ Holds(c.dest, c.doc)
    /\ Mine(c) => File(c.path) = c.doc
    /\ c.path \notin foreign => LiveAt(c.path) = {}
    /\ c.dest \notin foreign =>
         File(c.dest) = None /\ LiveAt(c.dest) = {c.doc} /\ (cache[c.path] = None \/ Shows(cache[c.path], c.doc))
MissedOK(c) ==
  c.ans.status = "missing" /\ c.req.kind = "rename" => c.path \in foreign

CallOK(c) ==
  /\ AskedOK(c) /\ AddingOK(c) /\ UpdatedOK(c) /\ AddedOK(c) /\ DeletedOK(c)
  /\ ListingOK(c) /\ FoundOK(c) /\ ListedOK(c) /\ BulkedOK(c)
  /\ KidsOK(c) /\ LookingOK(c) /\ PastOK(c) /\ RenamedOK(c) /\ MissedOK(c)
CallsOK == \A s \in Slot : CallOK(call[s])

(* The index names documents of their paths; a rename that was served has  *)
(* still to be put down.                                                   *)
MovedOff(c, x, d) == Renaming(c) /\ c.path = x /\ c.doc = d /\ c.dest \notin foreign
IndexOK ==
  \A x \in Path : File(x) # None =>
    Holds(x, File(x)) \/ \E s \in Slot : MovedOff(call[s], x, File(x))
CacheOK == \A p \in Path : cache[p] # None => File(p) # None

(* A path is as the index and the cache say, or a call is about to say so. *)
Coherent(p) ==
  /\ LiveAt(p) = (IF File(p) = None THEN {} ELSE {File(p)})
  /\ File(p) # None /\ cache[p] # None => Shows(cache[p], File(p))
Pend(c, p) ==
  /\ c.ans.status = "ok"
  /\ \/ c.op \in {"write", "remove"} /\ c.path = p
     \/ c.op = "rmtree" /\ p \in Under(c.path)
     \/ c.req.kind = "rename" /\ p \in {c.path, c.dest}
Coh == \A p \in Path \ foreign : Coherent(p) \/ \E s \in Slot : Pend(call[s], p)

OwnInv == TInv /\ Locks /\ Siblings /\ Batch /\ CallsOK /\ IndexOK /\ CacheOK /\ Coh /\ TreeShape

Places == Path \cup {Root}

LEMMA PlaceIs ==
  /\ \A p \in Places : p \in Seq(STRING) /\ p # None
  /\ Path \subseteq Places /\ Root \notin Path /\ None \notin Places
<1>1. <<>> \in Seq(STRING)
  OBVIOUS
<1>2. Path \subseteq Seq(STRING) /\ <<>> \notin Path /\ None \notin Path /\ None # <<>>
  BY VolumeAssumption
<1> QED BY <1>1, <1>2 DEF Places, Root

LEMMA StrictIs == \A p, q : IsStrictPrefix(p, q) <=> IsPrefix(p, q) /\ p # q
BY DEF IsStrictPrefix

LEMMA RelatedIs ==
  ASSUME NEW p \in Places, NEW q \in Places
  PROVE  /\ Related(p, q) <=> IsPrefix(p, q) \/ IsPrefix(q, p)
         /\ Related(p, q) <=> Related(q, p)
         /\ Related(p, p) /\ Related(p, Root) /\ Related(Root, p)
         /\ Near(p, q) => Related(p, q) /\ p # q
         /\ Related(p, q) => p = q \/ Near(p, q)
         /\ q \in Under(p) => Related(p, q) /\ Related(q, p) /\ IsPrefix(p, q)
<1>1. p \in Seq(STRING) /\ q \in Seq(STRING) /\ p # None /\ q # None
  BY PlaceIs
<1>2. IsPrefix(p, p) /\ IsPrefix(Root, p)
  BY <1>1, PrefixRefl
<1>3. Related(p, q) <=> IsPrefix(p, q) \/ IsPrefix(q, p)
  BY <1>1 DEF Related
<1>4. Related(q, p) <=> IsPrefix(p, q) \/ IsPrefix(q, p)
  BY <1>1 DEF Related
<1>5. Related(p, p) /\ Related(p, Root) /\ Related(Root, p)
  BY <1>1, <1>2, PlaceIs DEF Related, Root, Places
<1>6. Near(p, q) => Related(p, q) /\ p # q
  BY <1>3, StrictIs DEF Near
<1>7. Related(p, q) => p = q \/ Near(p, q)
  BY <1>3, StrictIs DEF Near
<1>8. q \in Under(p) => IsPrefix(p, q)
  BY StrictIs DEF Under
<1> QED BY <1>3, <1>4, <1>5, <1>6, <1>7, <1>8

LEMMA RelatedNone == \A p : ~Related(p, None) /\ ~Related(None, p)
BY DEF Related

LEMMA NearSym == \A p, q : Near(p, q) <=> Near(q, p)
BY DEF Near

(* What is below one of two unrelated paths is unrelated to the other.     *)
LEMMA BelowApart ==
  ASSUME NEW u \in Places, NEW v \in Places, NEW x \in Places, IsPrefix(u, x), ~Related(u, v)
  PROVE  ~Related(x, v) /\ ~Related(v, x) /\ x # v
<1>1. u \in Seq(STRING) /\ v \in Seq(STRING) /\ x \in Seq(STRING)
  BY PlaceIs
<1>2. ~IsPrefix(u, v) /\ ~IsPrefix(v, u)
  BY RelatedIs
<1>3. ~IsPrefix(x, v)
  BY <1>1, <1>2, PrefixTrans
<1>4. ~IsPrefix(v, x)
  BY <1>1, <1>2, PrefixComparable
<1> QED BY <1>2, <1>3, <1>4, RelatedIs

(* What a call of its own reaches.                                         *)
Reach(c, x) == IsPrefix(c.path, x) \/ (c.dest # None /\ IsPrefix(c.dest, x))

LEMMA CallPlaces ==
  ASSUME TypeInv, NEW s \in Slot
  PROVE  /\ call[s] \in Calls /\ call[s] \in Records
         /\ call[s] # Free => call[s].op \in Ops /\ call[s].path \in Places
         /\ call[s].dest \in Path \cup {None} /\ call[s].of \in Slot \cup {None}
         /\ call[s].op = "free" <=> call[s] = Free
<1>1. call[s] \in Calls
  BY DEF TypeInv
<1>2. call[s] \in Records /\ (call[s].op = "free" => call[s] = Free)
  BY <1>1 DEF Calls, WellFormed
<1>3. call[s].op # "free" => call[s].op \in Ops
  BY <1>2 DEF Records
<1>4. call[s].op \in Ops => call[s].path \in Path \cup {Root}
  BY <1>1 DEF Calls, WellFormed, ReadOK, WriteOK, RemoveOK, ListOK, MoveOK, TreeOK, Ops, TreeOps
<1>5. Free.op = "free"
  BY FreeIsCall
<1> QED BY <1>1, <1>2, <1>3, <1>4, <1>5 DEF Records, Places

LEMMA FarApart ==
  ASSUME TypeInv, NEW s \in Slot, NEW t \in Slot, call[s] # Free, Apart(call[s], call[t]),
         NEW x \in Places, Reach(call[s], x), NEW v \in Places, v \in {call[t].path, call[t].dest}
  PROVE  ~Related(x, v) /\ ~Related(v, x) /\ x # v
<1>1. PICK u \in Places : u \in {call[s].path, call[s].dest} /\ IsPrefix(u, x)
  BY CallPlaces, PlaceIs DEF Reach
<1>2. ~Related(u, v)
  BY <1>1 DEF Apart
<1> QED BY <1>1, <1>2, BelowApart

LEMMA ApartSym ==
  ASSUME TypeInv, NEW s \in Slot, NEW t \in Slot, Apart(call[s], call[t]), call[s] # Free, call[t] # Free
  PROVE  Apart(call[t], call[s])
<1> SUFFICES ASSUME NEW u \in {call[t].path, call[t].dest}, NEW v \in {call[s].path, call[s].dest}
             PROVE  ~Related(u, v)
  BY DEF Apart
<1>1. ~Related(v, u)
  BY DEF Apart
<1>2. CASE u = None \/ v = None
  BY <1>2, RelatedNone
<1>3. CASE u # None /\ v # None
  BY <1>1, <1>3, CallPlaces, PlaceIs, RelatedIs
<1> QED BY <1>2, <1>3

(* The paths whose documents, names or texts a step of the call may        *)
(* change.                                                                 *)
Touches(c, p) ==
  /\ c # Free /\ ~Idle(c)
  /\ IF c.of = None THEN Reach(c, p)
     ELSE c.ans.status # "failed" /\ (p = c.path \/ (Past(c) /\ p = c.dest))

(* The step of another call leaves this one alone: it touches the paths Y, *)
(* and G are those among them that may become files.                       *)
Sep(Y, G, c) ==
  /\ ~Idle(c) /\ c.path \in Y => ~Mine(c) /\ (c.path \in foreign \/ c.ans.status = "failed")
  /\ Past(c) /\ c.dest \in Y => c.dest \in foreign
  /\ c.op \in {"write", "move"} /\ Target(c) \notin foreign => \A g \in G \ foreign : ~Near(g, Target(c))
  /\ c.req.kind \in {"list", "bulk"} => \A y \in Y : y \notin Under(c.path)
  /\ c.op = "mvtree" => \A e \in c.kids : e.path \in Y \ foreign' => File(e.path)' # None

LEMMA PendIs ==
  ASSUME TypeInv, NEW t \in Slot, NEW x \in Path, Pend(call[t], x)
  PROVE  /\ call[t] # Free /\ ~Idle(call[t]) /\ Reach(call[t], x) /\ call[t].ans.status = "ok"
         /\ call[t].of # None => call[t].op \in {"write", "move"}
         /\ call[t].op = "write" => x = call[t].path
         /\ call[t].op = "move" => Renaming(call[t]) /\ Past(call[t]) /\ x \in {call[t].path, call[t].dest}
<1>1. call[t] \in Calls /\ call[t] \in Records /\ call[t].ans.status = "ok"
  BY CallPlaces DEF Pend
<1>2. call[t] # Free
  BY <1>1 DEF Free, NoAns
<1>3. ~Idle(call[t])
  BY <1>1 DEF Idle, NoReq, NoAns, Calls, WellFormed, AnswerOK
<1>4. x \in Seq(STRING) /\ IsPrefix(x, x) /\ x # None
  BY PlaceIs, PrefixRefl
<1>5. \/ call[t].op \in {"write", "remove"} /\ call[t].path = x
      \/ call[t].op = "rmtree" /\ x \in Under(call[t].path)
      \/ call[t].req.kind = "rename" /\ x \in {call[t].path, call[t].dest}
  BY DEF Pend
<1>6. call[t].req.kind = "rename" => call[t].op = "move"
  BY <1>1, <1>2, CallPlaces DEF Calls, WellFormed, ReadOK, WriteOK, RemoveOK, ListOK, MoveOK, TreeOK, Ops, TreeOps
<1>7. Reach(call[t], x)
  BY <1>4, <1>5, StrictIs DEF Reach, Under
<1>8. call[t].op = "move" => Renaming(call[t]) /\ Past(call[t]) /\ x \in {call[t].path, call[t].dest}
  <2>1. call[t].op = "move" => call[t].req.kind = "rename" /\ x \in {call[t].path, call[t].dest}
    BY <1>5
  <2>2. call[t].op = "move" => call[t].doc \in Doc
    BY <1>1, <2>1 DEF Calls, WellFormed, MoveOK
  <2>3. \A d \in Doc : d # None
    BY VolumeAssumption
  <2> QED BY <1>1, <2>1, <2>2, <2>3 DEF Renaming, Past
<1>9. call[t].of # None => call[t].op \in {"write", "move"}
  BY <1>1 DEF TypeInv, Family, KidOf, Calls
<1> QED BY <1>1, <1>2, <1>3, <1>5, <1>6, <1>7, <1>8, <1>9

(* A child that has not failed and is at a path of the session.            *)
LEMMA KidMine ==
  ASSUME TypeInv, NEW s \in Slot, CallOK(call[s]), call[s].op = "move", call[s].path \notin foreign,
         call[s].ans.status # "failed"
  PROVE  Mine(call[s])
<1>1. call[s] \in Calls /\ call[s] \in Records
  BY CallPlaces
<1>2. call[s].ans.status = "missing" => call[s].req.kind = "rename"
  BY <1>1 DEF Calls, WellFormed, AnswerOK, MoveOK
<1>3. call[s].ans.status # "missing"
  BY <1>2 DEF CallOK, MissedOK
<1>4. call[s].ans.status \in {"none", "ok"}
  BY <1>1, <1>3 DEF Records, Answers
<1> QED BY <1>4 DEF Mine

LEMMA KinIs ==
  ASSUME TypeInv, NEW s \in Slot, call[s].of # None
  PROVE  /\ call[s].of \in Slot /\ Idle(call[call[s].of]) /\ call[s].op \in {"write", "move"}
         /\ call[s].op = IF call[call[s].of].op = "mvtree" THEN "move" ELSE "write"
         /\ call[call[s].of] # Free /\ call[call[s].of].of = None
         /\ call[call[s].of].path \in Path /\ call[call[s].of].dest \in Path
         /\ call[s].path \in Path
         /\ call[s].op = "move" => call[s].dest \in Path
         /\ ~Idle(call[s])
<1>1. call[s].of \in Slot /\ KidOf(call[s], call[call[s].of])
  BY CallPlaces DEF TypeInv, Family
<1>2. call[s] \in Calls /\ call[call[s].of] \in Calls
  BY <1>1, CallPlaces
<1>3. Idle(call[call[s].of]) /\ call[s].op \in {"write", "move"}
      /\ call[s].op = IF call[call[s].of].op = "mvtree" THEN "move" ELSE "write"
  BY <1>1 DEF KidOf, Idle, TreeOps
<1>4. call[call[s].of].of = None /\ call[call[s].of].path \in Path /\ call[call[s].of].dest \in Path
  BY <1>2, <1>3 DEF Idle, Calls, WellFormed, TreeOK
<1>5. call[call[s].of] # Free
  BY <1>3 DEF Idle, Free, TreeOps
<1>6. call[s].path \in Path /\ (call[s].op = "move" => call[s].dest \in Path)
  BY <1>2, <1>3 DEF Calls, WellFormed, WriteOK, MoveOK
<1>7. ~Idle(call[s])
  BY <1>3 DEF Idle, TreeOps
<1> QED BY <1>1, <1>3, <1>4, <1>5, <1>6, <1>7

(* Nobody else is about to say something new of a path that a call touches.*)
LEMMA CoherentAt ==
  ASSUME OwnInv, NEW s \in Slot, NEW p \in Path, p \notin foreign, Touches(call[s], p)
  PROVE  /\ \A t \in Slot \ {s} : ~Pend(call[t], p)
         /\ Coherent(p) \/ Pend(call[s], p)
<1>0. TypeInv
  BY DEF OwnInv, TInv
<1>a. call[s] # Free /\ ~Idle(call[s])
  BY DEF Touches
<1>p. p \in Places /\ Related(p, p)
  BY PlaceIs, RelatedIs
<1>1. ASSUME NEW t \in Slot \ {s}, Pend(call[t], p)
      PROVE  FALSE
  <2>1. call[t] # Free /\ ~Idle(call[t]) /\ Reach(call[t], p) /\ call[t].ans.status = "ok"
    BY <1>0, <1>1, PendIs
  <2>2. CASE ~Kin(s, t)
    <3>1. Apart(call[s], call[t]) /\ Apart(call[t], call[s])
      BY <1>0, <1>a, <2>1, <2>2, ApartSym DEF OwnInv, Locks
    <3>2. PICK v \in Places : v \in {call[s].path, call[s].dest} /\ (IsPrefix(v, p) \/ p = v)
      <4>1. CASE call[s].of = None
        BY <1>0, <1>a, <4>1, CallPlaces, PlaceIs DEF Touches, Reach
      <4>2. CASE call[s].of # None
        BY <1>0, <1>p, <4>2, CallPlaces, PlaceIs DEF Touches
      <4> QED BY <4>1, <4>2
    <3>3. Related(p, v)
      BY <1>p, <3>2, RelatedIs
    <3> QED BY <1>0, <1>p, <2>1, <3>1, <3>2, <3>3, FarApart
  <2>3. CASE Kin(s, t)
    <3>1. call[s].of = call[t].of /\ call[s].of # None
      <4>1. s # None /\ t # None
        BY VolumeAssumption
      <4>2. call[s].of # t
        BY <1>0, <2>1, <4>1, KinIs
      <4>3. call[t].of # s
        BY <1>0, <1>a, <4>1, KinIs
      <4> QED BY <2>3, <4>2, <4>3 DEF Kin
    <3>2. call[s].op \in {"write", "move"} /\ call[t].op = call[s].op /\ call[s].ans.status # "failed"
      BY <1>0, <3>1, KinIs DEF Touches
    <3>3. /\ Target(call[s]) \notin foreign /\ Target(call[t]) \notin foreign
               => ~Related(Target(call[s]), Target(call[t]))
          /\ Mine(call[s]) => call[t].path # call[s].path
          /\ Mine(call[t]) => call[t].path # call[s].path
          /\ Mine(call[s]) /\ Past(call[t]) => call[t].dest # call[s].path
          /\ Mine(call[t]) /\ Past(call[s]) => call[s].dest # call[t].path
      BY <3>1 DEF OwnInv, Siblings
    <3>4. CASE call[s].op = "write"
      <4>1. p = call[s].path /\ p = call[t].path
        BY <1>0, <1>1, <3>1, <3>2, <3>4, PendIs DEF Touches, Past
      <4> QED BY <1>p, <3>2, <3>3, <3>4, <4>1 DEF Target
    <3>5. CASE call[s].op = "move"
      <4>1. p = call[s].path \/ (Past(call[s]) /\ p = call[s].dest)
        BY <3>1 DEF Touches
      <4>2. Past(call[t]) /\ p \in {call[t].path, call[t].dest}
        BY <1>0, <1>1, <3>2, <3>5, PendIs
      <4>3. p = call[s].path => Mine(call[s])
        BY <1>0, <3>2, <3>5, KidMine DEF OwnInv, CallsOK
      <4>4. p = call[t].path => Mine(call[t])
        BY <1>0, <2>1, <3>2, <3>5, KidMine DEF OwnInv, CallsOK
      <4> QED BY <1>p, <3>2, <3>3, <3>5, <4>1, <4>2, <4>3, <4>4 DEF Target
    <3> QED BY <3>2, <3>4, <3>5
  <2> QED BY <2>2, <2>3
<1> QED BY <1>1 DEF OwnInv, Coh

(* A step of the call s that touches Y and may make files of G.            *)
Within(s, Y, G) ==
  /\ Y \subseteq Path /\ G \subseteq Y /\ foreign \subseteq foreign'
  /\ \A y \in Y : Touches(call[s], y)
  /\ call[s].of # None =>
       /\ G \subseteq {Target(call[s])}
       /\ \A y \in Y \ foreign' : y # call[s].path /\ File(y) # None => File(y)' # None

LEMMA SepIs ==
  ASSUME OwnInv, NEW s \in Slot, NEW t \in Slot, s # t, call[t] # Free,
         NEW Y, NEW G, Within(s, Y, G)
  PROVE  Sep(Y, G, call[t])
<1>0. TypeInv /\ CallOK(call[s]) /\ CallOK(call[t])
  BY DEF OwnInv, TInv, CallsOK
<1>1. Y \subseteq Path /\ G \subseteq Y /\ foreign \subseteq foreign' /\ \A y \in Y : Touches(call[s], y)
  BY DEF Within
<1>2. call[t] \in Calls /\ call[t] \in Records /\ call[t].path \in Places /\ call[t].dest \in Path \cup {None}
  BY <1>0, CallPlaces
<1>3. CASE Y = {}
  BY <1>1, <1>3 DEF Sep
<1>4. CASE Y # {}
  <2>1. call[s] # Free /\ ~Idle(call[s])
    BY <1>1, <1>4 DEF Touches
  <2>2. CASE ~Kin(s, t)
    <3>1. Apart(call[s], call[t])
      BY <2>1, <2>2 DEF OwnInv, Locks
    <3>2. ASSUME NEW y \in Y
          PROVE  Reach(call[s], y)
      <4>1. y \in Path /\ Touches(call[s], y) /\ IsPrefix(y, y) /\ y # None
        BY <1>1, PlaceIs, PrefixRefl
      <4> QED BY <4>1 DEF Touches, Reach
    <3>3. \A y \in Y : \A v \in Places : v \in {call[t].path, call[t].dest} => ~Related(y, v) /\ ~Related(v, y) /\ y # v
      BY <1>0, <1>1, <2>1, <3>1, <3>2, FarApart, PlaceIs
    <3>4. call[t].path \notin Y /\ \A y \in Y : y \notin Under(call[t].path)
      BY <1>1, <1>2, <3>3, PlaceIs, RelatedIs
    <3>5. call[t].dest \notin Y
      BY <1>1, <1>2, <3>3, PlaceIs
    <3>6. ASSUME call[t].op \in {"write", "move"}
          PROVE  \A g \in G \ foreign : ~Near(g, Target(call[t]))
      <4>1. Target(call[t]) \in Path /\ Target(call[t]) \in {call[t].path, call[t].dest}
        BY <1>2, <3>6 DEF Target, Calls, WellFormed, WriteOK, MoveOK
      <4> QED BY <1>1, <3>3, <4>1, PlaceIs, RelatedIs
    <3>7. call[t].op = "mvtree" => \A e \in call[t].kids : e.path \notin Y
      BY <1>2, <3>4 DEF Calls, WellFormed, TreeOK, TreeOps
    <3> QED BY <3>4, <3>5, <3>6, <3>7 DEF Sep
  <2>3. CASE Kin(s, t)
    <3>0. s # None /\ t # None
      BY VolumeAssumption
    <3>1. call[t].of # s
      BY <1>0, <2>1, <3>0, KinIs
    <3>2. CASE call[s].of = t
      <4>1. Idle(call[t]) /\ call[s].of # None /\ call[t].req = NoReq
            /\ (call[t].op = "mvtree" => call[s].op = "move")
        BY <1>0, <3>0, <3>2, KinIs DEF Idle
      <4>2. call[t].op \in TreeOps
        BY <4>1 DEF Idle
      <4>3. ASSUME call[t].op = "mvtree", NEW e \in call[t].kids, e.path \in Y \ foreign'
            PROVE  File(e.path)' # None
        <5>1. e.path \notin foreign /\ e.path # call[s].path
          BY <1>1, <3>2, <4>1, <4>3 DEF OwnInv, Batch
        <5>2. File(e.path) # None
          BY <1>0, <4>3, <5>1 DEF CallOK, KidsOK
        <5> QED BY <4>1, <4>3, <5>1, <5>2 DEF Within
      <4> QED BY <4>1, <4>2, <4>3 DEF Sep, Past, TreeOps, NoReq
    <3>3. CASE call[s].of # t
      <4>1. call[s].of = call[t].of /\ call[s].of # None
        BY <2>3, <3>1, <3>3 DEF Kin
      <4>2. call[s].op \in {"write", "move"} /\ call[t].op = call[s].op
            /\ call[t].path \in Path /\ (call[t].op = "move" => call[t].dest \in Path)
            /\ call[s].path \in Path /\ (call[s].op = "move" => call[s].dest \in Path)
        BY <1>0, <4>1, KinIs
      <4>3. /\ Target(call[s]) \notin foreign /\ Target(call[t]) \notin foreign
                 => ~Related(Target(call[s]), Target(call[t]))
            /\ Mine(call[s]) => call[t].path # call[s].path
            /\ Mine(call[t]) => call[t].path # call[s].path
            /\ Mine(call[s]) /\ Past(call[t]) => call[t].dest # call[s].path
            /\ Mine(call[t]) /\ Past(call[s]) => call[s].dest # call[t].path
        BY <4>1 DEF OwnInv, Siblings
      <4>4. /\ G \subseteq {Target(call[s])} /\ call[s].ans.status # "failed"
            /\ \A y \in Y : y = call[s].path \/ (Past(call[s]) /\ y = call[s].dest)
        BY <1>1, <1>4, <4>1 DEF Within, Touches
      <4>5. call[t].req.kind \notin {"list", "bulk"} /\ call[t].op # "mvtree"
        BY <1>2, <4>2 DEF Calls, WellFormed, WriteOK, MoveOK
      <4>6. Target(call[t]) \notin foreign => \A g \in G \ foreign : ~Near(g, Target(call[t]))
        BY <4>2, <4>3, <4>4, PlaceIs, RelatedIs DEF Target
      <4>7. \A p \in Path : Related(p, p)
        BY PlaceIs, RelatedIs
      <4>8. CASE call[s].op = "write"
        <5>1. call[t].path \in Y => call[t].path \in foreign
          BY <4>2, <4>3, <4>4, <4>7, <4>8 DEF Target, Past
        <5>2. ~Mine(call[t]) /\ ~Past(call[t])
          BY <4>2, <4>8 DEF Mine, Past
        <5> QED BY <4>5, <4>6, <5>1, <5>2 DEF Sep
      <4>9. CASE call[s].op = "move"
        <5>1. call[s].path \notin foreign => Mine(call[s])
          BY <1>0, <4>4, <4>9, KidMine
        <5>2. call[t].path \notin foreign /\ call[t].ans.status # "failed" => Mine(call[t])
          BY <1>0, <4>2, <4>9, KidMine
        <5>3. call[t].path \in Y => ~Mine(call[t])
          BY <4>3, <4>4
        <5>4. Past(call[t]) /\ call[t].dest \in Y => call[t].dest \in foreign
          BY <4>2, <4>3, <4>4, <4>7, <4>9, <5>1 DEF Target
        <5> QED BY <4>5, <4>6, <5>2, <5>3, <5>4 DEF Sep
      <4> QED BY <4>2, <4>8, <4>9
    <3> QED BY <3>2, <3>3
  <2> QED BY <2>2, <2>3
<1> QED BY <1>3, <1>4

(***************************************************************************)
(* What a step leaves as it is.                                            *)
(***************************************************************************)
Frame(Y, G) ==
  /\ foreign \subseteq foreign' /\ foreign' \subseteq Path
  /\ \A p \in Path \ Y : File(p)' = File(p) /\ cache'[p] \in {None, cache[p]}
  /\ \A p \in Path \ (Y \cup foreign') : LiveAt(p)' = LiveAt(p) /\ \A d \in LiveAt(p) : Kept(d)
  /\ \A p \in Path, d \in Doc : Holds(p, d) => Holds(p, d)' \/ (p \in Y /\ p \notin foreign')
  /\ \A p \in Y \ (G \cup foreign') : File(p)' # None => File(p) # None

LEMMA ClearKept ==
  ASSUME NEW Y, NEW G, Frame(Y, G), G \subseteq Y, NEW p \in Path, Clear(p),
         \A g \in G \ foreign : ~Near(g, p)
  PROVE  Clear(p)'
<1> SUFFICES ASSUME NEW r \in Path \ foreign', Near(r, p) PROVE File(r)' = None
  BY DEF Clear
<1>1. r \notin foreign /\ r \notin G /\ File(r) = None
  BY DEF Frame, Clear
<1>2. CASE r \in Y
  BY <1>1, <1>2 DEF Frame
<1>3. CASE r \notin Y
  BY <1>1, <1>3 DEF Frame
<1> QED BY <1>2, <1>3

LEMMA KeepCall ==
  ASSUME TypeInv, NEW t \in Slot, CallOK(call[t]), NEW Y \in SUBSET Path, NEW G \in SUBSET Y, Frame(Y, G),
         Sep(Y, G, call[t]), Alike(call'[t], call[t])
  PROVE  CallOK(call[t])'
<1>a. PICK c \in Calls : c = call[t]
  BY CallPlaces
<1>b. PICK f \in Calls : f = call'[t]
  BY <1>a, AlikeIs
<1>1. /\ c \in Calls /\ c \in Records
      /\ c # Free => c.path \in Places
  BY <1>a, CallPlaces
<1>2. /\ f.op = c.op /\ f.path = c.path /\ f.dest = c.dest /\ f.text = c.text /\ f.doc = c.doc
      /\ f.req = c.req /\ f.ans = c.ans /\ f.kids = c.kids /\ f.of = c.of
  BY <1>a, <1>b, AlikeIs
<1>3. CallOK(c)
  BY <1>a
<1>4. /\ foreign \subseteq foreign' /\ foreign' \subseteq Path
      /\ \A p \in Path \ Y : File(p)' = File(p) /\ cache'[p] \in {None, cache[p]}
      /\ \A p \in Path \ (Y \cup foreign') : LiveAt(p)' = LiveAt(p) /\ \A d \in LiveAt(p) : Kept(d)
      /\ \A p \in Path, d \in Doc : Holds(p, d) => Holds(p, d)' \/ (p \in Y /\ p \notin foreign')
  BY DEF Frame
<1>5. /\ ~Idle(c) /\ c.path \in Y => ~Mine(c) /\ (c.path \in foreign \/ c.ans.status = "failed")
      /\ Past(c) /\ c.dest \in Y => c.dest \in foreign
  BY <1>a DEF Sep
<1>6. c.req.kind # "none" => ~Idle(c) /\ c # Free
  BY DEF Idle, Free, NoReq
<1>7. /\ c.req.kind \in {"update", "add"} => c.op = "write" /\ c.path \in Path
      /\ c.req.kind = "delete" => c.op = "remove" /\ c.path \in Path
      /\ c.req.kind = "rename" => c.op = "move" /\ c.path \in Path /\ c.dest \in Path
      /\ c.req.kind \in {"update", "delete"} => c.req.doc \in Doc
      /\ c.op = "move" => c.path \in Path /\ c.dest \in Path
      /\ c.ans.status # "none" => c.req.kind # "none"
  BY <1>a, <1>1, <1>6, CallPlaces DEF Calls, WellFormed, ReadOK, WriteOK, RemoveOK, ListOK, MoveOK, TreeOK, AnswerOK, Ops, TreeOps, NoAns
<1>8. AskedOK(call[t])'
  <2>1. AskedOK(c)
    BY <1>3 DEF CallOK
  <2> QED BY <1>a, <1>b, <1>2, <1>4, <1>5, <1>6, <1>7, <2>1 DEF AskedOK
<1>9. AddingOK(call[t])'
  <2>1. AddingOK(c)
    BY <1>3 DEF CallOK
  <2>2. SUFFICES ASSUME c.ans.status = "none", c.req.kind = "add", c.path \notin foreign'
                 PROVE  File(c.path)' = None /\ Clear(c.path)'
    BY <1>a, <1>b, <1>2 DEF AddingOK
  <2>3. c.path \in Path \ foreign /\ c.path \notin Y /\ c.op = "write"
    BY <1>4, <1>5, <1>6, <1>7, <2>2
  <2>4. \A g \in G \ foreign : ~Near(g, c.path)
    BY <1>a, <2>3 DEF Sep, Target
  <2>5. File(c.path) = None /\ Clear(c.path)
    BY <2>1, <2>2, <2>3 DEF AddingOK
  <2>6. Clear(c.path)'
    BY <2>3, <2>4, <2>5, ClearKept
  <2> QED BY <1>4, <2>3, <2>5, <2>6
<1>10. ASSUME NEW p \in Path, NEW d \in Doc, NEW text, p \notin foreign', p \notin Y, HasText(p, d, text)
       PROVE  HasText(p, d, text)'
  BY <1>4, <1>10 DEF HasText, Kept
<1>11. UpdatedOK(call[t])'
  <2>1. UpdatedOK(c)
    BY <1>3 DEF CallOK
  <2>2. SUFFICES ASSUME c.ans.status = "ok", c.req.kind = "update"
                 PROVE  Holds(c.path, c.req.doc)' /\ (c.path \notin foreign' => HasText(c.path, c.req.doc, c.text)')
    BY <1>a, <1>b, <1>2 DEF UpdatedOK
  <2>3. c.path \in Path /\ c.req.doc \in Doc /\ (c.path \in Y => c.path \in foreign)
    BY <1>5, <1>6, <1>7, <2>2
  <2>4. Holds(c.path, c.req.doc) /\ (c.path \notin foreign => HasText(c.path, c.req.doc, c.text))
    BY <2>1, <2>2 DEF UpdatedOK
  <2> QED BY <1>4, <1>10, <2>3, <2>4
<1>12. AddedOK(call[t])'
  <2>1. AddedOK(c)
    BY <1>3 DEF CallOK
  <2>2. SUFFICES ASSUME c.ans.status = "ok", c.req.kind = "add", NEW e \in c.ans.docs
                 PROVE  Holds(c.path, e.doc)' /\ (c.path \notin foreign' => HasText(c.path, e.doc, c.text)')
    BY <1>a, <1>b, <1>2 DEF AddedOK
  <2>3. c.path \in Path /\ e.doc \in Doc /\ (c.path \in Y => c.path \in foreign)
    BY <1>1, <1>5, <1>6, <1>7, <2>2 DEF Records, Answers, Entries
  <2>4. Holds(c.path, e.doc) /\ (c.path \notin foreign => HasText(c.path, e.doc, c.text))
    BY <2>1, <2>2 DEF AddedOK
  <2> QED BY <1>4, <1>10, <2>3, <2>4
<1>13. DeletedOK(call[t])'
  <2>1. DeletedOK(c)
    BY <1>3 DEF CallOK
  <2> QED BY <1>a, <1>b, <1>2, <1>4, <1>5, <1>6, <1>7, <2>1 DEF DeletedOK
<1>14. ASSUME c.ans.status = "ok", c.req.kind = "find"
       PROVE  /\ c.req.path \in Path /\ (c.req.path \in Y => c.req.path \in foreign)
              /\ \A e \in c.ans.docs : e.path = c.req.path
  <2>1. c.op \in {"read", "append", "copy"} \/ c.op = "move"
    BY <1>a, <1>1, <1>6, <1>14, CallPlaces DEF Calls, WellFormed, WriteOK, RemoveOK, ListOK, TreeOK, Ops, TreeOps
  <2>2. \A e \in c.ans.docs : e.path = c.req.path
    BY <1>1, <1>14 DEF Calls, WellFormed, AnswerOK
  <2>3. CASE c.op \in {"read", "append", "copy"}
    <3>1. c.req.path = c.path /\ c.path \in Path
      BY <1>1, <2>3 DEF Calls, WellFormed, ReadOK
    <3> QED BY <1>5, <1>6, <1>14, <2>2, <3>1
  <2>4. CASE c.op = "move" /\ c.doc = None
    <3>1. c.req.path = c.path /\ c.path \in Path
      BY <1>1, <1>14, <2>4 DEF Calls, WellFormed, MoveOK
    <3> QED BY <1>5, <1>6, <1>14, <2>2, <3>1
  <2>5. CASE c.op = "move" /\ c.doc # None
    <3>1. c.req.path = c.dest /\ c.dest \in Path /\ Past(c)
      BY <1>1, <1>14, <2>5 DEF Calls, WellFormed, MoveOK, Past
    <3> QED BY <1>5, <2>2, <3>1
  <2> QED BY <2>1, <2>3, <2>4, <2>5
<1>15. ASSUME c.ans.status = "ok", c.req.kind = "list"
       PROVE  /\ \A e \in c.ans.docs : e.path \in Under(c.path)
              /\ \A p \in Under(c.path) : p \in Path /\ p \notin Y
  <2>1. c.req.path = c.path
    BY <1>a, <1>1, <1>6, <1>15, CallPlaces DEF Calls, WellFormed, ReadOK, WriteOK, RemoveOK, ListOK, MoveOK, TreeOK, Ops, TreeOps
  <2>2. \A e \in c.ans.docs : e.path \in Under(c.path)
    BY <1>1, <1>15, <2>1 DEF Calls, WellFormed, AnswerOK
  <2> QED BY <1>a, <1>15, <2>2 DEF Sep, Under
<1>16. ListingOK(call[t])'
  <2>1. ListingOK(c)
    BY <1>3 DEF CallOK
  <2>2. SUFFICES ASSUME c.ans.status = "ok", c.req.kind \in {"find", "list"}, NEW e \in c.ans.docs
                 PROVE  /\ Holds(e.path, e.doc)'
                        /\ e.path \notin foreign'
                             => File(e.path)' = e.doc /\ HasEntry(e.path, e)'
    BY <1>a, <1>b, <1>2, <2>1 DEF ListingOK
  <2>3. e.path \in Path /\ e.doc \in Doc /\ (e.path \in Y => e.path \in foreign)
    BY <1>1, <1>14, <1>15, <2>2 DEF Records, Answers, Entries
  <2>4. /\ Holds(e.path, e.doc)
        /\ e.path \notin foreign => File(e.path) = e.doc /\ HasEntry(e.path, e)
    BY <2>1, <2>2 DEF ListingOK
  <2>5. Holds(e.path, e.doc)'
    BY <1>4, <2>3, <2>4
  <2>6. ASSUME e.path \notin foreign'
        PROVE  File(e.path)' = e.doc /\ HasEntry(e.path, e)'
    <3>0. e.path \notin foreign /\ e.path \notin Y
      BY <1>4, <2>3, <2>6
    <3>1. File(e.path) = e.doc /\ HasEntry(e.path, e) /\ e.path \notin Y
      BY <2>4, <3>0
    <3>2. \A p \in Path : p # None
      BY PlaceIs
    <3>3. docs[e.doc] # None /\ docs[e.doc].path = e.path
      BY <3>1 DEF HasEntry
    <3>4. docs[e.doc] # Gone
      BY <2>3, <3>2, <3>3 DEF Gone
    <3>5. e.doc \in LiveAt(e.path)
      BY <2>3, <3>3, <3>4 DEF LiveAt, Unused
    <3>6. Kept(e.doc) /\ File(e.path)' = File(e.path)
      BY <1>4, <2>3, <2>6, <3>1, <3>5
    <3> QED BY <3>1, <3>6 DEF Kept, HasEntry
  <2> QED BY <2>5, <2>6
<1>17. FoundOK(call[t])'
  <2>1. FoundOK(c)
    BY <1>3 DEF CallOK
  <2> QED BY <1>a, <1>b, <1>2, <1>4, <1>14, <2>1 DEF FoundOK
<1>18. ListedOK(call[t])'
  <2>1. ListedOK(c)
    BY <1>3 DEF CallOK
  <2> QED BY <1>a, <1>b, <1>2, <1>4, <1>15, <2>1 DEF ListedOK
<1>19. BulkedOK(call[t])'
  <2>1. BulkedOK(c)
    BY <1>3 DEF CallOK
  <2>2. c.req.kind = "bulk" => \A p \in Under(c.path) : p \in Path /\ p \notin Y
    BY <1>a DEF Sep, Under
  <2> QED BY <1>a, <1>b, <1>2, <1>4, <2>1, <2>2 DEF BulkedOK
<1>20. KidsOK(call[t])'
  <2>1. KidsOK(c)
    BY <1>3 DEF CallOK
  <2>2. \A e \in c.kids : e.path \in Path
    BY <1>1 DEF Records, Entries
  <2>3. c.op = "mvtree" => \A e \in c.kids : e.path \in Y \ foreign' => File(e.path)' # None
    BY <1>a DEF Sep
  <2> QED BY <1>a, <1>b, <1>2, <1>4, <2>1, <2>2, <2>3 DEF KidsOK
<1>21. LookingOK(call[t])'
  <2>1. LookingOK(c)
    BY <1>3 DEF CallOK
  <2>2. c.op = "move" => ~Idle(c)
    BY DEF Idle, TreeOps
  <2> QED BY <1>a, <1>b, <1>2, <1>4, <1>5, <1>7, <2>1, <2>2 DEF LookingOK
<1>22. PastOK(call[t])'
  <2>1. PastOK(c)
    BY <1>3 DEF CallOK
  <2>2. SUFFICES ASSUME Past(c), ~Renaming(c)
                 PROVE  /\ Holds(c.path, c.doc)'
                        /\ c.path \notin foreign' => File(c.path)' = c.doc
                        /\ c.dest \notin foreign' => File(c.dest)' = None
                        /\ c.path \notin foreign' /\ c.dest \notin foreign' => Clear(c.dest)'
    BY <1>a, <1>b, <1>2 DEF PastOK, Past, Renaming
  <2>3. c.op = "move" /\ ~Idle(c) /\ c.path \in Path /\ c.dest \in Path /\ c.doc \in Doc
        /\ c.ans.status # "failed"
    BY <1>1, <1>7, <2>2 DEF Past, Idle, TreeOps, Records
  <2>4. (c.path \in Y => c.path \in foreign) /\ (c.dest \in Y => c.dest \in foreign)
    BY <1>5, <2>2, <2>3
  <2>5. /\ Holds(c.path, c.doc)
        /\ c.path \notin foreign => File(c.path) = c.doc
        /\ c.dest \notin foreign => File(c.dest) = None
        /\ c.path \notin foreign /\ c.dest \notin foreign => Clear(c.dest)
    BY <2>1, <2>2 DEF PastOK
  <2>6. c.dest \notin foreign => \A g \in G \ foreign : ~Near(g, c.dest)
    BY <1>a, <2>3 DEF Sep, Target
  <2>7. c.path \notin foreign' /\ c.dest \notin foreign' => Clear(c.dest)'
    BY <1>4, <2>3, <2>5, <2>6, ClearKept
  <2> QED BY <1>4, <2>3, <2>4, <2>5, <2>7
<1>23. RenamedOK(call[t])'
  <2>1. RenamedOK(c)
    BY <1>3 DEF CallOK
  <2>2. SUFFICES ASSUME Renaming(c)
                 PROVE  /\ Holds(c.dest, c.doc)'
                        /\ Mine(c)' => File(c.path)' = c.doc
                        /\ c.path \notin foreign' => LiveAt(c.path)' = {}
                        /\ c.dest \notin foreign' =>
                             /\ File(c.dest)' = None /\ LiveAt(c.dest)' = {c.doc}
                             /\ (cache[c.path] = None \/ Shows(cache[c.path], c.doc))'
    <3>1. Mine(call[t])' => Mine(c)'
      BY <1>a, <1>b, <1>2 DEF Mine, Renaming
    <3> QED BY <1>a, <1>b, <1>2, <3>1 DEF RenamedOK, Renaming
  <2>3. /\ c.op = "move" /\ ~Idle(c) /\ c.path \in Path /\ c.dest \in Path /\ c.doc \in Doc
        /\ c.ans.status = "ok" /\ Past(c)
    <3>1. c.op = "move" /\ c.path \in Path /\ c.dest \in Path /\ c.ans.status = "ok"
      BY <1>7, <2>2 DEF Renaming
    <3>2. c.doc \in Doc
      BY <1>1, <2>2, <3>1 DEF Calls, WellFormed, MoveOK, Renaming
    <3> QED BY <3>1, <3>2, VolumeAssumption DEF Idle, TreeOps, Past
  <2>4. (c.path \in Y => c.path \in foreign /\ ~Mine(c)) /\ (c.dest \in Y => c.dest \in foreign)
    BY <1>5, <2>2, <2>3
  <2>5. /\ Holds(c.dest, c.doc)
        /\ Mine(c) => File(c.path) = c.doc
        /\ c.path \notin foreign => LiveAt(c.path) = {}
        /\ c.dest \notin foreign =>
             File(c.dest) = None /\ LiveAt(c.dest) = {c.doc} /\ (cache[c.path] = None \/ Shows(cache[c.path], c.doc))
    BY <2>1, <2>2 DEF RenamedOK
  <2>6. c.path \notin foreign' \/ c.dest \notin foreign' => Mine(c)
    BY <1>4, <2>2, <2>3 DEF Mine
  <2>7. Mine(c)' => Mine(c)
    BY <2>6 DEF Mine
  <2>8. ASSUME c.dest \notin foreign'
        PROVE  /\ File(c.dest)' = None /\ LiveAt(c.dest)' = {c.doc}
               /\ (cache[c.path] = None \/ Shows(cache[c.path], c.doc))'
    <3>1. c.dest \notin foreign /\ c.dest \notin Y /\ c.path \notin Y
      BY <1>4, <2>4, <2>6, <2>8
    <3>2. File(c.dest) = None /\ LiveAt(c.dest) = {c.doc} /\ (cache[c.path] = None \/ Shows(cache[c.path], c.doc))
      BY <2>5, <3>1
    <3>3. LiveAt(c.dest)' = LiveAt(c.dest) /\ Kept(c.doc) /\ File(c.dest)' = File(c.dest)
      BY <1>4, <2>3, <2>8, <3>1, <3>2
    <3>4. cache'[c.path] \in {None, cache[c.path]}
      BY <1>4, <2>3, <3>1
    <3>5. Shows(cache[c.path], c.doc) => Shows(cache[c.path], c.doc)' \/ cache'[c.path] = None
      BY <3>3, <3>4 DEF Shows, Kept
    <3> QED BY <3>2, <3>3, <3>4, <3>5
  <2> QED BY <1>4, <2>3, <2>4, <2>5, <2>7, <2>8
<1>24. MissedOK(call[t])'
  <2>1. MissedOK(c)
    BY <1>3 DEF CallOK
  <2> QED BY <1>a, <1>b, <1>2, <1>4, <2>1 DEF MissedOK
<1> QED BY <1>8, <1>9, <1>11, <1>12, <1>13, <1>16, <1>17, <1>18, <1>19, <1>20, <1>21, <1>22, <1>23, <1>24 DEF CallOK

LEMMA FreeIsQuiet ==
  /\ \A Y, G : Y \subseteq Path => Sep(Y, G, Free)
  /\ CallOK(Free) /\ ~Renaming(Free) /\ \A p : ~Pend(Free, p)
<1>1. None \notin Path
  BY PlaceIs DEF Places
<1>2. \A Y, G : Y \subseteq Path => Sep(Y, G, Free)
  BY <1>1 DEF Sep, Free, NoReq, NoAns, Past
<1>3. CallOK(Free)
  BY DEF CallOK, AskedOK, AddingOK, UpdatedOK, AddedOK, DeletedOK, ListingOK, FoundOK, ListedOK, BulkedOK,
         KidsOK, LookingOK, PastOK, RenamedOK, MissedOK, Past, Renaming, Free, NoReq, NoAns
<1>4. ~Renaming(Free) /\ \A p : ~Pend(Free, p)
  BY DEF Renaming, Pend, Free, NoReq, NoAns
<1> QED BY <1>2, <1>3, <1>4

(* A step of the calls A; the others are kept apart from what it touches.  *)
Others2(A, Y, G) == \A t \in Slot \ A : Alike(call'[t], call[t]) /\ Sep(Y, G, call[t])

LEMMA CallsStep ==
  ASSUME OwnInv, NEW Y \in SUBSET Path, NEW G \in SUBSET Y, Frame(Y, G), NEW A, Others2(A, Y, G),
         \A t \in A \cap Slot : CallOK(call[t])'
  PROVE  CallsOK'
<1> SUFFICES ASSUME NEW t \in Slot PROVE CallOK(call[t])'
  BY DEF CallsOK
<1>1. CASE t \in A
  BY <1>1
<1>2. CASE t \notin A
  BY <1>2, KeepCall DEF Others2, OwnInv, TInv, CallsOK
<1> QED BY <1>1, <1>2

LEMMA IndexStep ==
  ASSUME OwnInv, TypeInv', CallsOK', NEW Y \in SUBSET Path, NEW G \in SUBSET Y, Frame(Y, G), NEW A, Others2(A, Y, G),
         \A t \in A \cap Slot : Renaming(call[t]) => call[t].path \in Y,
         \A x \in Y : File(x)' # None => Holds(x, File(x))' \/ \E s \in Slot : MovedOff(call[s], x, File(x))'
  PROVE  IndexOK'
<1>0. TypeInv /\ foreign \subseteq foreign'
  BY DEF OwnInv, TInv, Frame
<1> SUFFICES ASSUME NEW x \in Path, File(x)' # None
             PROVE  Holds(x, File(x))' \/ \E s \in Slot : MovedOff(call[s], x, File(x))'
  BY DEF IndexOK
<1>1. CASE x \in Y
  BY <1>1
<1>2. CASE x \notin Y
  <2>1. PICK d \in Doc : d = File(x) /\ d = File(x)'
    BY <1>0, <1>2 DEF Frame, TypeInv, IndexType, File
  <2>2. CASE Holds(x, d)
    BY <1>2, <2>1, <2>2 DEF Frame, File
  <2>3. CASE \E s \in Slot : MovedOff(call[s], x, d)
    <3>1. PICK s \in Slot : MovedOff(call[s], x, d)
      BY <2>3
    <3>2. s \notin A
      BY <1>2, <3>1 DEF MovedOff
    <3>3. Alike(call'[s], call[s]) /\ call[s] \in Calls
      BY <1>0, <3>2, CallPlaces DEF Others2
    <3>4. /\ call'[s].req = call[s].req /\ call'[s].ans = call[s].ans /\ call'[s].path = call[s].path
          /\ call'[s].dest = call[s].dest /\ call'[s].doc = call[s].doc
      BY <3>3, AlikeIs
    <3>5. PICK q : q = call[s].dest
      OBVIOUS
    <3>6. CASE q \notin foreign'
      <4>1. MovedOff(call[s], x, d)'
        BY <1>0, <3>1, <3>4, <3>5, <3>6 DEF MovedOff, Renaming
      <4> QED BY <2>1, <4>1
    <3>7. CASE q \in foreign'
      <4>1. RenamedOK(call[s])'
        BY DEF CallsOK, CallOK
      <4>2. Holds(q, d)'
        BY <3>1, <3>4, <3>5, <4>1 DEF RenamedOK, MovedOff, Renaming
      <4>3. Holds(x, d)'
        BY <3>7, <4>2 DEF Holds
      <4> QED BY <2>1, <4>3
    <3> QED BY <3>6, <3>7
  <2> QED BY <2>1, <2>2, <2>3 DEF OwnInv, IndexOK
<1> QED BY <1>1, <1>2

LEMMA CoherentKept ==
  ASSUME TypeInv, NEW Y \in SUBSET Path, NEW G \in SUBSET Y, Frame(Y, G),
         NEW p \in Path, p \notin Y, p \notin foreign', Coherent(p)
  PROVE  Coherent(p)'
<1>1. /\ File(p)' = File(p) /\ cache'[p] \in {None, cache[p]}
      /\ LiveAt(p)' = LiveAt(p) /\ \A d \in LiveAt(p) : Kept(d)
  BY DEF Frame
<1>2. /\ LiveAt(p) = (IF File(p) = None THEN {} ELSE {File(p)})
      /\ File(p) # None /\ cache[p] # None => Shows(cache[p], File(p))
  BY DEF Coherent
<1>3. File(p) # None => Kept(File(p))
  BY <1>1, <1>2
<1>4. LiveAt(p)' = (IF File(p)' = None THEN {} ELSE {File(p)'})
  BY <1>1, <1>2
<1>5. File(p)' # None /\ cache'[p] # None => Shows(cache[p], File(p))'
  BY <1>1, <1>2, <1>3 DEF Shows, Kept
<1> QED BY <1>4, <1>5 DEF Coherent, File

LEMMA PendKept ==
  ASSUME NEW c \in Calls, NEW f, Alike(f, c), NEW p
  PROVE  Pend(f, p) <=> Pend(c, p)
BY AlikeIs DEF Pend

LEMMA CohStep ==
  ASSUME OwnInv, NEW Y \in SUBSET Path, NEW G \in SUBSET Y, Frame(Y, G), NEW A, Others2(A, Y, G),
         \A p \in Y \ foreign' : Coherent(p)' \/ \E t \in Slot : Pend(call'[t], p),
         \A t \in A \cap Slot : \A p \in Path \ (Y \cup foreign') : Pend(call[t], p) => Pend(call'[t], p) \/ Coherent(p)'
  PROVE  Coh'
<1>0. TypeInv /\ foreign \subseteq foreign'
  BY DEF OwnInv, TInv, Frame
<1> SUFFICES ASSUME NEW p \in Path \ foreign'
             PROVE  Coherent(p)' \/ \E s \in Slot : Pend(call'[s], p)
  BY DEF Coh, Pend
<1>1. CASE p \in Y
  BY <1>1
<1>2. CASE p \notin Y
  <2>1. CASE Coherent(p)
    BY <1>0, <1>2, <2>1, CoherentKept
  <2>2. CASE \E t \in Slot : Pend(call[t], p)
    <3>1. PICK t \in Slot : Pend(call[t], p)
      BY <2>2
    <3>2. CASE t \in A
      BY <1>2, <3>1, <3>2
    <3>3. CASE t \notin A
      BY <1>0, <3>1, <3>3, PendKept, CallPlaces DEF Others2
    <3> QED BY <3>2, <3>3
  <2> QED BY <1>0, <2>1, <2>2 DEF OwnInv, Coh
<1> QED BY <1>1, <1>2

LEMMA TreeStep ==
  ASSUME OwnInv, foreign \subseteq foreign',
         \A p \in Path \ foreign' : LiveAt(p)' # {} =>
            LiveAt(p) # {} \/ \A r \in Path \ foreign' : Near(r, p) => LiveAt(r)' = {}
  PROVE  TreeShape'
<1> SUFFICES ASSUME NEW p \in Path \ foreign', NEW q \in Path \ foreign', IsStrictPrefix(p, q), LiveAt(p)' # {}
             PROVE  LiveAt(q)' = {}
  BY DEF TreeShape
<1>1. Near(p, q) /\ Near(q, p)
  BY DEF Near
<1>2. LiveAt(p) # {} => LiveAt(q) = {}
  BY DEF OwnInv, TreeShape
<1> QED BY <1>1, <1>2

(* A child that moves a file of the session: the index has the file.       *)
LEMMA MineFile ==
  ASSUME TypeInv, CallsOK, NEW t \in Slot, call[t].of # None, Mine(call[t])
  PROVE  File(call[t].path) # None
<1>1. CallOK(call[t]) /\ call[t] \in Calls /\ call[t] \in Records
  BY CallPlaces DEF CallsOK
<1>2. call[t].op = "move" /\ call[t].ans.status \in {"none", "ok"}
  BY DEF Mine
<1>3. Renaming(call[t]) => call[t].doc \in Doc
  BY <1>1, <1>2 DEF Calls, WellFormed, MoveOK, Renaming
<1>4. None \notin Doc
  BY VolumeAssumption
<1>5. CASE call[t].doc = None
  BY <1>1, <1>2, <1>3, <1>4, <1>5 DEF Mine, CallOK, LookingOK
<1>6. CASE call[t].doc # None /\ ~Renaming(call[t])
  BY <1>1, <1>2, <1>6 DEF Mine, Past, CallOK, PastOK
<1>7. CASE Renaming(call[t])
  BY <1>1, <1>3, <1>4, <1>7 DEF CallOK, RenamedOK
<1> QED BY <1>5, <1>6, <1>7

(* A call that goes on: with the paths it has, its entries and its tree.   *)
Stays(c, b) == c = Free \/ (b # Free /\ c.of = b.of /\ {c.path, c.dest} \subseteq {b.path, b.dest, None})
KeepsKids(c, b) == c.kids # {} => c.kids \subseteq b.kids /\ c.path = b.path /\ c.dest = b.dest
KeepsTree(c, b) ==
  c.of # None =>
    /\ c.of = b.of /\ c.op = b.op /\ c.path = b.path /\ c.dest = b.dest
    /\ c.ans.status \in {"none", "ok"} => b.ans.status \in {"none", "ok"}
    /\ Renaming(c) /\ c.dest \notin foreign' => Renaming(b) \/ c.path \notin foreign
    /\ Past(c) /\ ~Past(b) => File(c.dest) = None
Continues(c, b) == Stays(c, b) /\ KeepsKids(c, b) /\ KeepsTree(c, b)

Only(s) == \A t \in Slot \ {s} : Alike(call'[t], call[t])

LEMMA AlikeFree ==
  ASSUME NEW c \in Calls, NEW f, Alike(f, c)
  PROVE  f = Free <=> c = Free
<1>1. f.op = c.op /\ f \in Calls
  BY AlikeIs
<1> QED BY <1>1, FreeIsCall DEF Calls, WellFormed

LEMMA LockStep ==
  ASSUME TypeInv, Locks, NEW s \in Slot, Only(s), Stays(call'[s], call[s])
  PROVE  Locks'
<1> SUFFICES ASSUME NEW t \in Slot, NEW u \in Slot, t # u, call'[t] # Free, call'[u] # Free, ~Kin(t, u)'
             PROVE  Apart(call'[t], call'[u])
  BY DEF Locks, Apart, Kin
<1>1. ASSUME NEW x \in Slot, call'[x] # Free
      PROVE  /\ call[x] # Free /\ call'[x].of = call[x].of
             /\ {call'[x].path, call'[x].dest} \subseteq {call[x].path, call[x].dest, None}
  <2>1. CASE x = s
    BY <1>1, <2>1 DEF Stays
  <2>2. CASE x # s
    <3>1. Alike(call'[x], call[x]) /\ call[x] \in Calls
      BY <2>2, CallPlaces DEF Only
    <3> QED BY <1>1, <3>1, AlikeIs, AlikeFree
  <2> QED BY <2>1, <2>2
<1>2. ~Kin(t, u)
  BY <1>1 DEF Kin
<1>3. Apart(call[t], call[u])
  BY <1>1, <1>2 DEF Locks
<1>4. /\ {call'[t].path, call'[t].dest} \subseteq {call[t].path, call[t].dest, None}
      /\ {call'[u].path, call'[u].dest} \subseteq {call[u].path, call[u].dest, None}
  BY <1>1
<1> QED BY <1>3, <1>4, RelatedNone DEF Apart

(* What a step keeps of a child.                                           *)
LEMMA KidStep ==
  ASSUME TypeInv, NEW s \in Slot, Only(s), KeepsTree(call'[s], call[s]), foreign \subseteq foreign',
         NEW x \in Slot, call'[x].of # None
  PROVE  /\ call'[x].of = call[x].of /\ call'[x].op = call[x].op
         /\ call'[x].path = call[x].path /\ call'[x].dest = call[x].dest
         /\ Target(call'[x]) = Target(call[x])
         /\ Mine(call[x])' => Mine(call[x])
         /\ Past(call'[x]) => Past(call[x]) \/ (x = s /\ File(call[s].dest) = None)
<1>1. CASE x = s
  <2>2. PICK c : c = call'[s]
    OBVIOUS
  <2>3. /\ c.of = call[s].of /\ c.op = call[s].op /\ c.path = call[s].path /\ c.dest = call[s].dest
        /\ c.ans.status \in {"none", "ok"} => call[s].ans.status \in {"none", "ok"}
        /\ Renaming(c) /\ c.dest \notin foreign' => Renaming(call[s]) \/ c.path \notin foreign
        /\ Past(c) /\ ~Past(call[s]) => File(c.dest) = None
    BY <1>1, <2>2 DEF KeepsTree
  <2>4. Mine(call[s])' => Mine(call[s])
    BY <2>2, <2>3 DEF Mine, Renaming
  <2> QED BY <1>1, <2>2, <2>3, <2>4 DEF Target
<1>2. CASE x # s
  <2>1. Alike(call'[x], call[x]) /\ call[x] \in Calls
    BY <1>2, CallPlaces DEF Only
  <2> QED BY <2>1, AlikeIs DEF Target, Mine, Past, Renaming
<1> QED BY <1>1, <1>2

LEMMA SiblingStep ==
  ASSUME TypeInv, CallsOK, Siblings, NEW s \in Slot, Only(s), KeepsTree(call'[s], call[s]), foreign \subseteq foreign'
  PROVE  Siblings'
<1> SUFFICES ASSUME NEW t \in Slot, NEW u \in Slot, t # u, call'[t].of # None, call'[t].of = call'[u].of
             PROVE  /\ Target(call'[t]) \notin foreign' /\ Target(call'[u]) \notin foreign'
                         => ~Related(Target(call'[t]), Target(call'[u]))
                    /\ Mine(call[t])' => call'[u].path # call'[t].path
                    /\ Mine(call[t])' /\ Past(call'[u]) => call'[u].dest # call'[t].path
  BY DEF Siblings, Target, Past
<1>1. /\ call'[t].of = call[t].of /\ call'[t].path = call[t].path
      /\ Target(call'[t]) = Target(call[t])
      /\ Mine(call[t])' => Mine(call[t])
  BY KidStep
<1>2. /\ call'[u].of = call[u].of /\ call'[u].path = call[u].path /\ call'[u].dest = call[u].dest
      /\ Target(call'[u]) = Target(call[u])
      /\ Past(call'[u]) => Past(call[u]) \/ File(call[u].dest) = None
  BY KidStep
<1>3. /\ Target(call[t]) \notin foreign /\ Target(call[u]) \notin foreign
           => ~Related(Target(call[t]), Target(call[u]))
      /\ Mine(call[t]) => call[u].path # call[t].path
      /\ Mine(call[t]) /\ Past(call[u]) => call[u].dest # call[t].path
  BY <1>1, <1>2 DEF Siblings
<1>4. Mine(call[t]) => File(call[t].path) # None
  BY <1>1, MineFile
<1> QED BY <1>1, <1>2, <1>3, <1>4

LEMMA BatchStep ==
  ASSUME TypeInv, Batch, NEW s \in Slot, Only(s), KeepsKids(call'[s], call[s]), KeepsTree(call'[s], call[s]), foreign \subseteq foreign'
  PROVE  Batch'
<1> SUFFICES ASSUME NEW u \in Slot, NEW e \in call'[u].kids
             PROVE  /\ \A f \in call'[u].kids :
                         e # f /\ e.path \notin foreign' /\ f.path \notin foreign' => ~Related(e.path, f.path)
                    /\ \A t \in Slot : call'[t].of = u =>
                         /\ e.path \notin foreign' /\ Target(call'[t]) \notin foreign'
                              => ~Related(Moved(e.path, call'[u].path, call'[u].dest), Target(call'[t]))
                         /\ call'[t].op = "move" /\ (e.path \notin foreign' \/ Mine(call[t])') => e.path # call'[t].path
  BY DEF Batch, Target
<1>1. call'[u].kids \subseteq call[u].kids /\ call'[u].path = call[u].path /\ call'[u].dest = call[u].dest
  <2>1. CASE u = s
    <3> QED BY <2>1 DEF KeepsKids
  <2>2. CASE u # s
    <3>1. Alike(call'[u], call[u]) /\ call[u] \in Calls
      BY <2>2, CallPlaces DEF Only
    <3> QED BY <3>1, AlikeIs
  <2> QED BY <2>1, <2>2
<1>2. ASSUME NEW t \in Slot, call'[t].of = u
      PROVE  /\ call[t].of = u /\ call'[t].op = call[t].op /\ call'[t].path = call[t].path
             /\ Target(call'[t]) = Target(call[t]) /\ (Mine(call[t])' => Mine(call[t]))
  <2>1. u # None
    BY VolumeAssumption
  <2> QED BY <1>2, <2>1, KidStep
<1>3. e \in call[u].kids
  BY <1>1
<1>4. \A f \in call'[u].kids : e # f /\ e.path \notin foreign' /\ f.path \notin foreign' => ~Related(e.path, f.path)
  BY <1>1, <1>3 DEF Batch
<1>5. ASSUME NEW t \in Slot, call'[t].of = u
      PROVE  /\ e.path \notin foreign' /\ Target(call'[t]) \notin foreign'
                  => ~Related(Moved(e.path, call'[u].path, call'[u].dest), Target(call'[t]))
             /\ call'[t].op = "move" /\ (e.path \notin foreign' \/ Mine(call[t])') => e.path # call'[t].path
  BY <1>1, <1>2, <1>3, <1>5 DEF Batch
<1> QED BY <1>4, <1>5

StructInv == Locks /\ Siblings /\ Batch

LEMMA StructStep ==
  ASSUME OwnInv, NEW s \in Slot, Only(s), Continues(call'[s], call[s]), foreign \subseteq foreign'
  PROVE  StructInv'
BY LockStep, SiblingStep, BatchStep DEF OwnInv, TInv, StructInv, Continues

LEMMA EndsContinues == \A b : Continues(Free, b)
BY DEF Continues, Stays, KeepsKids, KeepsTree, Free

LEMMA CallOKIs ==
  ASSUME NEW s \in Slot, NEW c, c = call'[s], CallOK(c)'
  PROVE  CallOK(call[s])'
BY DEF CallOK, AskedOK, AddingOK, UpdatedOK, AddedOK, DeletedOK, ListingOK, FoundOK, ListedOK, BulkedOK,
       KidsOK, LookingOK, PastOK, RenamedOK, MissedOK, Past, Renaming, Mine

LEMMA ClearIs ==
  ASSUME NEW p \in Path, Writable(index', p)
  PROVE  Clear(p)'
<1> SUFFICES ASSUME NEW r \in Path \ foreign', Near(r, p) PROVE File(r)' = None
  BY DEF Clear
<1>1. r # Root
  BY PlaceIs
<1> QED BY <1>1 DEF Near, Writable, AncestorFile, HasDescendant, IsFile, Under, File

(* A request that has just been made.                                      *)
LEMMA FreshOK ==
  ASSUME NEW c \in Calls, c # Free, c.kids = {}, Fresh(c, index'),
         c.path \in Path => \A d \in Doc : index'.files[c.path] = d => Holds(c.path, d)',
         c.op = "move" /\ c.doc # None /\ c.path \notin foreign' => Writable(index', c.dest),
         c.op = "move" /\ c.doc = None /\ c.path \notin foreign' => c.of = None
  PROVE  CallOK(c)'
<1>1. /\ c.ans = NoAns /\ NoAns.status = "none" /\ NoAns.docs = {}
      /\ c.req.kind # "none"
      /\ c.req.kind \in {"update", "delete"} => c.req.doc \in Doc /\ index'.files[c.path] = c.req.doc
      /\ c.req.kind = "add" => index'.files[c.path] = None /\ Writable(index', c.path)
      /\ c.op = "move" =>
           /\ c.req.kind = "find" /\ index'.files[c.path] = c.doc
           /\ c.doc # None => index'.files[c.dest] = None
  BY DEF Fresh, NoAns
<1>2. c \in Records /\ c.op # "free"
  BY DEF Calls, WellFormed
<1>3. /\ c.req.kind \in {"add", "update", "delete"} => c.path \in Path
      /\ c.op = "move" => c.path \in Path /\ c.dest \in Path
  BY <1>2 DEF Records, Calls, WellFormed, ReadOK, WriteOK, RemoveOK, ListOK, MoveOK, TreeOK, Ops, TreeOps
<1>4. None \notin Doc
  BY VolumeAssumption
<1>5. AskedOK(c)' /\ AddingOK(c)'
  BY <1>1, <1>3, <1>4, ClearIs DEF AskedOK, AddingOK, File
<1>6. UpdatedOK(c)' /\ AddedOK(c)' /\ DeletedOK(c)' /\ ListingOK(c)' /\ FoundOK(c)' /\ ListedOK(c)' /\ BulkedOK(c)'
      /\ RenamedOK(c)' /\ MissedOK(c)'
  BY <1>1 DEF UpdatedOK, AddedOK, DeletedOK, ListingOK, FoundOK, ListedOK, BulkedOK, RenamedOK, MissedOK, Renaming
<1>7. KidsOK(c)'
  BY DEF KidsOK
<1>8. LookingOK(c)'
  BY <1>1, <1>3 DEF LookingOK, File
<1>9. PastOK(c)'
  <2>1. c.doc # None => c.doc \in Doc
    BY <1>2 DEF Records
  <2> QED BY <1>1, <1>3, <2>1, <1>4, ClearIs DEF PastOK, Past, File
<1> QED BY <1>5, <1>6, <1>7, <1>8, <1>9 DEF CallOK

Steady ==
  /\ (\A d \in Doc : Kept(d)) /\ foreign \subseteq foreign' /\ foreign' \subseteq Path
  /\ \A p \in Path : File(p)' = File(p) /\ cache'[p] \in {None, cache[p]}

LEMMA SteadyFrame ==
  ASSUME Steady
  PROVE  Frame({}, {}) /\ (CacheOK => CacheOK')
<1>1. \A p \in Path, d \in Doc : Holds(p, d) => Holds(p, d)'
  BY DEF Holds, Steady, Kept
<1>2. \A p \in Path : LiveAt(p)' = LiveAt(p)
  BY KeptLive DEF Steady
<1>3. \A d \in Doc : Kept(d)
  BY DEF Steady
<1>4. \A p : LiveAt(p) \subseteq Doc
  BY DEF LiveAt
<1> QED BY <1>1, <1>2, <1>3, <1>4 DEF Frame, Steady, CacheOK, File

(* A step that changes no document and no file of the index.               *)
LEMMA SteadyOwn ==
  ASSUME OwnInv, TInv', StructInv', Steady, NEW A \in SUBSET Slot,
         \A t \in Slot \ A : Alike(call'[t], call[t]),
         \A t \in A : /\ ~Renaming(call[t]) /\ CallOK(call[t])'
                      /\ \A p \in Path : Pend(call[t], p) => Pend(call'[t], p)
  PROVE  OwnInv'
<1>0. Frame({}, {}) /\ CacheOK'
  BY SteadyFrame DEF OwnInv
<1>1. {} \in SUBSET Path /\ {} \in SUBSET {}
  OBVIOUS
<1>2. \A t \in Slot : Sep({}, {}, call[t])
  BY DEF Sep
<1>3. Others2(A, {}, {})
  BY <1>2 DEF Others2
<1>4. CallsOK'
  BY <1>0, <1>1, <1>3, CallsStep
<1>5. IndexOK'
  BY <1>0, <1>1, <1>3, <1>4, IndexStep DEF TInv
<1>6. Coh'
  BY <1>0, <1>1, <1>3, CohStep
<1>7. foreign \subseteq foreign' /\ \A p \in Path \ foreign' : LiveAt(p)' = LiveAt(p)
  BY <1>0 DEF Frame
<1>8. TreeShape'
  BY <1>7, TreeStep
<1> QED BY <1>0, <1>4, <1>5, <1>6, <1>8 DEF OwnInv, StructInv

(* A step of one call.                                                     *)
LEMMA StepOwn ==
  ASSUME OwnInv, TInv', NEW s \in Slot, Only(s), NEW Y \in SUBSET Path, NEW G \in SUBSET Y,
         Within(s, Y, G), Frame(Y, G), StructInv',
         CallOK(call[s])', Renaming(call[s]) => call[s].path \in Y,
         \A x \in Y : File(x)' # None => Holds(x, File(x))' \/ \E t \in Slot : MovedOff(call[t], x, File(x))',
         CacheOK',
         \A p \in Y \ foreign' : Coherent(p)' \/ \E t \in Slot : Pend(call'[t], p),
         \A p \in Path \ (Y \cup foreign') : Pend(call[s], p) => Pend(call'[s], p),
         \A p \in Path \ foreign' : LiveAt(p)' # {} =>
            LiveAt(p) # {} \/ \A r \in Path \ foreign' : Near(r, p) => LiveAt(r)' = {}
  PROVE  OwnInv'
<1>0. foreign \subseteq foreign' /\ foreign' \subseteq Path
  BY DEF Frame
<1>2. Others2({s}, Y, G)
  <2> SUFFICES ASSUME NEW t \in Slot \ {s} PROVE Sep(Y, G, call[t])
    BY DEF Others2, Only
  <2> QED BY SepIs, FreeIsQuiet
<1>3. CallsOK'
  BY <1>2, CallsStep
<1>4. IndexOK'
  BY <1>2, <1>3, IndexStep DEF TInv
<1>5. Coh'
  BY <1>2, CohStep
<1>6. TreeShape'
  BY <1>0, TreeStep
<1> QED BY <1>3, <1>4, <1>5, <1>6 DEF OwnInv, StructInv

LEMMA StructSame ==
  ASSUME OwnInv, call' = call, foreign \subseteq foreign'
  PROVE  StructInv'
<1>1. Locks'
  BY DEF OwnInv, Locks, Apart, Kin
<1>2. \A c : Mine(c)' => Mine(c)
  BY DEF Mine
<1>3. \A t \in Slot : Mine(call[t])' => Mine(call[t])
  BY DEF Mine, Renaming
<1>4. Siblings'
  BY <1>3 DEF OwnInv, Siblings, Target, Past
<1>5. Batch'
  BY <1>3 DEF OwnInv, Batch, Target
<1> QED BY <1>1, <1>4, <1>5 DEF StructInv

LEMMA SteadyIs ==
  ASSUME TypeInv, TypeInv', docs' = docs, foreign \subseteq foreign',
         \A p \in Path : index'.files[p] = index.files[p] /\ cache'[p] \in {None, cache[p]}
  PROVE  Steady
BY DEF Steady, File, TypeInv, Kept

LEMMA SteadyOne ==
  ASSUME OwnInv, TInv', StructInv', Steady, NEW s \in Slot,
         \A t \in Slot \ {s} : Alike(call'[t], call[t]),
         ~Renaming(call[s]), CallOK(call[s])',
         \A p \in Path : Pend(call[s], p) => Pend(call'[s], p)
  PROVE  OwnInv'
<1> DEFINE A == {s}
<1>1. A \in SUBSET Slot
  OBVIOUS
<1>2. \A t \in Slot \ A : Alike(call'[t], call[t])
  OBVIOUS
<1>3. \A t \in A : t = s
  OBVIOUS
<1>4. \A t \in A : /\ ~Renaming(call[t]) /\ CallOK(call[t])'
                   /\ \A p \in Path : Pend(call[t], p) => Pend(call'[t], p)
  BY <1>3
<1> HIDE DEF A
<1> QED BY <1>1, <1>2, <1>4, SteadyOwn

LEMMA StayOwn ==
  ASSUME OwnInv, TInv', Steady, call' = call
  PROVE  OwnInv'
<1>1. foreign \subseteq foreign'
  BY DEF Steady
<1>2. StructInv'
  BY <1>1, StructSame
<1>3. \A t \in Slot : Alike(call'[t], call[t])
  BY AlikeRefl
<1> DEFINE A == {}
<1>4. /\ A \in SUBSET Slot
      /\ \A t \in Slot \ A : Alike(call'[t], call[t])
      /\ \A t \in A : /\ ~Renaming(call[t]) /\ CallOK(call[t])'
                     /\ \A p \in Path : Pend(call[t], p) => Pend(call'[t], p)
  BY <1>3
<1> HIDE DEF A
<1> QED BY <1>2, <1>4, SteadyOwn

(* The index names a document of the path of a call, unless another call   *)
(* is about to move it.                                                    *)
LEMMA HeldAt ==
  ASSUME OwnInv, NEW p \in Path, NEW d \in Doc, File(p) = d,
         \A t \in Slot : Renaming(call[t]) /\ call[t].dest \notin foreign => call[t].path # p
  PROVE  Holds(p, d)
<1>1. None \notin Doc
  BY VolumeAssumption
<1> QED BY <1>1 DEF OwnInv, IndexOK, MovedOff

LEMMA StartOwn ==
  ASSUME OwnInv, "overlap" \notin Hazards, NEW s \in Slot, Start(s)
  PROVE  OwnInv'
<1>0. TypeInv /\ TInv /\ TInv' /\ TypeInv'
  BY StartType DEF OwnInv, TInv
<1>1. /\ docs' = docs /\ cache' = cache /\ foreign' = foreign
      /\ index'.files = index.files
      /\ call' = call \/ \E c \in Calls : Begun(s, c)
  BY <1>0, StartEnds
<1>2. Steady
  BY <1>0, <1>1, SteadyIs
<1>3. CASE call' = call
  BY <1>0, <1>2, <1>3, StayOwn
<1>4. CASE \E c \in Calls : Begun(s, c)
  <2>1. PICK c \in Calls : Begun(s, c)
    BY <1>4
  <2>2. /\ call[s] = Free /\ call' = [call EXCEPT ![s] = c]
        /\ c.op # "free" /\ c.of = None /\ c.kids = {} /\ Fresh(c, index)
        /\ c.op = "move" => Writable(index, c.dest)
        /\ \A t \in Slot, u \in {c.path, c.dest} :
             call[t] # Free => ~Related(u, call[t].path) /\ ~Related(u, call[t].dest)
    BY <2>1 DEF Begun
  <2>3. /\ call'[s] = c /\ \A t \in Slot \ {s} : call'[t] = call[t]
    BY <1>0, <2>2 DEF TypeInv
  <2>4. c # Free /\ c \in Records
    BY <2>2, FreeIsCall DEF Calls
  <2>5. Only(s)
    BY <2>3, AlikeRefl DEF Only
  <2>6. c.path \in Places /\ c.dest \in Path \cup {None}
    BY <1>0, <2>3, <2>4, <2>2 DEF Records, Places, Calls, WellFormed, ReadOK, WriteOK, RemoveOK, ListOK, MoveOK, TreeOK, Ops, TreeOps
  <2>7. Locks'
    <3> SUFFICES ASSUME NEW t \in Slot, NEW u \in Slot, t # u, call'[t] # Free, call'[u] # Free, ~Kin(t, u)'
                 PROVE  Apart(call'[t], call'[u])
      BY DEF Locks, Apart, Kin
    <3>1. CASE t # s /\ u # s
      BY <2>3, <3>1 DEF OwnInv, Locks, Kin
    <3>2. CASE t = s
      BY <2>2, <2>3, <3>2 DEF Apart
    <3>3. CASE u = s
      <4>1. call'[t] = call[t] /\ call[t] # Free /\ call[t].path \in Places /\ call[t].dest \in Path \cup {None}
        BY <1>0, <2>3, <3>3, CallPlaces
      <4>2. \A x \in {call[t].path, call[t].dest}, y \in {c.path, c.dest} : ~Related(y, x)
        BY <2>2, <4>1
      <4>3. \A x \in {call[t].path, call[t].dest}, y \in {c.path, c.dest} : ~Related(x, y)
        BY <2>6, <4>1, <4>2, RelatedNone, RelatedIs DEF Places
      <4> QED BY <2>3, <3>3, <4>1, <4>3 DEF Apart
    <3> QED BY <3>1, <3>2, <3>3
  <2>8. KeepsKids(call'[s], call[s]) /\ KeepsTree(call'[s], call[s])
    BY <2>2, <2>3 DEF KeepsKids, KeepsTree
  <2>9. StructInv'
    BY <1>0, <1>1, <2>5, <2>7, <2>8, SiblingStep, BatchStep DEF OwnInv, StructInv
  <2>10. CallOK(c)'
    <3>1. Fresh(c, index')
      <4>1. \A p : Writable(index', p) <=> Writable(index, p)
        BY <1>1 DEF Writable, AncestorFile, HasDescendant, IsFile
      <4> QED BY <1>1, <2>2, <4>1 DEF Fresh
    <3>2. c.path \in Path => \A d \in Doc : index'.files[c.path] = d => Holds(c.path, d)'
      <4> SUFFICES ASSUME c.path \in Path, NEW d \in Doc, index.files[c.path] = d
                   PROVE  Holds(c.path, d)'
        BY <1>1
      <4>1. \A t \in Slot : Renaming(call[t]) => call[t].path # c.path
        <5> SUFFICES ASSUME NEW t \in Slot, Renaming(call[t]), call[t].path = c.path PROVE FALSE
          OBVIOUS
        <5>1. call[t] # Free
          BY FreeIsQuiet
        <5> QED BY <2>2, <2>6, <5>1, RelatedIs
      <4>2. Holds(c.path, d)
        BY <4>1, HeldAt DEF File
      <4> QED BY <1>1, <4>2 DEF Holds
    <3>3. c.op = "move" => Writable(index', c.dest)
      BY <1>1, <2>2 DEF Writable, AncestorFile, HasDescendant, IsFile
    <3> QED BY <2>2, <2>4, <3>1, <3>2, <3>3, FreshOK
  <2>11. CallOK(call[s])'
    BY <2>3, <2>10, CallOKIs
  <2>12. \A t \in Slot \ {s} : Alike(call'[t], call[t])
    BY <2>5 DEF Only
  <2>13. ~Renaming(call[s]) /\ \A p : ~Pend(call[s], p)
    BY <2>2, FreeIsQuiet
  <2> QED BY <1>0, <1>2, <2>9, <2>11, <2>12, <2>13, SteadyOne
<1> QED BY <1>1, <1>3, <1>4

LEMMA ExpireOwn ==
  ASSUME OwnInv, Expire
  PROVE  OwnInv'
<1>1. TInv /\ TypeInv
  BY DEF OwnInv, TInv
<1>2. TInv' /\ docs' = docs /\ index' = index /\ call' = call /\ foreign' = foreign
      /\ \A q \in Path : cache'[q] \in {None, cache[q]}
  BY <1>1, ExpireType
<1>3. Steady
  BY <1>1, <1>2, SteadyIs DEF TInv
<1> QED BY <1>2, <1>3, StayOwn

LEMMA ProcessingOwn ==
  ASSUME OwnInv, ProcessingFails
  PROVE  OwnInv'
<1>1. TInv /\ TypeInv
  BY DEF OwnInv, TInv
<1>2. TInv' /\ ProcessingDoes
  BY <1>1, ProcessingType
<1>3. Steady
  BY <1>1, <1>2 DEF Steady, ProcessingDoes, File, TypeInv
<1> QED BY <1>2, <1>3, StayOwn DEF ProcessingDoes

LEMMA StutterOwn ==
  ASSUME OwnInv, UNCHANGED vars
  PROVE  OwnInv'
<1>1. TInv /\ TInv' /\ TypeInv /\ TypeInv'
  BY StutterType DEF OwnInv, TInv
<1>2. docs' = docs /\ index' = index /\ cache' = cache /\ call' = call /\ foreign' = foreign
  BY DEF vars
<1>3. Steady
  BY <1>1, <1>2, SteadyIs
<1> QED BY <1>1, <1>2, <1>3, StayOwn

(* A call that ends, and changes nothing else.                             *)
LEMMA EndOwn ==
  ASSUME OwnInv, TInv', NEW s \in Slot, Goes(s, Free), Steady, \A p \in Path : ~Pend(call[s], p), ~Renaming(call[s])
  PROVE  OwnInv'
<1>1. call'[s] = Free /\ Only(s) /\ foreign \subseteq foreign'
  BY DEF Goes, Only, Steady
<1>2. StructInv'
  BY <1>1, StructStep, EndsContinues
<1>3. CallOK(call[s])'
  <2>1. CallOK(Free)'
    BY DEF CallOK, AskedOK, AddingOK, UpdatedOK, AddedOK, DeletedOK, ListingOK, FoundOK, ListedOK, BulkedOK,
           KidsOK, LookingOK, PastOK, RenamedOK, MissedOK, Past, Renaming, Free, NoReq, NoAns
  <2> QED BY <1>1, <2>1, CallOKIs
<1>4. \A t \in Slot \ {s} : Alike(call'[t], call[t])
  BY <1>1 DEF Only
<1> QED BY <1>2, <1>3, <1>4, SteadyOne

LEMMA EioOwn ==
  ASSUME OwnInv, NEW s \in Slot, Eio(s), UNCHANGED <<docs, calls, events, foreign>>
  PROVE  OwnInv'
<1>1. TInv /\ TypeInv
  BY DEF OwnInv, TInv
<1>2. TInv' /\ Goes(s, Free) /\ index' = index /\ cache' = cache
  BY <1>1, EioType
<1>3. Steady
  BY <1>1, <1>2, SteadyIs DEF TInv
<1>4. call[s].ans.status # "ok"
  BY DEF Eio, Answered
<1>5. ~Renaming(call[s]) /\ \A p \in Path : ~Pend(call[s], p)
  BY <1>4 DEF Renaming, Pend
<1> QED BY <1>2, <1>3, <1>5, EndOwn

LEMMA TreeDoneOwn ==
  ASSUME OwnInv, NEW s \in Slot, TreeDone(s), UNCHANGED <<docs, calls, events, foreign>>
  PROVE  OwnInv'
<1>1. TInv /\ TypeInv
  BY DEF OwnInv, TInv
<1>2. TInv' /\ TreeDoneDoes(s)
  BY <1>1, TreeDoneType
<1>3. Idle(call[s]) /\ index'.files = index.files /\ cache' = cache /\ Goes(s, Free)
  BY <1>2 DEF TreeDoneDoes
<1>4. Steady
  BY <1>1, <1>2, <1>3, SteadyIs DEF TInv
<1>5. ~Renaming(call[s])
  BY <1>3 DEF Renaming, Idle, NoReq
<1>6. \A p \in Path : ~Pend(call[s], p)
  BY <1>1, <1>3, PendIs
<1> QED BY <1>2, <1>3, <1>4, <1>5, <1>6, EndOwn

LEMMA SteadyStep ==
  ASSUME OwnInv, TInv', NEW s \in Slot, Steady, Only(s), Continues(call'[s], call[s]),
         call[s].ans.status # "ok", CallOK(call[s])'
  PROVE  OwnInv'
<1>1. StructInv'
  BY StructStep DEF Steady
<1>2. \A t \in Slot \ {s} : Alike(call'[t], call[t])
  BY DEF Only
<1>3. ~Renaming(call[s]) /\ \A p \in Path : ~Pend(call[s], p)
  BY DEF Renaming, Pend
<1> QED BY <1>1, <1>2, <1>3, SteadyOne

(* A call that got its answer, and nothing else changed for it.            *)
Replied(c, b) ==
  /\ c.op = b.op /\ c.path = b.path /\ c.dest = b.dest /\ c.text = b.text /\ c.doc = b.doc
  /\ c.req = b.req /\ c.kids = b.kids /\ c.of = b.of /\ c # Free /\ b # Free
  /\ b.ans.status = "none" /\ c.ans.status # "none"

LEMMA RepliedIs ==
  ASSUME TypeInv, NEW s \in Slot, NEW status, NEW found, Answering(s, status, found),
         call[s].ans.status = "none", call[s].req # NoReq, status # "none"
  PROVE  /\ call'[s] \in Calls /\ Replied(call'[s], call[s]) /\ Only(s)
         /\ call'[s].ans.status = status /\ call'[s].ans.docs = found
<1>1. call'[s] \in Calls /\ \A t \in Slot \ {s} : call'[t] = call[t]
  BY DEF Answering
<1>2. Only(s)
  BY <1>1, AlikeRefl DEF Only
<1>3. call'[s].ans.status = status /\ call'[s].ans.docs = found
  BY DEF Answering
<1>4. call[s] # Free
  BY DEF Free
<1>5. call'[s] # Free
  BY <1>3 DEF Free, NoAns
<1> QED BY <1>1, <1>2, <1>3, <1>4, <1>5 DEF Replied, Answering

LEMMA RepliedContinues ==
  ASSUME TypeInv, NEW s \in Slot, Replied(call'[s], call[s]),
         Renaming(call'[s]) /\ call[s].dest \notin foreign' => call[s].path \notin foreign
  PROVE  Continues(call'[s], call[s])
<1>1. Stays(call'[s], call[s]) /\ KeepsKids(call'[s], call[s])
  BY DEF Replied, Stays, KeepsKids
<1>2. Past(call'[s]) => Past(call[s])
  BY DEF Replied, Past
<1>3. KeepsTree(call'[s], call[s])
  BY <1>2 DEF Replied, KeepsTree
<1> QED BY <1>1, <1>3 DEF Continues

(* What it knew before it still knows.                                     *)
LEMMA RepliedKept ==
  ASSUME NEW b \in Calls, NEW c \in Calls, Replied(c, b), CallOK(b), docs' = docs,
         index'.files = index.files, foreign \subseteq foreign', ~Renaming(c)
  PROVE  AskedOK(c)' /\ AddingOK(c)' /\ KidsOK(c)' /\ LookingOK(c)' /\ PastOK(c)' /\ RenamedOK(c)'
<1>1. AskedOK(c)' /\ AddingOK(c)' /\ RenamedOK(c)'
  BY DEF AskedOK, AddingOK, RenamedOK, Replied, Renaming
<1>2. KidsOK(c)'
  BY DEF CallOK, KidsOK, Replied, File
<1>3. LookingOK(c)'
  BY DEF CallOK, LookingOK, Replied, File
<1>4. ASSUME NEW p, NEW d, Holds(p, d) PROVE Holds(p, d)'
  BY <1>4 DEF Holds
<1>5. ASSUME NEW p, Clear(p) PROVE Clear(p)'
  BY <1>5 DEF Clear, File
<1>6. Past(c) => Past(b) /\ ~Renaming(b)
  BY DEF Past, Replied, Renaming
<1>7. PastOK(c)'
  <2> SUFFICES ASSUME Past(c)
               PROVE  /\ Holds(c.path, c.doc)'
                      /\ c.path \notin foreign' => File(c.path)' = c.doc
                      /\ c.dest \notin foreign' => File(c.dest)' = None
                      /\ c.path \notin foreign' /\ c.dest \notin foreign' => Clear(c.dest)'
    BY DEF PastOK, Past
  <2>1. /\ Holds(c.path, c.doc)
        /\ c.path \notin foreign => File(c.path) = c.doc
        /\ c.dest \notin foreign => File(c.dest) = None
        /\ c.path \notin foreign /\ c.dest \notin foreign => Clear(c.dest)
    BY <1>6 DEF CallOK, PastOK, Replied
  <2> QED BY <2>1, <1>4, <1>5 DEF File
<1> QED BY <1>1, <1>2, <1>3, <1>7

LEMMA FailOwn ==
  ASSUME OwnInv, "lost" \notin Hazards, NEW s \in Slot, Fail(s)
  PROVE  OwnInv'
<1>1. TInv /\ TypeInv /\ CallOK(call[s])
  BY DEF OwnInv, TInv, CallsOK
<1>2. TInv'
  BY <1>1, FailType
<1>3. /\ Answering(s, "failed", {}) /\ call[s].req # NoReq
      /\ docs' = docs /\ index' = index /\ cache' = cache /\ foreign' = foreign
      /\ call[s].ans.status = "none"
  BY <1>1, FailEnds
<1>4. Steady
  BY <1>1, <1>2, <1>3, SteadyIs DEF TInv
<1>5. PICK c \in Calls : c = call'[s]
  BY <1>1, <1>3, RepliedIs
<1>6. Replied(c, call[s]) /\ Only(s) /\ c.ans.status = "failed"
  BY <1>1, <1>3, <1>5, RepliedIs
<1>7. Continues(call'[s], call[s])
  BY <1>1, <1>5, <1>6, RepliedContinues DEF Renaming
<1>8. AskedOK(c)' /\ AddingOK(c)' /\ KidsOK(c)' /\ LookingOK(c)' /\ PastOK(c)' /\ RenamedOK(c)'
  BY <1>1, <1>3, <1>5, <1>6, CallPlaces, RepliedKept DEF Renaming
<1>9. CallOK(c)'
  <2>1. UpdatedOK(c)' /\ AddedOK(c)' /\ DeletedOK(c)'
    BY <1>6 DEF UpdatedOK, AddedOK, DeletedOK
  <2>2. ListingOK(c)' /\ FoundOK(c)' /\ ListedOK(c)' /\ BulkedOK(c)' /\ MissedOK(c)'
    BY <1>6 DEF ListingOK, FoundOK, ListedOK, BulkedOK, MissedOK
  <2> QED BY <1>8, <2>1, <2>2 DEF CallOK
<1> QED BY <1>2, <1>3, <1>4, <1>5, <1>6, <1>7, <1>9, CallOKIs, SteadyStep

(* Where a request waits for its answer, the index says what there is.     *)
LEMMA WaitingAt ==
  ASSUME OwnInv, NEW s \in Slot, call[s].ans.status = "none", NEW p \in Path, p \notin foreign,
         Touches(call[s], p)
  PROVE  Coherent(p) /\ \A t \in Slot : ~Pend(call[t], p)
<1>1. ~Pend(call[s], p)
  BY DEF Pend
<1> QED BY <1>1, CoherentAt

(* A document at a path that a waiting request looks at.                   *)
LEMMA SeenAt ==
  ASSUME OwnInv, NEW s \in Slot, call[s].ans.status = "none", NEW p \in Path, NEW d \in LiveAt(p),
         Touches(call[s], p)
  PROVE  /\ d \in Doc /\ Holds(p, d) /\ Entry(d).path = p /\ Entry(d).doc = d
         /\ p \notin foreign => File(p) = d /\ HasEntry(p, Entry(d))
<1>1. TypeInv
  BY DEF OwnInv, TInv
<1>2. /\ d \in Doc /\ docs[d] \in [path : Path, text : Texts, broken : BOOLEAN] /\ docs[d] # None /\ docs[d].path = p
      /\ Entry(d).path = p /\ Entry(d).doc = d /\ Entry(d).text = docs[d].text /\ Entry(d).broken = docs[d].broken
  BY <1>1, EntryIs DEF TypeInv
<1>3. Holds(p, d)
  BY <1>2 DEF Holds
<1>4. HasEntry(p, Entry(d))
  <2>1. docs[d] # Gone
    BY <1>1, EntryIs DEF TypeInv
  <2> QED BY <1>2, <2>1 DEF HasEntry
<1>5. p \notin foreign => File(p) = d
  BY WaitingAt DEF Coherent
<1> QED BY <1>2, <1>3, <1>4, <1>5

LEMMA NothingAt ==
  ASSUME OwnInv, NEW s \in Slot, call[s].ans.status = "none", NEW p \in Path \ foreign, LiveAt(p) = {},
         Touches(call[s], p)
  PROVE  File(p) = None
BY WaitingAt DEF Coherent

LEMMA RequestTouches ==
  ASSUME TypeInv, NEW s \in Slot, call[s].ans.status = "none", call[s] # Free
  PROVE  /\ call[s].req.kind = "find" => Touches(call[s], call[s].req.path)
         /\ call[s].req.kind \in {"list", "bulk"} => \A p \in Under(call[s].path) : Touches(call[s], p)
         /\ call[s].req.kind \in {"update", "delete", "rename", "add"} => Touches(call[s], call[s].path)
         /\ call[s].req.kind = "rename" => Touches(call[s], call[s].dest)
<1>1. /\ call[s] \in Calls /\ call[s] \in Records /\ call[s].op \in Ops /\ call[s].path \in Places
      /\ call[s].dest \in Path \cup {None} /\ call[s].of \in Slot \cup {None}
  BY CallPlaces
<1>2. /\ ReadOK(call[s]) /\ WriteOK(call[s]) /\ RemoveOK(call[s]) /\ ListOK(call[s])
      /\ MoveOK(call[s]) /\ TreeOK(call[s]) /\ AnswerOK(call[s])
  BY <1>1 DEF Calls, WellFormed
<1>3. call[s].req.kind # "none" => ~Idle(call[s])
  BY DEF Idle, NoReq
<1>4. \A x, y \in Places : IsPrefix(x, x) /\ (y \in Under(x) => IsPrefix(x, y))
  BY PlaceIs, PrefixRefl, StrictIs DEF Under
<1>5. call[s].req.kind = "find" => Touches(call[s], call[s].req.path)
  <2> SUFFICES ASSUME call[s].req.kind = "find" PROVE Touches(call[s], call[s].req.path)
    OBVIOUS
  <2>1. call[s].op \in {"read", "append", "copy", "move"}
    BY <1>1, <1>2 DEF Ops, WriteOK, RemoveOK, ListOK, TreeOK, TreeOps
  <2>2. CASE call[s].op = "move"
    <3>1. call[s].path \in Path /\ call[s].dest \in Path /\ call[s].path # None /\ call[s].dest # None
      BY <1>2, <2>2, PlaceIs DEF MoveOK
    <3>2. IF call[s].doc = None THEN call[s].req.path = call[s].path ELSE call[s].req.path = call[s].dest
      BY <1>2, <2>2 DEF MoveOK
    <3>3. Reach(call[s], call[s].req.path)
      BY <1>4, <3>1, <3>2, PlaceIs DEF Reach
    <3>4. call[s].of # None => call[s].req.path = call[s].path \/ (Past(call[s]) /\ call[s].req.path = call[s].dest)
      BY <2>2, <3>2 DEF Past
    <3> QED BY <1>3, <3>3, <3>4 DEF Touches
  <2>3. CASE call[s].op \in {"read", "append", "copy"}
    <3>1. call[s].req.path = call[s].path /\ call[s].of = None
      BY <1>2, <2>3 DEF ReadOK
    <3>2. Reach(call[s], call[s].req.path)
      BY <1>1, <1>4, <3>1 DEF Reach
    <3> QED BY <1>3, <3>1, <3>2 DEF Touches
  <2> QED BY <2>1, <2>2, <2>3
<1>6. call[s].req.kind \in {"list", "bulk"} => \A p \in Under(call[s].path) : Touches(call[s], p)
  <2> SUFFICES ASSUME call[s].req.kind \in {"list", "bulk"}, NEW p \in Under(call[s].path)
               PROVE  Touches(call[s], p)
    OBVIOUS
  <2>1. call[s].of = None
    BY <1>1, <1>2 DEF Ops, ReadOK, WriteOK, MoveOK, RemoveOK, ListOK, TreeOK, TreeOps
  <2>2. Reach(call[s], p)
    BY <1>1, <1>4, PlaceIs DEF Reach, Under
  <2> QED BY <1>3, <2>1, <2>2 DEF Touches
<1>7. call[s].req.kind \in {"update", "delete", "rename", "add"} => Touches(call[s], call[s].path)
  BY <1>1, <1>3, <1>4 DEF Touches, Reach
<1>8. call[s].req.kind = "rename" => Touches(call[s], call[s].dest)
  <2> SUFFICES ASSUME call[s].req.kind = "rename" PROVE Touches(call[s], call[s].dest)
    OBVIOUS
  <2>1. call[s].op = "move"
    BY <1>1, <1>2 DEF Ops, ReadOK, WriteOK, RemoveOK, ListOK, TreeOK, TreeOps
  <2>2. call[s].dest \in Path /\ call[s].dest # None /\ call[s].doc \in Doc
    BY <1>2, <2>1, PlaceIs DEF MoveOK
  <2>3. Reach(call[s], call[s].dest)
    BY <1>4, <2>2, PlaceIs DEF Reach
  <2>4. Past(call[s])
    BY <2>1, <2>2, VolumeAssumption DEF Past
  <2> QED BY <1>3, <2>3, <2>4 DEF Touches
<1> QED BY <1>5, <1>6, <1>7, <1>8

LEMMA RequestIs ==
  ASSUME NEW c \in Calls, c # Free
  PROVE  /\ c.req.kind = "list" => c.req.path = c.path /\ c.of = None /\ c.kids = {} /\ c.op # "move"
         /\ c.req.kind = "bulk" => c.op = "rmtree" /\ c.req.path = c.path /\ c.of = None
         /\ c.req.kind = "find" => /\ c.op \in {"read", "append", "copy", "move"} /\ c.req.path \in Path
                                   /\ c.kids = {} /\ c.op # "move" => c.of = None
         /\ c.req.kind \in {"update", "delete", "rename"} => c.req.doc \in Doc /\ c.path \in Path /\ c.kids = {}
         /\ c.req.kind = "delete" => c.op = "remove" /\ c.of = None
         /\ c.req.kind \in {"update", "add"} => c.op = "write" /\ c.path \in Path /\ c.kids = {} /\ c.doc = None
         /\ c.req.kind = "rename" => c.op = "move" /\ c.doc = c.req.doc /\ c.dest \in Path
<1>1. /\ ReadOK(c) /\ WriteOK(c) /\ RemoveOK(c) /\ ListOK(c) /\ MoveOK(c) /\ TreeOK(c) /\ AnswerOK(c)
      /\ c \in Records /\ c.op \in Ops
  BY DEF Calls, WellFormed, Records
<1>2. c.req.kind = "list" => c.op \in {"rmdir", "list", "warm"} \cup TreeOps
  BY <1>1 DEF Ops, ReadOK, WriteOK, RemoveOK, MoveOK, TreeOps
<1>3. c.req.kind = "list" => c.req.path = c.path /\ c.of = None /\ c.kids = {} /\ c.op # "move"
  BY <1>1, <1>2 DEF ListOK, TreeOK, TreeOps
<1>4. c.req.kind = "bulk" => c.op = "rmtree" /\ c.req.path = c.path /\ c.of = None
  BY <1>1 DEF Ops, ReadOK, WriteOK, RemoveOK, MoveOK, ListOK, TreeOK, TreeOps
<1>5. c.req.kind = "find" => c.op \in {"read", "append", "copy", "move"}
  BY <1>1 DEF Ops, WriteOK, RemoveOK, ListOK, TreeOK, TreeOps
<1>6. c.req.kind = "find" => c.req.path \in Path /\ c.kids = {} /\ (c.op # "move" => c.of = None)
  BY <1>1, <1>5 DEF ReadOK, MoveOK, TreeOK, TreeOps
<1>7. c.req.kind = "delete" => c.op = "remove"
  BY <1>1 DEF Ops, ReadOK, WriteOK, RemoveOK, MoveOK, ListOK, TreeOK, TreeOps
<1>8. c.req.kind = "rename" => c.op = "move"
  BY <1>1 DEF Ops, ReadOK, WriteOK, RemoveOK, ListOK, TreeOK, TreeOps
<1>9. c.req.kind \in {"update", "add"} => c.op = "write"
  BY <1>1 DEF Ops, ReadOK, MoveOK, RemoveOK, ListOK, TreeOK, TreeOps
<1>10. c.op \in {"write", "move", "remove"} => c.kids = {} /\ c.path \in Path /\ (c.op # "move" => c.doc = None)
  BY <1>1 DEF WriteOK, MoveOK, RemoveOK, TreeOK, TreeOps, AnswerOK
<1>11. c.req.kind = "delete" => c.req.doc \in Doc /\ c.of = None
  BY <1>1, <1>7 DEF RemoveOK
<1>12. c.req.kind = "rename" => c.doc = c.req.doc /\ c.dest \in Path /\ c.req.doc \in Doc
  BY <1>1, <1>8 DEF MoveOK
<1>13. c.req.kind = "update" => c.req.doc \in Doc
  BY <1>1, <1>9 DEF WriteOK
<1> QED BY <1>3, <1>4, <1>5, <1>6, <1>7, <1>8, <1>9, <1>10, <1>11, <1>12, <1>13

(* An answer that changes nothing on the server.                           *)
LEMMA ReplyOwn ==
  ASSUME OwnInv, TInv', NEW s \in Slot, NEW status, NEW found, Answering(s, status, found), status # "none",
         call[s].ans.status = "none", call[s].req # NoReq, call[s].req.kind # "rename" \/ status # "ok",
         docs' = docs, index' = index, cache' = cache, foreign \subseteq foreign',
         NEW c \in Calls, c = call'[s], Replied(c, call[s]) =>
           /\ UpdatedOK(c)' /\ AddedOK(c)' /\ DeletedOK(c)'
           /\ ListingOK(c)' /\ FoundOK(c)' /\ ListedOK(c)' /\ BulkedOK(c)' /\ MissedOK(c)'
  PROVE  OwnInv'
<1>1. TInv /\ TypeInv /\ CallOK(call[s]) /\ call[s] \in Calls
  BY CallPlaces DEF OwnInv, TInv, CallsOK
<1>2. Steady
  BY <1>1, SteadyIs DEF TInv
<1>3. Replied(c, call[s]) /\ Only(s) /\ c.ans.status = status
  BY <1>1, RepliedIs
<1>4. ~Renaming(c)
  BY <1>3 DEF Renaming, Replied
<1>5. Continues(call'[s], call[s])
  BY <1>1, <1>3, <1>4, RepliedContinues
<1>6. AskedOK(c)' /\ AddingOK(c)' /\ KidsOK(c)' /\ LookingOK(c)' /\ PastOK(c)' /\ RenamedOK(c)'
  BY <1>1, <1>3, <1>4, RepliedKept
<1>7. CallOK(c)'
  BY <1>3, <1>6 DEF CallOK
<1> QED BY <1>2, <1>3, <1>5, <1>7, CallOKIs, SteadyStep

LEMMA FindOwn ==
  ASSUME OwnInv, TInv', NEW s \in Slot, Find(s), index' = index, cache' = cache, foreign \subseteq foreign'
  PROVE  OwnInv'
<1>1. TInv /\ TypeInv /\ CallOK(call[s])
  BY DEF OwnInv, TInv, CallsOK
<1>2. docs' = docs /\ call[s].req.kind = "find" /\ FindDoes(s)
  BY <1>1, FindEnds
<1>3. call[s].ans.status = "none"
  BY DEF Find, Asked, NoAns
<1>4. PICK found : /\ Fits(s, "ok", found)
                   /\ \/ found = {} /\ LiveAt(call[s].req.path) = {}
                      \/ \E d \in LiveAt(call[s].req.path) : found = {Entry(d)}
  BY <1>2 DEF FindDoes
<1>5. Answering(s, "ok", found) /\ call[s].req # NoReq
  BY <1>1, <1>4, FitsAnswers DEF Fits
<1>6. PICK c \in Calls : c = call'[s]
  BY <1>1, <1>3, <1>5, RepliedIs
<1>7. c.ans.docs = found
  BY <1>1, <1>3, <1>5, <1>6, RepliedIs
<1>8. call[s] # Free /\ call[s].req.path \in Path
  BY <1>1, <1>2, CallPlaces, RequestIs DEF Free, NoReq
<1>9. Touches(call[s], call[s].req.path)
  BY <1>1, <1>2, <1>3, <1>8, RequestTouches
<1>10. ASSUME Replied(c, call[s])
       PROVE  /\ UpdatedOK(c)' /\ AddedOK(c)' /\ DeletedOK(c)'
              /\ ListingOK(c)' /\ FoundOK(c)' /\ ListedOK(c)' /\ BulkedOK(c)' /\ MissedOK(c)'
  <2>1. c.req.kind = "find" /\ c.req.path = call[s].req.path
    BY <1>2, <1>10 DEF Replied
  <2>2. UpdatedOK(c)' /\ AddedOK(c)' /\ DeletedOK(c)' /\ ListedOK(c)' /\ BulkedOK(c)' /\ MissedOK(c)'
    BY <2>1 DEF UpdatedOK, AddedOK, DeletedOK, ListedOK, BulkedOK, MissedOK
  <2>3. ListingOK(c)'
    <3> SUFFICES ASSUME NEW e \in found
                 PROVE  /\ Holds(e.path, e.doc)'
                        /\ e.path \notin foreign' =>
                             index'.files[e.path] = e.doc /\ HasEntry(e.path, e)'
      <4>1. OneEach(found)
        BY <1>4 DEF OneEach
      <4> QED BY <1>7, <4>1 DEF ListingOK, File
    <3>1. PICK d \in LiveAt(call[s].req.path) : e = Entry(d)
      BY <1>4
    <3>3. /\ e.path = call[s].req.path /\ e.doc = d /\ Holds(call[s].req.path, d)
          /\ call[s].req.path \notin foreign => File(call[s].req.path) = d /\ HasEntry(call[s].req.path, e)
      BY <1>3, <1>8, <1>9, <3>1, SeenAt
    <3>2. /\ Holds(e.path, e.doc)
          /\ e.path \notin foreign => File(e.path) = e.doc /\ HasEntry(e.path, e)
      BY <3>3
    <3> QED BY <1>2, <3>2 DEF Holds, File, HasEntry
  <2>4. FoundOK(c)'
    <3> SUFFICES ASSUME found = {}, c.req.path \notin foreign' PROVE File(c.req.path)' = None
      BY <1>7 DEF FoundOK, File
    <3>1. LiveAt(call[s].req.path) = {}
      BY <1>4
    <3> QED BY <1>3, <1>8, <1>9, <2>1, <3>1, NothingAt DEF File
  <2> QED BY <2>2, <2>3, <2>4
<1> QED BY <1>2, <1>3, <1>5, <1>6, <1>10, ReplyOwn

LEMMA ListOwn ==
  ASSUME OwnInv, TInv', NEW s \in Slot, ListDocs(s), index' = index, cache' = cache, foreign \subseteq foreign'
  PROVE  OwnInv'
<1>1. TInv /\ TypeInv /\ CallOK(call[s])
  BY DEF OwnInv, TInv, CallsOK
<1>2. docs' = docs /\ call[s].req.kind = "list" /\ ListDoes(s)
  BY <1>1, ListEnds
<1>3. call[s].ans.status = "none"
  BY DEF ListDocs, Asked, NoAns
<1>4. PICK found : /\ Fits(s, "ok", found)
                   /\ \A e : e \in found <=> \E p \in Under(call[s].req.path) : \E d \in LiveAt(p) : e = Entry(d)
  BY <1>2 DEF ListDoes
<1>5. Answering(s, "ok", found) /\ call[s].req # NoReq
  BY <1>1, <1>4, FitsAnswers DEF Fits
<1>6. PICK c \in Calls : c = call'[s]
  BY <1>1, <1>3, <1>5, RepliedIs
<1>7. c.ans.docs = found
  BY <1>1, <1>3, <1>5, <1>6, RepliedIs
<1>8. call[s] # Free /\ call[s].req.path = call[s].path
  BY <1>1, <1>2, CallPlaces, RequestIs DEF Free, NoReq
<1>9. \A p \in Under(call[s].path) : p \in Path /\ Touches(call[s], p)
  BY <1>1, <1>2, <1>3, <1>8, RequestTouches DEF Under
<1>10. ASSUME Replied(c, call[s])
       PROVE  /\ UpdatedOK(c)' /\ AddedOK(c)' /\ DeletedOK(c)'
              /\ ListingOK(c)' /\ FoundOK(c)' /\ ListedOK(c)' /\ BulkedOK(c)' /\ MissedOK(c)'
  <2>1. c.req.kind = "list" /\ c.path = call[s].path
    BY <1>2, <1>10 DEF Replied
  <2>2. UpdatedOK(c)' /\ AddedOK(c)' /\ DeletedOK(c)' /\ FoundOK(c)' /\ BulkedOK(c)' /\ MissedOK(c)'
    BY <2>1 DEF UpdatedOK, AddedOK, DeletedOK, FoundOK, BulkedOK, MissedOK
  <2>3. ListingOK(c)'
    <3> SUFFICES ASSUME NEW e \in found
                 PROVE  /\ Holds(e.path, e.doc)'
                        /\ e.path \notin foreign' =>
                             index'.files[e.path] = e.doc /\ HasEntry(e.path, e)'
      <4>1. OneEach(found)
        BY <1>4 DEF OneEach, Entry
      <4> QED BY <1>7, <4>1 DEF ListingOK, File
    <3>0. PICK p \in Under(call[s].path) : \E d \in LiveAt(p) : e = Entry(d)
      BY <1>4, <1>8
    <3>1. PICK d \in LiveAt(p) : e = Entry(d)
      BY <3>0
    <3>3. /\ e.path = p /\ e.doc = d /\ Holds(p, d)
          /\ p \notin foreign => File(p) = d /\ HasEntry(p, e)
      BY <1>3, <1>9, <3>1, SeenAt
    <3>2. /\ Holds(e.path, e.doc)
          /\ e.path \notin foreign => File(e.path) = e.doc /\ HasEntry(e.path, e)
      BY <3>3
    <3> QED BY <1>2, <3>2 DEF Holds, File, HasEntry
  <2>4. ListedOK(c)'
    <3>1. ASSUME NEW p \in Under(c.path), LiveAt(p) # {} PROVE \E e \in found : e.path = p
      <4>1. PICK d \in LiveAt(p) : TRUE
        BY <3>1
      <4>2. Entry(d) \in found
        BY <1>4, <1>8, <2>1
      <4>3. Entry(d).path = p
        BY <1>3, <1>9, <2>1, SeenAt
      <4> QED BY <4>2, <4>3
    <3>2. \A p : LiveAt(p)' = LiveAt(p)
      BY <1>2 DEF LiveAt, Unused
    <3> QED BY <1>7, <3>1, <3>2 DEF ListedOK, Under
  <2> QED BY <2>2, <2>3, <2>4
<1> QED BY <1>2, <1>3, <1>5, <1>6, <1>10, ReplyOwn

LEMMA MissingOwn ==
  ASSUME OwnInv, TInv', NEW s \in Slot, NEW kind \in {"update", "rename", "delete"}, PatchDoes(s, kind),
         docs[call[s].req.doc] = Gone, docs' = docs, Fits(s, "missing", {}),
         index' = index, cache' = cache, foreign \subseteq foreign'
  PROVE  OwnInv'
<1>1. TInv /\ TypeInv /\ CallOK(call[s]) /\ None \notin Doc
  BY VolumeAssumption DEF OwnInv, TInv, CallsOK
<1>2. /\ call[s].req.doc \in Doc /\ call[s].req.kind = kind /\ call[s].ans = NoAns
  BY DEF PatchDoes
<1>3. call[s].ans.status = "none"
  BY <1>2 DEF NoAns
<1>4. Answering(s, "missing", {}) /\ call[s].req # NoReq
  BY <1>1, FitsAnswers DEF Fits
<1>5. PICK c \in Calls : c = call'[s]
  BY <1>1, <1>3, <1>4, RepliedIs
<1>6. call[s] # Free
  BY <1>2 DEF Free, NoReq
<1>7. call[s].path \in Path /\ Touches(call[s], call[s].path)
  BY <1>1, <1>2, <1>3, <1>6, RequestTouches, RequestIs, CallPlaces
<1>8. File(call[s].path) = call[s].req.doc => call[s].path \in foreign
  <2> SUFFICES ASSUME File(call[s].path) = call[s].req.doc, call[s].path \notin foreign PROVE FALSE
    OBVIOUS
  <2>1. call[s].req.doc \in LiveAt(call[s].path)
    BY <1>1, <1>2, <1>3, <1>7, WaitingAt DEF Coherent
  <2>2. docs[call[s].req.doc].path = call[s].path
    BY <2>1 DEF LiveAt
  <2> QED BY <1>7, <2>2, PlaceIs DEF Gone
<1>9. ASSUME Replied(c, call[s])
       PROVE  /\ UpdatedOK(c)' /\ AddedOK(c)' /\ DeletedOK(c)'
              /\ ListingOK(c)' /\ FoundOK(c)' /\ ListedOK(c)' /\ BulkedOK(c)' /\ MissedOK(c)'
  <2>1. c.ans.status = "missing" /\ c.req.kind = kind /\ c.path = call[s].path
    BY <1>1, <1>2, <1>3, <1>4, <1>5, <1>9, RepliedIs DEF Replied
  <2>2. UpdatedOK(c)' /\ AddedOK(c)' /\ ListingOK(c)' /\ FoundOK(c)' /\ ListedOK(c)' /\ BulkedOK(c)'
    BY <2>1 DEF UpdatedOK, AddedOK, ListingOK, FoundOK, ListedOK, BulkedOK
  <2>3. DeletedOK(c)'
    <3> SUFFICES ASSUME kind = "delete" PROVE call[s].path \in foreign
      BY <2>1 DEF DeletedOK
    <3>1. call[s].path \notin foreign => File(call[s].path) = call[s].req.doc
      BY <1>1, <1>2, <1>3 DEF CallOK, AskedOK
    <3> QED BY <3>1, <1>8
  <2>4. MissedOK(c)'
    <3> SUFFICES ASSUME kind = "rename" PROVE call[s].path \in foreign
      BY <2>1 DEF MissedOK
    <3>1. call[s].op = "move" /\ call[s].doc = call[s].req.doc
      BY <1>1, <1>2, <1>6, RequestIs, CallPlaces
    <3>2. Past(call[s]) /\ ~Renaming(call[s])
      BY <1>1, <1>2, <1>3, <3>1 DEF Past, Renaming
    <3>3. call[s].path \notin foreign => File(call[s].path) = call[s].req.doc
      BY <1>1, <3>1, <3>2 DEF CallOK, PastOK
    <3> QED BY <3>3, <1>8
  <2> QED BY <2>2, <2>3, <2>4
<1> QED BY <1>2, <1>3, <1>4, <1>5, <1>9, ReplyOwn

(* What the index names at the path of a call, no other call moves.        *)
LEMMA HeldTouched ==
  ASSUME OwnInv, foreign \subseteq foreign', NEW s \in Slot, NEW p \in Path, Touches(call[s], p),
         call[s].of # None => p = call[s].path,
         Renaming(call[s]) => call[s].path # p, NEW d \in Doc, File(p) = d
  PROVE  Holds(p, d)
<1>1. Within(s, {p}, {})
  BY DEF Within
<1>2. TypeInv
  BY DEF OwnInv, TInv
<1>3. ASSUME NEW t \in Slot, Renaming(call[t]), call[t].dest \notin foreign PROVE call[t].path # p
  <2>1. CASE t = s
    BY <1>3, <2>1
  <2>2. CASE t # s
    <3>1. call[t] # Free
      BY <1>3, FreeIsQuiet
    <3>2. Sep({p}, {}, call[t])
      BY <1>1, <2>2, <3>1, SepIs
    <3>3. call[t].op = "move" /\ ~Idle(call[t])
      BY <1>2, <1>3, <3>1, CallPlaces, RequestIs DEF Renaming, Idle, NoReq
    <3>4. Mine(call[t])
      BY <1>3, <3>3 DEF Mine, Renaming
    <3> QED BY <3>2, <3>3, <3>4 DEF Sep
  <2> QED BY <2>1, <2>2
<1> QED BY <1>3, HeldAt

LEMMA StartKidOwn ==
  ASSUME OwnInv, NEW s \in Slot, StartKid(s), UNCHANGED <<docs, calls, events, foreign>>
  PROVE  OwnInv'
<1>1. TInv /\ TypeInv /\ CallOK(call[s])
  BY DEF OwnInv, TInv, CallsOK
<1>2. TInv' /\ StartKidDoes(s)
  BY <1>1, StartKidType
<1>3. /\ call[s].of # None /\ call[s].req = NoReq /\ call[s].op \in {"write", "move"}
      /\ index' = index /\ cache' = cache
  BY <1>2 DEF StartKidDoes
<1>4. PICK c \in Calls :
           /\ Goes(s, c)
           /\ c = Free \/ /\ c.op = call[s].op /\ c.path = call[s].path /\ c.dest = call[s].dest
                          /\ c.of = call[s].of /\ c.kids = {} /\ Fresh(c, index)
                          /\ c.op = "move" => Writable(index, c.dest)
  BY <1>2 DEF StartKidDoes
<1>5. Steady
  BY <1>1, <1>2, <1>3, SteadyIs DEF TInv
<1>6. call[s] # Free /\ call[s] \in Calls /\ call[s].path \in Path /\ ~Idle(call[s])
  BY <1>1, <1>3, CallPlaces, KinIs
<1>7. call[s].ans = NoAns /\ (call[s].op = "move" => call[s].doc = None)
  BY <1>3, <1>6 DEF Calls, WellFormed, AnswerOK, MoveOK, NoReq
<1>8. call[s].ans.status = "none"
  BY <1>7 DEF NoAns
<1>9. CASE c = Free
  <2>1. ~Renaming(call[s]) /\ \A p : ~Pend(call[s], p)
    BY <1>8 DEF Renaming, Pend
  <2> QED BY <1>2, <1>4, <1>5, <1>9, <2>1, EndOwn
<1>10. CASE c # Free
  <2>1. /\ c.op = call[s].op /\ c.path = call[s].path /\ c.dest = call[s].dest
        /\ c.of = call[s].of /\ c.kids = {} /\ Fresh(c, index)
        /\ c.op = "move" => Writable(index, c.dest)
    BY <1>4, <1>10
  <2>2. call'[s] = c /\ Only(s)
    BY <1>4 DEF Goes, Only
  <2>3. c.ans = NoAns /\ c.ans.status = "none"
    BY <2>1 DEF Fresh, NoAns
  <2>4. Continues(call'[s], call[s])
    <3>1. Past(c) => File(c.dest) = None
      BY <2>1 DEF Past, Fresh, File
    <3>2. ~Renaming(c)
      BY <2>3 DEF Renaming
    <3>3. KeepsTree(call'[s], call[s])
      BY <1>8, <2>1, <2>2, <2>3, <3>1, <3>2 DEF KeepsTree
    <3> QED BY <1>6, <2>1, <2>2, <3>3 DEF Continues, Stays, KeepsKids
  <2>5. Touches(call[s], call[s].path)
    BY <1>3, <1>6, <1>8 DEF Touches
  <2>6. \A d \in Doc : index'.files[c.path] = d => Holds(c.path, d)'
    <3> SUFFICES ASSUME NEW d \in Doc, index.files[c.path] = d PROVE Holds(c.path, d)'
      BY <1>3
    <3>1. ~Renaming(call[s])
      BY <1>8 DEF Renaming
    <3>2. Holds(c.path, d)
      BY <1>5, <1>6, <2>1, <2>5, <3>1, HeldTouched DEF Steady, File
    <3> QED BY <3>2 DEF Holds
  <2>7. c.op = "move" /\ c.doc = None /\ c.path \notin foreign' => c.of = None
    <3> SUFFICES ASSUME c.op = "move", c.doc = None, c.path \notin foreign PROVE FALSE
      OBVIOUS
    <3>1. File(c.path) = None
      BY <2>1 DEF Fresh, File
    <3>2. File(call[s].path) # None
      BY <1>1, <1>3, <1>7, <1>8, <2>1 DEF CallOK, LookingOK
    <3> QED BY <2>1, <3>1, <3>2
  <2>8. Fresh(c, index') /\ (c.op = "move" => Writable(index', c.dest))
    BY <1>3, <2>1
  <2>9. CallOK(c)'
    BY <1>10, <2>1, <2>6, <2>7, <2>8, FreshOK
  <2> QED BY <1>2, <1>5, <1>8, <2>2, <2>4, <2>9, CallOKIs, SteadyStep
<1> QED BY <1>9, <1>10

(* A step of the server: the documents that it changes are at Y, or where  *)
(* others are.                                                             *)
Changes(Y) ==
  \A d \in Doc : docs'[d] # docs[d] =>
    /\ docs'[d] # None
    /\ docs[d] = None \/ docs[d].path \in Y \cup foreign'
    /\ docs'[d] = Gone \/ docs'[d].path \in Y \cup foreign'
    /\ docs[d] # None /\ docs'[d] # Gone /\ docs'[d].path \notin foreign' =>
         \A q \in Path : Holds(q, d) => docs'[d].path = q \/ (q \in Y /\ q \notin foreign')

LEMMA DocsFrame ==
  ASSUME TypeInv, TypeInv', NEW Y \in SUBSET Path, foreign \subseteq foreign', Changes(Y),
         index' = index, cache' = cache
  PROVE  Frame(Y, {})
<1>1. foreign' \subseteq Path
  BY DEF TypeInv
<1>2. \A p \in Path : File(p)' = File(p) /\ cache'[p] = cache[p]
  BY DEF File
<1>3. ASSUME NEW p \in Path \ (Y \cup foreign')
      PROVE  LiveAt(p)' = LiveAt(p) /\ \A d \in LiveAt(p) : Kept(d)
  <2>0. p # None
    BY PlaceIs
  <2>1. ASSUME NEW d \in LiveAt(p) PROVE docs'[d] = docs[d] /\ d \in LiveAt(p)'
    <3>1. d \in Doc /\ docs[d] # None /\ docs[d].path = p
      BY <2>1 DEF LiveAt, Unused
    <3>2. docs'[d] = docs[d]
      BY <1>3, <3>1 DEF Changes
    <3> QED BY <3>1, <3>2 DEF LiveAt, Unused
  <2>2. ASSUME NEW d \in LiveAt(p)' PROVE d \in LiveAt(p)
    <3>1. d \in Doc /\ docs'[d] # None /\ docs'[d].path = p
      BY <2>2 DEF LiveAt, Unused
    <3>2. docs'[d] # Gone
      BY <2>0, <3>1 DEF Gone
    <3>3. docs'[d] = docs[d]
      BY <1>3, <3>1, <3>2 DEF Changes
    <3> QED BY <3>1, <3>3 DEF LiveAt, Unused
  <2> QED BY <2>1, <2>2 DEF Kept
<1>4. ASSUME NEW q \in Path, NEW d \in Doc, Holds(q, d)
      PROVE  Holds(q, d)' \/ (q \in Y /\ q \notin foreign')
  <2>1. CASE docs'[d] = docs[d]
    BY <1>4, <2>1 DEF Holds
  <2>2. CASE docs'[d] # docs[d]
    BY <1>4, <2>2 DEF Holds, Changes
  <2> QED BY <2>1, <2>2
<1> QED BY <1>1, <1>2, <1>3, <1>4 DEF Frame

(* The index goes on being right about a document whose path stays.        *)
KeepsPath(e) ==
  \/ docs'[e] = docs[e] \/ docs'[e] = Gone
  \/ docs[e] # None /\ docs[e] # Gone /\ docs'[e] # None /\ docs'[e].path = docs[e].path

LEMMA GoneIs == Gone # None /\ Gone.path = None
<1>1. {} \in SUBSET Line /\ None \in Path \cup {None}
  OBVIOUS
<1>2. None # [path |-> None, text |-> {}, broken |-> FALSE]
  BY <1>1, VolumeAssumption
<1> QED BY <1>2 DEF Gone

LEMMA HoldsKept ==
  ASSUME foreign \subseteq foreign', NEW p, NEW e, Holds(p, e), KeepsPath(e)
  PROVE  Holds(p, e)'
BY GoneIs DEF Holds, KeepsPath

LEMMA IndexKeep ==
  ASSUME OwnInv, index' = index, NEW s \in Slot, Only(s), ~Renaming(call[s]), foreign \subseteq foreign',
         NEW x \in Path, File(x) # None, KeepsPath(File(x))
  PROVE  Holds(x, File(x))' \/ \E t \in Slot : MovedOff(call[t], x, File(x))'
<1>1. TypeInv /\ CallsOK
  BY DEF OwnInv, TInv
<1>2. File(x)' = File(x)
  BY DEF File
<1>3. CASE Holds(x, File(x))
  <2>1. PICK e : e = File(x)
    OBVIOUS
  <2>2. Holds(x, e)'
    BY <1>3, <2>1, HoldsKept
  <2> QED BY <1>2, <2>1, <2>2 DEF Holds
<1>4. CASE \E t \in Slot : MovedOff(call[t], x, File(x))
  <2>1. PICK t \in Slot : MovedOff(call[t], x, File(x))
    BY <1>4
  <2>2. t # s /\ Renaming(call[t]) /\ call[t].path = x /\ call[t].doc = File(x) /\ call[t].dest \notin foreign
    BY <2>1 DEF MovedOff
  <2>3. call[t] \in Calls /\ Alike(call'[t], call[t])
    BY <1>1, <2>2, CallPlaces DEF Only
  <2>4. CASE call[t].dest \notin foreign'
    <3>1. MovedOff(call[t], x, File(x))'
      BY <1>2, <2>2, <2>3, <2>4, AlikeIs DEF MovedOff, Renaming
    <3> QED BY <3>1
  <2>5. CASE call[t].dest \in foreign'
    <3>1. PICK e : e = File(x)
      OBVIOUS
    <3>5. PICK q : q = call[t].dest
      OBVIOUS
    <3>2. Holds(q, e)
      BY <1>1, <2>2, <3>1, <3>5 DEF CallsOK, CallOK, RenamedOK
    <3>3. Holds(q, e)'
      BY <3>1, <3>2, HoldsKept
    <3>4. Holds(x, e)'
      BY <2>5, <3>3, <3>5 DEF Holds
    <3> QED BY <1>2, <3>1, <3>4 DEF Holds
  <2> QED BY <2>4, <2>5
<1> QED BY <1>3, <1>4 DEF OwnInv, IndexOK

(* Above and below a target nothing lives that the index does not name.    *)
LEMMA NearEmpty ==
  ASSUME OwnInv, NEW s \in Slot, call[s] # Free, ~Idle(call[s]), call[s].ans.status = "none",
         NEW p \in Path \ foreign, p = Target(call[s]), NEW r \in Path \ foreign, Near(r, p), File(r) = None
  PROVE  LiveAt(r) = {}
<1>1. TypeInv /\ CallsOK
  BY DEF OwnInv, TInv
<1>2. Related(r, p) /\ Related(p, r)
  BY RelatedIs, PlaceIs
<1>3. CASE Coherent(r)
  BY <1>3 DEF Coherent
<1>4. CASE \E t \in Slot : Pend(call[t], r)
  <2>1. PICK t \in Slot : Pend(call[t], r)
    BY <1>4
  <2>2. /\ t # s /\ call[t] # Free /\ ~Idle(call[t]) /\ Reach(call[t], r) /\ call[t].ans.status = "ok"
        /\ call[t].op = "write" => r = call[t].path
        /\ call[t].op = "move" => Renaming(call[t]) /\ Past(call[t]) /\ r \in {call[t].path, call[t].dest}
    BY <1>1, <2>1, PendIs
  <2>3. CASE ~Kin(s, t)
    <3>1. Apart(call[t], call[s])
      BY <2>2, <2>3 DEF OwnInv, Locks, Kin
    <3>2. p \in {call[s].path, call[s].dest} /\ p \in Places /\ r \in Places
      BY PlaceIs DEF Target
    <3> QED BY <1>1, <1>2, <2>2, <3>1, <3>2, FarApart
  <2>4. CASE Kin(s, t)
    <3>1. call[s].of = call[t].of /\ call[s].of # None
      <4>1. call[t].of # s
        BY <1>1, KinIs, VolumeAssumption
      <4>2. call[s].of # t
        BY <1>1, <2>2, KinIs, VolumeAssumption
      <4> QED BY <2>4, <4>1, <4>2 DEF Kin
    <3>2. call[s].op = call[t].op /\ call[t].op \in {"write", "move"}
      BY <1>1, <3>1, KinIs
    <3>3. CASE r = Target(call[t])
      BY <1>2, <2>2, <3>1, <3>3 DEF OwnInv, Siblings
    <3>4. CASE r # Target(call[t])
      <4>1. Renaming(call[t]) /\ r = call[t].path
        BY <2>2, <3>2, <3>4 DEF Target
      <4> QED BY <1>1, <4>1 DEF CallsOK, CallOK, RenamedOK
    <3> QED BY <3>3, <3>4
  <2> QED BY <2>3, <2>4
<1> QED BY <1>3, <1>4 DEF OwnInv, Coh

LEMMA ServedOwn ==
  ASSUME OwnInv, TInv', NEW s \in Slot, NEW found, Answering(s, "ok", found),
         call[s].ans.status = "none", call[s].req # NoReq, call[s].req.kind # "none",
         index' = index, cache' = cache, foreign \subseteq foreign',
         NEW Y \in SUBSET Path, Changes(Y), \A y \in Y : Touches(call[s], y),
         call[s].req.kind = "rename" /\ call[s].path \in foreign => call[s].dest \in foreign',
         NEW c \in Calls, c = call'[s],
         Replied(c, call[s]) => /\ UpdatedOK(c)' /\ AddedOK(c)' /\ DeletedOK(c)' /\ KidsOK(c)' /\ LookingOK(c)'
                                /\ ListingOK(c)' /\ FoundOK(c)' /\ ListedOK(c)' /\ BulkedOK(c)' /\ PastOK(c)'
                                /\ RenamedOK(c)',
         \A x \in Y : File(x) # None => Holds(x, File(x))' \/ \E t \in Slot : MovedOff(call[t], x, File(x))',
         \A p \in Y \ foreign' : Replied(c, call[s]) /\ c.ans.status = "ok" => Pend(c, p),
         \A p \in Path \ foreign' : LiveAt(p)' # {} =>
            LiveAt(p) # {} \/ \A r \in Path \ foreign' : Near(r, p) => LiveAt(r)' = {}
  PROVE  OwnInv'
<1>1. TInv /\ TypeInv /\ CallOK(call[s]) /\ call[s] \in Calls /\ TypeInv'
  BY CallPlaces DEF OwnInv, TInv, CallsOK
<1>2. Replied(c, call[s]) /\ Only(s) /\ c.ans.status = "ok"
  BY <1>1, RepliedIs
<1>3. Frame(Y, {})
  BY <1>1, DocsFrame
<1>4. Within(s, Y, {})
  BY DEF Within, File
<1>5. Continues(call'[s], call[s])
  BY <1>1, <1>2, RepliedContinues DEF Renaming, Replied
<1>6. AskedOK(c)' /\ AddingOK(c)' /\ MissedOK(c)'
  BY <1>2 DEF AskedOK, AddingOK, MissedOK
<1>7. CallOK(c)'
  BY <1>2, <1>6 DEF CallOK
<1>8. CallOK(call[s])'
  BY <1>7, CallOKIs
<1>9. ~Renaming(call[s]) /\ \A p : ~Pend(call[s], p)
  BY DEF Renaming, Pend
<1>10. CacheOK'
  BY DEF OwnInv, CacheOK, File
<1>11. \A p \in Y \ foreign' : \E t \in Slot : Pend(call'[t], p)
  BY <1>2
<1>12. \A x \in Y : File(x)' # None => Holds(x, File(x))' \/ \E t \in Slot : MovedOff(call[t], x, File(x))'
  BY DEF File
<1>13. {} \in SUBSET Y
  OBVIOUS
<1>14. StructInv'
  BY <1>2, <1>5, StructStep
<1> QED BY <1>2, <1>3, <1>4, <1>14, <1>8, <1>9, <1>10, <1>11, <1>12, <1>13, StepOwn

(* What is known of a request other than a lookup.                         *)
LEMMA OnlyKind ==
  ASSUME NEW c \in Calls, c # Free
  PROVE  /\ c.req.kind \notin {"find", "list"} => ListingOK(c)' /\ FoundOK(c)' /\ ListedOK(c)'
         /\ c.req.kind # "bulk" => BulkedOK(c)'
         /\ c.req.kind # "add" => AddedOK(c)'
         /\ c.req.kind # "update" => UpdatedOK(c)'
         /\ c.req.kind # "delete" => DeletedOK(c)'
         /\ c.req.kind # "rename" => RenamedOK(c)'
         /\ c.req.kind \in {"add", "update", "delete", "bulk"} => LookingOK(c)' /\ PastOK(c)'
         /\ c.req.kind \in {"add", "update", "delete", "bulk", "rename"} => KidsOK(c)'
<1>1. /\ c.req.kind \in {"add", "update", "delete", "bulk"} => c.op \in {"write", "remove", "rmtree"}
      /\ c.req.kind = "rename" => c.op = "move"
  BY RequestIs
<1>2. c.req.kind \in {"add", "update", "delete", "bulk"} => LookingOK(c)' /\ PastOK(c)' /\ KidsOK(c)'
  BY <1>1 DEF LookingOK, PastOK, Past, KidsOK
<1>3. c.req.kind = "rename" => KidsOK(c)'
  BY <1>1 DEF KidsOK
<1>4. c.req.kind \notin {"find", "list"} => ListingOK(c)' /\ FoundOK(c)' /\ ListedOK(c)'
  BY DEF ListingOK, FoundOK, ListedOK
<1>5. c.req.kind # "bulk" => BulkedOK(c)'
  BY DEF BulkedOK
<1>6. c.req.kind # "add" => AddedOK(c)'
  BY DEF AddedOK
<1>7. c.req.kind # "update" => UpdatedOK(c)'
  BY DEF UpdatedOK
<1>8. c.req.kind # "delete" => DeletedOK(c)'
  BY DEF DeletedOK
<1>9. c.req.kind # "rename" => RenamedOK(c)'
  BY DEF RenamedOK, Renaming
<1> QED BY <1>2, <1>3, <1>4, <1>5, <1>6, <1>7, <1>8, <1>9

LEMMA AddOwn ==
  ASSUME OwnInv, TInv', NEW s \in Slot, Add(s), index' = index, cache' = cache, foreign' = foreign
  PROVE  OwnInv'
<1>1. TInv /\ TypeInv /\ CallOK(call[s]) /\ TypeInv' /\ Known
  BY DEF OwnInv, TInv, CallsOK
<1>2. call[s].req.kind = "add" /\ AddDoes(s)
  BY <1>1, AddEnds
<1>3. call[s].ans.status = "none" /\ call[s].req # NoReq /\ call[s] # Free
  BY <1>2 DEF Add, Asked, NoAns, NoReq, Free
<1>4. PICK p \in Path : p = call[s].path
  BY <1>2 DEF AddDoes
<1>5. PICK text \in Texts : text = call[s].text
  BY <1>2 DEF AddDoes
<1>6. PICK d \in Doc : \E found : 
                 /\ docs[d] = None
                 /\ docs' = [docs EXCEPT ![d] = [path |-> p, text |-> text, broken |-> FALSE]]
                 /\ found = {[doc |-> d, path |-> p, text |-> text, broken |-> FALSE]} /\ Fits(s, "ok", found)
  BY <1>2, <1>4, <1>5 DEF AddDoes
<1>7. PICK found : /\ found = {[doc |-> d, path |-> p, text |-> text, broken |-> FALSE]} /\ Fits(s, "ok", found)
  BY <1>6
<1>8. docs[d] = None /\ docs' = [docs EXCEPT ![d] = [path |-> p, text |-> text, broken |-> FALSE]]
  BY <1>6
<1>9. /\ docs'[d] = [path |-> p, text |-> text, broken |-> FALSE] /\ docs'[d] # None /\ docs'[d] # Gone
      /\ \A x \in Doc : x # d => docs'[x] = docs[x]
  <2>1. docs'[d] = [path |-> p, text |-> text, broken |-> FALSE] /\ \A x \in Doc : x # d => docs'[x] = docs[x]
    BY <1>1, <1>8 DEF TypeInv
  <2>2. docs'[d] # None
    BY <2>1, VolumeAssumption DEF Texts
  <2>3. docs'[d].path = p
    BY <2>1
  <2> QED BY <2>1, <2>2, <2>3, GoneIs, PlaceIs
<1>10. Answering(s, "ok", found)
  BY <1>1, <1>7, FitsAnswers
<1>11. PICK c \in Calls : c = call'[s]
  BY <1>1, <1>3, <1>10, RepliedIs
<1>12. c.ans.docs = found /\ Only(s) /\ c.ans.status = "ok" /\ c # Free /\ c.op = "write" /\ c.path = p /\ c.text = text
  BY <1>1, <1>2, <1>3, <1>4, <1>5, <1>10, <1>11, RepliedIs DEF Replied, AddDoes
<1> DEFINE Y == {p}
<1>13. Y \in SUBSET Path
  OBVIOUS
<1>14. Changes(Y)
  BY <1>8, <1>9 DEF Changes
<1>15. \A y \in Y : Touches(call[s], y)
  BY <1>1, <1>2, <1>3, <1>4, RequestTouches
<1>16. \A q \in Path : q # p => LiveAt(q)' = LiveAt(q)
  BY <1>8, <1>9, PlaceIs DEF LiveAt, Unused
<1>17. ASSUME p \notin foreign PROVE LiveAt(p) = {} /\ File(p) = None /\ Clear(p)
  <2>1. File(p) = None /\ Clear(p)
    BY <1>1, <1>2, <1>3, <1>4, <1>17 DEF CallOK, AddingOK
  <2> QED BY <1>3, <1>15, <1>17, <2>1, WaitingAt DEF Coherent
<1>18. ASSUME Replied(c, call[s])
       PROVE  /\ UpdatedOK(c)' /\ AddedOK(c)' /\ DeletedOK(c)' /\ KidsOK(c)' /\ LookingOK(c)'
              /\ ListingOK(c)' /\ FoundOK(c)' /\ ListedOK(c)' /\ BulkedOK(c)' /\ PastOK(c)'
              /\ RenamedOK(c)'
  <2>1. c.req.kind = "add"
    BY <1>2, <1>18 DEF Replied
  <2>2. AddedOK(c)'
    <3>1. Holds(p, d)'
      BY <1>9 DEF Holds
    <3>2. ASSUME p \notin foreign' PROVE HasText(p, d, text)'
      <4>1. LiveAt(p) = {}
        BY <1>17, <3>2
      <4>2. LiveAt(p)' = {d}
        BY <1>9, <4>1 DEF LiveAt, Unused
      <4>3. docs'[d].text = text
        BY <1>9
      <4> QED BY <4>2, <4>3 DEF HasText
    <3> QED BY <1>7, <1>12, <3>1, <3>2 DEF AddedOK
  <2> QED BY <1>12, <2>1, <2>2, OnlyKind
<1>19. \A x \in Y : File(x) # None => Holds(x, File(x))' \/ \E t \in Slot : MovedOff(call[t], x, File(x))'
  <2> SUFFICES ASSUME File(p) # None
               PROVE  Holds(p, File(p))' \/ \E t \in Slot : MovedOff(call[t], p, File(p))'
    OBVIOUS
  <2>1. File(p) \in Doc /\ docs[File(p)] # None
    BY <1>1 DEF TypeInv, IndexType, Known, File
  <2>2. KeepsPath(File(p))
    BY <1>8, <1>9, <2>1 DEF KeepsPath
  <2>3. ~Renaming(call[s])
    BY <1>3 DEF Renaming
  <2> QED BY <1>12, <2>2, <2>3, IndexKeep
<1>20. \A q \in Y \ foreign' : Replied(c, call[s]) /\ c.ans.status = "ok" => Pend(c, q)
  BY <1>12 DEF Pend
<1>21. \A q \in Path \ foreign' : LiveAt(q)' # {} =>
            LiveAt(q) # {} \/ \A r \in Path \ foreign' : Near(r, q) => LiveAt(r)' = {}
  <2> SUFFICES ASSUME p \notin foreign, NEW r \in Path \ foreign, Near(r, p) PROVE LiveAt(r)' = {}
    BY <1>16
  <2>1. File(r) = None
    BY <1>17 DEF Clear
  <2>2. r # p
    BY PlaceIs, RelatedIs
  <2>3. p = Target(call[s]) /\ ~Idle(call[s])
    BY <1>2, <1>4 DEF Target, AddDoes, Idle, TreeOps
  <2>4. LiveAt(r) = {}
    BY <1>3, <2>1, <2>3, NearEmpty
  <2> QED BY <1>16, <2>2, <2>4
<1>22. foreign \subseteq foreign' /\ call[s].req.kind # "none"
  BY <1>2
<1>23. call[s].req.kind = "rename" /\ call[s].path \in foreign => call[s].dest \in foreign'
  BY <1>2
<1> HIDE DEF Y
<1> QED BY <1>3, <1>10, <1>11, <1>13, <1>14, <1>15, <1>18, <1>19, <1>20, <1>21, <1>22, <1>23, ServedOwn

(* Where the document of a request is.                                     *)
LEMMA PatchedAt ==
  ASSUME OwnInv, NEW s \in Slot, NEW kind \in {"update", "delete", "rename"}, PatchDoes(s, kind),
         docs[call[s].req.doc] # Gone
  PROVE  LET d == call[s].req.doc
             p == call[s].path
         IN  /\ d \in Doc /\ p \in Path /\ docs[d] \in [path : Path, text : Texts, broken : BOOLEAN] /\ docs[d] # None
             /\ call[s].ans.status = "none" /\ call[s].req.kind = kind /\ call[s].req # NoReq /\ call[s] # Free
             /\ Touches(call[s], p) /\ ~Renaming(call[s])
             /\ Holds(p, d)
             /\ p \notin foreign => File(p) = d /\ LiveAt(p) = {d} /\ docs[d].path = p
<1>1. TInv /\ TypeInv /\ CallOK(call[s]) /\ Known /\ None \notin Doc
  BY VolumeAssumption DEF OwnInv, TInv, CallsOK
<1>2. PICK d \in Doc : d = call[s].req.doc
  BY DEF PatchDoes
<1>3. call[s].req.kind = kind /\ call[s].ans.status = "none" /\ call[s].req # NoReq /\ call[s] # Free
  BY DEF PatchDoes, NoAns, NoReq, Free
<1>4. docs[d] # None /\ docs[d] # Gone
  BY <1>1, <1>2 DEF Known, KnownIn
<1>5. docs[d] \in [path : Path, text : Texts, broken : BOOLEAN]
  BY <1>1, <1>4 DEF TypeInv
<1>6. /\ call[s].path \in Path
      /\ kind = "rename" => call[s].op = "move" /\ call[s].doc = call[s].req.doc
  BY <1>1, <1>3, RequestIs, CallPlaces
<1>7. Touches(call[s], call[s].path) /\ ~Renaming(call[s])
  BY <1>1, <1>3, RequestTouches DEF Renaming
<1>8. Holds(call[s].path, d) /\ (call[s].path \notin foreign => File(call[s].path) = d)
  <2>1. CASE kind = "rename"
    <3>1. Past(call[s])
      BY <1>1, <1>2, <1>3, <1>6, <2>1 DEF Past
    <3> QED BY <1>1, <1>2, <1>6, <1>7, <2>1, <3>1 DEF CallOK, PastOK
  <2>2. CASE kind # "rename"
    BY <1>1, <1>2, <1>3, <2>2 DEF CallOK, AskedOK
  <2> QED BY <2>1, <2>2
<1>9. ASSUME call[s].path \notin foreign PROVE LiveAt(call[s].path) = {d} /\ docs[d].path = call[s].path
  <2>1. LiveAt(call[s].path) = {d}
    BY <1>1, <1>3, <1>6, <1>7, <1>8, <1>9, WaitingAt DEF Coherent
  <2> QED BY <2>1 DEF LiveAt
<1> QED BY <1>2, <1>3, <1>4, <1>5, <1>6, <1>7, <1>8, <1>9

LEMMA UpdateOwn ==
  ASSUME OwnInv, TInv', NEW s \in Slot, PatchDoes(s, "update"), docs[call[s].req.doc] # Gone,
         Fits(s, "ok", {}), docs' = [docs EXCEPT ![call[s].req.doc] = [@ EXCEPT !.text = call[s].text, !.broken = FALSE]],
         index' = index, cache' = cache, foreign' = foreign
  PROVE  OwnInv'
<1>1. TInv /\ TypeInv /\ CallOK(call[s]) /\ TypeInv' /\ Known
  BY DEF OwnInv, TInv, CallsOK
<1>2. PICK d \in Doc : d = call[s].req.doc
  BY DEF PatchDoes
<1>3. PICK p \in Path : p = call[s].path
  BY PatchedAt
<1>4. /\ docs[d] \in [path : Path, text : Texts, broken : BOOLEAN] /\ docs[d] # None /\ docs[d] # Gone
      /\ call[s].ans.status = "none" /\ call[s].req.kind = "update" /\ call[s].req # NoReq /\ call[s] # Free
      /\ Touches(call[s], p) /\ ~Renaming(call[s]) /\ Holds(p, d)
      /\ p \notin foreign => File(p) = d /\ LiveAt(p) = {d} /\ docs[d].path = p
  BY <1>2, <1>3, PatchedAt
<1>5. PICK text \in Texts : text = call[s].text
  BY DEF PatchDoes
<1>6. /\ docs'[d] = [path |-> docs[d].path, text |-> text, broken |-> FALSE] /\ docs'[d] # None /\ docs'[d] # Gone
      /\ docs'[d].path = docs[d].path /\ docs'[d].text = text
      /\ \A x \in Doc : x # d => docs'[x] = docs[x]
  <2>1. docs' = [docs EXCEPT ![d] = [docs[d] EXCEPT !.text = text, !.broken = FALSE]]
    BY <1>2, <1>5
  <2>a. PICK v : v = [docs[d] EXCEPT !.text = text, !.broken = FALSE]
    OBVIOUS
  <2>b. docs' = [docs EXCEPT ![d] = v]
    BY <2>1, <2>a
  <2>2. docs'[d] = [docs[d] EXCEPT !.text = text, !.broken = FALSE] /\ \A x \in Doc : x # d => docs'[x] = docs[x]
    BY <1>1, <2>a, <2>b DEF TypeInv
  <2>c. docs[d] \in [path : Path, text : Texts, broken : BOOLEAN]
    BY <1>4
  <2>d. v = [path |-> docs[d].path, text |-> text, broken |-> FALSE]
    BY <2>a, <2>c
  <2>3. docs'[d] = [path |-> docs[d].path, text |-> text, broken |-> FALSE]
    BY <2>2, <2>a, <2>d
  <2>4. docs'[d] # None
    BY <1>4, <2>3, VolumeAssumption DEF Texts
  <2>5. docs'[d].path # None
    BY <1>4, <2>3, PlaceIs
  <2> QED BY <2>2, <2>3, <2>4, <2>5, GoneIs
<1>7. Answering(s, "ok", {})
  BY <1>1, FitsAnswers
<1>8. PICK c \in Calls : c = call'[s]
  BY <1>1, <1>4, <1>7, RepliedIs
<1>9. Only(s) /\ c.ans.status = "ok" /\ c # Free /\ c.op = "write" /\ c.path = p /\ c.text = text /\ c.req = call[s].req
  BY <1>1, <1>3, <1>4, <1>5, <1>7, <1>8, RepliedIs DEF Replied, PatchDoes
<1> DEFINE Y == {p}
<1>10. Y \in SUBSET Path /\ \A y \in Y : Touches(call[s], y)
  BY <1>4
<1>11. Changes(Y)
  <2>1. docs[d].path \in Y \cup foreign'
    BY <1>4 DEF Holds
  <2>2. \A q \in Path : Holds(q, d) /\ docs'[d].path \notin foreign' => docs'[d].path = q
    BY <1>4, <1>6 DEF Holds
  <2> QED BY <1>6, <2>1, <2>2 DEF Changes
<1>12. \A q \in Path : LiveAt(q)' = LiveAt(q)
  BY <1>4, <1>6 DEF LiveAt, Unused
<1>13. ASSUME Replied(c, call[s])
       PROVE  /\ UpdatedOK(c)' /\ AddedOK(c)' /\ DeletedOK(c)' /\ KidsOK(c)' /\ LookingOK(c)'
              /\ ListingOK(c)' /\ FoundOK(c)' /\ ListedOK(c)' /\ BulkedOK(c)' /\ PastOK(c)'
              /\ RenamedOK(c)'
  <2>1. c.req.kind = "update"
    BY <1>4, <1>9
  <2>2. UpdatedOK(c)'
    <3>1. KeepsPath(d)
      BY <1>4, <1>6 DEF KeepsPath
    <3>2. Holds(p, d)'
      BY <1>4, <3>1, HoldsKept
    <3>3. ASSUME p \notin foreign' PROVE HasText(p, d, text)'
      BY <1>4, <1>6, <1>12, <3>3 DEF HasText
    <3> QED BY <1>2, <1>9, <3>2, <3>3 DEF UpdatedOK
  <2> QED BY <1>9, <2>1, <2>2, OnlyKind
<1>14. \A x \in Y : File(x) # None => Holds(x, File(x))' \/ \E t \in Slot : MovedOff(call[t], x, File(x))'
  <2> SUFFICES ASSUME File(p) # None
               PROVE  Holds(p, File(p))' \/ \E t \in Slot : MovedOff(call[t], p, File(p))'
    OBVIOUS
  <2>1. File(p) \in Doc
    BY <1>1 DEF TypeInv, IndexType, File
  <2>2. KeepsPath(File(p))
    BY <1>4, <1>6, <2>1 DEF KeepsPath
  <2> QED BY <1>4, <1>9, <2>2, IndexKeep
<1>15. \A q \in Y \ foreign' : Replied(c, call[s]) /\ c.ans.status = "ok" => Pend(c, q)
  BY <1>9 DEF Pend
<1>16. \A q \in Path \ foreign' : LiveAt(q)' # {} =>
            LiveAt(q) # {} \/ \A r \in Path \ foreign' : Near(r, q) => LiveAt(r)' = {}
  BY <1>12
<1>17. foreign \subseteq foreign' /\ call[s].req.kind # "none"
  BY <1>4
<1>18. call[s].req.kind = "rename" /\ call[s].path \in foreign => call[s].dest \in foreign'
  BY <1>4
<1> HIDE DEF Y
<1> QED BY <1>4, <1>7, <1>8, <1>10, <1>11, <1>13, <1>14, <1>15, <1>16, <1>17, <1>18, ServedOwn

LEMMA DeleteOwn ==
  ASSUME OwnInv, TInv', NEW s \in Slot, PatchDoes(s, "delete"), docs[call[s].req.doc] # Gone,
         Fits(s, "ok", {}), docs' = [docs EXCEPT ![call[s].req.doc] = Gone],
         index' = index, cache' = cache, foreign' = foreign
  PROVE  OwnInv'
<1>1. TInv /\ TypeInv /\ CallOK(call[s]) /\ TypeInv' /\ Known
  BY DEF OwnInv, TInv, CallsOK
<1>2. PICK d \in Doc : d = call[s].req.doc
  BY DEF PatchDoes
<1>3. PICK p \in Path : p = call[s].path
  BY PatchedAt
<1>4. /\ docs[d] \in [path : Path, text : Texts, broken : BOOLEAN] /\ docs[d] # None /\ docs[d] # Gone
      /\ call[s].ans.status = "none" /\ call[s].req.kind = "delete" /\ call[s].req # NoReq /\ call[s] # Free
      /\ Touches(call[s], p) /\ ~Renaming(call[s]) /\ Holds(p, d)
      /\ p \notin foreign => File(p) = d /\ LiveAt(p) = {d} /\ docs[d].path = p
  BY <1>2, <1>3, PatchedAt
<1>6. docs'[d] = Gone /\ \A x \in Doc : x # d => docs'[x] = docs[x]
  BY <1>1, <1>2 DEF TypeInv
<1>7. Answering(s, "ok", {})
  BY <1>1, FitsAnswers
<1>8. PICK c \in Calls : c = call'[s]
  BY <1>1, <1>4, <1>7, RepliedIs
<1>9. Only(s) /\ c.ans.status = "ok" /\ c # Free /\ c.op = "remove" /\ c.path = p /\ c.req = call[s].req
  BY <1>1, <1>3, <1>4, <1>7, <1>8, RepliedIs DEF Replied, PatchDoes
<1> DEFINE Y == {p}
<1>10. Y \in SUBSET Path /\ \A y \in Y : Touches(call[s], y)
  BY <1>4
<1>11. Changes(Y)
  BY <1>4, <1>6, GoneIs DEF Changes, Holds
<1>12. \A q \in Path : LiveAt(q)' = LiveAt(q) \ {d}
  BY <1>1, <1>6, GoneIs, PlaceIs DEF LiveAt, Unused
<1>13. ASSUME Replied(c, call[s])
       PROVE  /\ UpdatedOK(c)' /\ AddedOK(c)' /\ DeletedOK(c)' /\ KidsOK(c)' /\ LookingOK(c)'
              /\ ListingOK(c)' /\ FoundOK(c)' /\ ListedOK(c)' /\ BulkedOK(c)' /\ PastOK(c)'
              /\ RenamedOK(c)'
  <2>1. c.req.kind = "delete"
    BY <1>4, <1>9
  <2>2. p \notin foreign' => LiveAt(p)' = {}
    BY <1>4, <1>12
  <2>3. DeletedOK(c)'
    BY <1>9, <2>2 DEF DeletedOK
  <2> QED BY <1>9, <2>1, <2>3, OnlyKind
<1>14. \A x \in Y : File(x) # None => Holds(x, File(x))' \/ \E t \in Slot : MovedOff(call[t], x, File(x))'
  <2> SUFFICES ASSUME File(p) # None
               PROVE  Holds(p, File(p))' \/ \E t \in Slot : MovedOff(call[t], p, File(p))'
    OBVIOUS
  <2>1. File(p) \in Doc
    BY <1>1 DEF TypeInv, IndexType, File
  <2>2. KeepsPath(File(p))
    BY <1>6, <2>1 DEF KeepsPath
  <2> QED BY <1>4, <1>9, <2>2, IndexKeep
<1>15. \A q \in Y \ foreign' : Replied(c, call[s]) /\ c.ans.status = "ok" => Pend(c, q)
  BY <1>9 DEF Pend
<1>16. \A q \in Path \ foreign' : LiveAt(q)' # {} =>
            LiveAt(q) # {} \/ \A r \in Path \ foreign' : Near(r, q) => LiveAt(r)' = {}
  BY <1>12
<1>17. foreign \subseteq foreign' /\ call[s].req.kind # "none"
  BY <1>4
<1>18. call[s].req.kind = "rename" /\ call[s].path \in foreign => call[s].dest \in foreign'
  BY <1>4
<1> HIDE DEF Y
<1> QED BY <1>4, <1>7, <1>8, <1>10, <1>11, <1>13, <1>14, <1>15, <1>16, <1>17, <1>18, ServedOwn

Survivors(dir) == {p \in Under(dir) : \E d \in Doc : docs'[d] \notin {None, Gone} /\ docs'[d].path = p}

LEMMA BulkOwn ==
  ASSUME OwnInv, TInv', NEW s \in Slot, Bulk(s), index' = index, cache' = cache,
         foreign' = foreign \cup Survivors(call[s].path)
  PROVE  OwnInv'
<1>1. TInv /\ TypeInv /\ CallOK(call[s]) /\ TypeInv' /\ Known
  BY DEF OwnInv, TInv, CallsOK
<1>2. call[s].req.kind = "bulk" /\ BulkDoes(s)
  BY <1>1, BulkEnds
<1>3. call[s].ans.status = "none" /\ call[s].req # NoReq /\ call[s] # Free
  BY <1>2 DEF Bulk, Asked, NoAns, NoReq, Free
<1> DEFINE Y == Under(call[s].path)
           hit == {d \in Doc : \E p \in Y : d \in LiveAt(p)}
<1>4. PICK del \in SUBSET hit : docs' = [d \in Doc |-> IF d \in del THEN Gone ELSE docs[d]]
  BY <1>2 DEF BulkDoes
<1>5. Answering(s, "ok", {}) /\ call[s].op = "rmtree"
  BY <1>1, <1>2, FitsAnswers DEF BulkDoes
<1>6. PICK c \in Calls : c = call'[s]
  BY <1>1, <1>3, <1>5, RepliedIs
<1>7. Only(s) /\ c.ans.status = "ok" /\ c # Free /\ c.op = "rmtree" /\ c.path = call[s].path /\ c.req = call[s].req
  BY <1>1, <1>3, <1>5, <1>6, RepliedIs DEF Replied
<1>8. Y \in SUBSET Path /\ \A y \in Y : Touches(call[s], y)
  BY <1>1, <1>2, <1>3, RequestTouches DEF Under
<1>9. \A d \in Doc : docs'[d] = docs[d] \/ (docs'[d] = Gone /\ docs[d] # None /\ docs[d].path \in Y)
  BY <1>4 DEF LiveAt, Unused
<1>10. Changes(Y)
  BY <1>9, GoneIs DEF Changes
<1>11. \A q \in Path : LiveAt(q)' \subseteq LiveAt(q)
  BY <1>9, GoneIs, PlaceIs DEF LiveAt, Unused
<1>12. \A q \in Y \ foreign' : LiveAt(q)' = {}
  <2> SUFFICES ASSUME NEW q \in Y, q \notin foreign', NEW d \in LiveAt(q)' PROVE FALSE
    BY DEF LiveAt
  <2>1. d \in Doc /\ docs'[d] # None /\ docs'[d].path = q /\ q \in Path
    BY DEF LiveAt, Unused, Under
  <2>2. docs'[d] # Gone
    BY <2>1, GoneIs, PlaceIs
  <2>3. q \in Survivors(call[s].path)
    BY <2>1, <2>2 DEF Survivors
  <2> QED BY <2>3
<1>13. ASSUME Replied(c, call[s])
       PROVE  /\ UpdatedOK(c)' /\ AddedOK(c)' /\ DeletedOK(c)' /\ KidsOK(c)' /\ LookingOK(c)'
              /\ ListingOK(c)' /\ FoundOK(c)' /\ ListedOK(c)' /\ BulkedOK(c)' /\ PastOK(c)'
              /\ RenamedOK(c)'
  <2>1. c.req.kind = "bulk"
    BY <1>2, <1>7
  <2>2. BulkedOK(c)'
    BY <1>7, <1>12 DEF BulkedOK, Under
  <2> QED BY <1>7, <2>1, <2>2, OnlyKind
<1>14. \A x \in Y : File(x) # None => Holds(x, File(x))' \/ \E t \in Slot : MovedOff(call[t], x, File(x))'
  <2> SUFFICES ASSUME NEW x \in Y, File(x) # None
               PROVE  Holds(x, File(x))' \/ \E t \in Slot : MovedOff(call[t], x, File(x))'
    OBVIOUS
  <2>1. File(x) \in Doc /\ x \in Path
    BY <1>1 DEF TypeInv, IndexType, File, Under
  <2>2. KeepsPath(File(x))
    BY <1>9, <2>1 DEF KeepsPath
  <2>3. ~Renaming(call[s]) /\ foreign \subseteq foreign'
    BY <1>3 DEF Renaming
  <2> QED BY <1>7, <2>1, <2>2, <2>3, IndexKeep
<1>15. \A q \in Y \ foreign' : Replied(c, call[s]) /\ c.ans.status = "ok" => Pend(c, q)
  BY <1>7 DEF Pend
<1>16. \A q \in Path \ foreign' : LiveAt(q)' # {} =>
            LiveAt(q) # {} \/ \A r \in Path \ foreign' : Near(r, q) => LiveAt(r)' = {}
  BY <1>11
<1>17. foreign \subseteq foreign' /\ call[s].req.kind # "none"
  BY <1>2
<1>18. call[s].req.kind = "rename" /\ call[s].path \in foreign => call[s].dest \in foreign'
  BY <1>2
<1> HIDE DEF Y
<1> QED BY <1>3, <1>5, <1>6, <1>8, <1>10, <1>13, <1>14, <1>15, <1>16, <1>17, <1>18, ServedOwn

LEMMA RenameOwn ==
  ASSUME OwnInv, TInv', NEW s \in Slot, PatchDoes(s, "rename"), docs[call[s].req.doc] # Gone,
         Fits(s, "ok", {}), docs' = [docs EXCEPT ![call[s].req.doc] = [@ EXCEPT !.path = call[s].dest]],
         index' = index, cache' = cache,
         foreign' = foreign \cup (IF call[s].path \in foreign THEN {call[s].dest} ELSE {})
  PROVE  OwnInv'
<1>1. TInv /\ TypeInv /\ CallOK(call[s]) /\ TypeInv' /\ Known
  BY DEF OwnInv, TInv, CallsOK
<1>2. PICK d \in Doc : d = call[s].req.doc
  BY DEF PatchDoes
<1>3. PICK p \in Path : p = call[s].path
  BY PatchedAt
<1>4. PICK q \in Path : q = call[s].dest
  BY DEF PatchDoes
<1>5. /\ docs[d] \in [path : Path, text : Texts, broken : BOOLEAN] /\ docs[d] # None /\ docs[d] # Gone
      /\ call[s].ans.status = "none" /\ call[s].req.kind = "rename" /\ call[s].req # NoReq /\ call[s] # Free
      /\ Touches(call[s], p) /\ ~Renaming(call[s]) /\ Holds(p, d)
      /\ p \notin foreign => File(p) = d /\ LiveAt(p) = {d} /\ docs[d].path = p
  BY <1>2, <1>3, PatchedAt
<1>6. call[s].op = "move" /\ call[s].doc = d /\ Touches(call[s], q) /\ d # None
  BY <1>1, <1>2, <1>4, <1>5, RequestTouches, VolumeAssumption DEF PatchDoes
<1>7. /\ q \notin foreign => File(q) = None
      /\ p \notin foreign /\ q \notin foreign => Clear(q)
  <2>1. Past(call[s])
    BY <1>5, <1>6 DEF Past
  <2> QED BY <1>1, <1>3, <1>4, <1>5, <2>1 DEF CallOK, PastOK
<1>8. /\ docs'[d] = [path |-> q, text |-> docs[d].text, broken |-> docs[d].broken] /\ docs'[d] # None /\ docs'[d] # Gone
      /\ docs'[d].path = q /\ docs'[d].text = docs[d].text /\ docs'[d].broken = docs[d].broken
      /\ \A x \in Doc : x # d => docs'[x] = docs[x]
  <2>1. docs' = [docs EXCEPT ![d] = [docs[d] EXCEPT !.path = q]]
    BY <1>2, <1>4
  <2>2. docs'[d] = [docs[d] EXCEPT !.path = q] /\ \A x \in Doc : x # d => docs'[x] = docs[x]
    BY <1>1, <2>1 DEF TypeInv
  <2>3. docs'[d] = [path |-> q, text |-> docs[d].text, broken |-> docs[d].broken]
    BY <1>5, <2>2
  <2>4. docs'[d] # None
    BY <1>5, <2>3, VolumeAssumption DEF Texts
  <2>5. docs'[d].path # None
    BY <2>3, PlaceIs
  <2> QED BY <2>2, <2>3, <2>4, <2>5, GoneIs
<1>9. foreign \subseteq foreign' /\ foreign' = foreign \cup (IF p \in foreign THEN {q} ELSE {})
  BY <1>3, <1>4
<1>10. q \notin foreign' => p \notin foreign /\ q \notin foreign /\ p \notin foreign'
  BY <1>9
<1>11. p \notin foreign => p # q
  BY <1>5, <1>6, <1>7
<1>12. Answering(s, "ok", {})
  BY <1>1, FitsAnswers
<1>13. PICK c \in Calls : c = call'[s]
  BY <1>1, <1>5, <1>12, RepliedIs
<1>14. /\ Only(s) /\ c.ans.status = "ok" /\ c # Free /\ c.op = "move" /\ c.path = p /\ c.dest = q
       /\ c.doc = d /\ c.req.kind = "rename"
  BY <1>1, <1>3, <1>4, <1>5, <1>6, <1>12, <1>13, RepliedIs DEF Replied
<1>15. Renaming(c)
  BY <1>14 DEF Renaming
<1> DEFINE Y == {p, q}
<1>16. Y \in SUBSET Path /\ \A y \in Y : Touches(call[s], y)
  BY <1>5, <1>6
<1>17. Changes(Y)
  <2>1. docs[d].path \in Y \cup foreign'
    BY <1>5, <1>9 DEF Holds
  <2>2. \A r \in Path : Holds(r, d) /\ docs'[d].path \notin foreign' => r \in Y /\ r \notin foreign'
    BY <1>5, <1>8, <1>10 DEF Holds
  <2> QED BY <1>8, <2>1, <2>2 DEF Changes
<1>18. \A r \in Path : LiveAt(r)' = IF r = q THEN LiveAt(r) \cup {d} ELSE LiveAt(r) \ {d}
  BY <1>5, <1>8 DEF LiveAt, Unused
<1>19. p \notin foreign => LiveAt(p)' = {}
  BY <1>5, <1>11, <1>18
<1>20. q \notin foreign' => LiveAt(q)' = {d} /\ LiveAt(q) = {}
  <2> SUFFICES ASSUME q \notin foreign' PROVE LiveAt(q)' = {d} /\ LiveAt(q) = {}
    OBVIOUS
  <2>1. LiveAt(q) = {}
    BY <1>5, <1>6, <1>7, <1>10, WaitingAt DEF Coherent
  <2> QED BY <1>18, <2>1
<1>21. ASSUME Replied(c, call[s])
       PROVE  /\ UpdatedOK(c)' /\ AddedOK(c)' /\ DeletedOK(c)' /\ KidsOK(c)' /\ LookingOK(c)'
              /\ ListingOK(c)' /\ FoundOK(c)' /\ ListedOK(c)' /\ BulkedOK(c)' /\ PastOK(c)'
              /\ RenamedOK(c)'
  <2>1. LookingOK(c)' /\ PastOK(c)'
    BY <1>6, <1>14, <1>15 DEF LookingOK, PastOK
  <2>2. Holds(q, d)'
    BY <1>8 DEF Holds
  <2>3. Mine(c)' => File(p)' = d
    BY <1>5, <1>9, <1>10, <1>14 DEF Mine, File
  <2>4. ASSUME q \notin foreign'
        PROVE  File(q)' = None /\ LiveAt(q)' = {d} /\ (cache'[p] = None \/ Shows(cache[p], d)')
    <3>1. (cache[p] = None \/ Shows(cache[p], d))
      <4>1. Coherent(p)
        BY <1>5, <1>10, <2>4, WaitingAt
      <4> QED BY <1>5, <1>6, <1>10, <2>4, <4>1 DEF Coherent
    <3> QED BY <1>7, <1>8, <1>10, <1>20, <2>4, <3>1 DEF File, Shows
  <2>5. RenamedOK(c)'
    <3> SUFFICES /\ Holds(q, d)' /\ (Mine(c)' => File(p)' = d)
                 /\ p \notin foreign' => LiveAt(p)' = {}
                 /\ q \notin foreign' =>
                      File(q)' = None /\ LiveAt(q)' = {d} /\ (cache'[p] = None \/ Shows(cache[p], d)')
      BY <1>14 DEF RenamedOK
    <3> QED BY <1>9, <1>19, <2>2, <2>3, <2>4
  <2> QED BY <1>14, <2>1, <2>5, OnlyKind
<1>22. \A x \in Y : File(x) # None => Holds(x, File(x))' \/ \E t \in Slot : MovedOff(call[t], x, File(x))'
  <2> SUFFICES ASSUME NEW x \in Y, File(x) # None
               PROVE  Holds(x, File(x))' \/ \E t \in Slot : MovedOff(call[t], x, File(x))'
    OBVIOUS
  <2>1. File(x) \in Doc /\ x \in Path
    BY <1>1 DEF TypeInv, IndexType, File
  <2>2. CASE File(x) # d
    <3>1. KeepsPath(File(x))
      BY <1>8, <2>1, <2>2 DEF KeepsPath
    <3> QED BY <1>5, <1>9, <1>14, <2>1, <3>1, IndexKeep
  <2>3. CASE File(x) = d /\ q \in foreign'
    BY <1>8, <2>3 DEF Holds, File
  <2>4. CASE File(x) = d /\ q \notin foreign'
    <3>1. x = p
      BY <1>6, <1>7, <1>10, <2>4
    <3>2. MovedOff(call[s], x, File(x))'
      BY <1>13, <1>14, <1>15, <2>4, <3>1 DEF MovedOff, Renaming, File
    <3> QED BY <3>2
  <2> QED BY <2>2, <2>3, <2>4
<1>23. \A r \in Y \ foreign' : Replied(c, call[s]) /\ c.ans.status = "ok" => Pend(c, r)
  BY <1>14 DEF Pend
<1>24. \A u \in Path \ foreign' : LiveAt(u)' # {} =>
            LiveAt(u) # {} \/ \A r \in Path \ foreign' : Near(r, u) => LiveAt(r)' = {}
  <2> SUFFICES ASSUME q \notin foreign', NEW r \in Path \ foreign', Near(r, q) PROVE LiveAt(r)' = {}
    BY <1>18
  <2>1. File(r) = None
    BY <1>7, <1>9, <1>10 DEF Clear
  <2>2. r # q
    BY PlaceIs, RelatedIs
  <2>3. q = Target(call[s]) /\ ~Idle(call[s])
    BY <1>4, <1>6 DEF Target, Idle, TreeOps
  <2>4. LiveAt(r) = {}
    BY <1>5, <1>9, <2>1, <2>3, NearEmpty
  <2> QED BY <1>18, <2>2, <2>4
<1>25. call[s].req.kind # "none" /\ (call[s].req.kind = "rename" /\ call[s].path \in foreign => call[s].dest \in foreign')
  BY <1>5
<1> HIDE DEF Y
<1> QED BY <1>5, <1>9, <1>12, <1>13, <1>16, <1>17, <1>21, <1>22, <1>23, <1>24, <1>25, ServedOwn

LEMMA ServeOwn ==
  ASSUME OwnInv, NEW s \in Slot, Serve(s)
  PROVE  OwnInv'
<1>1. TInv /\ TypeInv
  BY DEF OwnInv, TInv
<1>2. TInv'
  BY <1>1, ServeType
<1>3. /\ index' = index /\ cache' = cache /\ foreign \subseteq foreign'
      /\ foreign' = foreign \cup
           (IF call[s].req.kind = "rename" /\ call[s].path \in foreign THEN {call[s].dest} ELSE {})
           \cup (IF call[s].req.kind = "bulk" THEN Survivors(call[s].path) ELSE {})
  BY DEF Serve, Survivors
<1>4. CASE Find(s)
  BY <1>2, <1>3, <1>4, FindOwn
<1>5. CASE ListDocs(s)
  BY <1>2, <1>3, <1>5, ListOwn
<1>6. CASE Add(s)
  <2>1. foreign' = foreign
    BY <1>3, <1>6 DEF Add, Asked
  <2> QED BY <1>2, <1>3, <1>6, <2>1, AddOwn
<1>7. CASE Patch(s)
  <2>1. PICK kind \in {"update", "rename", "delete"} : PatchDoes(s, kind)
    BY <1>1, <1>7, PatchEnds
  <2>2. call[s].req.kind = kind
    BY <2>1 DEF PatchDoes
  <2>3. CASE docs[call[s].req.doc] = Gone
    <3>1. docs' = docs /\ Fits(s, "missing", {})
      BY <2>1, <2>3 DEF PatchDoes
    <3> QED BY <1>2, <1>3, <2>1, <2>3, <3>1, MissingOwn
  <2>4. CASE docs[call[s].req.doc] # Gone
    <3>1. CASE kind = "update"
      <4>1. foreign' = foreign
        BY <1>3, <2>2, <3>1
      <4>2. Fits(s, "ok", {}) /\ docs' = [docs EXCEPT ![call[s].req.doc] = [@ EXCEPT !.text = call[s].text, !.broken = FALSE]]
        BY <2>1, <2>4, <3>1 DEF PatchDoes
      <4> QED BY <1>2, <1>3, <2>1, <2>4, <3>1, <4>1, <4>2, UpdateOwn
    <3>2. CASE kind = "delete"
      <4>1. foreign' = foreign
        BY <1>3, <2>2, <3>2
      <4>2. Fits(s, "ok", {}) /\ docs' = [docs EXCEPT ![call[s].req.doc] = Gone]
        BY <2>1, <2>4, <3>2 DEF PatchDoes
      <4> QED BY <1>2, <1>3, <2>1, <2>4, <3>2, <4>1, <4>2, DeleteOwn
    <3>3. CASE kind = "rename"
      <4>1. foreign' = foreign \cup (IF call[s].path \in foreign THEN {call[s].dest} ELSE {})
        BY <1>3, <2>2, <3>3
      <4>2. Fits(s, "ok", {}) /\ docs' = [docs EXCEPT ![call[s].req.doc] = [@ EXCEPT !.path = call[s].dest]]
        BY <2>1, <2>4, <3>3 DEF PatchDoes
      <4> QED BY <1>2, <1>3, <2>1, <2>4, <3>3, <4>1, <4>2, RenameOwn
    <3> QED BY <2>1, <3>1, <3>2, <3>3
  <2> QED BY <2>3, <2>4
<1>8. CASE Bulk(s)
  <2>1. foreign' = foreign \cup Survivors(call[s].path)
    BY <1>3, <1>8 DEF Bulk, Asked
  <2> QED BY <1>2, <1>3, <1>8, <2>1, BulkOwn
<1> QED BY <1>4, <1>5, <1>6, <1>7, <1>8 DEF Serve

(* A call that goes on after an answer: what it tells the index and the    *)
(* cache of the paths Y, and the files G it may make.                      *)
Tells(s, Y, G) ==
  /\ docs' = docs /\ foreign' = foreign /\ Y \subseteq Path /\ G \subseteq Y
  /\ \A y \in Y : Touches(call[s], y)
  /\ \A p \in Path \ Y : index'.files[p] = index.files[p] /\ cache'[p] \in {None, cache[p]}
  /\ \A p \in Y \ (G \cup foreign) : index'.files[p] # None => index.files[p] # None
  /\ call[s].of # None =>
       /\ G \subseteq {Target(call[s])}
       /\ \A y \in Y \ foreign : y # call[s].path /\ File(y) # None => index'.files[y] # None
  /\ Renaming(call[s]) => call[s].path \in Y
  /\ \A x \in Y, d \in Doc : index'.files[x] = d => Holds(x, d)
  /\ \A p \in Y : cache'[p] # None => index'.files[p] # None
  /\ \A p \in Y \ foreign :
       /\ LiveAt(p) = (IF index'.files[p] = None THEN {} ELSE {index'.files[p]})
       /\ index'.files[p] # None /\ cache'[p] # None => Shows(cache'[p], index'.files[p])
  /\ \A p \in Path \ (Y \cup foreign) : ~Pend(call[s], p)

LEMMA TellOwn ==
  ASSUME OwnInv, TInv', NEW s \in Slot, NEW Y, NEW G, Tells(s, Y, G), Only(s), StructInv', CallOK(call[s])'
  PROVE  OwnInv'
<1>1. TypeInv /\ TypeInv' /\ None \notin Doc
  BY VolumeAssumption DEF OwnInv, TInv
<1>2. Y \in SUBSET Path /\ G \in SUBSET Y /\ docs' = docs /\ foreign' = foreign /\ foreign \subseteq Path
  BY <1>1 DEF Tells, TypeInv
<1>3. Frame(Y, G)
  <2>1. \A p : LiveAt(p)' = LiveAt(p)
    BY <1>2 DEF LiveAt, Unused
  <2>2. \A p, d : Holds(p, d) => Holds(p, d)'
    BY <1>2 DEF Holds
  <2> QED BY <1>2, <2>1, <2>2 DEF Frame, Tells, File, Kept
<1>4. Within(s, Y, G)
  BY <1>2 DEF Within, Tells, File
<1>5. Renaming(call[s]) => call[s].path \in Y
  BY DEF Tells
<1>6. \A x \in Y : File(x)' # None => Holds(x, File(x))' \/ \E t \in Slot : MovedOff(call[t], x, File(x))'
  <2> SUFFICES ASSUME NEW x \in Y, index'.files[x] # None PROVE Holds(x, File(x))'
    BY DEF File
  <2>1. PICK d \in Doc : d = index'.files[x]
    BY <1>1, <1>2 DEF TypeInv, IndexType
  <2>2. Holds(x, d)
    BY <2>1 DEF Tells
  <2> QED BY <1>2, <2>1, <2>2 DEF Holds, File
<1>7. CacheOK'
  <2> SUFFICES ASSUME NEW p \in Path, cache'[p] # None PROVE index'.files[p] # None
    BY DEF CacheOK, File
  <2>1. CASE p \in Y
    BY <2>1 DEF Tells
  <2>2. CASE p \notin Y
    BY <2>2 DEF Tells, OwnInv, CacheOK, File
  <2> QED BY <2>1, <2>2
<1>8. \A p \in Y \ foreign' : Coherent(p)' \/ \E t \in Slot : Pend(call'[t], p)
  <2> SUFFICES ASSUME NEW p \in Y, p \notin foreign PROVE Coherent(p)'
    BY <1>2
  <2>1. LiveAt(p)' = LiveAt(p)
    BY <1>2 DEF LiveAt, Unused
  <2> QED BY <1>2, <2>1 DEF Tells, Coherent, File, Shows
<1>9. \A p \in Path \ (Y \cup foreign') : Pend(call[s], p) => Pend(call'[s], p)
  BY <1>2 DEF Tells
<1>10. \A p \in Path \ foreign' : LiveAt(p)' # {} =>
            LiveAt(p) # {} \/ \A r \in Path \ foreign' : Near(r, p) => LiveAt(r)' = {}
  BY <1>2 DEF LiveAt, Unused
<1> QED BY <1>2, <1>3, <1>4, <1>5, <1>6, <1>7, <1>8, <1>9, <1>10, StepOwn

(* A call that ends after its answer.                                      *)
LEMMA TellEndOwn ==
  ASSUME OwnInv, TInv', NEW s \in Slot, NEW Y, NEW G, Tells(s, Y, G), Goes(s, Free)
  PROVE  OwnInv'
<1>1. call'[s] = Free /\ Only(s) /\ foreign \subseteq foreign'
  BY DEF Goes, Only, Tells
<1>2. StructInv'
  BY <1>1, StructStep, EndsContinues
<1>3. CallOK(Free)'
  BY DEF CallOK, AskedOK, AddingOK, UpdatedOK, AddedOK, DeletedOK, ListingOK, FoundOK, ListedOK, BulkedOK,
         KidsOK, LookingOK, PastOK, RenamedOK, MissedOK, Past, Renaming, Free, NoReq, NoAns
<1> QED BY <1>1, <1>2, <1>3, CallOKIs, TellOwn

LEMMA AnsweredTouches ==
  ASSUME TypeInv, NEW s \in Slot, call[s].ans.status \in {"ok", "missing"}
  PROVE  /\ call[s].path \in Path => Touches(call[s], call[s].path)
         /\ call[s].of = None => /\ \A p \in Under(call[s].path) : Touches(call[s], p)
                                 /\ call[s].dest \in Path => Touches(call[s], call[s].dest)
         /\ Past(call[s]) => Touches(call[s], call[s].dest)
<1>1. call[s] \in Calls /\ call[s].op \in Ops /\ ~Idle(call[s]) /\ call[s].req # NoReq
  BY AnsweredIs
<1>2. call[s] # Free
  BY <1>1 DEF Free
<1>3. call[s].path \in Places /\ call[s].dest \in Path \cup {None}
  BY <1>2, CallPlaces
<1>4. \A x, y \in Places : IsPrefix(x, x) /\ (y \in Under(x) => IsPrefix(x, y))
  BY PlaceIs, PrefixRefl, StrictIs DEF Under
<1>5. Past(call[s]) => call[s].dest \in Path
  BY <1>1 DEF Past, Calls, WellFormed, MoveOK
<1>6. call[s].dest \in Path => call[s].dest # None /\ call[s].dest \in Places
  BY PlaceIs
<1>7. \A p \in Under(call[s].path) : p \in Places
  BY PlaceIs DEF Under
<1> QED BY <1>1, <1>2, <1>3, <1>4, <1>5, <1>6, <1>7 DEF Touches, Reach

LEMMA WrittenOwn ==
  ASSUME OwnInv, NEW s \in Slot, Written(s), UNCHANGED <<docs, calls, events, foreign>>
  PROVE  OwnInv'
<1>1. TInv /\ TypeInv /\ CallOK(call[s]) /\ None \notin Doc
  BY VolumeAssumption DEF OwnInv, TInv, CallsOK
<1>2. TInv' /\ WrittenDoes(s)
  BY <1>1, WrittenType
<1>3. PICK p \in Path : p = call[s].path
  BY <1>2 DEF WrittenDoes
<1>4. /\ call[s].op = "write" /\ call[s].text \in Texts /\ call[s].ans.status = "ok"
      /\ cache' = [cache EXCEPT ![p] = call[s].text] /\ Goes(s, Free)
  BY <1>2, <1>3 DEF WrittenDoes
<1>5. PICK d \in Doc :
           /\ \/ call[s].req.kind = "update" /\ d = call[s].req.doc
              \/ call[s].req.kind = "add" /\ \E e \in call[s].ans.docs : d = e.doc
           /\ index'.files = [index.files EXCEPT ![p] = d]
  BY <1>2, <1>3 DEF WrittenDoes
<1>6. Holds(p, d) /\ (p \notin foreign => HasText(p, d, call[s].text))
  BY <1>1, <1>3, <1>4, <1>5 DEF CallOK, UpdatedOK, AddedOK
<1>7. Touches(call[s], p)
  BY <1>1, <1>3, <1>4, AnsweredTouches
<1>8. index'.files[p] = d /\ \A q \in Path : q # p => index'.files[q] = index.files[q]
  BY <1>1, <1>5 DEF TypeInv, IndexType
<1>9. cache'[p] = call[s].text /\ \A q \in Path : q # p => cache'[q] = cache[q]
  BY <1>1, <1>4 DEF TypeInv
<1>10. ~Renaming(call[s])
  BY <1>5 DEF Renaming
<1>11. \A q : Pend(call[s], q) => q = p
  BY <1>3, <1>4, <1>5 DEF Pend
<1>12. Target(call[s]) = p
  BY <1>3, <1>4 DEF Target
<1>13. Tells(s, {p}, {p})
  BY <1>1, <1>3, <1>6, <1>7, <1>8, <1>9, <1>10, <1>11, <1>12 DEF Tells, HasText, Shows
<1> QED BY <1>2, <1>4, <1>13, TellEndOwn

LEMMA RemovedOwn ==
  ASSUME OwnInv, NEW s \in Slot, Removed(s), UNCHANGED <<docs, calls, events, foreign>>
  PROVE  OwnInv'
<1>1. TInv /\ TypeInv /\ CallOK(call[s]) /\ None \notin Doc
  BY VolumeAssumption DEF OwnInv, TInv, CallsOK
<1>2. TInv' /\ RemovedDoes(s)
  BY <1>1, RemovedType
<1>3. PICK p \in Path : p = call[s].path
  BY <1>2 DEF RemovedDoes
<1>4. /\ call[s].op = "remove" /\ call[s].req.kind = "delete" /\ call[s].ans.status \in {"ok", "missing"}
      /\ call[s].of = None /\ index'.files = [index.files EXCEPT ![p] = None]
      /\ \A q \in Path : cache'[q] = IF q = p THEN None ELSE cache[q]
      /\ Goes(s, Free)
  BY <1>2, <1>3 DEF RemovedDoes
<1>5. p \notin foreign => LiveAt(p) = {}
  BY <1>1, <1>3, <1>4 DEF CallOK, DeletedOK
<1>6. Touches(call[s], p)
  BY <1>1, <1>3, <1>4, AnsweredTouches
<1>7. index'.files[p] = None /\ \A q \in Path : q # p => index'.files[q] = index.files[q]
  BY <1>1, <1>4 DEF TypeInv, IndexType
<1>8. ~Renaming(call[s])
  BY <1>4 DEF Renaming
<1>9. \A q : Pend(call[s], q) => q = p
  BY <1>3, <1>4 DEF Pend
<1>10. Tells(s, {p}, {})
  BY <1>1, <1>3, <1>4, <1>5, <1>6, <1>7, <1>8, <1>9 DEF Tells
<1> QED BY <1>2, <1>4, <1>10, TellEndOwn

LEMMA TreeRemovedOwn ==
  ASSUME OwnInv, NEW s \in Slot, TreeRemoved(s), UNCHANGED <<docs, calls, events, foreign>>
  PROVE  OwnInv'
<1>1. TInv /\ TypeInv /\ CallOK(call[s]) /\ None \notin Doc
  BY VolumeAssumption DEF OwnInv, TInv, CallsOK
<1>2. TInv' /\ TreeRemovedDoes(s)
  BY <1>1, TreeRemovedType
<1> DEFINE Y == Under(call[s].path)
<1>3. /\ call[s].op = "rmtree" /\ call[s].req.kind = "bulk" /\ call[s].ans.status = "ok" /\ call[s].of = None
      /\ \A q \in Path : index'.files[q] = IF q \in Y THEN None ELSE index.files[q]
      /\ \A q \in Path : cache'[q] = IF q \in Y /\ index.files[q] # None THEN None ELSE cache[q]
      /\ Goes(s, Free)
  BY <1>2 DEF TreeRemovedDoes
<1>4. Y \subseteq Path /\ \A y \in Y : Touches(call[s], y)
  BY <1>1, <1>3, AnsweredTouches DEF Under
<1>5. \A q \in Y \ foreign : LiveAt(q) = {}
  BY <1>1, <1>3 DEF CallOK, BulkedOK
<1>6. \A q \in Y : index'.files[q] = None /\ cache'[q] = None
  <2> SUFFICES ASSUME NEW q \in Y PROVE index'.files[q] = None /\ cache'[q] = None
    OBVIOUS
  <2>1. q \in Path
    BY <1>4
  <2>2. index.files[q] = None => cache[q] = None
    BY <2>1 DEF OwnInv, CacheOK, File
  <2> QED BY <1>3, <2>1, <2>2
<1>7. ~Renaming(call[s]) /\ \A q : Pend(call[s], q) => q \in Y
  BY <1>3 DEF Pend, Renaming
<1>8. \A q \in Path \ Y : index'.files[q] = index.files[q] /\ cache'[q] = cache[q]
  BY <1>3
<1> HIDE DEF Y
<1>9. Tells(s, Y, {})
  BY <1>1, <1>3, <1>4, <1>5, <1>6, <1>7, <1>8 DEF Tells
<1> QED BY <1>2, <1>3, <1>9, TellEndOwn

LEMMA GotDocOwn ==
  ASSUME OwnInv, NEW s \in Slot, GotDoc(s), UNCHANGED <<docs, calls, events, foreign>>
  PROVE  OwnInv'
<1>1. TInv /\ TypeInv /\ CallOK(call[s]) /\ None \notin Doc
  BY VolumeAssumption DEF OwnInv, TInv, CallsOK
<1>2. TInv' /\ GotDocDoes(s)
  BY <1>1, GotDocType
<1>3. PICK p \in Path : p = call[s].path
  BY <1>2 DEF GotDocDoes
<1>4. /\ call[s].op \in {"read", "append", "copy"} /\ call[s].req.kind = "find" /\ call[s].req.path = p
      /\ call[s].ans.status = "ok" /\ call[s].of = None
  BY <1>2, <1>3 DEF GotDocDoes
<1>5. \/ /\ call[s].ans.docs = {} /\ cache' = [cache EXCEPT ![p] = None]
         /\ index'.files = [index.files EXCEPT ![p] = None]
      \/ \E e \in Entries :
           /\ call[s].ans.docs = {e} /\ e.path = p
           /\ \/ cache' = [cache EXCEPT ![p] = e.text]
              \/ e.broken /\ cache' = [cache EXCEPT ![p] = {Blurb}]
           /\ index'.files = [index.files EXCEPT ![p] = e.doc]
  BY <1>2, <1>3 DEF GotDocDoes
<1>6. PICK c \in Calls :
           /\ Goes(s, c)
           /\ c = Free \/ /\ c.op = "write" /\ c.path \in {p, call[s].dest} /\ c.path \in Path
                          /\ c.dest = call[s].dest /\ c.of = None /\ c.kids = {} /\ Fresh(c, index')
  BY <1>2, <1>3 DEF GotDocDoes
<1>7. Touches(call[s], p) /\ (call[s].dest \in Path => Touches(call[s], call[s].dest))
  BY <1>1, <1>3, <1>4, AnsweredTouches
<1>8. ~Renaming(call[s]) /\ \A q : ~Pend(call[s], q)
  BY <1>4 DEF Renaming, Pend
<1>9. p \notin foreign => Coherent(p)
  BY <1>7, <1>8, CoherentAt
<1>10. /\ \A d \in Doc : index'.files[p] = d => Holds(p, d)
       /\ p \notin foreign => index'.files[p] = index.files[p]
       /\ cache'[p] # None => index'.files[p] # None
       /\ p \notin foreign /\ index'.files[p] # None /\ cache'[p] # None => Shows(cache'[p], index'.files[p])
  <2>1. CASE call[s].ans.docs = {} /\ cache' = [cache EXCEPT ![p] = None]
             /\ index'.files = [index.files EXCEPT ![p] = None]
    <3>1. index'.files[p] = None /\ cache'[p] = None
      BY <1>1, <2>1 DEF TypeInv, IndexType
    <3>2. p \notin foreign => index.files[p] = None
      BY <1>1, <1>4, <2>1 DEF CallOK, FoundOK, File
    <3> QED BY <1>1, <3>1, <3>2
  <2>2. ASSUME NEW e \in Entries, call[s].ans.docs = {e}, e.path = p,
               cache' = [cache EXCEPT ![p] = e.text] \/ (e.broken /\ cache' = [cache EXCEPT ![p] = {Blurb}]),
               index'.files = [index.files EXCEPT ![p] = e.doc]
        PROVE  /\ \A d \in Doc : index'.files[p] = d => Holds(p, d)
               /\ p \notin foreign => index'.files[p] = index.files[p]
               /\ cache'[p] # None => index'.files[p] # None
               /\ p \notin foreign /\ index'.files[p] # None /\ cache'[p] # None => Shows(cache'[p], index'.files[p])
    <3>1. /\ index'.files[p] = e.doc /\ e.doc \in Doc
          /\ cache'[p] = e.text \/ (e.broken /\ cache'[p] = {Blurb})
      BY <1>1, <2>2 DEF TypeInv, IndexType, Entries
    <3>2. /\ Holds(p, e.doc)
          /\ p \notin foreign => File(p) = e.doc /\ HasEntry(p, e)
      BY <1>1, <1>4, <2>2 DEF CallOK, ListingOK
    <3> QED BY <1>1, <3>1, <3>2 DEF File, HasEntry, Shows
  <2>3. CASE \E e \in Entries :
               /\ call[s].ans.docs = {e} /\ e.path = p
               /\ \/ cache' = [cache EXCEPT ![p] = e.text]
                  \/ e.broken /\ cache' = [cache EXCEPT ![p] = {Blurb}]
               /\ index'.files = [index.files EXCEPT ![p] = e.doc]
    <3>1. PICK e \in Entries :
               /\ call[s].ans.docs = {e} /\ e.path = p
               /\ \/ cache' = [cache EXCEPT ![p] = e.text]
                  \/ e.broken /\ cache' = [cache EXCEPT ![p] = {Blurb}]
               /\ index'.files = [index.files EXCEPT ![p] = e.doc]
      BY <2>3
    <3> QED BY <2>2, <3>1
  <2> QED BY <1>5, <2>1, <2>3
<1>11. \A q \in Path : q # p => index'.files[q] = index.files[q] /\ cache'[q] = cache[q]
  <2>1. cache \in [Path -> Texts \cup {None}] /\ index.files \in [Path -> Doc \cup {None}]
    BY <1>1 DEF TypeInv, IndexType
  <2>2. /\ \E text : cache' = [cache EXCEPT ![p] = text]
        /\ \E d : index'.files = [index.files EXCEPT ![p] = d]
    BY <1>5
  <2> QED BY <2>1, <2>2
<1>12. Tells(s, {p}, {})
  BY <1>1, <1>4, <1>7, <1>8, <1>9, <1>10, <1>11 DEF Tells, Coherent, File
<1>13. CASE c = Free
  BY <1>2, <1>6, <1>12, <1>13, TellEndOwn
<1>14. CASE c # Free
  <2>1. /\ c.op = "write" /\ c.path \in {p, call[s].dest} /\ c.path \in Path
        /\ c.dest = call[s].dest /\ c.of = None /\ c.kids = {} /\ Fresh(c, index')
    BY <1>6, <1>14
  <2>2. call'[s] = c /\ Only(s)
    BY <1>6 DEF Goes, Only
  <2>3. call[s] # Free
    BY <1>4 DEF Free
  <2>4. Continues(call'[s], call[s])
    BY <1>3, <1>4, <2>1, <2>2, <2>3 DEF Continues, Stays, KeepsKids, KeepsTree
  <2>5. StructInv'
    BY <2>2, <2>4, StructStep
  <2>6. \A d \in Doc : index'.files[c.path] = d => Holds(c.path, d)'
    <3> SUFFICES ASSUME NEW d \in Doc, index'.files[c.path] = d PROVE Holds(c.path, d)
      BY DEF Holds
    <3>1. CASE c.path = p
      BY <1>10, <3>1
    <3>2. CASE c.path # p
      <4>1. File(c.path) = d /\ Touches(call[s], c.path)
        BY <1>7, <1>11, <2>1, <3>2 DEF File
      <4> QED BY <1>4, <1>8, <2>1, <4>1, HeldTouched
    <3> QED BY <3>1, <3>2
  <2>7. CallOK(c)'
    BY <1>14, <2>1, <2>6, FreshOK
  <2> QED BY <1>2, <1>12, <2>2, <2>5, <2>7, CallOKIs, TellOwn
<1> QED BY <1>13, <1>14

(* What a listing tells.                                                   *)
LEMMA ListTells ==
  ASSUME OwnInv, TInv', NEW s \in Slot, docs' = docs, foreign' = foreign,
         call[s].req.kind = "list", call[s].ans.status = "ok",
         NEW es \in SUBSET call[s].ans.docs, Learns(index', es), NEW with, Caches(es, with)
  PROVE  /\ Tells(s, Under(call[s].path), {}) /\ \A q : ~Pend(call[s], q)
         /\ call[s].of = None /\ call[s].kids = {} /\ call[s] # Free
<1>1. TInv /\ TypeInv /\ TypeInv' /\ CallOK(call[s]) /\ None \notin Doc
  BY VolumeAssumption DEF OwnInv, TInv, CallsOK
<1>2. call[s] # Free /\ call[s] \in Calls
  BY <1>1, CallPlaces DEF Free, NoReq
<1>3. call[s].of = None /\ call[s].kids = {} /\ call[s].op # "move" /\ call[s].req.path = call[s].path
  BY <1>2, RequestIs
<1> DEFINE Y == Under(call[s].path)
<1>4. Y \subseteq Path /\ \A y \in Y : Touches(call[s], y)
  BY <1>1, <1>3, AnsweredTouches DEF Under
<1>5. ~Renaming(call[s])
  BY DEF Renaming
<1>6. call[s].op \in {"rmdir", "list", "warm"} \cup TreeOps
  BY <1>2 DEF Calls, WellFormed, Records, Ops, ReadOK, WriteOK, RemoveOK, MoveOK, TreeOps
<1>7. \A q : ~Pend(call[s], q)
  BY <1>6 DEF Pend, TreeOps
<1>8. \A e \in es : e.path \in Y /\ e.doc \in Doc
  <2> SUFFICES ASSUME NEW e \in es PROVE e.path \in Y /\ e.doc \in Doc
    OBVIOUS
  <2>1. e \in call[s].ans.docs
    OBVIOUS
  <2>2. e.doc \in Doc
    BY <1>1, <2>1, FoundIs DEF Entries
  <2>3. e.path \in Under(call[s].req.path)
    BY <1>2, <2>1 DEF Calls, WellFormed, AnswerOK
  <2> QED BY <1>3, <2>2, <2>3
<1>17. \A e \in es, p \in Path : e.path = p =>
         Holds(p, e.doc) /\ (p \notin foreign => index.files[p] = e.doc /\ HasEntry(p, e))
  <2> SUFFICES ASSUME NEW e \in es, NEW p \in Path, e.path = p
               PROVE  Holds(p, e.doc) /\ (p \notin foreign => index.files[p] = e.doc /\ HasEntry(p, e))
    OBVIOUS
  <2>1. e \in call[s].ans.docs
    OBVIOUS
  <2>2. /\ Holds(p, e.doc)
        /\ p \notin foreign => index.files[p] = e.doc /\ HasEntry(p, e)
    BY <1>1, <2>1 DEF CallOK, ListingOK, File
  <2> QED BY <2>2
<1>9. \A p \in Path : \/ index'.files[p] = index.files[p]
                      \/ \E e \in es : e.path = p /\ index'.files[p] = e.doc
  BY DEF Learns
<1>10. \A p \in Path : \/ cache'[p] = cache[p]
                       \/ \E e \in es : e.path = p /\ cache'[p] = e.text /\ index'.files[p] # None
  <2> SUFFICES ASSUME NEW p \in Path, cache'[p] # cache[p]
               PROVE  \E e \in es : e.path = p /\ cache'[p] = e.text /\ index'.files[p] # None
    OBVIOUS
  <2>1. PICK e \in es : e.path = p /\ cache'[p] = e.text
    BY DEF Caches
  <2>2. \E f \in es : f.path = p /\ index'.files[p] = f.doc
    BY <2>1 DEF Learns
  <2> QED BY <1>1, <1>8, <2>1, <2>2
<1>11. \A p \in Path \ Y : index'.files[p] = index.files[p] /\ cache'[p] = cache[p]
  <2> SUFFICES ASSUME NEW p \in Path \ Y PROVE index'.files[p] = index.files[p] /\ cache'[p] = cache[p]
    OBVIOUS
  <2>1. \A e \in es : e.path # p
    BY <1>8
  <2> QED BY <1>9, <1>10, <2>1
<1>12. \A p \in Path \ foreign : index'.files[p] = index.files[p]
  BY <1>9, <1>17
<1>13. \A x \in Y, d \in Doc : index'.files[x] = d => Holds(x, d)
  <2> SUFFICES ASSUME NEW x \in Y, NEW d \in Doc, index'.files[x] = d PROVE Holds(x, d)
    OBVIOUS
  <2>1. CASE index'.files[x] = index.files[x]
    BY <1>3, <1>4, <1>5, <2>1, HeldTouched DEF File
  <2>2. CASE index'.files[x] # index.files[x]
    BY <1>4, <1>9, <1>17, <2>2
  <2> QED BY <2>1, <2>2
<1>14. \A p \in Y : cache'[p] # None => index'.files[p] # None
  <2> SUFFICES ASSUME NEW p \in Y, cache'[p] # None, index'.files[p] = None PROVE FALSE
    OBVIOUS
  <2>1. cache'[p] = cache[p] /\ p \in Path
    BY <1>4, <1>10
  <2>2. index'.files[p] = index.files[p]
    BY <1>1, <1>8, <1>9, <2>1
  <2> QED BY <2>1, <2>2 DEF OwnInv, CacheOK, File
<1>15. \A p \in Y \ foreign :
       /\ LiveAt(p) = (IF index'.files[p] = None THEN {} ELSE {index'.files[p]})
       /\ index'.files[p] # None /\ cache'[p] # None => Shows(cache'[p], index'.files[p])
  <2> SUFFICES ASSUME NEW p \in Y, p \notin foreign
               PROVE  /\ LiveAt(p) = (IF index'.files[p] = None THEN {} ELSE {index'.files[p]})
                      /\ index'.files[p] # None /\ cache'[p] # None => Shows(cache'[p], index'.files[p])
    OBVIOUS
  <2>1. index'.files[p] = File(p) /\ p \in Path
    BY <1>4, <1>12 DEF File
  <2>2. Coherent(p)
    BY <1>4, <1>7, <2>1, CoherentAt
  <2>3. cache'[p] = cache[p] \/ Shows(cache'[p], index.files[p])
    <3> SUFFICES ASSUME cache'[p] # cache[p] PROVE Shows(cache'[p], index.files[p])
      OBVIOUS
    <3>1. PICK e \in es : e.path = p /\ cache'[p] = e.text
      BY <1>10, <2>1
    <3>2. index.files[p] = e.doc /\ HasEntry(p, e)
      BY <1>17, <2>1, <3>1
    <3> QED BY <3>1, <3>2 DEF HasEntry, Shows
  <2> QED BY <2>1, <2>2, <2>3 DEF Coherent, File
<1> HIDE DEF Y
<1>16. Tells(s, Y, {})
  BY <1>3, <1>4, <1>5, <1>7, <1>11, <1>12, <1>13, <1>14, <1>15 DEF Tells
<1> QED BY <1>2, <1>3, <1>7, <1>16 DEF Y

LEMMA RmdirListedOwn ==
  ASSUME OwnInv, NEW s \in Slot, RmdirListed(s), UNCHANGED <<docs, calls, events, foreign>>
  PROVE  OwnInv'
<1>1. TInv
  BY DEF OwnInv
<1>2. TInv' /\ RmdirListedDoes(s)
  BY <1>1, RmdirListedType
<1>3. PICK es \in SUBSET call[s].ans.docs : Learns(index', es)
  BY <1>2 DEF RmdirListedDoes
<1>4. call[s].req.kind = "list" /\ call[s].ans.status = "ok" /\ cache' = cache /\ Goes(s, Free)
  BY <1>2 DEF RmdirListedDoes
<1>5. Caches(es, FALSE)
  BY <1>4 DEF Caches
<1> QED BY <1>2, <1>3, <1>4, <1>5, ListTells, TellEndOwn

LEMMA ListedOwn ==
  ASSUME OwnInv, NEW s \in Slot, Listed(s), UNCHANGED <<docs, calls, events, foreign>>
  PROVE  OwnInv'
<1>1. TInv
  BY DEF OwnInv
<1>2. TInv' /\ ListedDoes(s)
  BY <1>1, ListedType
<1>3. /\ call[s].req.kind = "list" /\ call[s].ans.status = "ok" /\ Goes(s, Free)
      /\ Learns(index', call[s].ans.docs) /\ Caches(call[s].ans.docs, call[s].op = "warm")
  BY <1>2 DEF ListedDoes
<1> QED BY <1>2, <1>3, ListTells, TellEndOwn

LEMMA TreeListedOwn ==
  ASSUME OwnInv, NEW s \in Slot, TreeListed(s), UNCHANGED <<docs, calls, events, foreign>>
  PROVE  OwnInv'
<1>1. TInv /\ TypeInv /\ CallOK(call[s]) /\ None \notin Doc
  BY VolumeAssumption DEF OwnInv, TInv, CallsOK
<1>2. TInv' /\ TreeListedDoes(s)
  BY <1>1, TreeListedType
<1>3. /\ call[s].op \in TreeOps /\ call[s].req.kind = "list" /\ call[s].ans.status = "ok" /\ call[s].path \in Path
      /\ Learns(index', call[s].ans.docs) /\ Caches(call[s].ans.docs, call[s].op = "cptree")
  BY <1>2 DEF TreeListedDoes
<1>4. PICK c \in Calls :
           /\ Goes(s, c) /\ c.op = call[s].op /\ c.path = call[s].path /\ c.dest = call[s].dest /\ c.of = None
           /\ c.req = NoReq /\ c.ans = NoAns /\ c.kids = call[s].ans.docs /\ c.doc = call[s].doc
  BY <1>2 DEF TreeListedDoes
<1>5. /\ Tells(s, Under(call[s].path), {}) /\ call[s].of = None /\ call[s].kids = {} /\ call[s] # Free
  BY <1>2, <1>3, ListTells
<1>6. call'[s] = c /\ Only(s)
  BY <1>4 DEF Goes, Only
<1>7. Locks'
  <2>1. Stays(call'[s], call[s])
    BY <1>4, <1>5, <1>6 DEF Stays
  <2> QED BY <1>1, <1>6, <2>1, LockStep DEF OwnInv
<1>8. KeepsTree(call'[s], call[s])
  BY <1>4, <1>6 DEF KeepsTree
<1>9. Siblings'
  BY <1>1, <1>6, <1>8, SiblingStep DEF OwnInv
<1>10. \A e \in c.kids : /\ e \in Entries /\ e.path \in Path
                         /\ e.path \notin foreign =>
                              File(e.path) = e.doc /\ HasEntry(e.path, e) /\ e.doc \in LiveAt(e.path)
  <2> SUFFICES ASSUME NEW e \in call[s].ans.docs
               PROVE  /\ e \in Entries /\ e.path \in Path
                      /\ e.path \notin foreign =>
                           File(e.path) = e.doc /\ HasEntry(e.path, e) /\ e.doc \in LiveAt(e.path)
    BY <1>4
  <2>1. e \in Entries /\ e.doc \in Doc /\ e.path \in Path /\ docs[e.doc] # None
    BY <1>1, FoundIs DEF Entries
  <2>2. e.path \notin foreign => File(e.path) = e.doc /\ HasEntry(e.path, e)
    BY <1>1, <1>3 DEF CallOK, ListingOK
  <2> QED BY <2>1, <2>2 DEF LiveAt, Unused, HasEntry
<1>11. Batch'
  <2> SUFFICES ASSUME NEW u \in Slot, NEW e \in call'[u].kids
               PROVE  /\ \A f \in call'[u].kids :
                           e # f /\ e.path \notin foreign' /\ f.path \notin foreign' => ~Related(e.path, f.path)
                      /\ \A t \in Slot : call'[t].of = u =>
                           /\ e.path \notin foreign' /\ Target(call'[t]) \notin foreign'
                                => ~Related(Moved(e.path, call'[u].path, call'[u].dest), Target(call'[t]))
                           /\ call'[t].op = "move" /\ (e.path \notin foreign' \/ Mine(call[t])') => e.path # call'[t].path
    BY DEF Batch, Target
  <2>1. ASSUME NEW t \in Slot, call'[t].of = u
        PROVE  /\ call[t].of = u /\ call'[t].op = call[t].op /\ call'[t].path = call[t].path
               /\ Target(call'[t]) = Target(call[t]) /\ (Mine(call[t])' => Mine(call[t]))
    <3>1. u # None
      BY VolumeAssumption
    <3> QED BY <1>1, <1>6, <1>8, <2>1, <3>1, KidStep
  <2>2. CASE u = s
    <3>1. \A t \in Slot : call'[t].of # u
      <4> SUFFICES ASSUME NEW t \in Slot, call'[t].of = s PROVE FALSE
        BY <2>2
      <4>1. call[t].of = s
        BY <2>1, <2>2
      <4>2. Idle(call[s])
        BY <1>1, <4>1, KinIs, VolumeAssumption
      <4> QED BY <1>3, <4>2 DEF Idle, NoReq
    <3>2. ASSUME NEW f \in call'[u].kids, e # f, e.path \notin foreign, f.path \notin foreign, Related(e.path, f.path)
          PROVE  FALSE
      <4>1. e \in c.kids /\ f \in c.kids
        BY <1>6, <2>2, <3>2
      <4>2. /\ e \in Entries /\ e.path \in Path /\ File(e.path) = e.doc
            /\ HasEntry(e.path, e) /\ e.doc \in LiveAt(e.path)
        BY <1>10, <3>2, <4>1
      <4>3. /\ f \in Entries /\ f.path \in Path /\ File(f.path) = f.doc
            /\ HasEntry(f.path, f) /\ f.doc \in LiveAt(f.path)
        BY <1>10, <3>2, <4>1
      <4>4. CASE e.path = f.path
        <5>1. e.doc = f.doc
          BY <4>2, <4>3, <4>4
        <5>2. OneEach(c.kids)
          BY <1>1, <1>3, <1>4 DEF CallOK, ListingOK
        <5> QED BY <3>2, <4>1, <5>1, <5>2 DEF OneEach
      <4>5. CASE e.path # f.path
        <5>1. Near(e.path, f.path)
          BY <3>2, <4>2, <4>3, <4>5, RelatedIs, PlaceIs
        <5> QED BY <3>2, <4>2, <4>3, <5>1 DEF Near, OwnInv, TreeShape
      <4> QED BY <4>4, <4>5
    <3> QED BY <3>1, <3>2
  <2>3. CASE u # s
    <3>1. Alike(call'[u], call[u]) /\ call[u] \in Calls
      BY <1>1, <1>6, <2>3, CallPlaces DEF Only
    <3>2. call'[u].kids = call[u].kids /\ call'[u].path = call[u].path /\ call'[u].dest = call[u].dest
      BY <3>1, AlikeIs
    <3>3. \A f \in call'[u].kids : e # f /\ e.path \notin foreign' /\ f.path \notin foreign' => ~Related(e.path, f.path)
      BY <3>2 DEF OwnInv, Batch
    <3>4. ASSUME NEW t \in Slot, call'[t].of = u
          PROVE  /\ e.path \notin foreign' /\ Target(call'[t]) \notin foreign'
                      => ~Related(Moved(e.path, call'[u].path, call'[u].dest), Target(call'[t]))
                 /\ call'[t].op = "move" /\ (e.path \notin foreign' \/ Mine(call[t])') => e.path # call'[t].path
      BY <2>1, <3>2, <3>4 DEF OwnInv, Batch
    <3> QED BY <3>3, <3>4
  <2> QED BY <2>2, <2>3
<1>12. CallOK(c)'
  <2>1. KidsOK(c)'
    <3> SUFFICES ASSUME NEW e \in c.kids, e.path \notin foreign PROVE index'.files[e.path] # None
      BY DEF KidsOK, File
    <3>1. e \in call[s].ans.docs /\ e.path \in Path
      BY <1>4, <1>10
    <3>2. PICK f \in call[s].ans.docs : index'.files[e.path] = f.doc
      BY <1>3, <3>1 DEF Learns
    <3>3. f.doc \in Doc
      BY <1>1, FoundIs DEF Entries
    <3> QED BY <1>1, <3>2, <3>3
  <2>2. c.ans.status = "none" /\ c.req.kind = "none" /\ c.op # "move"
    BY <1>3, <1>4 DEF NoAns, NoReq, TreeOps
  <2> QED BY <2>1, <2>2 DEF CallOK, AskedOK, AddingOK, UpdatedOK, AddedOK, DeletedOK, ListingOK, FoundOK, ListedOK, BulkedOK,
         LookingOK, PastOK, RenamedOK, MissedOK, Past, Renaming
<1> QED BY <1>2, <1>5, <1>6, <1>7, <1>9, <1>11, <1>12, CallOKIs, TellOwn DEF StructInv

(* An answer that tells nothing.                                           *)
LEMMA TellsNothing ==
  ASSUME OwnInv, TInv', NEW s \in Slot, docs' = docs, foreign' = foreign, index'.files = index.files, cache' = cache,
         ~Renaming(call[s]), \A q \in Path : ~Pend(call[s], q)
  PROVE  Tells(s, {}, {})
BY DEF Tells

LEMMA FoundSourceOwn ==
  ASSUME OwnInv, NEW s \in Slot, FoundSource(s), UNCHANGED <<docs, calls, events, foreign>>
  PROVE  OwnInv'
<1>1. TInv /\ TypeInv /\ CallOK(call[s]) /\ None \notin Doc
  BY VolumeAssumption DEF OwnInv, TInv, CallsOK
<1>2. TInv' /\ FoundSourceDoes(s)
  BY <1>1, FoundSourceType
<1>3. MoveAnswered(s, "find", "ok") /\ call[s].doc = None /\ Learns(index', call[s].ans.docs) /\ cache' = cache
  BY <1>2 DEF FoundSourceDoes
<1>4. PICK c \in Calls :
           /\ Goes(s, c)
           /\ c = Free \/ /\ call[s].ans.docs # {}
                          /\ c.op = "move" /\ c.path = call[s].path /\ c.dest = call[s].dest
                          /\ c.of = call[s].of /\ c.kids = {} /\ Fresh(c, index') /\ c.doc # None
  BY <1>2 DEF FoundSourceDoes
<1>5. PICK p \in Path : p = call[s].path
  BY <1>3 DEF MoveAnswered
<1>6. /\ call[s].op = "move" /\ call[s].req.kind = "find" /\ call[s].ans.status = "ok" /\ call[s] \in Calls
      /\ call[s].req.path = p /\ call[s].dest \in Path
      /\ call[s].ans.docs = {} \/ \E e \in call[s].ans.docs : call[s].ans.docs = {e} /\ e.path = p
  BY <1>3, <1>5 DEF MoveAnswered, MoveOK, AnswerOK
<1>7. Touches(call[s], p)
  BY <1>1, <1>5, <1>6, AnsweredTouches
<1>8. ~Renaming(call[s]) /\ \A q : ~Pend(call[s], q)
  BY <1>6 DEF Renaming, Pend
<1>9. p \notin foreign => index.files[p] = None /\ Coherent(p) /\ call[s].of = None
  BY <1>1, <1>3, <1>5, <1>6, <1>7, <1>8, CoherentAt DEF CallOK, LookingOK, File
<1>10. CASE call[s].ans.docs = {}
  <2>1. c = Free
    BY <1>4, <1>10
  <2>2. \A q \in Path : index'.files[q] = index.files[q]
    BY <1>3, <1>10 DEF Learns
  <2>3. index'.files = index.files
    BY <1>1, <1>2, <2>2 DEF TInv, TypeInv, IndexType
  <2>4. Tells(s, {}, {})
    BY <1>2, <1>3, <1>8, <2>3, TellsNothing
  <2> QED BY <1>2, <1>4, <2>1, <2>4, TellEndOwn
<1>11. ASSUME NEW e \in call[s].ans.docs, call[s].ans.docs = {e}, e.path = p
       PROVE  OwnInv'
  <2>1. e.doc \in Doc
    BY <1>1, FoundIs DEF Entries
  <2>2. Holds(p, e.doc) /\ p \in foreign
    BY <1>1, <1>6, <1>9, <1>11, <2>1 DEF CallOK, ListingOK, File
  <2>3. index'.files[p] = e.doc /\ \A q \in Path : q # p => index'.files[q] = index.files[q]
    BY <1>3, <1>11 DEF Learns
  <2>4. Tells(s, {p}, {})
    BY <1>1, <1>3, <1>7, <1>8, <2>1, <2>2, <2>3 DEF Tells
  <2>5. CASE c = Free
    BY <1>2, <1>4, <2>4, <2>5, TellEndOwn
  <2>6. CASE c # Free
    <3>1. /\ c.op = "move" /\ c.path = p /\ c.dest = call[s].dest
          /\ c.of = call[s].of /\ c.kids = {} /\ Fresh(c, index') /\ c.doc # None
      BY <1>4, <1>5, <2>6
    <3>2. call'[s] = c /\ Only(s)
      BY <1>4 DEF Goes, Only
    <3>3. c.ans.status = "none" /\ index'.files[c.dest] = None
      BY <3>1 DEF Fresh, NoAns
    <3>4. File(c.dest) = None
      BY <1>1, <1>6, <2>1, <2>3, <3>1, <3>3 DEF File
    <3>5. KeepsTree(call'[s], call[s])
      BY <1>5, <1>6, <3>1, <3>2, <3>3, <3>4 DEF KeepsTree, Renaming
    <3>6. call[s] # Free
      BY <1>6 DEF Free
    <3>7. Continues(call'[s], call[s])
      BY <1>5, <3>1, <3>2, <3>5, <3>6 DEF Continues, Stays, KeepsKids
    <3>8. StructInv'
      BY <3>2, <3>7, StructStep
    <3>9. \A d \in Doc : index'.files[c.path] = d => Holds(c.path, d)'
      BY <2>2, <2>3, <3>1 DEF Holds
    <3>10. c.path \in foreign'
      BY <2>2, <3>1
    <3>11. CallOK(c)'
      BY <2>6, <3>1, <3>9, <3>10, FreshOK
    <3> QED BY <1>2, <2>4, <3>2, <3>8, <3>11, CallOKIs, TellOwn
  <2> QED BY <2>5, <2>6
<1> QED BY <1>6, <1>10, <1>11

LEMMA FoundTargetOwn ==
  ASSUME OwnInv, NEW s \in Slot, FoundTarget(s), UNCHANGED <<docs, calls, events, foreign>>
  PROVE  OwnInv'
<1>1. TInv /\ TypeInv /\ CallOK(call[s]) /\ None \notin Doc
  BY VolumeAssumption DEF OwnInv, TInv, CallsOK
<1>2. TInv' /\ FoundTargetDoes(s)
  BY <1>1, FoundTargetType
<1>3. MoveAnswered(s, "find", "ok") /\ call[s].doc # None /\ Learns(index', call[s].ans.docs) /\ cache' = cache
  BY <1>2 DEF FoundTargetDoes
<1>4. PICK c \in Calls :
           /\ Goes(s, c)
           /\ c = Free \/ /\ call[s].ans.docs = {}
                          /\ c.op = "move" /\ c.path = call[s].path /\ c.dest = call[s].dest /\ c.doc = call[s].doc
                          /\ c.of = call[s].of /\ c.kids = {} /\ c.ans = NoAns /\ c.req.kind = "rename"
  BY <1>2 DEF FoundTargetDoes
<1>5. PICK q \in Path : q = call[s].dest
  BY <1>3 DEF MoveAnswered
<1>6. /\ call[s].op = "move" /\ call[s].req.kind = "find" /\ call[s].ans.status = "ok" /\ call[s] \in Calls
      /\ call[s].req.path = q
      /\ call[s].ans.docs = {} \/ \E e \in call[s].ans.docs : call[s].ans.docs = {e} /\ e.path = q
  BY <1>3, <1>5 DEF MoveAnswered, MoveOK, AnswerOK
<1>7. Past(call[s])
  BY <1>3, <1>6 DEF Past
<1>8. Touches(call[s], q)
  BY <1>1, <1>5, <1>6, <1>7, AnsweredTouches
<1>9. ~Renaming(call[s]) /\ \A r : ~Pend(call[s], r)
  BY <1>6 DEF Renaming, Pend
<1>10. q \notin foreign => index.files[q] = None
  BY <1>1, <1>5, <1>7, <1>9 DEF CallOK, PastOK, File
<1>11. CASE call[s].ans.docs = {}
  <2>1. \A r \in Path : index'.files[r] = index.files[r]
    BY <1>3, <1>11 DEF Learns
  <2>2. index'.files = index.files
    BY <1>1, <1>2, <2>1 DEF TInv, TypeInv, IndexType
  <2>3. Tells(s, {}, {})
    BY <1>2, <1>3, <1>9, <2>2, TellsNothing
  <2>4. CASE c = Free
    BY <1>2, <1>4, <2>3, <2>4, TellEndOwn
  <2>5. CASE c # Free
    <3>1. /\ c.op = "move" /\ c.path = call[s].path /\ c.dest = call[s].dest /\ c.doc = call[s].doc
          /\ c.of = call[s].of /\ c.kids = {} /\ c.ans = NoAns /\ c.req.kind = "rename"
      BY <1>4, <2>5
    <3>2. call'[s] = c /\ Only(s) /\ c.ans.status = "none"
      BY <1>4, <3>1 DEF Goes, Only, NoAns
    <3>3. KeepsTree(call'[s], call[s])
      BY <1>6, <1>7, <3>1, <3>2 DEF KeepsTree, Renaming
    <3>4. call[s] # Free
      BY <1>6 DEF Free
    <3>5. Continues(call'[s], call[s])
      BY <3>1, <3>2, <3>3, <3>4 DEF Continues, Stays, KeepsKids
    <3>6. StructInv'
      BY <3>2, <3>5, StructStep
    <3>7. PastOK(c)'
      <4>1. /\ Holds(c.path, c.doc)
            /\ c.path \notin foreign => File(c.path) = c.doc
            /\ c.dest \notin foreign => File(c.dest) = None
            /\ c.path \notin foreign /\ c.dest \notin foreign => Clear(c.dest)
        BY <1>1, <1>7, <1>9, <3>1 DEF CallOK, PastOK
      <4>2. Holds(c.path, c.doc)'
        BY <4>1 DEF Holds
      <4>3. Clear(c.dest) => Clear(c.dest)'
        BY <2>2 DEF Clear, File
      <4> QED BY <2>2, <4>1, <4>2, <4>3 DEF PastOK, File
    <3>8. CallOK(c)'
      <4>1. KidsOK(c)' /\ LookingOK(c)'
        BY <1>3, <3>1 DEF KidsOK, LookingOK
      <4>2. AskedOK(c)' /\ AddingOK(c)' /\ MissedOK(c)' /\ RenamedOK(c)'
        BY <3>1, <3>2 DEF AskedOK, AddingOK, MissedOK, RenamedOK, Renaming
      <4>3. UpdatedOK(c)' /\ AddedOK(c)' /\ DeletedOK(c)' /\ ListingOK(c)' /\ FoundOK(c)' /\ ListedOK(c)' /\ BulkedOK(c)'
        BY <3>1 DEF UpdatedOK, AddedOK, DeletedOK, ListingOK, FoundOK, ListedOK, BulkedOK
      <4> QED BY <3>7, <4>1, <4>2, <4>3 DEF CallOK
    <3> QED BY <1>2, <2>3, <3>2, <3>6, <3>8, CallOKIs, TellOwn
  <2> QED BY <2>4, <2>5
<1>12. ASSUME NEW e \in call[s].ans.docs, call[s].ans.docs = {e}, e.path = q
       PROVE  OwnInv'
  <2>1. e.doc \in Doc /\ c = Free
    BY <1>1, <1>4, <1>12, FoundIs DEF Entries
  <2>2. Holds(q, e.doc) /\ q \in foreign
    BY <1>1, <1>6, <1>10, <1>12, <2>1 DEF CallOK, ListingOK, File
  <2>3. index'.files[q] = e.doc /\ \A r \in Path : r # q => index'.files[r] = index.files[r]
    BY <1>3, <1>12 DEF Learns
  <2>4. Tells(s, {q}, {})
    BY <1>1, <1>3, <1>8, <1>9, <2>1, <2>2, <2>3 DEF Tells
  <2> QED BY <1>2, <1>4, <2>1, <2>4, TellEndOwn
<1> QED BY <1>6, <1>11, <1>12

LEMMA RenamedOwn ==
  ASSUME OwnInv, NEW s \in Slot, Renamed(s), UNCHANGED <<docs, calls, events, foreign>>
  PROVE  OwnInv'
<1>1. TInv /\ TypeInv /\ CallOK(call[s]) /\ None \notin Doc
  BY VolumeAssumption DEF OwnInv, TInv, CallsOK
<1>2. TInv' /\ RenamedDoes(s)
  BY <1>1, RenamedType
<1>3. PICK p \in Path : p = call[s].path
  BY <1>2 DEF RenamedDoes, MoveAnswered
<1>4. PICK q \in Path : q = call[s].dest
  BY <1>2 DEF RenamedDoes, MoveAnswered
<1>5. PICK d \in Doc : d = call[s].doc
  BY <1>2 DEF RenamedDoes
<1>6. /\ call[s].op = "move" /\ call[s].req.kind = "rename" /\ call[s].ans.status = "ok" /\ call[s] \in Calls
      /\ \A r \in Path : index'.files[r] = IF r = q THEN d ELSE IF r = p THEN None ELSE index.files[r]
      /\ \A r \in Path : cache'[r] = IF r = p THEN None
                                     ELSE IF r = q /\ cache[p] # None THEN cache[p] ELSE cache[r]
      /\ Goes(s, Free)
  BY <1>2, <1>3, <1>4, <1>5 DEF RenamedDoes, MoveAnswered
<1>7. Past(call[s]) /\ Renaming(call[s])
  BY <1>1, <1>5, <1>6 DEF Past, Renaming
<1>8. Touches(call[s], p) /\ Touches(call[s], q)
  BY <1>1, <1>3, <1>4, <1>6, <1>7, AnsweredTouches
<1>9. /\ Holds(q, d)
      /\ p \notin foreign => LiveAt(p) = {}
      /\ q \notin foreign => index.files[q] = None /\ LiveAt(q) = {d} /\ (cache[p] = None \/ Shows(cache[p], d))
  BY <1>1, <1>3, <1>4, <1>5, <1>7 DEF CallOK, RenamedOK, File
<1>10. index.files[q] = None => cache[q] = None
  BY DEF OwnInv, CacheOK, File
<1>11. Target(call[s]) = q
  BY <1>4, <1>6 DEF Target
<1>12. \A r \in Path : Pend(call[s], r) => r \in {p, q}
  BY <1>1, <1>3, <1>4, <1>6, PendIs
<1> DEFINE Y == {p, q}
<1>13. /\ \A y \in Y : Touches(call[s], y)
       /\ \A r \in Path \ Y : index'.files[r] = index.files[r] /\ cache'[r] = cache[r]
       /\ \A r \in Y \ {q} : index'.files[r] = None
  BY <1>6, <1>8
<1>14. \A x \in Y, e \in Doc : index'.files[x] = e => Holds(x, e)
  BY <1>1, <1>6, <1>9
<1>15. \A r \in Y : cache'[r] # None => index'.files[r] # None
  BY <1>1, <1>6
<1>16. \A r \in Y \ foreign :
       /\ LiveAt(r) = (IF index'.files[r] = None THEN {} ELSE {index'.files[r]})
       /\ index'.files[r] # None /\ cache'[r] # None => Shows(cache'[r], index'.files[r])
  <2>1. CASE q \notin foreign
    <3>1. (cache'[q] = None \/ Shows(cache'[q], d))
      BY <1>6, <1>9, <1>10, <2>1
    <3>2. index'.files[q] = d
      BY <1>6
    <3>3. p # q => index'.files[p] = None
      BY <1>6
    <3> QED BY <1>1, <1>9, <2>1, <3>1, <3>2, <3>3
  <2>2. CASE q \in foreign
    <3>1. p # q => index'.files[p] = None
      BY <1>6
    <3> QED BY <1>9, <2>2, <3>1
  <2> QED BY <2>1, <2>2
<1>17. Tells(s, Y, {q})
  <2>1. Y \subseteq Path /\ {q} \subseteq Y /\ call[s].path \in Y
    BY <1>3
  <2>2. \A r \in Path \ Y : index'.files[r] = index.files[r] /\ cache'[r] \in {None, cache[r]}
    BY <1>13
  <2>3. \A r \in Y \ ({q} \cup foreign) : index'.files[r] # None => index.files[r] # None
    BY <1>13
  <2>4. \A y \in Y \ foreign : y # call[s].path /\ File(y) # None => index'.files[y] # None
    BY <1>1, <1>3, <1>6
  <2>5. \A r \in Path \ (Y \cup foreign) : ~Pend(call[s], r)
    BY <1>12
  <2> HIDE DEF Y
  <2> QED BY <1>11, <1>13, <1>14, <1>15, <1>16, <2>1, <2>2, <2>3, <2>4, <2>5 DEF Tells
<1> QED BY <1>2, <1>6, <1>17, TellEndOwn

LEMMA RenamedNothingOwn ==
  ASSUME OwnInv, NEW s \in Slot, RenamedNothing(s), UNCHANGED <<docs, calls, events, foreign>>
  PROVE  OwnInv'
<1>1. TInv /\ TypeInv /\ CallOK(call[s]) /\ None \notin Doc
  BY VolumeAssumption DEF OwnInv, TInv, CallsOK
<1>2. TInv' /\ RenamedNothingDoes(s)
  BY <1>1, RenamedNothingType
<1>3. PICK p \in Path : p = call[s].path
  BY <1>2 DEF RenamedNothingDoes, MoveAnswered
<1>4. /\ call[s].op = "move" /\ call[s].req.kind = "rename" /\ call[s].ans.status = "missing"
      /\ index'.files = [index.files EXCEPT ![p] = None]
      /\ \A q \in Path : cache'[q] = IF q = p THEN None ELSE cache[q]
      /\ Goes(s, Free)
  BY <1>2, <1>3 DEF RenamedNothingDoes, MoveAnswered
<1>5. p \in foreign
  BY <1>1, <1>3, <1>4 DEF CallOK, MissedOK
<1>6. Touches(call[s], p)
  BY <1>1, <1>3, <1>4, AnsweredTouches
<1>7. index'.files[p] = None /\ \A q \in Path : q # p => index'.files[q] = index.files[q]
  BY <1>1, <1>4 DEF TypeInv, IndexType
<1>8. ~Renaming(call[s]) /\ \A q : ~Pend(call[s], q)
  BY <1>4 DEF Pend, Renaming
<1>9. Tells(s, {p}, {})
  BY <1>1, <1>4, <1>5, <1>6, <1>7, <1>8 DEF Tells
<1> QED BY <1>2, <1>4, <1>9, TellEndOwn

LEMMA ResumeOwn ==
  ASSUME OwnInv, NEW s \in Slot, Resume(s)
  PROVE  OwnInv'
<1>1. UNCHANGED <<docs, calls, events, foreign>>
  BY DEF Resume
<1>2. CASE Eio(s) \/ GotDoc(s) \/ Written(s) \/ Removed(s) \/ TreeRemoved(s)
  BY <1>1, <1>2, EioOwn, GotDocOwn, WrittenOwn, RemovedOwn, TreeRemovedOwn
<1>3. CASE RmdirListed(s) \/ Listed(s) \/ TreeListed(s) \/ StartKid(s) \/ TreeDone(s)
  BY <1>1, <1>3, RmdirListedOwn, ListedOwn, TreeListedOwn, StartKidOwn, TreeDoneOwn
<1>4. CASE FoundSource(s) \/ FoundTarget(s) \/ Renamed(s) \/ RenamedNothing(s)
  BY <1>1, <1>4, FoundSourceOwn, FoundTargetOwn, RenamedOwn, RenamedNothingOwn
<1> QED BY <1>2, <1>3, <1>4 DEF Resume

LEMMA SpawnStruct ==
  ASSUME OwnInv, NEW s \in Slot, NEW t \in Slot, NEW e \in Entries, SpawnDoes(s, t, e)
  PROVE  StructInv'
<1>1. TypeInv /\ CallsOK /\ Locks /\ Siblings /\ Batch /\ None \notin Slot
  BY VolumeAssumption DEF OwnInv, TInv
<1>2. PICK to \in Path : to = Moved(e.path, call[s].path, call[s].dest)
  BY DEF SpawnDoes
<1>3. PICK p \in Path : p = e.path
  BY DEF Entries
<1>4. /\ e \in call[s].kids /\ s # t /\ call[t] = Free /\ Idle(call[s]) /\ call[s].of = None
      /\ call[s].path \in Path /\ call[s].dest \in Path /\ p \in Under(call[s].path)
      /\ \A u \in Slot \ {s, t} : call'[u] = call[u]
      /\ call'[s].op = call[s].op /\ call'[s].path = call[s].path /\ call'[s].dest = call[s].dest
      /\ call'[s].kids = call[s].kids \ {e} /\ call'[s].of = None
      /\ call'[t].of = s /\ call'[t].req = NoReq /\ call'[t].ans = NoAns /\ call'[t].doc = None /\ call'[t].kids = {}
      /\ foreign' = foreign \cup (IF p \in foreign THEN {to} ELSE {})
  BY <1>2, <1>3 DEF SpawnDoes
<1>5. IF call[s].op = "mvtree" THEN call'[t].op = "move" /\ call'[t].path = p /\ call'[t].dest = to
                               ELSE call'[t].op = "write" /\ call'[t].path = to /\ call'[t].dest = None
  BY <1>2, <1>3 DEF SpawnDoes
<1>6. Target(call'[t]) = to
  BY <1>5 DEF Target
<1>7. /\ foreign \subseteq foreign' /\ (to \notin foreign' => p \notin foreign)
      /\ call[s] # Free /\ call'[t] # Free
  BY <1>4, <1>5 DEF Idle, TreeOps, Free
<1>8. \A x \in Slot \ {s, t} : Mine(call[x])' => Mine(call[x])
  BY <1>4, <1>7 DEF Mine, Renaming
<1>9. Mine(call[t])' => call'[t].op = "move" /\ p \notin foreign
  BY <1>4, <1>5, <1>7 DEF Mine, Renaming, NoReq
<1>10. \A x \in Slot : call[x].of = s => x # s /\ x # t /\ (call[x].op = "move" <=> call[s].op = "mvtree")
  BY <1>1, <1>4, KinIs, FreeIsCall
<1>11. Locks'
  <2> SUFFICES ASSUME NEW a \in Slot, NEW b \in Slot, a # b, call'[a] # Free, call'[b] # Free, ~Kin(a, b)'
               PROVE  Apart(call'[a], call'[b])
    BY DEF Locks, Apart, Kin
  <2>1. ASSUME NEW u \in Slot \ {s, t}, call[u] # Free, call[u].of # s
        PROVE  Apart(call'[u], call'[t]) /\ Apart(call'[t], call'[u])
    <3>1. Apart(call[s], call[u])
      <4>1. ~Kin(s, u)
        BY <1>1, <1>4, <2>1 DEF Kin
      <4> QED BY <1>1, <1>7, <2>1, <4>1 DEF Locks
    <3>2. Reach(call[s], p) /\ Reach(call[s], to)
      <4>1. IsPrefix(call[s].path, p)
        BY <1>4, StrictIs DEF Under
      <4>2. IsPrefix(call[s].dest, to)
        BY <1>2, <1>3, <1>4, <4>1, MovedBelow, PlaceIs
      <4> QED BY <1>4, <4>1, <4>2, PlaceIs DEF Reach
    <3>3. \A x \in {p, to}, v \in {call[u].path, call[u].dest} : ~Related(x, v) /\ ~Related(v, x)
      <4> SUFFICES ASSUME NEW x \in {p, to}, NEW v \in {call[u].path, call[u].dest}
                   PROVE  ~Related(x, v) /\ ~Related(v, x)
        OBVIOUS
      <4>1. CASE v \in Places
        BY <1>1, <1>7, <2>1, <3>1, <3>2, <4>1, FarApart, PlaceIs
      <4>2. CASE v = None
        BY <4>2, RelatedNone
      <4> QED BY <1>1, <2>1, <4>1, <4>2, CallPlaces, PlaceIs
    <3>4. {call'[t].path, call'[t].dest} \subseteq {p, to, None} /\ call'[u] = call[u]
      BY <1>4, <1>5
    <3> QED BY <3>3, <3>4, RelatedNone DEF Apart
  <2>2. ASSUME NEW u \in Slot \ {s, t}, call[u] # Free, call[u].of # s
        PROVE  Apart(call'[u], call'[s]) /\ Apart(call'[s], call'[u])
    <3>1. ~Kin(s, u) /\ ~Kin(u, s)
      BY <1>1, <1>4, <2>2 DEF Kin
    <3> QED BY <1>1, <1>4, <1>7, <2>2, <3>1 DEF Locks, Apart
  <2>3. CASE a \in {s, t} /\ b \in {s, t}
    BY <1>4, <2>3 DEF Kin
  <2>4. CASE a \notin {s, t} /\ b \in {s, t}
    <3>1. call'[a] = call[a] /\ call[a].of # s
      BY <1>1, <1>4, <2>4 DEF Kin
    <3> QED BY <2>1, <2>2, <2>4, <3>1
  <2>5. CASE a \in {s, t} /\ b \notin {s, t}
    <3>1. call'[b] = call[b] /\ call[b].of # s
      BY <1>1, <1>4, <2>5 DEF Kin
    <3> QED BY <2>1, <2>2, <2>5, <3>1
  <2>6. CASE a \notin {s, t} /\ b \notin {s, t}
    BY <1>1, <1>4, <2>6 DEF Locks, Kin
  <2> QED BY <2>3, <2>4, <2>5, <2>6
<1>12. \A x \in Slot : call[x].of = s =>
         /\ p \notin foreign /\ Target(call[x]) \notin foreign => ~Related(to, Target(call[x]))
         /\ call[x].op = "move" /\ (p \notin foreign \/ Mine(call[x])) => p # call[x].path
  BY <1>1, <1>2, <1>3, <1>4 DEF Batch
<1>13. ASSUME NEW x \in Slot, call[x].of = s, call[x].op = "move", Past(call[x]), p \notin foreign
       PROVE  call[x].dest # p
  <2>1. call[x].dest \notin foreign => File(call[x].dest) = None
    BY <1>1, <1>13 DEF CallsOK, CallOK, PastOK, RenamedOK
  <2>2. File(p) # None
    <3>1. call[s].op = "mvtree"
      BY <1>10, <1>13
    <3> QED BY <1>1, <1>3, <1>4, <1>13, <3>1 DEF CallsOK, CallOK, KidsOK
  <2> QED BY <1>13, <2>1, <2>2
<1>14. Siblings'
  <2> SUFFICES ASSUME NEW a \in Slot, NEW b \in Slot, a # b, call'[a].of # None, call'[a].of = call'[b].of
               PROVE  /\ Target(call'[a]) \notin foreign' /\ Target(call'[b]) \notin foreign'
                           => ~Related(Target(call'[a]), Target(call'[b]))
                      /\ Mine(call[a])' => call'[b].path # call'[a].path
                      /\ Mine(call[a])' /\ Past(call'[b]) => call'[b].dest # call'[a].path
    BY DEF Siblings, Target, Past
  <2>1. a # s /\ b # s
    BY <1>4
  <2>2. CASE a # t /\ b # t
    <3>1. call'[a] = call[a] /\ call'[b] = call[b] /\ (Mine(call[a])' => Mine(call[a]))
      BY <1>4, <1>8, <2>1, <2>2
    <3> QED BY <1>1, <1>7, <3>1 DEF Siblings
  <2>3. CASE a = t
    <3>1. call'[b] = call[b] /\ call[b].of = s
      BY <1>4, <2>1, <2>3
    <3>2. Target(call'[a]) \notin foreign' /\ Target(call'[b]) \notin foreign'
            => ~Related(Target(call'[a]), Target(call'[b]))
      BY <1>6, <1>7, <1>12, <2>3, <3>1
    <3>3. Mine(call[a])' => /\ call'[a].path = p /\ p \notin foreign /\ call[b].op = "move"
      BY <1>5, <1>9, <1>10, <2>3, <3>1
    <3> QED BY <1>12, <1>13, <3>1, <3>2, <3>3
  <2>4. CASE b = t
    <3>1. call'[a] = call[a] /\ call[a].of = s /\ (Mine(call[a])' => Mine(call[a]))
      BY <1>4, <1>8, <2>1, <2>4
    <3>2. Target(call'[a]) \notin foreign' /\ Target(call'[b]) \notin foreign'
            => ~Related(Target(call'[a]), Target(call'[b]))
      <4> SUFFICES ASSUME Target(call[a]) \notin foreign', to \notin foreign' PROVE ~Related(Target(call[a]), to)
        BY <1>6, <2>4, <3>1
      <4>1. ~Related(to, Target(call[a]))
        BY <1>7, <1>12, <3>1
      <4>2. Target(call[a]) \in Path
        BY <1>1, <1>4, <3>1, KinIs DEF Target
      <4> QED BY <4>1, <4>2, RelatedIs, PlaceIs
    <3>3. Mine(call[a])' => call[a].op = "move" /\ call'[b].path = p
      BY <1>5, <1>10, <2>4, <3>1 DEF Mine
    <3>4. ~Past(call'[b])
      BY <1>4, <2>4 DEF Past
    <3> QED BY <1>12, <3>1, <3>2, <3>3, <3>4
  <2> QED BY <2>2, <2>3, <2>4
<1>15. Batch'
  <2> SUFFICES ASSUME NEW u \in Slot, NEW g \in call'[u].kids
               PROVE  /\ \A f \in call'[u].kids :
                           g # f /\ g.path \notin foreign' /\ f.path \notin foreign' => ~Related(g.path, f.path)
                      /\ \A x \in Slot : call'[x].of = u =>
                           /\ g.path \notin foreign' /\ Target(call'[x]) \notin foreign'
                                => ~Related(Moved(g.path, call'[u].path, call'[u].dest), Target(call'[x]))
                           /\ call'[x].op = "move" /\ (g.path \notin foreign' \/ Mine(call[x])') => g.path # call'[x].path
    BY DEF Batch, Target
  <2>1. u # t /\ call'[u].kids \subseteq call[u].kids /\ call'[u].path = call[u].path /\ call'[u].dest = call[u].dest
    BY <1>4
  <2>2. \A f \in call'[u].kids :
          g # f /\ g.path \notin foreign' /\ f.path \notin foreign' => ~Related(g.path, f.path)
    BY <1>1, <1>7, <2>1 DEF Batch
  <2>3. ASSUME NEW x \in Slot, call'[x].of = u, x # t
        PROVE  /\ g.path \notin foreign' /\ Target(call'[x]) \notin foreign'
                    => ~Related(Moved(g.path, call'[u].path, call'[u].dest), Target(call'[x]))
               /\ call'[x].op = "move" /\ (g.path \notin foreign' \/ Mine(call[x])') => g.path # call'[x].path
    <3>1. x # s /\ call'[x] = call[x] /\ (Mine(call[x])' => Mine(call[x]))
      BY <1>1, <1>4, <1>8, <2>3
    <3> QED BY <1>1, <1>7, <2>1, <2>3, <3>1 DEF Batch
  <2>4. ASSUME call'[t].of = u
        PROVE  /\ g.path \notin foreign' /\ Target(call'[t]) \notin foreign'
                    => ~Related(Moved(g.path, call'[u].path, call'[u].dest), Target(call'[t]))
               /\ call'[t].op = "move" /\ (g.path \notin foreign' \/ Mine(call[t])') => g.path # call'[t].path
    <3>1. u = s /\ g \in call[s].kids /\ g # e
      BY <1>4, <2>4
    <3>2. PICK q \in Path : q = g.path /\ q \in Under(call[s].path)
      <4>1. call[s] \in Calls
        BY <1>1, CallPlaces
      <4>2. g.path \in Under(call[s].path)
        BY <1>4, <3>1, <4>1 DEF Calls, WellFormed, TreeOK, Idle
      <4> QED BY <4>2 DEF Under
    <3>3. q \notin foreign /\ p \notin foreign => ~Related(q, p)
      BY <1>1, <1>3, <1>4, <3>1, <3>2 DEF Batch
    <3>4. q \notin foreign /\ p \notin foreign => q # p
      BY <3>3, RelatedIs, PlaceIs
    <3>5. ASSUME q \notin foreign, p \notin foreign
          PROVE  ~Related(Moved(q, call[s].path, call[s].dest), to)
      <4>1. IsPrefix(call[s].path, q) /\ IsPrefix(call[s].path, p)
        BY <1>4, <3>2, StrictIs DEF Under
      <4>2. ~IsPrefix(q, p) /\ ~IsPrefix(p, q)
        BY <3>3, <3>5, RelatedIs, PlaceIs
      <4>3. PICK m : m = Moved(q, call[s].path, call[s].dest)
        OBVIOUS
      <4>4. ~IsPrefix(m, to) /\ ~IsPrefix(to, m)
        BY <1>2, <1>3, <1>4, <4>1, <4>2, <4>3, MovedReflects, PlaceIs
      <4> QED BY <4>3, <4>4 DEF Related
    <3>6. g.path \notin foreign' /\ to \notin foreign'
            => ~Related(Moved(g.path, call'[u].path, call'[u].dest), to)
      BY <1>7, <2>1, <3>1, <3>2, <3>5
    <3>7. call'[t].op = "move" => call'[t].path = p
      BY <1>5
    <3>8. (g.path \notin foreign' \/ Mine(call[t])') => q \notin foreign \/ p \notin foreign
      BY <1>7, <1>9, <3>2
    <3> QED BY <1>6, <3>2, <3>4, <3>6, <3>7, <3>8
  <2> QED BY <2>2, <2>3, <2>4
<1> QED BY <1>11, <1>14, <1>15 DEF StructInv

LEMMA SpawnOwn ==
  ASSUME OwnInv, NEW s \in Slot, Spawn(s)
  PROVE  OwnInv'
<1>1. TInv /\ TypeInv /\ CallsOK
  BY DEF OwnInv, TInv
<1>2. TInv' /\ TypeInv'
  BY <1>1, SpawnType DEF TInv
<1>3. PICK t \in Slot, e \in Entries : SpawnDoes(s, t, e)
  BY <1>1, SpawnEnds
<1>4. StructInv'
  BY <1>3, SpawnStruct
<1>5. /\ e \in call[s].kids /\ s # t /\ call[t] = Free /\ Idle(call[s]) /\ e.path \in Path
      /\ \A u \in Slot \ {s, t} : call'[u] = call[u]
      /\ call'[s].op = call[s].op /\ call'[s].kids = call[s].kids \ {e} /\ call'[s].req = call[s].req
      /\ call'[s].ans = call[s].ans
      /\ call'[t].of = s /\ call'[t].req = NoReq /\ call'[t].ans = NoAns /\ call'[t].doc = None /\ call'[t].kids = {}
      /\ docs' = docs /\ index' = index /\ cache' = cache /\ foreign \subseteq foreign'
  BY <1>3 DEF SpawnDoes, Entries
<1>6. /\ call'[t].op \in {"move", "write"}
      /\ call'[t].op = "move" => call[s].op = "mvtree" /\ call'[t].path = e.path
  BY <1>3 DEF SpawnDoes
<1>7. Steady
  BY <1>1, <1>2, <1>5, SteadyIs
<1>8. CallOK(call[s])'
  <2>1. PICK c : c = call'[s]
    OBVIOUS
  <2>2. c.op = call[s].op /\ c.kids \subseteq call[s].kids /\ c.req.kind = "none" /\ c.op \in TreeOps
    BY <1>5, <2>1 DEF Idle, NoReq
  <2>3. KidsOK(c)'
    BY <1>1, <1>5, <2>2 DEF CallsOK, CallOK, KidsOK, File
  <2>4. c.ans.status = "none"
    <3>1. call[s] \in Calls
      BY <1>1, CallPlaces
    <3> QED BY <1>5, <2>1, <3>1 DEF Calls, WellFormed, AnswerOK, Idle, NoReq, NoAns
  <2>5. CallOK(c)'
    BY <2>2, <2>3, <2>4 DEF CallOK, AskedOK, AddingOK, UpdatedOK, AddedOK, DeletedOK, ListingOK, FoundOK, ListedOK, BulkedOK,
         LookingOK, PastOK, RenamedOK, MissedOK, Past, Renaming, TreeOps
  <2> QED BY <2>1, <2>5, CallOKIs
<1>9. CallOK(call[t])'
  <2>1. PICK c : c = call'[t]
    OBVIOUS
  <2>2. c.of = s /\ c.req.kind = "none" /\ c.ans.status = "none" /\ c.doc = None /\ c.op \in {"move", "write"} /\ s # None
    BY <1>5, <1>6, <2>1, VolumeAssumption DEF NoReq, NoAns
  <2>3. LookingOK(c)'
    <3> SUFFICES ASSUME c.op = "move", c.path \notin foreign' PROVE File(c.path) # None
      BY <1>5, <2>2 DEF LookingOK, File
    <3>1. call[s].op = "mvtree" /\ c.path = e.path
      BY <1>6, <2>1
    <3> QED BY <1>1, <1>5, <3>1 DEF CallsOK, CallOK, KidsOK
  <2>4. CallOK(c)'
    BY <2>2, <2>3 DEF CallOK, AskedOK, AddingOK, UpdatedOK, AddedOK, DeletedOK, ListingOK, FoundOK, ListedOK, BulkedOK,
         KidsOK, PastOK, RenamedOK, MissedOK, Past, Renaming
  <2> QED BY <2>1, <2>4, CallOKIs
<1> DEFINE A == {s, t}
<1>10. A \in SUBSET Slot /\ \A x \in A : x = s \/ x = t
  OBVIOUS
<1>11. \A u \in Slot \ A : Alike(call'[u], call[u])
  BY <1>5, AlikeRefl
<1>12. ~Renaming(call[s]) /\ \A p \in Path : ~Pend(call[s], p)
  <2>1. ~Renaming(call[s])
    BY <1>5 DEF Renaming, Idle, NoReq
  <2>2. \A p \in Path : ~Pend(call[s], p)
    BY <1>1, <1>5, PendIs
  <2> QED BY <2>1, <2>2
<1>13. ~Renaming(call[t]) /\ \A p \in Path : ~Pend(call[t], p)
  BY <1>5, FreeIsQuiet
<1>14. \A x \in A : /\ ~Renaming(call[x]) /\ CallOK(call[x])'
                    /\ \A p \in Path : Pend(call[x], p) => Pend(call'[x], p)
  BY <1>8, <1>9, <1>10, <1>12, <1>13
<1> HIDE DEF A
<1> QED BY <1>2, <1>4, <1>7, <1>10, <1>11, <1>14, SteadyOwn

LEMMA OthersOwn ==
  ASSUME OwnInv, Others
  PROVE  OwnInv'
<1>0. TInv /\ TypeInv
  BY DEF OwnInv, TInv
<1>1. PICK p : OthersDo(p)
  BY <1>0, OthersEnds
<1>2. TInv' /\ TypeInv'
  BY <1>0, OthersType DEF TInv
<1>3. /\ p \in Path /\ foreign' = foreign \cup {p} /\ index' = index /\ cache' = cache /\ call' = call
      /\ foreign' \subseteq Path
  BY <1>0, <1>1 DEF OthersDo, TypeInv
<1>4. Changes({})
  <2>1. PICK d \in Doc, v \in {Gone} \cup [path : {p}, text : Texts, broken : BOOLEAN] :
          docs' = [docs EXCEPT ![d] = v] /\ (docs[d] = None \/ d \in LiveAt(p))
    BY <1>1 DEF OthersDo
  <2>2. docs \in [Doc -> {None, Gone} \cup [path : Path, text : Texts, broken : BOOLEAN]]
    BY <1>0 DEF TypeInv
  <2>3. v # None /\ (v = Gone \/ v.path = p)
    <3>1. v # None
      BY <1>3, VolumeAssumption DEF Gone, Texts
    <3>2. v = Gone \/ v.path = p
      OBVIOUS
    <3> QED BY <3>1, <3>2
  <2>4. docs'[d] = v /\ \A x \in Doc : docs'[x] # docs[x] => x = d
    BY <2>1, <2>2
  <2>5. docs[d] = None \/ docs[d].path = p
    BY <2>1 DEF LiveAt
  <2> QED BY <1>3, <2>3, <2>4, <2>5 DEF Changes
<1> DEFINE E == {}
<1>5. E \in SUBSET Path /\ E \in SUBSET E /\ \A x : x \notin E
  OBVIOUS
<1>6. Frame(E, E)
  BY <1>0, <1>2, <1>3, <1>4, DocsFrame
<1>7. StructInv'
  BY <1>3, StructSame
<1>8. \A t \in Slot : Sep(E, E, call[t])
  BY <1>5 DEF Sep
<1>9. Others2(E, E, E)
  BY <1>3, <1>8, AlikeRefl DEF Others2
<1> HIDE DEF E
<1>10. CallsOK'
  BY <1>5, <1>6, <1>9, CallsStep
<1>11. IndexOK'
  BY <1>2, <1>5, <1>6, <1>9, <1>10, IndexStep
<1>12. Coh'
  BY <1>5, <1>6, <1>9, CohStep
<1>13. TreeShape'
  <2>1. \A q \in Path \ foreign' : LiveAt(q)' = LiveAt(q)
    BY <1>5, <1>6 DEF Frame
  <2> QED BY <1>3, <2>1, TreeStep
<1>14. CacheOK'
  BY <1>3 DEF OwnInv, CacheOK, File
<1> QED BY <1>2, <1>7, <1>10, <1>11, <1>12, <1>13, <1>14 DEF OwnInv, StructInv

LEMMA InitOwn == Init => OwnInv
<1> SUFFICES ASSUME Init PROVE OwnInv
  OBVIOUS
<1>1. TInv /\ call = [s \in Slot |-> Free] /\ foreign = {}
  BY InitType DEF Init
<1>2. PICK at \in [Doc -> Path \cup {None}] :
           /\ \A d, e \in Doc : d # e /\ at[d] # None /\ at[e] # None => ~IsPrefix(at[d], at[e])
           /\ docs = [d \in Doc |-> IF at[d] # None THEN [path |-> at[d], text |-> {}, broken |-> FALSE] ELSE None]
           /\ index.byDoc = at /\ index \in IndexType
           /\ \A p \in Path : \/ index.files[p] = None /\ \A d \in Doc : at[d] # p
                              \/ index.files[p] \in Doc /\ at[index.files[p]] = p
           /\ cache \in [Path -> Texts \cup {None}]
           /\ \A p \in Path : cache[p] # None => cache[p] = {} /\ index.files[p] # None
  BY InitIs
<1>3. None \notin Path /\ None \notin Doc /\ \A d \in Doc, q \in Path : [path |-> q, text |-> {}, broken |-> FALSE] # None
  BY VolumeAssumption
<1>4. \A d \in Doc : /\ at[d] = None => docs[d] = None
                     /\ at[d] # None => docs[d] # None /\ docs[d].path = at[d] /\ docs[d].text = {}
  BY <1>2, <1>3
<1>5. \A q \in Path : LiveAt(q) = {d \in Doc : at[d] = q}
  BY <1>3, <1>4 DEF LiveAt, Unused
<1>6. \A s \in Slot : call[s] = Free
  BY <1>1
<1>7. Free.of = None /\ Free.kids = {}
  BY DEF Free
<1>8. Locks
  BY <1>6 DEF Locks
<1>9. Siblings /\ Batch
  BY <1>6, <1>7 DEF Siblings, Batch
<1>10. CallsOK
  BY <1>6, FreeIsQuiet DEF CallsOK
<1>11. IndexOK
  BY <1>2, <1>3, <1>4 DEF IndexOK, Holds, File
<1>12. CacheOK
  BY <1>2 DEF CacheOK, File
<1>13. Coh
  <2> SUFFICES ASSUME NEW q \in Path PROVE Coherent(q)
    BY DEF Coh
  <2>1. CASE index.files[q] = None
    BY <1>2, <1>3, <1>5, <2>1 DEF Coherent, File
  <2>2. CASE index.files[q] # None
    <3>1. PICK d \in Doc : d = index.files[q] /\ at[d] = q
      BY <1>2, <2>2
    <3>2. \A x \in Doc : at[x] = q => x = d
      <4>1. IsPrefix(q, q) /\ q # None
        BY <1>3, PlaceIs, PrefixRefl
      <4> QED BY <1>2, <3>1, <4>1
    <3>3. LiveAt(q) = {d}
      BY <1>5, <3>1, <3>2
    <3>4. docs[d].text = {}
      BY <1>3, <1>4, <3>1
    <3> QED BY <1>2, <2>2, <3>1, <3>3, <3>4 DEF Coherent, File, Shows
  <2> QED BY <2>1, <2>2
<1>14. TreeShape
  <2> SUFFICES ASSUME NEW q \in Path, NEW r \in Path, IsStrictPrefix(q, r), NEW d \in LiveAt(q), NEW e \in LiveAt(r)
               PROVE FALSE
    BY DEF TreeShape
  <2>1. d \in Doc /\ e \in Doc /\ at[d] = q /\ at[e] = r
    BY <1>5
  <2>2. IsPrefix(q, r) /\ q # r
    BY StrictIs
  <2> QED BY <1>2, <1>3, <2>1, <2>2
<1> QED BY <1>1, <1>8, <1>9, <1>10, <1>11, <1>12, <1>13, <1>14 DEF OwnInv

LEMMA NextOwn ==
  ASSUME OwnInv, "overlap" \notin Hazards, "lost" \notin Hazards, [Next]_vars
  PROVE  OwnInv'
<1>1. CASE UNCHANGED vars
  BY <1>1, StutterOwn
<1>2. ASSUME NEW s \in Slot, Start(s) \/ Serve(s) \/ Fail(s) \/ Resume(s) \/ Spawn(s) PROVE OwnInv'
  BY <1>2, StartOwn, ServeOwn, FailOwn, ResumeOwn, SpawnOwn
<1>3. CASE Others \/ ProcessingFails \/ Expire
  BY <1>3, OthersOwn, ProcessingOwn, ExpireOwn
<1> QED BY <1>1, <1>2, <1>3 DEF Next

(* The rules of a call without overlaps and lost answers: what it was told *)
(* of its paths stays true while it waits, so what it puts into index and  *)
(* cache is what the server has (SupermemoryFs over SupermemoryVolume), or *)
(* getDoc's blurb for a document that could not be processed.              *)
THEOREM OwnTheorem ==
  ASSUME "overlap" \notin Hazards, "lost" \notin Hazards
  PROVE  Spec => []OwnInv
<1>1. OwnInv /\ [Next]_vars => OwnInv'
  BY NextOwn
<1> QED BY <1>1, InitOwn, PTL DEF Spec

LEMMA OwnActs ==
  ASSUME OwnInv
  PROVE  ActsOnItsPath
<1> SUFFICES ASSUME NEW s \in Slot, call[s].ans = NoAns, call[s].path \notin foreign,
                    call[s].req.kind \in {"update", "rename", "delete"}
             PROVE  docs[call[s].req.doc].path = call[s].path
  BY DEF ActsOnItsPath
<1>1. TypeInv /\ CallOK(call[s]) /\ call[s].ans.status = "none"
  BY DEF OwnInv, TInv, CallsOK, NoAns
<1>2. call[s] \in Calls /\ call[s] # Free
  BY <1>1, CallPlaces DEF Free, NoReq
<1>3. /\ call[s].path \in Path /\ call[s].req.doc \in Doc
      /\ call[s].req.kind = "rename" => call[s].op = "move" /\ call[s].doc = call[s].req.doc
  BY <1>2, RequestIs
<1>4. None \notin Doc
  BY VolumeAssumption
<1>5. File(call[s].path) = call[s].req.doc
  <2>1. CASE call[s].req.kind \in {"update", "delete"}
    BY <1>1, <2>1 DEF CallOK, AskedOK
  <2>2. CASE call[s].req.kind = "rename"
    <3>1. Past(call[s]) /\ ~Renaming(call[s])
      BY <1>1, <1>3, <1>4, <2>2 DEF Past, Renaming
    <3> QED BY <1>1, <1>3, <2>2, <3>1 DEF CallOK, PastOK
  <2> QED BY <2>1, <2>2
<1>6. Touches(call[s], call[s].path)
  BY <1>1, <1>2, RequestTouches
<1>7. Coherent(call[s].path)
  BY <1>1, <1>3, <1>6, WaitingAt
<1>8. call[s].req.doc \in LiveAt(call[s].path)
  BY <1>3, <1>4, <1>5, <1>7 DEF Coherent
<1> QED BY <1>8 DEF LiveAt

(* A command on one path never changes another: on the session's own paths *)
(* the document that updateDoc, deleteDoc or renameDoc names by its id is  *)
(* still at the path of the call when the request arrives.                 *)
THEOREM ActsOnItsPathTheorem ==
  ASSUME "overlap" \notin Hazards, "lost" \notin Hazards
  PROVE  Spec => []ActsOnItsPath
<1>1. OwnInv => ActsOnItsPath
  BY OwnActs
<1> QED BY <1>1, OwnTheorem, PTL

LEMMA OwnReads ==
  ASSUME OwnInv
  PROVE  SelfReads
<1> SUFFICES ASSUME NEW p \in Settled
             PROVE  /\ LiveAt(p) = IF IsFile(index, p) THEN {index.files[p]} ELSE {}
                    /\ IsFile(index, p) /\ cache[p] # None => Shows(cache[p], index.files[p])
  BY DEF SelfReads, Shows
<1>1. TypeInv /\ Coh
  BY DEF OwnInv, TInv
<1>2. p \in Path /\ p \in Places /\ p \notin foreign /\ p # Root /\ p # None /\ ~UnderWay(p)
  BY PlaceIs DEF Settled
<1>3. ASSUME NEW s \in Slot, Pend(call[s], p) PROVE FALSE
  <2>1. call[s] # Free /\ Reach(call[s], p)
    BY <1>1, <1>2, <1>3, PendIs
  <2>2. call[s].path \in Places /\ (call[s].dest # None => call[s].dest \in Places)
    BY <1>1, <2>1, CallPlaces DEF Places
  <2>3. Related(p, call[s].path) \/ Related(p, call[s].dest)
    BY <1>2, <2>1, <2>2, RelatedIs DEF Reach
  <2> QED BY <1>2, <2>3 DEF UnderWay
<1>4. Coherent(p)
  BY <1>1, <1>2, <1>3 DEF Coh
<1> QED BY <1>2, <1>4 DEF Coherent, File, IsFile

(* A session sees its own writes: where no call is under way and no other  *)
(* session wrote, PathIndex names the document that the server has at the  *)
(* path, and SessionCache its text, or the blurb that getDoc has in its    *)
(* place once the document could not be processed.                         *)
THEOREM SelfReadsTheorem ==
  ASSUME "overlap" \notin Hazards, "lost" \notin Hazards
  PROVE  Spec => []SelfReads
<1>1. OwnInv => SelfReads
  BY OwnReads
<1> QED BY <1>1, OwnTheorem, PTL

(* assertWritable keeps the server's paths a tree: no document of the      *)
(* session is below another.                                               *)
THEOREM TreeShapeTheorem ==
  ASSUME "overlap" \notin Hazards, "lost" \notin Hazards
  PROVE  Spec => []TreeShape
<1>1. OwnInv => TreeShape
  BY DEF OwnInv
<1> QED BY <1>1, OwnTheorem, PTL

(* What a tree that is being moved has still to move.                      *)
Waiting(c) == c.op = "mvtree" /\ c.req = NoReq /\ ~c.failed /\ ~Related(c.path, c.dest)
Left(u, p) ==
  (\E e \in call[u].kids : e.path = p) \/ \E t \in Slot : call[t].of = u /\ call[t].path = p
MovedInv ==
  \A u \in Slot : Waiting(call[u]) =>
    \A p \in Under(call[u].path) \ foreign : LiveAt(p) # {} => Left(u, p)

(* A call that may make a document at p.                                   *)
Makes(c, p) == c.op \in {"write", "move"} /\ p = Target(c)

(* A call makes no documents below a tree that another one moves away.     *)
LEMMA NotBelow ==
  ASSUME OwnInv, NEW u \in Slot, Waiting(call[u]), NEW s \in Slot, NEW p \in Under(call[u].path), Makes(call[s], p)
  PROVE  FALSE
<1>0. TypeInv /\ Locks
  BY DEF OwnInv, TInv
<1>1. Idle(call[u]) /\ call[u] # Free /\ call[u].op = "mvtree" /\ ~Related(call[u].path, call[u].dest)
  BY DEF Waiting, Idle, TreeOps, Free
<1>2. call[u] \in Calls /\ call[u].of = None /\ call[u].path \in Path /\ call[u].dest \in Path
  BY <1>0, <1>1, CallPlaces DEF Calls, WellFormed, TreeOK, Idle
<1>3. call[s] # Free /\ s # u
  BY <1>1 DEF Makes, Free
<1>4. p \in Path /\ p \in Places /\ call[u].path \in Places /\ call[u].dest \in Places
  BY <1>2, PlaceIs DEF Under
<1>5. Related(p, call[u].path) /\ IsPrefix(call[u].path, p)
  BY <1>4, RelatedIs
<1>6. p \in {call[s].path, call[s].dest}
  BY DEF Makes, Target
<1>7. CASE ~Kin(s, u)
  <2>1. Apart(call[s], call[u])
    BY <1>0, <1>1, <1>3, <1>7 DEF Locks
  <2> QED BY <1>5, <1>6, <2>1 DEF Apart
<1>8. CASE Kin(s, u)
  <2>1. call[u].of # s
    BY <1>2, VolumeAssumption
  <2>2. call[s].of = u /\ u # None
    BY <1>2, <1>8, <2>1, VolumeAssumption DEF Kin
  <2>3. KidOf(call[s], call[u])
    BY <1>0, <2>2 DEF TypeInv, Family
  <2>4. call[s].op = "move" /\ p = call[s].dest
    BY <1>1, <2>3 DEF KidOf, Makes, Target
  <2>5. PICK r \in Under(call[u].path) : p = Moved(r, call[u].path, call[u].dest)
    BY <2>3, <2>4 DEF KidOf
  <2>6. r \in Path /\ r \in Places /\ IsPrefix(call[u].path, r)
    BY <1>4, PlaceIs, RelatedIs DEF Under
  <2>7. IsPrefix(call[u].dest, p)
    BY <1>4, <2>5, <2>6, PlaceIs, MovedBelow
  <2>8. IsPrefix(call[u].path, call[u].dest) \/ IsPrefix(call[u].dest, call[u].path)
    BY <1>4, <1>5, <2>7, PlaceIs, PrefixComparable
  <2> QED BY <1>1, <1>4, <2>8, RelatedIs
<1> QED BY <1>7, <1>8

(* What may become of a file that a child moves.                           *)
Moves(s) ==
  \/ call'[s].of = call[s].of /\ call'[s].path = call[s].path
  \/ call'[call[s].of].failed
  \/ \E q \in Path : q = call[s].path /\ (q \in foreign' \/ LiveAt(q)' = {})

LEMMA MovedStep ==
  ASSUME OwnInv, MovedInv, NEW s \in Slot, Only(s), foreign \subseteq foreign',
         \A p \in Path \ foreign' : LiveAt(p)' # {} => LiveAt(p) # {} \/ Makes(call[s], p),
         Idle(call'[s]) =>
           \A p \in Under(call'[s].path) \ foreign' : LiveAt(p)' # {} => \E e \in call'[s].kids : e.path = p,
         call[s].op = "move" /\ call[s].of # None => Moves(s)
  PROVE  MovedInv'
<1> SUFFICES ASSUME NEW u \in Slot, Waiting(call'[u]), NEW p \in Under(call'[u].path) \ foreign', LiveAt(p)' # {}
             PROVE  Left(u, p)'
  BY DEF MovedInv, Waiting, Related
<1>0. TypeInv
  BY DEF OwnInv, TInv
<1>1. CASE u = s
  <2>1. Idle(call'[s])
    BY <1>1 DEF Waiting, Idle, TreeOps
  <2> QED BY <1>1, <2>1 DEF Left
<1>2. CASE u # s
  <2>1. /\ call'[u].op = call[u].op /\ call'[u].req = call[u].req /\ call'[u].path = call[u].path
        /\ call'[u].dest = call[u].dest /\ call'[u].kids = call[u].kids
        /\ call[u].failed => call'[u].failed
    BY <1>0, <1>2, CallPlaces, AlikeIs DEF Only
  <2>2. Waiting(call[u]) /\ p \in Under(call[u].path) /\ p \in Path \ foreign'
    BY <2>1 DEF Waiting, Under
  <2>3. ~Makes(call[s], p)
    BY <2>2, NotBelow
  <2>4. LiveAt(p) # {}
    BY <2>2, <2>3
  <2>5. Left(u, p)
    BY <2>2, <2>4 DEF MovedInv
  <2>6. CASE \E e \in call[u].kids : e.path = p
    BY <2>1, <2>6 DEF Left
  <2>7. ASSUME NEW t \in Slot, call[t].of = u, call[t].path = p PROVE Left(u, p)'
    <3>1. CASE t # s
      <4>1. call'[t].of = u /\ call'[t].path = p
        BY <1>0, <2>7, <3>1, CallPlaces, AlikeIs DEF Only
      <4> QED BY <4>1 DEF Left
    <3>2. CASE t = s
      <4>1. u # None
        BY VolumeAssumption
      <4>2. call[s].op = "move"
        BY <1>0, <2>2, <2>7, <3>2, <4>1, KinIs DEF Waiting
      <4>3. Moves(s)
        BY <2>7, <3>2, <4>1, <4>2
      <4>4. call'[s].of = u /\ call'[s].path = p
        <5>1. ~\E q \in Path : q = call[s].path /\ (q \in foreign' \/ LiveAt(q)' = {})
          BY <2>7, <3>2
        <5> QED BY <5>1, <2>7, <3>2, <4>3 DEF Moves, Waiting
      <4> QED BY <4>4 DEF Left
    <3> QED BY <3>1, <3>2
  <2> QED BY <2>5, <2>6, <2>7 DEF Left
<1> QED BY <1>1, <1>2

LEMMA MovedSame ==
  ASSUME MovedInv, call' = call, foreign \subseteq foreign',
         \A p \in Path \ foreign' : LiveAt(p)' # {} => LiveAt(p) # {}
  PROVE  MovedInv'
<1> SUFFICES ASSUME NEW u \in Slot, Waiting(call[u]), NEW p \in Under(call[u].path) \ foreign', LiveAt(p)' # {}
             PROVE  Left(u, p)'
  BY DEF MovedInv, Waiting, Related, Under
<1>1. p \in Path \ foreign' /\ p \in Under(call[u].path) \ foreign
  BY DEF Under
<1>2. LiveAt(p) # {}
  BY <1>1
<1>3. Left(u, p)
  BY <1>1, <1>2 DEF MovedInv
<1> QED BY <1>3 DEF Left

LEMMA SameDocs ==
  ASSUME docs' = docs
  PROVE  \A p : LiveAt(p)' = LiveAt(p)
BY DEF LiveAt, Unused

LEMMA StartMoved ==
  ASSUME OwnInv, MovedInv, NEW s \in Slot, Start(s)
  PROVE  MovedInv'
<1>0. TypeInv
  BY DEF OwnInv, TInv
<1>1. docs' = docs /\ foreign' = foreign /\ (call' = call \/ \E c \in Calls : Begun(s, c))
  BY <1>0, StartEnds
<1>2. \A p : LiveAt(p)' = LiveAt(p)
  BY <1>1, SameDocs
<1>3. CASE call' = call
  BY <1>1, <1>2, <1>3, MovedSame
<1>4. ASSUME NEW c \in Calls, Begun(s, c) PROVE MovedInv'
  <2>1. call \in [Slot -> Calls]
    BY <1>0 DEF TypeInv
  <2>2. call[s] = Free /\ call'[s] = c /\ \A t \in Slot \ {s} : call'[t] = call[t]
    BY <1>4, <2>1 DEF Begun
  <2>3. Only(s)
    BY <2>2, AlikeRefl DEF Only
  <2>4. call[s].op # "move"
    BY <2>2 DEF Free
  <2>5. ~Idle(call'[s])
    BY <1>4, <2>2 DEF Begun, Fresh, Idle, NoReq
  <2> QED BY <1>1, <1>2, <2>3, <2>4, <2>5, MovedStep
<1> QED BY <1>1, <1>3, <1>4

(* A request that is answered.                                             *)
LEMMA RequestMoved ==
  ASSUME OwnInv, MovedInv, NEW s \in Slot, NEW status, NEW found, Answering(s, status, found),
         call[s].req # NoReq, foreign \subseteq foreign',
         \A p \in Path \ foreign' : LiveAt(p)' # {} => LiveAt(p) # {} \/ Makes(call[s], p)
  PROVE  MovedInv'
<1>1. Only(s)
  BY AlikeRefl DEF Only, Answering
<1>2. ~Idle(call'[s])
  BY DEF Answering, Idle
<1>3. Moves(s)
  BY DEF Answering, Moves
<1> QED BY <1>1, <1>2, <1>3, MovedStep

LEMMA FailMoved ==
  ASSUME OwnInv, MovedInv, NEW s \in Slot, Fail(s)
  PROVE  MovedInv'
<1>0. TypeInv
  BY DEF OwnInv, TInv
<1>1. Answering(s, "failed", {}) /\ call[s].req # NoReq /\ docs' = docs /\ foreign' = foreign
  BY <1>0, FailEnds
<1>2. \A p : LiveAt(p)' = LiveAt(p)
  BY <1>1, SameDocs
<1> QED BY <1>1, <1>2, RequestMoved

(* Where a request makes a document.                                       *)
LEMMA PatchMakes ==
  ASSUME OwnInv, NEW s \in Slot, Patch(s)
  PROVE  /\ \E status, found : Answering(s, status, found) /\ call[s].req # NoReq
         /\ \A p \in Path : LiveAt(p)' # {} => LiveAt(p) # {} \/ Makes(call[s], p)
<1>0. TypeInv
  BY DEF OwnInv, TInv
<1>1. PICK kind \in {"update", "rename", "delete"} : PatchDoes(s, kind)
  BY <1>0, PatchEnds
<1>2. PICK d : d = call[s].req.doc
  OBVIOUS
<1>3. CASE docs[d] = Gone
  <2>1. docs' = docs /\ Fits(s, "missing", {})
    BY <1>1, <1>2, <1>3 DEF PatchDoes
  <2>2. Answering(s, "missing", {}) /\ call[s].req # NoReq
    BY <1>0, <2>1, FitsAnswers DEF Fits
  <2> QED BY <2>1, <2>2, SameDocs
<1>4. CASE docs[d] # Gone
  <2>1. Fits(s, "ok", {}) /\ d \in Doc
    BY <1>1, <1>2, <1>4 DEF PatchDoes
  <2>2. Answering(s, "ok", {}) /\ call[s].req # NoReq
    BY <1>0, <2>1, FitsAnswers DEF Fits
  <2>3. docs[d] \in [path : Path, text : Texts, broken : BOOLEAN] /\ docs[d] # None
    BY <1>1, <1>2, <1>4, PatchedAt
  <2>4. docs \in [Doc -> {None, Gone} \cup [path : Path, text : Texts, broken : BOOLEAN]]
    BY <1>0 DEF TypeInv
  <2>5. \A x \in Doc \ {d} : docs'[x] = docs[x]
    BY <1>1, <1>2, <1>4, <2>4 DEF PatchDoes
  <2>6. \/ docs'[d].path = docs[d].path
        \/ docs'[d].path = None
        \/ call[s].op = "move" /\ docs'[d].path = call[s].dest
    <3>1. CASE kind = "update"
      <4>1. docs' = [docs EXCEPT ![d] = [@ EXCEPT !.text = call[s].text, !.broken = FALSE]]
        BY <1>1, <1>2, <1>4, <3>1 DEF PatchDoes
      <4> QED BY <2>1, <2>3, <2>4, <4>1
    <3>2. CASE kind = "delete"
      <4>1. docs' = [docs EXCEPT ![d] = Gone]
        BY <1>1, <1>2, <1>4, <3>2 DEF PatchDoes
      <4> QED BY <2>1, <2>4, <4>1 DEF Gone
    <3>3. CASE kind = "rename"
      <4>1. docs' = [docs EXCEPT ![d] = [@ EXCEPT !.path = call[s].dest]] /\ call[s].op = "move"
        BY <1>1, <1>2, <1>4, <3>3 DEF PatchDoes
      <4> QED BY <2>1, <2>3, <2>4, <4>1
    <3> QED BY <3>1, <3>2, <3>3
  <2>7. ASSUME NEW p \in Path, NEW x \in LiveAt(p)' PROVE LiveAt(p) # {} \/ Makes(call[s], p)
    <3>0. p # None
      BY PlaceIs
    <3>1. x \in Doc /\ docs'[x] # None /\ docs'[x].path = p
      BY <2>7 DEF LiveAt, Unused
    <3>2. CASE x # d
      <4>1. x \in LiveAt(p)
        BY <2>5, <3>1, <3>2 DEF LiveAt, Unused
      <4> QED BY <4>1
    <3>3. CASE x = d
      <4>1. CASE docs[d].path = p
        BY <2>1, <2>3, <4>1 DEF LiveAt, Unused
      <4>2. CASE docs[d].path # p
        <5>1. call[s].op = "move" /\ p = call[s].dest
          BY <2>6, <3>0, <3>1, <3>3, <4>2
        <5> QED BY <5>1 DEF Makes, Target
      <4> QED BY <4>1, <4>2
    <3> QED BY <3>2, <3>3
  <2> QED BY <2>2, <2>7
<1> QED BY <1>3, <1>4

LEMMA ServeMoved ==
  ASSUME OwnInv, MovedInv, NEW s \in Slot, Serve(s)
  PROVE  MovedInv'
<1>0. TypeInv /\ foreign \subseteq foreign'
  BY DEF OwnInv, TInv, Serve
<1>1. CASE Find(s)
  <2>1. docs' = docs /\ FindDoes(s)
    BY <1>0, <1>1, FindEnds
  <2>2. PICK found : Fits(s, "ok", found)
    BY <2>1 DEF FindDoes
  <2>3. Answering(s, "ok", found) /\ call[s].req # NoReq
    BY <1>0, <2>2, FitsAnswers DEF Fits
  <2> QED BY <1>0, <2>1, <2>3, SameDocs, RequestMoved
<1>2. CASE ListDocs(s)
  <2>1. docs' = docs /\ ListDoes(s)
    BY <1>0, <1>2, ListEnds
  <2>2. PICK found : Fits(s, "ok", found)
    BY <2>1 DEF ListDoes
  <2>3. Answering(s, "ok", found) /\ call[s].req # NoReq
    BY <1>0, <2>2, FitsAnswers DEF Fits
  <2> QED BY <1>0, <2>1, <2>3, SameDocs, RequestMoved
<1>3. CASE Add(s)
  <2>1. AddDoes(s)
    BY <1>0, <1>3, AddEnds
  <2>2. PICK d, found : /\ d \in Doc /\ docs' = [docs EXCEPT ![d] = [path |-> call[s].path, text |-> call[s].text, broken |-> FALSE]]
                        /\ Fits(s, "ok", found)
    BY <2>1 DEF AddDoes
  <2>3. Answering(s, "ok", found) /\ call[s].req # NoReq
    BY <1>0, <2>2, FitsAnswers DEF Fits
  <2>4. call[s].op = "write" /\ docs \in [Doc -> {None, Gone} \cup [path : Path, text : Texts, broken : BOOLEAN]]
    BY <1>0, <2>1 DEF AddDoes, TypeInv
  <2>5. ASSUME NEW p \in Path, NEW x \in LiveAt(p)' PROVE LiveAt(p) # {} \/ Makes(call[s], p)
    <3>1. x \in Doc /\ docs'[x] # None /\ docs'[x].path = p
      BY <2>5 DEF LiveAt, Unused
    <3>2. CASE x = d
      <4>1. docs'[x].path = call[s].path
        BY <2>2, <2>4, <3>2
      <4> QED BY <2>4, <3>1, <4>1 DEF Makes, Target
    <3>3. CASE x # d
      <4>1. docs'[x] = docs[x]
        BY <2>2, <2>4, <3>1, <3>3
      <4>2. x \in LiveAt(p)
        BY <3>1, <4>1 DEF LiveAt, Unused
      <4> QED BY <4>2
    <3> QED BY <3>2, <3>3
  <2> QED BY <1>0, <2>3, <2>5, RequestMoved
<1>4. CASE Patch(s)
  BY <1>0, <1>4, PatchMakes, RequestMoved
<1>5. CASE Bulk(s)
  <2>1. BulkDoes(s)
    BY <1>0, <1>5, BulkEnds
  <2>2. Fits(s, "ok", {}) /\ \E del : docs' = [d \in Doc |-> IF d \in del THEN Gone ELSE docs[d]]
    BY <2>1 DEF BulkDoes
  <2>3. Answering(s, "ok", {}) /\ call[s].req # NoReq
    BY <1>0, <2>2, FitsAnswers DEF Fits
  <2>4. ASSUME NEW p \in Path, NEW x \in LiveAt(p)' PROVE LiveAt(p) # {}
    <3>1. x \in Doc /\ docs'[x] # None /\ docs'[x].path = p /\ p # None
      BY <2>4, PlaceIs DEF LiveAt, Unused
    <3>2. docs'[x] # Gone
      BY <3>1 DEF Gone
    <3>3. docs'[x] = docs[x]
      BY <2>2, <3>1, <3>2
    <3>4. x \in LiveAt(p)
      BY <3>1, <3>3 DEF LiveAt, Unused
    <3> QED BY <3>4
  <2> QED BY <1>0, <2>3, <2>4, RequestMoved
<1> QED BY <1>1, <1>2, <1>3, <1>4, <1>5 DEF Serve

LEMMA SpawnMoved ==
  ASSUME OwnInv, MovedInv, NEW s \in Slot, Spawn(s)
  PROVE  MovedInv'
<1>0. TypeInv
  BY DEF OwnInv, TInv
<1>1. PICK t \in Slot, e \in Entries : SpawnDoes(s, t, e)
  BY <1>0, SpawnEnds
<1>2. /\ s # t /\ call[t] = Free /\ docs' = docs /\ foreign \subseteq foreign' /\ call[s].of = None
      /\ \A u \in Slot \ {s, t} : call'[u] = call[u]
      /\ call'[s].op = call[s].op /\ call'[s].path = call[s].path /\ call'[s].dest = call[s].dest
      /\ call'[s].kids = call[s].kids \ {e} /\ call'[s].of = None /\ call'[s].req = call[s].req
      /\ call'[s].failed = call[s].failed
      /\ call'[t].of = s
      /\ IF call[s].op = "mvtree" THEN call'[t].op = "move" /\ call'[t].path = e.path ELSE call'[t].op = "write"
  BY <1>1 DEF SpawnDoes
<1>3. None \notin Slot /\ call[t].of = None
  BY <1>2, VolumeAssumption DEF Free
<1> SUFFICES ASSUME NEW u \in Slot, Waiting(call'[u]), NEW p \in Under(call'[u].path) \ foreign', LiveAt(p)' # {}
             PROVE  Left(u, p)'
  BY DEF MovedInv, Waiting, Related
<1>4. u # t
  BY <1>2 DEF Waiting
<1>5. Waiting(call[u]) /\ p \in Under(call[u].path) \ foreign /\ (u = s => call[s].op = "mvtree")
  <2>1. CASE u = s
    BY <1>2, <2>1 DEF Waiting, Under
  <2>2. CASE u # s
    <3>1. call'[u] = call[u]
      BY <1>2, <1>4, <2>2
    <3> QED BY <1>2, <2>2, <3>1 DEF Under
  <2> QED BY <2>1, <2>2
<1>6. LiveAt(p) # {}
  BY <1>2, SameDocs
<1>7. Left(u, p)
  BY <1>5, <1>6 DEF MovedInv
<1>8. ASSUME NEW x \in Slot, call[x].of = u, call[x].path = p PROVE Left(u, p)'
  <2>1. x \in Slot \ {s, t}
    BY <1>2, <1>3, <1>8
  <2>2. call'[x].of = u /\ call'[x].path = p
    BY <1>2, <1>8, <2>1
  <2> QED BY <2>2 DEF Left
<1>9. ASSUME NEW f \in call[u].kids, f.path = p PROVE Left(u, p)'
  <2>1. CASE u # s
    <3>1. call'[u] = call[u]
      BY <1>2, <1>4, <2>1
    <3> QED BY <1>9, <3>1 DEF Left
  <2>2. CASE u = s /\ f # e
    <3>1. f \in call'[u].kids
      BY <1>2, <2>2
    <3> QED BY <1>9, <3>1 DEF Left
  <2>3. CASE u = s /\ f = e
    <3>1. call'[t].of = u /\ call'[t].path = p
      BY <1>2, <1>5, <1>9, <2>3
    <3> QED BY <3>1 DEF Left
  <2> QED BY <2>1, <2>2, <2>3
<1> QED BY <1>7, <1>8, <1>9 DEF Left

(* A call that goes on after an answer.                                    *)
LEMMA GoesMoved ==
  ASSUME OwnInv, MovedInv, NEW s \in Slot, docs' = docs, foreign' = foreign, NEW c, Goes(s, c),
         ~Idle(c), call[s].op = "move" /\ call[s].of # None => Moves(s)
  PROVE  MovedInv'
<1>1. Only(s) /\ call'[s] = c
  BY DEF Only, Goes
<1>2. \A p : LiveAt(p)' = LiveAt(p)
  BY SameDocs
<1> QED BY <1>1, <1>2, MovedStep

LEMMA FreeMoves ==
  /\ ~Idle(Free)
  /\ \A c : c.op \in {"write", "move"} => ~Idle(c)
BY DEF Idle, Free, TreeOps

(* A child that throws leaves its error with the tree.                     *)
LEMMA ThrowMoves ==
  ASSUME TypeInv, NEW s \in Slot, Throw(s), call[s].of # None
  PROVE  Moves(s)
<1>1. call[s].of \in Slot /\ Idle(call[call[s].of]) /\ ~Idle(call[s])
  BY KinIs
<1>2. PICK u \in Slot : u = call[s].of
  BY <1>1
<1>3. u # s
  BY <1>1, <1>2
<1>4. call'[u].failed
  BY <1>1, <1>2, <1>3, ThrowIs
<1> QED BY <1>2, <1>4 DEF Moves

(* moveDoc asks, or throws.                                                *)
LEMMA AskStays ==
  ASSUME TypeInv, NEW s \in Slot, NEW job \in Records, NEW kind, NEW p, NEW d, NEW text, Ask(s, job, kind, p, d, text)
  PROVE  call'[s].op = job.op
<1>1. PICK req : req = [kind |-> kind, path |-> p, doc |-> d, text |-> text]
  OBVIOUS
<1>2. call' = [call EXCEPT ![s] = [job EXCEPT !.req = req, !.ans = NoAns]]
  BY <1>1 DEF Ask
<1>3. call \in [Slot -> Calls]
  BY DEF TypeInv
<1>4. call'[s] = [job EXCEPT !.req = req, !.ans = NoAns]
  BY <1>2, <1>3
<1> QED BY <1>4 DEF Records

LEMMA MoveThrows ==
  ASSUME TypeInv, NEW s \in Slot, NEW job \in Records, NEW ix, MoveDoc(s, job, ix), job.op = "move", call'[s] = Free
  PROVE  Throw(s)
<1>1. call'[s].op = "free"
  BY DEF Free
<1>2. ~Ask(s, job, "find", job.path, None, {})
  BY <1>1, AskStays
<1>3. ASSUME Ask(s, [job EXCEPT !.doc = ix.files[job.path]], "find", job.dest, None, {}), IsFile(ix, job.path)
      PROVE  FALSE
  <2>1. call'[s] = [[job EXCEPT !.doc = ix.files[job.path]] EXCEPT
                     !.req = [kind |-> "find", path |-> job.dest, doc |-> None, text |-> {}], !.ans = NoAns]
    <3>1. call \in [Slot -> Calls]
      BY DEF TypeInv
    <3> QED BY <1>3, <3>1 DEF Ask
  <2>2. call'[s].op = job.op
    BY <2>1 DEF Records
  <2> QED BY <1>1, <2>2
<1> QED BY <1>2, <1>3 DEF MoveDoc

(* What a resumed call does that moves no file.                            *)
LEMMA OtherMoved ==
  ASSUME OwnInv, MovedInv, NEW s \in Slot, Resume(s), call[s].op # "move"
  PROVE  MovedInv'
<1>0. TInv /\ TypeInv /\ UNCHANGED <<docs, calls, events, foreign>> /\ docs' = docs /\ foreign' = foreign
  BY DEF OwnInv, TInv, Resume
<1>1. ASSUME Goes(s, Free) PROVE MovedInv'
  BY <1>0, <1>1, FreeMoves, GoesMoved
<1>2. CASE Eio(s) \/ Written(s) \/ Removed(s) \/ TreeRemoved(s)
  <2>1. Goes(s, Free)
    BY <1>0, <1>2, EioType, WrittenType, RemovedType, TreeRemovedType DEF WrittenDoes, RemovedDoes, TreeRemovedDoes
  <2> QED BY <1>1, <2>1
<1>3. CASE RmdirListed(s) \/ Listed(s) \/ TreeDone(s)
  <2>1. Goes(s, Free)
    BY <1>0, <1>3, RmdirListedType, ListedType, TreeDoneType DEF RmdirListedDoes, ListedDoes, TreeDoneDoes
  <2> QED BY <1>1, <2>1
<1>4. CASE GotDoc(s)
  <2>1. GotDocDoes(s)
    BY <1>0, <1>4, GotDocType
  <2>2. PICK c \in Calls : Goes(s, c) /\ (c = Free \/ c.op = "write")
    BY <2>1 DEF GotDocDoes
  <2>3. ~Idle(c)
    BY <2>2, FreeMoves
  <2> QED BY <1>0, <2>2, <2>3, GoesMoved
<1>5. CASE StartKid(s)
  <2>1. StartKidDoes(s)
    BY <1>0, <1>5, StartKidType
  <2>2. PICK c \in Calls : Goes(s, c) /\ (c = Free \/ c.op \in {"write", "move"})
    BY <2>1 DEF StartKidDoes
  <2>3. ~Idle(c)
    BY <2>2, FreeMoves
  <2> QED BY <1>0, <2>2, <2>3, GoesMoved
<1>6. CASE TreeListed(s)
  <2>1. TreeListedDoes(s)
    BY <1>0, <1>6, TreeListedType
  <2>2. PICK c \in Calls : Goes(s, c) /\ c.path = call[s].path /\ c.kids = call[s].ans.docs
    BY <2>1 DEF TreeListedDoes
  <2>3. ListedOK(call[s]) /\ call[s].ans.status = "ok" /\ call[s].req.kind = "list"
    BY <2>1 DEF OwnInv, CallsOK, CallOK, TreeListedDoes
  <2>4. \A p : LiveAt(p)' = LiveAt(p)
    BY <1>0, SameDocs
  <2>5. call'[s] = c /\ Only(s)
    BY <2>2 DEF Goes, Only
  <2>6. \A p \in Under(call'[s].path) \ foreign' : LiveAt(p)' # {} => \E e \in call'[s].kids : e.path = p
    BY <1>0, <2>2, <2>3, <2>4, <2>5 DEF ListedOK
  <2> QED BY <1>0, <2>4, <2>5, <2>6, MovedStep
<1>7. ~FoundSource(s) /\ ~FoundTarget(s) /\ ~Renamed(s) /\ ~RenamedNothing(s)
  BY DEF FoundSource, FoundTarget, Renamed, RenamedNothing, Answered
<1> QED BY <1>2, <1>3, <1>4, <1>5, <1>6, <1>7 DEF Resume

(* What a resumed call does that moves a file: it goes on, it throws, or   *)
(* the file has left its source.                                           *)
LEMMA MoveMoved ==
  ASSUME OwnInv, MovedInv, NEW s \in Slot, Resume(s), call[s].op = "move"
  PROVE  MovedInv'
<1>0. TInv /\ TypeInv /\ UNCHANGED <<docs, calls, events, foreign>> /\ docs' = docs /\ foreign' = foreign
  BY DEF OwnInv, TInv, Resume
<1>1. call[s] \in Records /\ ~Idle(call[s]) /\ call[s].path \in Path
  BY <1>0, CallPlaces DEF Idle, TreeOps, Calls, WellFormed, MoveOK
<1>2. ASSUME Throw(s) PROVE MovedInv'
  <2>1. Goes(s, Free)
    BY <1>0, <1>1, <1>2, EndGoes
  <2> QED BY <1>0, <1>2, <2>1, FreeMoves, ThrowMoves, GoesMoved
<1>3. ASSUME NEW c, Goes(s, c), c.op \in {"write", "move"}, c.of = call[s].of, c.path = call[s].path PROVE MovedInv'
  <2>1. call'[s] = c
    BY <1>3 DEF Goes
  <2>2. Moves(s)
    BY <1>3, <2>1 DEF Moves
  <2> QED BY <1>0, <1>3, <2>2, FreeMoves, GoesMoved
<1>4. CASE Eio(s) \/ RenamedNothing(s)
  BY <1>2, <1>4 DEF Eio, RenamedNothing
<1>5. CASE StartKid(s)
  <2>1. Throw(s) \/ MoveDoc(s, call[s], index)
    BY <1>5 DEF StartKid
  <2>2. StartKidDoes(s)
    BY <1>0, <1>5, StartKidType
  <2>3. PICK c \in Calls : Goes(s, c) /\ (c = Free \/ (c.op = call[s].op /\ c.path = call[s].path /\ c.of = call[s].of))
    BY <2>2 DEF StartKidDoes
  <2>4. CASE c = Free
    <3>1. call'[s] = Free
      BY <2>3, <2>4 DEF Goes
    <3>2. Throw(s)
      BY <1>0, <1>1, <2>1, <3>1, MoveThrows
    <3> QED BY <1>2, <3>2
  <2> QED BY <1>3, <2>3, <2>4
<1>6. CASE FoundSource(s)
  <2>1. Throw(s) \/ \E ix : MoveDoc(s, call[s], ix)
    BY <1>6 DEF FoundSource
  <2>2. FoundSourceDoes(s)
    BY <1>0, <1>6, FoundSourceType
  <2>3. PICK c \in Calls : Goes(s, c) /\ (c = Free \/ (c.op = "move" /\ c.path = call[s].path /\ c.of = call[s].of))
    BY <2>2 DEF FoundSourceDoes
  <2>4. CASE c = Free
    <3>1. call'[s] = Free
      BY <2>3, <2>4 DEF Goes
    <3>2. Throw(s)
      BY <1>0, <1>1, <2>1, <3>1, MoveThrows
    <3> QED BY <1>2, <3>2
  <2> QED BY <1>3, <2>3, <2>4
<1>7. CASE FoundTarget(s)
  <2>1. Throw(s) \/ MoveTo(s, call[s])
    BY <1>7 DEF FoundTarget
  <2>2. FoundTargetDoes(s)
    BY <1>0, <1>7, FoundTargetType
  <2>3. PICK c \in Calls : Goes(s, c) /\ (c = Free \/ (c.op = "move" /\ c.path = call[s].path /\ c.of = call[s].of))
    BY <2>2 DEF FoundTargetDoes
  <2>4. CASE c = Free
    <3>1. call'[s] = Free /\ Free.op = "free"
      BY <2>3, <2>4 DEF Goes, Free
    <3>2. ~MoveTo(s, call[s])
      BY <1>0, <1>1, <3>1, AskStays DEF MoveTo
    <3> QED BY <1>2, <2>1, <3>2
  <2> QED BY <1>3, <2>3, <2>4
<1>8. CASE Renamed(s)
  <2>1. RenamedDoes(s)
    BY <1>0, <1>8, RenamedType
  <2>2. Goes(s, Free) /\ Renaming(call[s])
    BY <2>1 DEF RenamedDoes, MoveAnswered, Renaming
  <2>3. RenamedOK(call[s])
    BY DEF OwnInv, CallsOK, CallOK
  <2>4. PICK q \in Path : q = call[s].path
    BY <1>1
  <2>5. q \in foreign \/ LiveAt(q) = {}
    BY <2>2, <2>3, <2>4 DEF RenamedOK
  <2>6. LiveAt(q)' = LiveAt(q)
    BY <1>0, SameDocs
  <2>7. Moves(s)
    BY <1>0, <2>4, <2>5, <2>6 DEF Moves
  <2> QED BY <1>0, <2>2, <2>7, FreeMoves, GoesMoved
<1>9. CASE GotDoc(s) \/ Written(s) \/ Removed(s) \/ TreeRemoved(s) \/ RmdirListed(s) \/ Listed(s) \/ TreeListed(s) \/ TreeDone(s)
  BY <1>9 DEF GotDoc, Written, Removed, TreeRemoved, RmdirListed, Listed, TreeListed, TreeDone, Answered
<1> QED BY <1>4, <1>5, <1>6, <1>7, <1>8, <1>9 DEF Resume

LEMMA OthersMoved ==
  ASSUME OwnInv, MovedInv, Others
  PROVE  MovedInv'
<1>0. TypeInv
  BY DEF OwnInv, TInv
<1>1. PICK p : OthersDo(p)
  BY <1>0, OthersEnds
<1>2. p \in Path /\ foreign' = foreign \cup {p} /\ call' = call
  BY <1>1 DEF OthersDo
<1>3. PICK d, v : d \in Doc /\ v \in {Gone} \cup [path : {p}, text : Texts, broken : BOOLEAN] /\ docs' = [docs EXCEPT ![d] = v]
  BY <1>1 DEF OthersDo
<1>4. v.path \in {p, None} /\ docs \in [Doc -> {None, Gone} \cup [path : Path, text : Texts, broken : BOOLEAN]]
  BY <1>0, <1>3 DEF Gone, TypeInv
<1>5. ASSUME NEW q \in Path \ foreign', NEW x \in LiveAt(q)' PROVE LiveAt(q) # {}
  <2>1. x \in Doc /\ docs'[x] # None /\ docs'[x].path = q /\ q # None /\ q # p
    BY <1>2, <1>5, PlaceIs DEF LiveAt, Unused
  <2>2. x # d
    BY <1>3, <1>4, <2>1
  <2>3. docs'[x] = docs[x]
    BY <1>3, <1>4, <2>1, <2>2
  <2>4. x \in LiveAt(q)
    BY <2>1, <2>3 DEF LiveAt, Unused
  <2> QED BY <2>4
<1> QED BY <1>2, <1>5, MovedSame

LEMMA NextMoved ==
  ASSUME OwnInv, MovedInv, [Next]_vars
  PROVE  MovedInv'
<1>0. TInv /\ TypeInv
  BY DEF OwnInv, TInv
<1>1. CASE UNCHANGED vars
  BY <1>1, SameDocs, MovedSame DEF vars
<1>2. ASSUME NEW s \in Slot, Start(s) \/ Serve(s) \/ Fail(s) \/ Resume(s) \/ Spawn(s) PROVE MovedInv'
  BY <1>2, StartMoved, ServeMoved, FailMoved, OtherMoved, MoveMoved, SpawnMoved
<1>3. CASE Others
  BY <1>3, OthersMoved
<1>4. CASE Expire
  <2>1. docs' = docs /\ call' = call /\ foreign' = foreign
    BY <1>0, <1>4, ExpireType
  <2> QED BY <2>1, SameDocs, MovedSame
<1>5. CASE ProcessingFails
  <2>1. ProcessingDoes
    BY <1>0, <1>5, ProcessingType
  <2> QED BY <2>1, KeptLive, MovedSame DEF ProcessingDoes
<1> QED BY <1>1, <1>2, <1>3, <1>4, <1>5 DEF Next

LEMMA InitMoved == Init => MovedInv
BY DEF Init, MovedInv, Waiting, Free

(* Only the end of a tree's batch ends its call without an error.          *)
LEMMA EndsWhole ==
  ASSUME OwnInv, [Next]_vars, NEW s \in Slot, call[s].op = "mvtree", call'[s] = Free, call[s].ans.status # "failed"
  PROVE  call[s].req = NoReq /\ call[s].kids = {} /\ \A t \in Slot : call[t].of # s
<1>0. TInv /\ TypeInv
  BY DEF OwnInv, TInv
<1>1. call'[s].op = "free" /\ call'[s].op # call[s].op /\ call'[s] # call[s] /\ call[s] # Free
  BY DEF Free
<1>2. ~UNCHANGED vars /\ ~Expire
  BY <1>0, <1>1, ExpireType DEF vars
<1>3. ~Others /\ ~ProcessingFails
  BY <1>1 DEF Others, ProcessingFails
<1>4. ASSUME NEW x \in Slot, Start(x) PROVE FALSE
  <2>1. call \in [Slot -> Calls] /\ (call' = call \/ \E c \in Calls : Begun(x, c))
    BY <1>0, <1>4, StartEnds DEF TypeInv
  <2>2. PICK c \in Calls : call[x] = Free /\ call' = [call EXCEPT ![x] = c]
    BY <1>1, <2>1 DEF Begun
  <2> QED BY <1>1, <2>1, <2>2
<1>5. ASSUME NEW x \in Slot, NEW status, NEW found, Answering(x, status, found) PROVE FALSE
  BY <1>1, <1>5 DEF Answering
<1>6. ASSUME NEW x \in Slot, Fail(x) PROVE FALSE
  BY <1>0, <1>5, <1>6, FailEnds
<1>7. ASSUME NEW x \in Slot, Serve(x) PROVE FALSE
  <2>1. CASE Find(x)
    BY <1>0, <1>5, <2>1, FindEnds, FitsAnswers DEF FindDoes, Fits
  <2>2. CASE ListDocs(x)
    BY <1>0, <1>5, <2>2, ListEnds, FitsAnswers DEF ListDoes, Fits
  <2>3. CASE Add(x)
    <3>1. \E found : Fits(x, "ok", found)
      BY <1>0, <2>3, AddEnds DEF AddDoes
    <3> QED BY <1>0, <1>5, <3>1, FitsAnswers
  <2>4. CASE Patch(x)
    BY <1>5, <2>4, PatchMakes
  <2>5. CASE Bulk(x)
    <3>1. Fits(x, "ok", {})
      BY <1>0, <2>5, BulkEnds DEF BulkDoes
    <3> QED BY <1>0, <1>5, <3>1, FitsAnswers
  <2> QED BY <1>7, <2>1, <2>2, <2>3, <2>4, <2>5 DEF Serve
<1>8. ASSUME NEW x \in Slot, Spawn(x) PROVE FALSE
  <2>1. PICK t \in Slot, e \in Entries : SpawnDoes(x, t, e)
    BY <1>0, <1>8, SpawnEnds
  <2>2. /\ call[t] = Free /\ \A u \in Slot \ {x, t} : call'[u] = call[u]
        /\ call'[x].op = call[x].op
    BY <2>1 DEF SpawnDoes
  <2> QED BY <1>1, <2>2
<1>9. ASSUME NEW x \in Slot, Resume(x)
      PROVE  call[s].req = NoReq /\ call[s].kids = {} /\ \A t \in Slot : call[t].of # s
  <2>0. UNCHANGED <<docs, calls, events, foreign>>
    BY <1>9 DEF Resume
  <2>1. ASSUME NEW c, Goes(x, c) PROVE x = s /\ c = Free
    <3>1. x = s
      BY <1>0, <1>1, <2>1, CallPlaces, AlikeIs DEF Goes
    <3> QED BY <2>1, <3>1 DEF Goes
  <2>2. CASE TreeDone(x)
    <3>1. TreeDoneDoes(x)
      BY <1>0, <2>0, <2>2, TreeDoneType
    <3>2. x = s
      BY <2>1, <3>1 DEF TreeDoneDoes
    <3> QED BY <3>1, <3>2 DEF TreeDoneDoes, Idle
  <2>3. CASE Eio(x)
    <3>1. x = s
      BY <1>0, <2>0, <2>1, <2>3, EioType
    <3> QED BY <2>3, <3>1 DEF Eio, Answered
  <2>4. CASE StartKid(x)
    <3>1. StartKidDoes(x)
      BY <1>0, <2>0, <2>4, StartKidType
    <3>2. call[x].op \in {"write", "move"} /\ \E c \in Calls : Goes(x, c)
      BY <3>1 DEF StartKidDoes
    <3> QED BY <2>1, <3>2
  <2>5. CASE TreeListed(x)
    <3>1. TreeListedDoes(x)
      BY <1>0, <2>0, <2>5, TreeListedType
    <3>2. PICK c \in Calls : Goes(x, c) /\ c.op \in TreeOps
      BY <3>1 DEF TreeListedDoes
    <3>3. c = Free
      BY <2>1, <3>2
    <3> QED BY <3>2, <3>3 DEF Free, TreeOps
  <2>6. CASE GotDoc(x) \/ Written(x) \/ Removed(x) \/ TreeRemoved(x) \/ RmdirListed(x) \/ Listed(x)
    <3>1. call[x].op # "mvtree"
      BY <2>6 DEF GotDoc, Written, Removed, TreeRemoved, RmdirListed, Listed, Answered
    <3>2. \E c : Goes(x, c)
      <4>1. CASE GotDoc(x)
        BY <1>0, <2>0, <4>1, GotDocType DEF GotDocDoes
      <4>2. CASE Written(x) \/ Removed(x) \/ TreeRemoved(x)
        BY <1>0, <2>0, <4>2, WrittenType, RemovedType, TreeRemovedType DEF WrittenDoes, RemovedDoes, TreeRemovedDoes
      <4>3. CASE RmdirListed(x) \/ Listed(x)
        BY <1>0, <2>0, <4>3, RmdirListedType, ListedType DEF RmdirListedDoes, ListedDoes
      <4> QED BY <2>6, <4>1, <4>2, <4>3
    <3> QED BY <2>1, <3>1, <3>2
  <2>7. CASE FoundSource(x) \/ FoundTarget(x) \/ Renamed(x) \/ RenamedNothing(x)
    <3>1. call[x].op # "mvtree"
      BY <2>7 DEF FoundSource, FoundTarget, Renamed, RenamedNothing, Answered
    <3>2. \E c : Goes(x, c)
      <4>1. CASE FoundSource(x) \/ FoundTarget(x)
        BY <1>0, <2>0, <4>1, FoundSourceType, FoundTargetType DEF FoundSourceDoes, FoundTargetDoes
      <4>2. CASE Renamed(x) \/ RenamedNothing(x)
        BY <1>0, <2>0, <4>2, RenamedType, RenamedNothingType DEF RenamedDoes, RenamedNothingDoes
      <4> QED BY <2>7, <4>1, <4>2
    <3> QED BY <2>1, <3>1, <3>2
  <2> QED BY <1>9, <2>2, <2>3, <2>4, <2>5, <2>6, <2>7 DEF Resume
<1> QED BY <1>2, <1>3, <1>4, <1>6, <1>7, <1>8, <1>9 DEF Next

(* mv of a directory moves its files in batches of four, whose requests    *)
(* fail one by one: if it ends without an error, nothing that only this    *)
(* session wrote is left at the source.                                    *)
THEOREM MovedWholeTheorem ==
  ASSUME "overlap" \notin Hazards, "lost" \notin Hazards
  PROVE  Spec => MovedWhole
<1> DEFINE Whole ==
      \A s \in Slot :
        call[s].op = "mvtree" /\ call'[s] = Free /\ call[s].ans.status # "failed"
          /\ ~call[s].failed /\ ~Related(call[s].path, call[s].dest)
        => \A p \in Under(call[s].path) \ foreign : LiveAt(p) = {}
<1>1. OwnInv /\ MovedInv /\ [Next]_vars => Whole
  <2> SUFFICES ASSUME OwnInv, MovedInv, [Next]_vars, NEW s \in Slot,
                      call[s].op = "mvtree", call'[s] = Free, call[s].ans.status # "failed",
                      ~call[s].failed, ~Related(call[s].path, call[s].dest),
                      NEW p \in Under(call[s].path) \ foreign, LiveAt(p) # {}
               PROVE  FALSE
    OBVIOUS
  <2>1. call[s].req = NoReq /\ call[s].kids = {} /\ \A t \in Slot : call[t].of # s
    BY EndsWhole
  <2>2. Waiting(call[s])
    BY <2>1 DEF Waiting
  <2>3. Left(s, p)
    BY <2>2 DEF MovedInv
  <2> QED BY <2>1, <2>3 DEF Left
<1>2. OwnInv /\ MovedInv /\ [Next]_vars => MovedInv'
  BY NextMoved
<1>3. Init => MovedInv
  BY InitMoved
<1>4. MovedWhole <=> [][Whole]_vars
  BY DEF MovedWhole
<1> HIDE DEF Whole
<1>5. Spec => []OwnInv
  BY OwnTheorem
<1>6. Spec => [][Whole]_vars
  BY <1>1, <1>2, <1>3, <1>5, PTL DEF Spec
<1> QED BY <1>4, <1>6
=============================================================================
