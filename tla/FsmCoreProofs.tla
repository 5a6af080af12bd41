--------------------------- MODULE FsmCoreProofs ---------------------------
(***************************************************************************)
(* Proofs about the core of the automaton editor, for any number of        *)
(* states, transitions, names and characters.                              *)
(***************************************************************************)
EXTENDS FsmCore, FiniteSetTheorems, SetInduction

ObjType == [name : {{}} \cup {{n} : n \in Names}, final : BOOLEAN,
            next : Seq(Objs), deps : SUBSET (Objs \X Inputs)]

----------------------------------------------------------------------------
\* Sequences.

\* A one-to-one function into as many values reaches all of them.
LEMMA OneToOneIsOnto ==
  ASSUME NEW S, NEW T, IsFiniteSet(S), IsFiniteSet(T),
         Cardinality(S) = Cardinality(T), NEW f \in [S -> T],
         \A x, y \in S : x # y => f[x] # f[y]
  PROVE  \A t \in T : \E x \in S : f[x] = t
<1>1. f \in Injection(S, T)
  BY DEF Injection, IsInjective
<1>2. f \in Surjection(S, T)
  BY <1>1, FS_Injection
<1> QED
  BY <1>2 DEF Surjection

\* OnlyIn keeps the members of s that are in Q, and no others.
LEMMA OnlyInIs ==
  ASSUME NEW T, NEW s \in Seq(T), NEW Q
  PROVE  /\ OnlyIn(s, Q) \in Seq(T)
         /\ ToSet(OnlyIn(s, Q)) = ToSet(s) \cap Q
<1> DEFINE kept == {i \in DOMAIN s : s[i] \in Q}
           rank(i) == Cardinality({k \in kept : k <= i})
           N == Cardinality(kept)
           f == [i \in kept |-> rank(i)]
           nth(j) == CHOOSE i \in kept : rank(i) = j
<1>1. kept \subseteq Nat /\ IsFiniteSet(kept) /\ N \in Nat
  <2>1. kept \in SUBSET (1 .. Len(s)) /\ IsFiniteSet(1 .. Len(s))
    BY FS_Interval
  <2>2. IsFiniteSet(kept)
    BY <2>1, FS_Subset
  <2> QED
    BY <2>1, <2>2, FS_CardinalityType
<1>2. ASSUME NEW i \in kept PROVE rank(i) \in 1 .. N
  <2> DEFINE K == {k \in kept : k <= i}
  <2>1. K \in SUBSET kept /\ i \in K
    BY <1>1
  <2> HIDE DEF K, kept
  <2>2. IsFiniteSet(K) /\ Cardinality(K) <= N /\ Cardinality(K) \in Nat
    BY <1>1, <2>1, FS_Subset, FS_CardinalityType
  <2>3. Cardinality(K) # 0
    BY <2>1, <2>2, FS_EmptySet
  <2>4. Cardinality(K) \in 1 .. N
    BY <1>1, <2>2, <2>3
  <2> QED
    BY <2>4 DEF K
<1>3. ASSUME NEW i \in kept, NEW j \in kept, i < j PROVE rank(i) # rank(j)
  <2> DEFINE A == {k \in kept : k <= i}
             B == {k \in kept : k <= j}
  <2>1. A \subseteq B /\ j \in B /\ j \notin A /\ B \in SUBSET kept
    BY <1>1, <1>3
  <2> HIDE DEF A, B, kept
  <2>2. IsFiniteSet(B)
    BY <1>1, <2>1, FS_Subset
  <2>3. Cardinality(A) # Cardinality(B)
    BY <2>1, <2>2, FS_Subset, Zenon
  <2> QED
    BY <2>3 DEF A, B
<1>4. f \in [kept -> 1 .. N]
  BY <1>2
<1>5. \A i, j \in kept : i # j => f[i] # f[j]
  <2> SUFFICES ASSUME NEW i \in kept, NEW j \in kept, i # j PROVE rank(i) # rank(j)
    OBVIOUS
  <2>1. i < j \/ j < i
    BY <1>1
  <2> QED
    BY <1>3, <2>1
<1>6. Cardinality(1 .. N) = N /\ IsFiniteSet(1 .. N)
  BY <1>1, FS_Interval
<1>7. \A j \in 1 .. N : \E i \in kept : f[i] = j
  <2> HIDE DEF f, kept
  <2> DEFINE R == 1 .. N
  <2>1. Cardinality(kept) = Cardinality(R) /\ IsFiniteSet(R) /\ f \in [kept -> R]
    BY <1>4, <1>6
  <2>2. IsFiniteSet(kept)
    BY <1>1
  <2> HIDE DEF R
  <2>3. \A j \in R : \E i \in kept : f[i] = j
    BY <1>5, <2>1, <2>2, OneToOneIsOnto
  <2> QED
    BY <2>3 DEF R
<1>8. \A j \in 1 .. N : nth(j) \in kept /\ rank(nth(j)) = j
  <2> SUFFICES ASSUME NEW j \in 1 .. N PROVE nth(j) \in kept /\ rank(nth(j)) = j
    OBVIOUS
  <2>1. \E i \in kept : rank(i) = j
    BY <1>7
  <2> HIDE DEF rank, kept
  <2> QED
    BY <2>1
<1>9. \A i \in kept : nth(rank(i)) = i
  <2> SUFFICES ASSUME NEW i \in kept PROVE nth(rank(i)) = i
    OBVIOUS
  <2>1. nth(rank(i)) \in kept /\ rank(nth(rank(i))) = rank(i)
    BY <1>2, <1>8
  <2>2. f[nth(rank(i))] = f[i]
    BY <2>1
  <2> HIDE DEF f, nth, kept, rank
  <2> QED
    BY <1>5, <2>1, <2>2
<1>10. OnlyIn(s, Q) = [j \in 1 .. N |-> s[nth(j)]]
  BY DEF OnlyIn
<1>11. \A i \in kept : i \in DOMAIN s /\ s[i] \in Q /\ s[i] \in T
  OBVIOUS
<1>12. OnlyIn(s, Q) \in Seq(T)
  <2> HIDE DEF nth, N
  <2>1. [j \in 1 .. N |-> s[nth(j)]] \in [1 .. N -> T]
    BY <1>8, <1>11
  <2> QED
    BY <1>1, <1>10, <2>1
<1>13. ToSet(OnlyIn(s, Q)) = {s[nth(j)] : j \in 1 .. N}
  <2> HIDE DEF nth, N
  <2> QED
    BY <1>10 DEF ToSet
<1>14. ToSet(s) \cap Q = {s[i] : i \in kept}
  BY DEF ToSet
<1>15. {s[nth(j)] : j \in 1 .. N} = {s[i] : i \in kept}
  <2> HIDE DEF nth, N, rank, kept
  <2> QED
    BY <1>2, <1>8, <1>9
<1> QED
  BY <1>12, <1>13, <1>14, <1>15

----------------------------------------------------------------------------
\* The objects after each kind of change.

\* An index of a list belongs to one of its members, and a member has an index.
LEMMA ToSetIs ==
  ASSUME NEW T, NEW s \in Seq(T)
  PROVE  /\ ToSet(s) \subseteq T
         /\ \A i \in 1 .. Len(s) : s[i] \in ToSet(s)
         /\ \A x \in ToSet(s) : \E i \in 1 .. Len(s) : s[i] = x
  BY DEF ToSet

\* A State object is its four fields.
Object(n, f, x, d) == [name |-> n, final |-> f, next |-> x, deps |-> d]

LEMMA FieldsIs ==
  ASSUME NEW r \in ObjType
  PROVE  /\ r.name \in {{}} \cup {{n} : n \in Names} /\ r.final \in BOOLEAN
         /\ r.next \in Seq(Objs) /\ r.deps \in SUBSET (Objs \X Inputs)
  BY DEF ObjType

LEMMA ObjectIs ==
  ASSUME NEW r \in ObjType, NEW x \in Seq(Objs), NEW d \in SUBSET (Objs \X Inputs)
  PROVE  /\ Object(r.name, r.final, x, d) \in ObjType
         /\ [r EXCEPT !.next = x] = Object(r.name, r.final, x, r.deps)
         /\ [r EXCEPT !.deps = d] = Object(r.name, r.final, r.next, d)
<1>1. Object(r.name, r.final, x, d) \in ObjType
  BY FieldsIs DEF ObjType, Object
<1>2. [r EXCEPT !.next = x] = Object(r.name, r.final, x, r.deps)
  BY DEF ObjType, Object
<1>3. [r EXCEPT !.deps = d] = Object(r.name, r.final, r.next, d)
  BY DEF ObjType, Object
<1> QED
  BY <1>1, <1>2, <1>3

LEMMA FreeType == Free \in ObjType
  BY DEF Free, State, ObjType

\* What the roots hold contains them and all that its members refer to.
LEMMA HeldIs ==
  ASSUME NEW roots, roots \ {NoState} \subseteq Objs, NEW ob \in [Objs -> ObjType]
  PROVE  /\ Held(roots, ob) \subseteq Objs
         /\ roots \ {NoState} \subseteq Held(roots, ob)
         /\ \A p \in Held(roots, ob) : ToSet(ob[p].next) \subseteq Held(roots, ob)
<1>1. Held(roots, ob) \subseteq Objs /\ roots \ {NoState} \subseteq Held(roots, ob)
  BY DEF Held
<1>2. ASSUME NEW p \in Held(roots, ob), NEW q \in ToSet(ob[p].next)
      PROVE  q \in Held(roots, ob)
  <2>1. ob[p].next \in Seq(Objs)
    BY <1>1 DEF ObjType
  <2>2. q \in Objs
    BY <2>1, ToSetIs
  <2>3. ASSUME NEW S \in SUBSET Objs, roots \ {NoState} \subseteq S,
               \A r \in S : ToSet(ob[r].next) \subseteq S
        PROVE  q \in S
    <3>1. p \in S
      BY <2>3 DEF Held
    <3> QED
      BY <2>3, <3>1
  <2> QED
    BY <2>2, <2>3 DEF Held
<1> QED
  BY <1>1, <1>2

\* Collecting leaves a closed set H with the roots as it is, but for the
\* dependencies on what is gone.
KeptIn(H, ob, new) ==
    /\ \A o \in H : /\ new[o].name = ob[o].name /\ new[o].final = ob[o].final
                    /\ new[o].next = ob[o].next
                    /\ ToSet(ob[o].next) \subseteq H
                    /\ new[o].deps = {d \in ob[o].deps : d[1] \in H}
    /\ \A o \in Objs \ H : new[o] = Free

LEMMA CollectedIs ==
  ASSUME NEW l \in SUBSET Objs, NEW s \in Objs \cup {NoState}, NEW c \in Objs \cup {NoState},
         NEW ob \in [Objs -> ObjType]
  PROVE  /\ Collected(l, s, c, ob) \in [Objs -> ObjType]
         /\ \E H \in SUBSET Objs : /\ l \cup ({s, c} \ {NoState}) \subseteq H
                                   /\ KeptIn(H, ob, Collected(l, s, c, ob))
<1> DEFINE H == Held(l \cup {s, c}, ob)
<1>1. /\ H \in SUBSET Objs /\ l \cup ({s, c} \ {NoState}) \subseteq H
      /\ \A p \in H : ToSet(ob[p].next) \subseteq H
  <2>1. NoState \notin Objs
    BY FsmAssumption DEF NoState, Objs
  <2>2. (l \cup {s, c}) \ {NoState} = l \cup ({s, c} \ {NoState})
    BY <2>1
  <2>3. (l \cup {s, c}) \ {NoState} \subseteq Objs
    BY <2>2
  <2> QED
    BY <2>2, <2>3, HeldIs
<1> HIDE DEF H
<1>2. Collected(l, s, c, ob) =
        [o \in Objs |-> IF o \notin H THEN Free
                        ELSE [ob[o] EXCEPT !.deps = {d \in @ : d[1] \in H}]]
  BY DEF Collected, H
<1>3. ASSUME NEW o \in Objs
      PROVE  /\ ob[o] \in ObjType
             /\ [ob[o] EXCEPT !.deps = {d \in @ : d[1] \in H}] \in ObjType
             /\ [ob[o] EXCEPT !.deps = {d \in @ : d[1] \in H}] =
                  Object(ob[o].name, ob[o].final, ob[o].next, {d \in ob[o].deps : d[1] \in H})
  <2> DEFINE r == ob[o]
             D == {d \in r.deps : d[1] \in H}
  <2>1. r \in ObjType
    OBVIOUS
  <2> HIDE DEF r
  <2>2. r.next \in Seq(Objs) /\ r.deps \in SUBSET (Objs \X Inputs)
    BY <2>1 DEF ObjType
  <2>3. D \in SUBSET (Objs \X Inputs)
    BY <2>2
  <2> HIDE DEF D
  <2>4. /\ [r EXCEPT !.deps = D] = Object(r.name, r.final, r.next, D)
        /\ Object(r.name, r.final, r.next, D) \in ObjType
    BY <2>1, <2>2, <2>3, ObjectIs
  <2> QED
    BY <2>1, <2>4 DEF D, r
<1>4. Collected(l, s, c, ob) \in [Objs -> ObjType]
  BY <1>2, <1>3, FreeType
<1>5. KeptIn(H, ob, Collected(l, s, c, ob))
  BY <1>1, <1>2, <1>3 DEF KeptIn, Object
<1> QED
  BY <1>1, <1>4, <1>5

\* A new transition is in both places, and nothing else changes.
Linked(new, ob, p, q, c) ==
    \A o \in Objs :
        /\ new[o].name = ob[o].name /\ new[o].final = ob[o].final
        /\ new[o].next = IF o = p THEN Append(ob[o].next, q) ELSE ob[o].next
        /\ new[o].deps = IF o = q THEN ob[o].deps \cup {<<p, c>>} ELSE ob[o].deps

LEMMA WithTransitionIs ==
  ASSUME NEW ob \in [Objs -> ObjType], NEW p \in Objs, NEW q \in Objs, NEW c \in Inputs
  PROVE  /\ WithTransition(ob, p, q, c) \in [Objs -> ObjType]
         /\ Linked(WithTransition(ob, p, q, c), ob, p, q, c)
<1> DEFINE r == ob[q]
           D == ob[q].deps \cup {<<p, c>>}
           ob1 == [ob EXCEPT ![q] = Object(r.name, r.final, r.next, D)]
           t == ob1[p]
           X == Append(ob1[p].next, q)
           ob2 == [ob1 EXCEPT ![p] = Object(t.name, t.final, X, t.deps)]
<1>1. ob[q] \in ObjType /\ ob[p] \in ObjType
  OBVIOUS
<1>2. D \in SUBSET (Objs \X Inputs) /\ ob[q].next \in Seq(Objs)
  BY <1>1, FieldsIs
<1>3. /\ [ob[q] EXCEPT !.deps = D] = Object(r.name, r.final, r.next, D)
      /\ Object(r.name, r.final, r.next, D) \in ObjType
  <2> HIDE DEF D
  <2> QED
    BY <1>1, <1>2, ObjectIs
<1>4. ob1 \in [Objs -> ObjType] /\ ob1[p] \in ObjType
  BY <1>3
<1>5. X \in Seq(Objs) /\ ob1[p].deps \in SUBSET (Objs \X Inputs)
  <2>1. ob1[p].next \in Seq(Objs) /\ ob1[p].deps \in SUBSET (Objs \X Inputs)
    BY <1>4, FieldsIs
  <2> HIDE DEF ob1
  <2> QED
    BY <2>1
<1>6. /\ [ob1[p] EXCEPT !.next = X] = Object(t.name, t.final, X, t.deps)
      /\ Object(t.name, t.final, X, t.deps) \in ObjType
  <2> HIDE DEF X, ob1
  <2> QED
    BY <1>4, <1>5, ObjectIs
<1>7. WithTransition(ob, p, q, c) = ob2
  <2>1. [ob EXCEPT ![q].deps = @ \cup {<<p, c>>}] = ob1
    BY <1>3
  <2>2. [ob1 EXCEPT ![p].next = Append(@, q)] = ob2
    <3> HIDE DEF ob1
    <3> QED
      BY <1>6
  <2> QED
    BY <2>1, <2>2, Zenon DEF WithTransition
<1>8. ob2 \in [Objs -> ObjType]
  <2> HIDE DEF ob1, X
  <2> QED
    BY <1>4, <1>6
<1>9. \A o \in Objs : /\ ob1[o].name = ob[o].name /\ ob1[o].final = ob[o].final
                      /\ ob1[o].next = ob[o].next
                      /\ ob1[o].deps = IF o = q THEN D ELSE ob[o].deps
  BY DEF Object
<1>10. \A o \in Objs : /\ ob2[o].name = ob1[o].name /\ ob2[o].final = ob1[o].final
                       /\ ob2[o].deps = ob1[o].deps
                       /\ ob2[o].next = IF o = p THEN X ELSE ob1[o].next
  <2> HIDE DEF ob1, X
  <2> QED
    BY <1>4 DEF Object
<1>11. X = Append(ob[p].next, q)
  BY <1>9
<1> HIDE DEF ob1, ob2, X
<1> QED
  BY <1>7, <1>8, <1>9, <1>10, <1>11 DEF Linked

\* A list has one member more when it is appended to.
LEMMA ToSetAppend ==
  ASSUME NEW T, NEW s \in Seq(T), NEW x \in T
  PROVE  ToSet(Append(s, x)) = ToSet(s) \cup {x}
<1>1. Append(s, x) \in Seq(T) /\ Len(Append(s, x)) = Len(s) + 1 /\ Append(s, x)[Len(s) + 1] = x
      /\ \A i \in 1 .. Len(s) : Append(s, x)[i] = s[i]
  OBVIOUS
<1>2. DOMAIN Append(s, x) = DOMAIN s \cup {Len(s) + 1}
  OBVIOUS
<1> QED
  BY <1>1, <1>2 DEF ToSet

\* A removed transition is in neither place; the list loses every occurrence of
\* the destination.
Unlinked(new, ob, p, q, c) ==
    \A o \in Objs :
        /\ new[o].name = ob[o].name /\ new[o].final = ob[o].final
        /\ ToSet(new[o].next) = IF o = p THEN ToSet(ob[o].next) \ {q} ELSE ToSet(ob[o].next)
        /\ new[o].deps = IF o = q THEN ob[o].deps \ {<<p, c>>} ELSE ob[o].deps

LEMMA WithoutTransitionIs ==
  ASSUME NEW ob \in [Objs -> ObjType], NEW p \in Objs, NEW q \in Objs, NEW c \in Inputs
  PROVE  /\ WithoutTransition(ob, p, q, c) \in [Objs -> ObjType]
         /\ Unlinked(WithoutTransition(ob, p, q, c), ob, p, q, c)
<1>1. ob[p].next \in Seq(Objs)
  BY DEF ObjType
<1> DEFINE few == OnlyIn(ob[p].next, Objs \ {q})
<1>2. few \in Seq(Objs) /\ ToSet(few) = ToSet(ob[p].next) \ {q}
  BY <1>1, OnlyInIs, ToSetIs
<1>3. WithoutTransition(ob, p, q, c) =
        [[ob EXCEPT ![p].next = few] EXCEPT ![q].deps = @ \ {<<p, c>>}]
  BY DEF WithoutTransition
<1> DEFINE r == ob[p]
           ob1 == [ob EXCEPT ![p] = Object(r.name, r.final, few, r.deps)]
           t == ob1[q]
           D == ob1[q].deps \ {<<p, c>>}
           ob2 == [ob1 EXCEPT ![q] = Object(t.name, t.final, t.next, D)]
<1> HIDE DEF few
<1>4. /\ [ob[p] EXCEPT !.next = few] = Object(r.name, r.final, few, r.deps)
      /\ Object(r.name, r.final, few, r.deps) \in ObjType
  <2>1. r \in ObjType /\ r.deps \in SUBSET (Objs \X Inputs)
    BY FieldsIs
  <2> QED
    BY <1>2, <2>1, ObjectIs
<1>5. ob1 \in [Objs -> ObjType] /\ ob1[q] \in ObjType
  BY <1>4
<1>6. D \in SUBSET (Objs \X Inputs) /\ ob1[q].next \in Seq(Objs)
  <2> HIDE DEF ob1
  <2> QED
    BY <1>5, FieldsIs
<1>7. /\ [ob1[q] EXCEPT !.deps = D] = Object(t.name, t.final, t.next, D)
      /\ Object(t.name, t.final, t.next, D) \in ObjType
  <2> HIDE DEF D, ob1
  <2> QED
    BY <1>5, <1>6, ObjectIs
<1>8. WithoutTransition(ob, p, q, c) = ob2
  <2>1. [ob EXCEPT ![p].next = few] = ob1
    BY <1>4
  <2>2. [ob1 EXCEPT ![q].deps = @ \ {<<p, c>>}] = ob2
    <3> HIDE DEF ob1
    <3> QED
      BY <1>7
  <2> QED
    BY <1>3, <2>1, <2>2, Zenon
<1>9. ob2 \in [Objs -> ObjType]
  <2> HIDE DEF ob1, D
  <2> QED
    BY <1>5, <1>7
<1>10. \A o \in Objs : /\ ob1[o].name = ob[o].name /\ ob1[o].final = ob[o].final
                       /\ ob1[o].next = IF o = p THEN few ELSE ob[o].next
                       /\ ob1[o].deps = ob[o].deps
  BY DEF Object
<1>11. \A o \in Objs : /\ ob2[o].name = ob1[o].name /\ ob2[o].final = ob1[o].final
                       /\ ob2[o].next = ob1[o].next
                       /\ ob2[o].deps = IF o = q THEN D ELSE ob1[o].deps
  <2> HIDE DEF ob1, D
  <2> QED
    BY <1>5 DEF Object
<1>12. D = ob[q].deps \ {<<p, c>>}
  BY <1>10
<1> HIDE DEF ob1, ob2, D
<1> QED
  BY <1>2, <1>8, <1>9, <1>10, <1>11, <1>12 DEF Unlinked

\* removeReferencesToState takes the name out of all lists of the map.
LEMMA WithoutReferencesIs ==
  ASSUME NEW n, obj \in [Objs -> ObjType], live \subseteq Objs
  PROVE  /\ WithoutReferences(n) \in [Objs -> ObjType]
         /\ \A o \in Objs : /\ WithoutReferences(n)[o].name = obj[o].name
                            /\ WithoutReferences(n)[o].final = obj[o].final
         /\ \A o \in live :
              /\ ToSet(WithoutReferences(n)[o].next) = {q \in Successors(o) : obj[q].name # n}
              /\ WithoutReferences(n)[o].deps = {d \in obj[o].deps : obj[d[1]].name # n}
         /\ \A o \in Objs \ live : WithoutReferences(n)[o] = obj[o]
<1> DEFINE Q == {q \in Objs : obj[q].name # n}
           D(o) == {d \in obj[o].deps : obj[d[1]].name # n}
           few(o) == OnlyIn(obj[o].next, Q)
<1>1. ASSUME NEW o \in Objs
      PROVE  few(o) \in Seq(Objs) /\ ToSet(few(o)) = {q \in Successors(o) : obj[q].name # n}
  <2>1. obj[o].next \in Seq(Objs)
    BY DEF ObjType
  <2> QED
    BY <2>1, OnlyInIs, ToSetIs DEF Successors
<1>2. ASSUME NEW o \in live
      PROVE  /\ WithoutReferences(n)[o] = Object(obj[o].name, obj[o].final, few(o), D(o))
             /\ Object(obj[o].name, obj[o].final, few(o), D(o)) \in ObjType
  <2> DEFINE r == obj[o]
             x == few(o)
             d == D(o)
  <2>1. WithoutReferences(n)[o] = [r EXCEPT !.next = x, !.deps = d]
    BY DEF WithoutReferences
  <2>2. r \in ObjType /\ x \in Seq(Objs)
    BY <1>1
  <2>3. d \in SUBSET (Objs \X Inputs)
    BY <2>2, FieldsIs
  <2> HIDE DEF r, x, d
  <2>4. /\ [r EXCEPT !.next = x] = Object(r.name, r.final, x, r.deps)
        /\ Object(r.name, r.final, x, d) \in ObjType
    BY <2>2, <2>3, ObjectIs
  <2>5. [Object(r.name, r.final, x, r.deps) EXCEPT !.deps = d] = Object(r.name, r.final, x, d)
    BY DEF Object
  <2>6. [r EXCEPT !.next = x, !.deps = d] = [[r EXCEPT !.next = x] EXCEPT !.deps = d]
    OBVIOUS
  <2>7. /\ WithoutReferences(n)[o] = Object(r.name, r.final, x, d)
        /\ Object(r.name, r.final, x, d) \in ObjType
    BY <2>1, <2>4, <2>5, <2>6
  <2> QED
    BY <2>7 DEF r, x, d
<1>3. \A o \in Objs \ live : WithoutReferences(n)[o] = obj[o]
  BY DEF WithoutReferences
<1>4. \A o \in Objs : D(o) \subseteq obj[o].deps
  OBVIOUS
<1> HIDE DEF few, D, Q
<1>5. \A o \in Objs : WithoutReferences(n)[o] \in ObjType
  BY <1>2, <1>3
<1>6. WithoutReferences(n) = [o \in Objs |-> WithoutReferences(n)[o]]
  BY DEF WithoutReferences
<1>7. WithoutReferences(n) \in [Objs -> ObjType]
  BY <1>5, <1>6
<1>8. ASSUME NEW o \in live
      PROVE  /\ WithoutReferences(n)[o].name = obj[o].name
             /\ WithoutReferences(n)[o].final = obj[o].final
             /\ WithoutReferences(n)[o].next = few(o)
             /\ WithoutReferences(n)[o].deps = D(o)
  <2> DEFINE new == WithoutReferences(n)[o]
             x == few(o)
             d == D(o)
  <2>1. new = [name |-> obj[o].name, final |-> obj[o].final, next |-> x, deps |-> d]
    BY <1>2 DEF Object
  <2> HIDE DEF new, x, d
  <2>2. new.name = obj[o].name /\ new.final = obj[o].final /\ new.next = x /\ new.deps = d
    BY <2>1
  <2> QED
    BY <2>2 DEF new, x, d
<1> QED
  BY <1>1, <1>3, <1>7, <1>8 DEF D

\* Pruning takes the name out of the list of one state.
LEMMA PrunedIs ==
  ASSUME NEW n, NEW p \in Objs, obj \in [Objs -> ObjType]
  PROVE  /\ Pruned(p, n) \in [Objs -> ObjType]
         /\ \A o \in Objs :
              /\ Pruned(p, n)[o].name = obj[o].name /\ Pruned(p, n)[o].final = obj[o].final
              /\ Pruned(p, n)[o].deps = obj[o].deps
              /\ ToSet(Pruned(p, n)[o].next) =
                   IF o = p THEN {q \in Successors(o) : obj[q].name # n} ELSE Successors(o)
<1> DEFINE few == OnlyIn(obj[p].next, {q \in Objs : obj[q].name # n})
<1>1. few \in Seq(Objs) /\ ToSet(few) = {q \in Successors(p) : obj[q].name # n}
  <2>1. obj[p].next \in Seq(Objs)
    BY DEF ObjType
  <2> QED
    BY <2>1, OnlyInIs, ToSetIs DEF Successors
<1>2. Pruned(p, n) = [obj EXCEPT ![p].next = few]
  BY DEF Pruned
<1> DEFINE r == obj[p]
           new == Object(r.name, r.final, few, r.deps)
<1> HIDE DEF few
<1>3. new \in ObjType /\ [obj[p] EXCEPT !.next = few] = new
  <2>1. r \in ObjType /\ r.deps \in SUBSET (Objs \X Inputs)
    BY FieldsIs
  <2> QED
    BY <1>1, <2>1, ObjectIs
<1>4. Pruned(p, n) = [obj EXCEPT ![p] = new]
  BY <1>2, <1>3
<1>5. /\ new.name = obj[p].name /\ new.final = obj[p].final
      /\ new.next = few /\ new.deps = obj[p].deps
  BY DEF Object
<1> HIDE DEF new
<1> QED
  BY <1>1, <1>3, <1>4, <1>5 DEF Successors

----------------------------------------------------------------------------
\* The automaton: its objects ob, the map lv, the start and the current state.

UniqueNames(ob, lv) == \A o, p \in lv : ob[o].name = ob[p].name => o = p

\* Whatever a state of the map lists has a dependency on it.
Backed(ob, lv) ==
    \A o \in lv : \A q \in ToSet(ob[o].next) : \E c \in Inputs : <<o, c>> \in ob[q].deps

Sound(ob, lv, s, c) ==
    /\ ob \in [Objs -> ObjType] /\ lv \subseteq Objs
    /\ s \in Objs \cup {NoState} /\ c \in Objs \cup {NoState}
    /\ \A o \in lv \cup ({s, c} \ {NoState}) : ob[o].name # {}
    /\ UniqueNames(ob, lv) /\ Backed(ob, lv)

\* Collecting takes nothing that the automaton needs.
LEMMA SoundCollected ==
  ASSUME NEW ob, NEW lv, NEW s, NEW c, Sound(ob, lv, s, c)
  PROVE  Sound(Collected(lv, s, c, ob), lv, s, c)
<1> DEFINE new == Collected(lv, s, c, ob)
<1>1. /\ ob \in [Objs -> ObjType] /\ lv \in SUBSET Objs
      /\ s \in Objs \cup {NoState} /\ c \in Objs \cup {NoState}
  BY DEF Sound
<1>2. new \in [Objs -> ObjType]
  BY <1>1, CollectedIs
<1>3. PICK H \in SUBSET Objs : lv \cup ({s, c} \ {NoState}) \subseteq H /\ KeptIn(H, ob, new)
  BY <1>1, CollectedIs
<1> HIDE DEF new
<1>4. \A o \in lv \cup ({s, c} \ {NoState}) : new[o].name # {}
  BY <1>3 DEF Sound, KeptIn
<1>5. UniqueNames(new, lv)
  BY <1>3 DEF Sound, KeptIn, UniqueNames
<1>6. ASSUME NEW o \in lv, NEW q \in ToSet(new[o].next)
      PROVE  \E i \in Inputs : <<o, i>> \in new[q].deps
  <2>1. o \in H /\ q \in ToSet(ob[o].next) /\ q \in H
    BY <1>3, <1>6 DEF KeptIn
  <2>3. PICK i \in Inputs : <<o, i>> \in ob[q].deps
    BY <2>1 DEF Sound, Backed
  <2>4. <<o, i>> \in {d \in ob[q].deps : d[1] \in H}
    BY <2>1, <2>3
  <2>5. <<o, i>> \in new[q].deps
    BY <1>3, <2>1, <2>4 DEF KeptIn
  <2> QED
    BY <2>5
<1>7. Backed(new, lv)
  BY <1>6 DEF Backed
<1>8. Sound(new, lv, s, c)
  BY <1>1, <1>2, <1>4, <1>5, <1>7 DEF Sound
<1> QED
  BY <1>8 DEF new

\* A state whose name is in the map, or none, may be pointed to.
LEMMA SoundPointers ==
  ASSUME NEW ob, NEW lv, NEW s, NEW c, Sound(ob, lv, s, c),
         NEW t \in Objs \cup {NoState}, t # NoState => ob[t].name # {},
         NEW d \in Objs \cup {NoState}, d # NoState => ob[d].name # {}
  PROVE  Sound(ob, lv, t, d)
  BY DEF Sound

\* Names that stay as they are stay unique.
LEMMA NamesStayUnique ==
  ASSUME NEW ob, NEW new, NEW lv, NEW left, UniqueNames(ob, lv), left \subseteq lv,
         \A o \in lv : new[o].name = ob[o].name
  PROVE  UniqueNames(new, left)
  BY DEF UniqueNames

LEMMA SoundWithTransition ==
  ASSUME NEW ob, NEW lv, NEW s, NEW c, Sound(ob, lv, s, c),
         NEW p \in lv, NEW q \in lv, NEW i \in Inputs
  PROVE  Sound(WithTransition(ob, p, q, i), lv, s, c)
<1> DEFINE new == WithTransition(ob, p, q, i)
<1>1. ob \in [Objs -> ObjType] /\ lv \subseteq Objs /\ p \in Objs /\ q \in Objs
  BY DEF Sound
<1>2. new \in [Objs -> ObjType] /\ Linked(new, ob, p, q, i)
  BY <1>1, WithTransitionIs
<1> HIDE DEF new
<1>3. \A o \in lv \cup ({s, c} \ {NoState}) : o \in Objs /\ new[o].name # {}
  BY <1>2 DEF Sound, Linked
<1>4. UniqueNames(new, lv)
  <2>1. \A o \in lv : new[o].name = ob[o].name
    BY <1>1, <1>2 DEF Linked
  <2> QED
    BY <2>1, NamesStayUnique DEF Sound
<1>5. ASSUME NEW o \in lv, NEW r \in ToSet(new[o].next)
      PROVE  \E k \in Inputs : <<o, k>> \in new[r].deps
  <2>1. o \in Objs /\ ob[o].next \in Seq(Objs)
    BY <1>1, FieldsIs
  <2>2. CASE r \in ToSet(ob[o].next)
    <3>1. PICK k \in Inputs : <<o, k>> \in ob[r].deps
      BY <2>2 DEF Sound, Backed
    <3>2. r \in Objs
      BY <2>1, <2>2, ToSetIs
    <3>3. <<o, k>> \in new[r].deps
      BY <1>1, <1>2, <3>1, <3>2 DEF Linked
    <3> QED
      BY <3>3
  <2>3. CASE r \notin ToSet(ob[o].next)
    <3>1. o = p
      BY <1>2, <1>5, <2>1, <2>3 DEF Linked
    <3>2. new[o].next = Append(ob[o].next, q)
      BY <1>2, <2>1, <3>1 DEF Linked
    <3>3. r = q
      BY <1>1, <1>5, <2>1, <2>3, <3>2, ToSetAppend
    <3>4. <<o, i>> \in new[r].deps
      BY <1>1, <1>2, <3>1, <3>3 DEF Linked
    <3> QED
      BY <3>4
  <2> QED
    BY <2>2, <2>3
<1>6. Backed(new, lv)
  BY <1>5 DEF Backed
<1>7. Sound(new, lv, s, c)
  BY <1>1, <1>2, <1>3, <1>4, <1>6 DEF Sound
<1> QED
  BY <1>7 DEF new

LEMMA SoundWithoutTransition ==
  ASSUME NEW ob, NEW lv, NEW s, NEW c, Sound(ob, lv, s, c),
         NEW p \in lv, NEW q \in lv, NEW i \in Inputs
  PROVE  Sound(WithoutTransition(ob, p, q, i), lv, s, c)
<1> DEFINE new == WithoutTransition(ob, p, q, i)
<1>1. ob \in [Objs -> ObjType] /\ lv \subseteq Objs /\ p \in Objs /\ q \in Objs
  BY DEF Sound
<1>2. new \in [Objs -> ObjType] /\ Unlinked(new, ob, p, q, i)
  BY <1>1, WithoutTransitionIs
<1> HIDE DEF new
<1>3. \A o \in lv \cup ({s, c} \ {NoState}) : o \in Objs /\ new[o].name # {}
  BY <1>2 DEF Sound, Unlinked
<1>4. UniqueNames(new, lv)
  <2>1. \A o \in lv : new[o].name = ob[o].name
    BY <1>1, <1>2 DEF Unlinked
  <2> QED
    BY <2>1, NamesStayUnique DEF Sound
<1>5. ASSUME NEW o \in lv, NEW r \in ToSet(new[o].next)
      PROVE  \E k \in Inputs : <<o, k>> \in new[r].deps
  <2>1. o \in Objs /\ r \in ToSet(ob[o].next) /\ (o = p => r # q)
    BY <1>1, <1>2, <1>5 DEF Unlinked
  <2>2. PICK k \in Inputs : <<o, k>> \in ob[r].deps
    BY <2>1 DEF Sound, Backed
  <2>3. r = q => <<o, k>> # <<p, i>>
    BY <2>1
  <2>4. r \in Objs
    BY <1>1, <2>1, FieldsIs, ToSetIs
  <2>5. <<o, k>> \in new[r].deps
    BY <1>1, <1>2, <2>2, <2>3, <2>4 DEF Unlinked
  <2> QED
    BY <2>5
<1>6. Backed(new, lv)
  BY <1>5 DEF Backed
<1>7. Sound(new, lv, s, c)
  BY <1>1, <1>2, <1>3, <1>4, <1>6 DEF Sound
<1> QED
  BY <1>7 DEF new

----------------------------------------------------------------------------
\* The inductive invariant: the automaton, the data, and the calls.

GraphInv == Sound(obj, live, start, current)

DataInv ==
    /\ machine \in MachineStates /\ expected \subseteq Inputs
    /\ input \in Seq(Inputs) /\ word \in Seq(Inputs) /\ output \in Seq(Objs)
    /\ mode \in {"idle", "delete", "prune", "run", "crashed"}

\* Nobody else in the map has the name of q.
GenuineIn(ob, lv, q) == \A r \in lv : ob[r].name = ob[q].name => r = q
Genuine(q) == GenuineIn(obj, live, q)

Frames(S) == [obj : S, todo : Seq(S), entry : SUBSET Objs]

InCall == mode \in {"delete", "prune"}

\* A call is about State objects.  Those that are being removed were in the map
\* when the call began: nobody has their names but themselves.
CallInv ==
    InCall => /\ stack \in Seq(Frames(Objs)) /\ stack # <<>>
              /\ mode = "delete" => \A i \in 1 .. Len(stack) : Genuine(stack[i].obj)

LEMMA TypesAre ==
  ASSUME GraphInv, DataInv
  PROVE  TypeOK
  BY DEF GraphInv, DataInv, TypeOK, Sound, ObjType

LEMMA GraphTypes ==
  ASSUME GraphInv
  PROVE  /\ obj \in [Objs -> ObjType] /\ live \subseteq Objs
         /\ start \in Objs \cup {NoState} /\ current \in Objs \cup {NoState}
         /\ \A o \in Objs : Successors(o) \subseteq Objs /\ obj[o].next \in Seq(Objs)
<1>1. obj \in [Objs -> ObjType] /\ live \subseteq Objs
      /\ start \in Objs \cup {NoState} /\ current \in Objs \cup {NoState}
  BY DEF GraphInv, Sound
<1>2. ASSUME NEW o \in Objs PROVE Successors(o) \subseteq Objs /\ obj[o].next \in Seq(Objs)
  <2>1. obj[o].next \in Seq(Objs)
    BY <1>1, FieldsIs
  <2> QED
    BY <2>1, ToSetIs DEF Successors
<1> QED
  BY <1>1, <1>2

\* A list of members of S.
LEMMA SeqOfMembers ==
  ASSUME NEW T, NEW s \in Seq(T), NEW S, ToSet(s) \subseteq S
  PROVE  s \in Seq(S)
<1>1. \A i \in 1 .. Len(s) : s[i] \in S
  BY ToSetIs
<1> QED
  BY <1>1

\* The stack of a call, its top, and what it becomes.
LEMMA StackIs ==
  ASSUME NEW S, S \subseteq Objs, stack \in Seq(Frames(S)), stack # <<>>
  PROVE  /\ Top \in Frames(S) /\ Top = stack[1] /\ Tail(stack) \in Seq(Frames(S))
         /\ Top.obj \in S /\ Top.todo \in Seq(S)
         /\ Len(stack) \in Nat /\ Len(stack) >= 1
<1>1. stack[1] \in Frames(S) /\ Len(stack) \in Nat /\ Len(stack) >= 1
  OBVIOUS
<1>2. Top = stack[1] /\ Tail(stack) \in Seq(Frames(S))
  BY DEF Top
<1> QED
  BY <1>1, <1>2 DEF Frames

LEMMA FrameIs ==
  ASSUME NEW S, NEW t \in Frames(S), NEW y
  PROVE  [t EXCEPT !.todo = y] = [obj |-> t.obj, todo |-> y, entry |-> t.entry]
  BY DEF Frames

LEMMA TailIs ==
  ASSUME NEW T, NEW s \in Seq(T), s # <<>>
  PROVE  /\ Tail(s) \in Seq(T) /\ Len(Tail(s)) = Len(s) - 1 /\ Len(s) \in Nat \ {0}
         /\ Len(s) # 1 => Tail(s) # <<>>
         /\ \A i \in 1 .. Len(s) - 1 : Tail(s)[i] = s[i + 1]
<1>1. Len(s) \in Nat \ {0} /\ Tail(s) \in Seq(T) /\ Len(Tail(s)) = Len(s) - 1
  OBVIOUS
<1> DEFINE t == Tail(s)
<1>2. Len(s) # 1 => Len(t) # 0
  BY <1>1
<1>3. t \in Seq(T) /\ (Len(t) # 0 => t # <<>>)
  <2>1. t \in Seq(T)
    BY <1>1
  <2> HIDE DEF t
  <2> QED
    BY <2>1
<1> QED
  BY <1>1, <1>2, <1>3

LEMMA TailWithin ==
  ASSUME stack \in Seq(Frames(Objs)), stack # <<>>, Len(stack) # 1
  PROVE  /\ Tail(stack) \in Seq(Frames(Objs)) /\ Tail(stack) # <<>>
         /\ \A i \in 1 .. Len(Tail(stack)) :
               \E j \in 1 .. Len(stack) : Tail(stack)[i].obj = stack[j].obj
<1>1. /\ Tail(stack) \in Seq(Frames(Objs)) /\ Len(Tail(stack)) = Len(stack) - 1
      /\ Len(stack) \in Nat \ {0} /\ Tail(stack) # <<>>
      /\ \A i \in 1 .. Len(stack) - 1 : Tail(stack)[i] = stack[i + 1]
  BY TailIs
<1>2. ASSUME NEW i \in 1 .. Len(Tail(stack))
      PROVE  \E j \in 1 .. Len(stack) : Tail(stack)[i].obj = stack[j].obj
  <2>1. i \in 1 .. Len(stack) - 1 /\ i + 1 \in 1 .. Len(stack)
    BY <1>1
  <2> QED
    BY <1>1, <2>1
<1> QED
  BY <1>1, <1>2

LEMMA HeadAndTail ==
  ASSUME NEW T, NEW s \in Seq(T), s # <<>>
  PROVE  ToSet(s) = ToSet(Tail(s)) \cup {Head(s)}
<1>1. /\ Head(s) = s[1] /\ Len(s) \in Nat \ {0} /\ 1 \in DOMAIN s
      /\ DOMAIN Tail(s) = 1 .. Len(s) - 1 /\ DOMAIN s = 1 .. Len(s)
      /\ \A i \in 1 .. Len(s) - 1 : Tail(s)[i] = s[i + 1]
  OBVIOUS
<1>2. ASSUME NEW x \in ToSet(s) PROVE x \in ToSet(Tail(s)) \cup {Head(s)}
  <2>1. PICK i \in DOMAIN s : x = s[i]
    BY DEF ToSet
  <2>2. CASE i # 1
    <3>1. i - 1 \in DOMAIN Tail(s) /\ x = Tail(s)[i - 1]
      BY <1>1, <2>1, <2>2
    <3> QED
      BY <3>1 DEF ToSet
  <2> QED
    BY <1>1, <2>1, <2>2
<1>3. ASSUME NEW x \in ToSet(Tail(s)) PROVE x \in ToSet(s)
  <2>1. PICK i \in DOMAIN Tail(s) : x = Tail(s)[i]
    BY DEF ToSet
  <2>2. i + 1 \in DOMAIN s /\ x = s[i + 1]
    BY <1>1, <2>1
  <2> QED
    BY <2>2 DEF ToSet
<1>4. Head(s) \in ToSet(s)
  BY <1>1 DEF ToSet
<1> QED
  BY <1>2, <1>3, <1>4

LEMMA NextChildIs ==
  ASSUME NEW S, S \subseteq Objs, stack \in Seq(Frames(S)), stack # <<>>, Top.todo # <<>>
  PROVE  /\ Child \in S /\ Child \in ToSet(Top.todo) /\ Child = Top.todo[1]
         /\ NextChild \in Seq(Frames(S)) /\ Len(NextChild) = Len(stack)
         /\ NextChild[1].obj = Top.obj /\ NextChild[1].entry = Top.entry
         /\ NextChild[1].todo = Tail(Top.todo)
         /\ ToSet(Top.todo) = ToSet(Tail(Top.todo)) \cup {Child}
         /\ \A i \in 2 .. Len(stack) : NextChild[i] = stack[i]
<1> DEFINE top == [Top EXCEPT !.todo = Tail(@)]
           rest == Tail(stack)
           todo == Top.todo
<1>1. /\ Top \in Frames(S) /\ Top = stack[1] /\ rest \in Seq(Frames(S))
      /\ Top.obj \in S /\ todo \in Seq(S) /\ Len(stack) \in Nat /\ Len(stack) >= 1
  BY StackIs
<1>2. top = [obj |-> Top.obj, todo |-> Tail(todo), entry |-> Top.entry]
  BY <1>1, FrameIs
<1>3. /\ Tail(todo) \in Seq(S) /\ Head(todo) \in S /\ Head(todo) = todo[1]
      /\ Len(Tail(todo)) = Len(todo) - 1 /\ Len(todo) \in Nat \ {0}
      /\ \A i \in 1 .. Len(todo) - 1 : Tail(todo)[i] = todo[i + 1]
  <2> HIDE DEF todo
  <2> QED
    BY <1>1 DEF todo
<1>4. top \in Frames(S)
  BY <1>1, <1>2, <1>3 DEF Frames
<1>5. NextChild = <<top>> \o rest
  BY DEF NextChild
<1>6. \A i \in 2 .. Len(stack) : rest[i - 1] = stack[i] /\ Len(rest) = Len(stack) - 1
  BY <1>1
<1>7. Len(rest) = Len(stack) - 1
  BY <1>1
<1>8. /\ NextChild \in Seq(Frames(S)) /\ Len(NextChild) = Len(stack) /\ NextChild[1] = top
      /\ \A i \in 2 .. Len(stack) : NextChild[i] = stack[i]
  <2> HIDE DEF top, rest
  <2> QED
    BY <1>1, <1>4, <1>5, <1>6, <1>7
<1>9. ToSet(todo) = ToSet(Tail(todo)) \cup {Head(todo)}
  <2> HIDE DEF todo
  <2> QED
    BY <1>1, HeadAndTail DEF todo
<1>10. Child = Head(todo)
  BY DEF Child
<1> QED
  BY <1>1, <1>2, <1>3, <1>8, <1>9, <1>10

\* What the top of the stack becomes when its first child is left out.
LEMMA NextChildTop ==
  ASSUME stack \in Seq(Frames(Objs)), stack # <<>>, Top.todo # <<>>
  PROVE  /\ Len(stack) \in Nat \ {0} /\ Len(NextChild) = Len(stack)
         /\ NextChild \in Seq(Frames(Objs)) /\ Child \in Objs
         /\ Top = stack[1] /\ Child \in ToSet(stack[1].todo)
         /\ \A i \in 1 .. Len(stack) : NextChild[i].obj = stack[i].obj
         /\ ToSet(stack[1].todo) = ToSet(NextChild[1].todo) \cup {Child}
         /\ \A i \in 2 .. Len(stack) : NextChild[i].todo = stack[i].todo
<1>1. /\ Child \in Objs /\ Child \in ToSet(Top.todo)
      /\ NextChild \in Seq(Frames(Objs)) /\ Len(NextChild) = Len(stack)
      /\ NextChild[1].obj = Top.obj
      /\ NextChild[1].todo = Tail(Top.todo)
      /\ ToSet(Top.todo) = ToSet(Tail(Top.todo)) \cup {Child}
      /\ \A i \in 2 .. Len(stack) : NextChild[i] = stack[i]
  BY NextChildIs
<1>2. Top = stack[1] /\ Len(stack) \in Nat /\ Len(stack) >= 1
  BY StackIs
<1>3. ASSUME NEW i \in 1 .. Len(stack) PROVE NextChild[i].obj = stack[i].obj
  <2>1. i = 1 \/ i \in 2 .. Len(stack)
    BY <1>2
  <2> QED
    BY <1>1, <1>2, <2>1
<1> QED
  BY <1>1, <1>2, <1>3

\* A state of which every reference is removed may leave the map.
LEMMA SoundWithoutReferences ==
  ASSUME GraphInv, NEW o \in Objs, Genuine(o)
  PROVE  Sound(WithoutReferences(obj[o].name), live \ {o}, start, current)
<1> DEFINE n == obj[o].name
           new == WithoutReferences(n)
<1>1. obj \in [Objs -> ObjType] /\ live \subseteq Objs
  BY GraphTypes
<1>2. /\ new \in [Objs -> ObjType]
      /\ \A p \in Objs : new[p].name = obj[p].name /\ new[p].final = obj[p].final
      /\ \A p \in live : /\ ToSet(new[p].next) = {q \in Successors(p) : obj[q].name # n}
                         /\ new[p].deps = {d \in obj[p].deps : obj[d[1]].name # n}
      /\ \A p \in Objs \ live : new[p] = obj[p]
  <2> HIDE DEF n
  <2> QED
    BY <1>1, WithoutReferencesIs
<1> HIDE DEF new
<1>3. \A p \in (live \ {o}) \cup ({start, current} \ {NoState}) : new[p].name # {}
  BY <1>2 DEF GraphInv, Sound
<1>4. UniqueNames(new, live \ {o})
  BY <1>1, <1>2 DEF GraphInv, Sound, UniqueNames
<1>5. ASSUME NEW p \in live \ {o}, NEW q \in ToSet(new[p].next)
      PROVE  \E i \in Inputs : <<p, i>> \in new[q].deps
  <2>1. q \in Successors(p) /\ obj[q].name # n
    BY <1>2, <1>5
  <2>2. PICK i \in Inputs : <<p, i>> \in obj[q].deps
    BY <2>1 DEF GraphInv, Sound, Backed, Successors
  <2>3. obj[p].name # n
    BY DEF Genuine, GenuineIn
  <2>4. <<p, i>> \in {d \in obj[q].deps : obj[d[1]].name # n}
    BY <2>2, <2>3
  <2>5. q \in Objs
    BY <1>1, <2>1, GraphTypes
  <2>6. <<p, i>> \in new[q].deps
    BY <1>2, <2>2, <2>4, <2>5
  <2> QED
    BY <2>6
<1>6. Backed(new, live \ {o})
  BY <1>5 DEF Backed
<1>7. Sound(new, live \ {o}, start, current)
  BY <1>1, <1>2, <1>3, <1>4, <1>6 DEF GraphInv, Sound
<1> QED
  BY <1>7 DEF new

\* Whatever leaves nextStates and the map, what is left of them is backed.
LEMMA SoundPruned ==
  ASSUME GraphInv, NEW p \in Objs, NEW n
  PROVE  Sound(Pruned(p, n), live \ Named(n), start, current)
<1> DEFINE new == Pruned(p, n)
           left == live \ Named(n)
<1>1. obj \in [Objs -> ObjType] /\ live \subseteq Objs
  BY GraphTypes
<1>2. /\ new \in [Objs -> ObjType]
      /\ \A o \in Objs :
           /\ new[o].name = obj[o].name /\ new[o].final = obj[o].final
           /\ new[o].deps = obj[o].deps
           /\ ToSet(new[o].next) =
                IF o = p THEN {q \in Successors(o) : obj[q].name # n} ELSE Successors(o)
  BY <1>1, PrunedIs
<1> HIDE DEF new
<1>3. \A o \in left \cup ({start, current} \ {NoState}) : o \in Objs /\ new[o].name # {}
  BY <1>1, <1>2 DEF GraphInv, Sound
<1>4. UniqueNames(new, left)
  <2>1. \A o \in live : new[o].name = obj[o].name
    BY <1>1, <1>2
  <2> QED
    BY <2>1, NamesStayUnique DEF GraphInv, Sound
<1>5. ASSUME NEW o \in left, NEW q \in ToSet(new[o].next)
      PROVE  \E i \in Inputs : <<o, i>> \in new[q].deps
  <2>1. o \in live /\ o \in Objs /\ q \in Successors(o)
    BY <1>1, <1>2, <1>5
  <2>2. PICK i \in Inputs : <<o, i>> \in obj[q].deps
    BY <2>1 DEF GraphInv, Sound, Backed, Successors
  <2>3. q \in Objs
    BY <2>1, GraphTypes
  <2> QED
    BY <1>2, <2>2, <2>3
<1>6. Backed(new, left)
  BY <1>5 DEF Backed
<1>7. Sound(new, left, start, current)
  BY <1>1, <1>2, <1>3, <1>4, <1>6 DEF GraphInv, Sound
<1> QED
  BY <1>7 DEF new, left

\* A step of a call keeps the names; the objects of the frames are those of the
\* frames before, or states of the map.
LEMMA CallKept ==
  ASSUME GraphInv, CallInv, InCall, mode' \in {mode, "crashed", "idle"},
         live' \subseteq live, \A q \in Objs : obj'[q].name = obj[q].name,
         stack' \in Seq(Frames(Objs)), stack' # <<>>,
         mode = "delete" => \A i \in 1 .. Len(stack') :
            \/ stack'[i].obj \in live
            \/ \E j \in 1 .. Len(stack) : stack'[i].obj = stack[j].obj
  PROVE  CallInv'
<1>1. live \subseteq Objs /\ \A o \in live : Genuine(o)
  BY GraphTypes DEF GraphInv, Sound, UniqueNames, Genuine, GenuineIn
<1>2. ASSUME mode = "delete", NEW i \in 1 .. Len(stack')
      PROVE  GenuineIn(obj', live', stack'[i].obj)
  <2> DEFINE f == stack'[i]
             o == f.obj
  <2>1. Genuine(o)
    BY <1>1, <1>2 DEF CallInv, InCall
  <2>2. f \in Frames(Objs)
    BY <1>2
  <2> HIDE DEF f
  <2>3. o \in Objs
    BY <2>2 DEF Frames
  <2> HIDE DEF o
  <2>4. \A r \in live' : obj'[r].name = obj'[o].name => r = o
    BY <1>1, <2>1, <2>3 DEF Genuine, GenuineIn
  <2> QED
    BY <2>4 DEF GenuineIn, o, f
<1>3. mode' = "delete" => \A i \in 1 .. Len(stack') : GenuineIn(obj', live', stack'[i].obj)
  BY <1>2
<1> QED
  BY <1>3 DEF CallInv, InCall, Genuine

\* A frame about an object.
LEMMA FrameType ==
  ASSUME GraphInv, NEW o \in Objs
  PROVE  Frame(o) \in Frames(Objs) /\ Frame(o).obj = o /\ Frame(o).todo = obj[o].next
  BY GraphTypes DEF Frame, Frames

\* A call that begins.
LEMMA CallBegins ==
  ASSUME GraphInv, NEW o \in Objs, stack' = <<Frame(o)>>, UNCHANGED <<obj, live>>,
         mode' = "delete" => o \in live
  PROVE  CallInv'
<1> DEFINE st == <<Frame(o)>>
<1>1. st \in Seq(Frames(Objs)) /\ st # <<>> /\ Len(st) = 1 /\ st[1].obj = o
  BY FrameType
<1>2. \A i \in 1 .. Len(st) : st[i].obj = o
  BY <1>1
<1>3. mode' = "delete" => GenuineIn(obj', live', o)
  BY DEF GraphInv, Sound, UniqueNames, GenuineIn
<1> HIDE DEF st
<1>4. stack' = st
  BY DEF st
<1>5. mode' = "delete" => \A i \in 1 .. Len(stack') : GenuineIn(obj', live', stack'[i].obj)
  BY <1>2, <1>3, <1>4
<1> QED
  BY <1>1, <1>4, <1>5 DEF CallInv, Genuine

\* The state of a name.
LEMMA ObjOfIs ==
  ASSUME NEW n, Named(n) # {}
  PROVE  ObjOf(n) \in live /\ obj[ObjOf(n)].name = n
  BY DEF Named, ObjOf

LEMMA ObjOfOwnName ==
  ASSUME GraphInv, NEW o \in live
  PROVE  ObjOf(obj[o].name) = o
<1>1. Named(obj[o].name) # {}
  BY DEF Named
<1>2. ObjOf(obj[o].name) \in live /\ obj[ObjOf(obj[o].name)].name = obj[o].name
  BY <1>1, ObjOfIs
<1> QED
  BY <1>2 DEF GraphInv, Sound, UniqueNames

\* An order of the map names each of its states.
LEMMA OrderIs ==
  ASSUME NEW S, IsFiniteSet(S), NEW order \in SetToSeqs(S)
  PROVE  order \in Seq(S) /\ ToSet(order) = S
<1> DEFINE N == Cardinality(S)
           D == 1 .. N
<1>1. N \in Nat
  BY FS_CardinalityType
<1>2. order \in [D -> S] /\ \A i, j \in D : i # j => order[i] # order[j]
  BY DEF SetToSeqs
<1>3. IsFiniteSet(D) /\ Cardinality(D) = Cardinality(S)
  BY <1>1, FS_Interval
<1>4. order \in Seq(S) /\ DOMAIN order = D
  BY <1>1, <1>2
<1> HIDE DEF D
<1>5. \A o \in S : \E i \in D : order[i] = o
  BY <1>2, <1>3, OneToOneIsOnto
<1> QED
  BY <1>2, <1>4, <1>5 DEF ToSet

LEMMA LiveFinite ==
  ASSUME GraphInv
  PROVE  IsFiniteSet(live)
<1>1. live \in SUBSET Objs
  BY GraphTypes
<1>2. IsFiniteSet(Objs)
  BY FsmAssumption, FS_Interval DEF Objs
<1> QED
  BY <1>1, <1>2, FS_Subset

\* What a file has of the transitions, and what becomes of the states.
Read == {t \in Saved : InMap(t[1])}

ReadNext(o) == {q \in live : \E t \in Read : obj[t[1]].name = obj[o].name /\ t[2] = q}

ReadDeps(o) == {<<ObjOf(obj[t[1]].name), t[3]>> : t \in {u \in Read : u[2] = o}}

LEMMA ReadIs ==
  ASSUME NEW t \in Read
  PROVE  /\ t \in Objs \X Objs \X Inputs
         /\ t[1] \in Objs /\ t[2] \in live /\ t[3] \in Inputs
         /\ <<t[1], t[3]>> \in obj[t[2]].deps /\ Named(obj[t[1]].name) # {}
  BY DEF Read, Saved, Drawn, InMap

LEMMA LoadedIs ==
  ASSUME GraphInv, NEW order \in SetToSeqs(live)
  PROVE  /\ Loaded(order) \in [Objs -> ObjType]
         /\ \A o \in live :
              /\ Loaded(order)[o].name = obj[o].name /\ Loaded(order)[o].final = obj[o].final
              /\ ToSet(Loaded(order)[o].next) = ReadNext(o)
              /\ Loaded(order)[o].deps = ReadDeps(o)
<1> DEFINE few(o) == OnlyIn(order, ReadNext(o))
<1>1. order \in Seq(live) /\ ToSet(order) = live
  BY LiveFinite, OrderIs
<1>2. \A o \in live : few(o) \in Seq(live) /\ ToSet(few(o)) = ReadNext(o)
  BY <1>1, OnlyInIs DEF ReadNext
<1>3. \A o \in live : ReadDeps(o) \in SUBSET (Objs \X Inputs)
  <2> SUFFICES ASSUME NEW t \in Read PROVE <<ObjOf(obj[t[1]].name), t[3]>> \in Objs \X Inputs
    BY DEF ReadDeps
  <2>1. ObjOf(obj[t[1]].name) \in live /\ t[3] \in Inputs
    BY ReadIs, ObjOfIs
  <2> QED
    BY <2>1, GraphTypes
<1>4. ASSUME NEW o \in live
      PROVE  /\ Loaded(order)[o] = Object(obj[o].name, obj[o].final, few(o), ReadDeps(o))
             /\ Object(obj[o].name, obj[o].final, few(o), ReadDeps(o)) \in ObjType
  <2> DEFINE r == obj[o]
             x == few(o)
             d == ReadDeps(o)
  <2>1. Loaded(order)[o] = [r EXCEPT !.next = x, !.deps = d]
    <3>1. o \in Objs
      BY GraphTypes
    <3> QED
      BY <3>1 DEF Loaded, ReadNext, ReadDeps, Read
  <2>2. r \in ObjType /\ x \in Seq(Objs)
    <3>1. x \in Seq(live)
      BY <1>2
    <3> HIDE DEF x
    <3> QED
      BY <3>1, GraphTypes
  <2>3. d \in SUBSET (Objs \X Inputs)
    BY <1>3
  <2> HIDE DEF r, x, d
  <2>4. /\ [r EXCEPT !.next = x] = Object(r.name, r.final, x, r.deps)
        /\ Object(r.name, r.final, x, d) \in ObjType
    BY <2>2, <2>3, ObjectIs
  <2>5. [Object(r.name, r.final, x, r.deps) EXCEPT !.deps = d] = Object(r.name, r.final, x, d)
    BY DEF Object
  <2>6. [r EXCEPT !.next = x, !.deps = d] = [[r EXCEPT !.next = x] EXCEPT !.deps = d]
    OBVIOUS
  <2>7. /\ Loaded(order)[o] = Object(r.name, r.final, x, d)
        /\ Object(r.name, r.final, x, d) \in ObjType
    BY <2>1, <2>4, <2>5, <2>6
  <2> QED
    BY <2>7 DEF r, x, d
<1>5. \A o \in Objs \ live : Loaded(order)[o] = Free
  BY DEF Loaded
<1> HIDE DEF few
<1>6. \A o \in Objs : Loaded(order)[o] \in ObjType
  BY <1>4, <1>5, FreeType
<1>7. Loaded(order) = [o \in Objs |-> Loaded(order)[o]]
  BY DEF Loaded
<1>8. Loaded(order) \in [Objs -> ObjType]
  BY <1>6, <1>7
<1>9. ASSUME NEW o \in live
      PROVE  /\ Loaded(order)[o].name = obj[o].name /\ Loaded(order)[o].final = obj[o].final
             /\ Loaded(order)[o].next = few(o) /\ Loaded(order)[o].deps = ReadDeps(o)
  <2> DEFINE new == Loaded(order)[o]
             x == few(o)
             d == ReadDeps(o)
  <2>1. new = [name |-> obj[o].name, final |-> obj[o].final, next |-> x, deps |-> d]
    BY <1>4 DEF Object
  <2> HIDE DEF new, x, d
  <2>2. new.name = obj[o].name /\ new.final = obj[o].final /\ new.next = x /\ new.deps = d
    BY <2>1
  <2> QED
    BY <2>2 DEF new, x, d
<1> QED
  BY <1>2, <1>8, <1>9

\* What is read back is sound; nothing points to a state that is not in the map.
LEMMA SoundLoaded ==
  ASSUME GraphInv, NEW order \in SetToSeqs(live), NEW s \in live \cup {NoState}
  PROVE  Sound(Loaded(order), live, s, NoState)
<1> DEFINE new == Loaded(order)
<1>1. /\ new \in [Objs -> ObjType]
      /\ \A o \in live : /\ new[o].name = obj[o].name
                         /\ ToSet(new[o].next) = ReadNext(o) /\ new[o].deps = ReadDeps(o)
  BY LoadedIs
<1> HIDE DEF new
<1>2. live \subseteq Objs /\ s \in Objs \cup {NoState}
  BY GraphTypes
<1>3. \A o \in live \cup ({s, NoState} \ {NoState}) : new[o].name # {}
  BY <1>1 DEF GraphInv, Sound
<1>4. UniqueNames(new, live)
  BY <1>1 DEF GraphInv, Sound, UniqueNames
<1>5. ASSUME NEW o \in live, NEW q \in ToSet(new[o].next)
      PROVE  \E i \in Inputs : <<o, i>> \in new[q].deps
  <2>1. q \in live
    BY <1>1 DEF ReadNext
  <2>2. PICK t \in Read : obj[t[1]].name = obj[o].name /\ t[2] = q
    BY <1>1 DEF ReadNext
  <2>3. ObjOf(obj[t[1]].name) = o /\ t[3] \in Inputs
    BY <2>2, ObjOfOwnName, ReadIs
  <2>4. <<o, t[3]>> \in ReadDeps(q)
    BY <2>2, <2>3 DEF ReadDeps
  <2> QED
    BY <1>1, <2>1, <2>3, <2>4
<1>6. Backed(new, live)
  BY <1>5 DEF Backed
<1>7. Sound(new, live, s, NoState)
  BY <1>1, <1>2, <1>3, <1>4, <1>6 DEF Sound
<1> QED
  BY <1>7 DEF new

----------------------------------------------------------------------------
\* The steps.  An edit of a sound automaton leaves a sound one.

LEMMA AddStateStep ==
  ASSUME GraphInv, NEW n \in Names, NEW f \in BOOLEAN, AddState(n, f)
  PROVE  GraphInv'
<1>1. PICK o \in Objs : /\ obj[o] = Free
                        /\ obj' = [obj EXCEPT ![o] = State({n}, f)]
                        /\ live' = live \cup {o}
  BY DEF AddState
<1> DEFINE new == State({n}, f)
<1>3. obj' = [obj EXCEPT ![o] = new] /\ new \in ObjType
  BY <1>1 DEF State, ObjType
<1>4. /\ obj \in [Objs -> ObjType] /\ live \subseteq Objs /\ o \in Objs
      /\ start' = start /\ current' = current
  BY GraphTypes DEF AddState, Edited
<1>5. /\ obj' \in [Objs -> ObjType] /\ obj'[o] = new /\ live' \subseteq Objs
      /\ \A p \in Objs : p # o => obj'[p] = obj[p]
  BY <1>1, <1>3, <1>4
<1>6. obj[o].name = {} /\ ToSet(new.next) = {} /\ new.name = {n}
  BY <1>1 DEF Free, State, ToSet
<1>7. o \notin live /\ o \notin ({start, current} \ {NoState})
  BY <1>6 DEF GraphInv, Sound
<1> HIDE DEF new
<1>8. \A p \in live' \cup ({start', current'} \ {NoState}) : obj'[p].name # {}
  <2> SUFFICES ASSUME NEW p \in live' \cup ({start', current'} \ {NoState}) PROVE obj'[p].name # {}
    OBVIOUS
  <2>1. CASE p = o
    BY <1>5, <1>6, <2>1
  <2>2. CASE p # o
    <3>1. p \in live \cup ({start, current} \ {NoState}) /\ p \in Objs
      BY <1>1, <1>4, <2>2 DEF GraphInv, Sound
    <3> QED
      BY <1>5, <2>2, <3>1 DEF GraphInv, Sound
  <2> QED
    BY <2>1, <2>2
<1>9. UniqueNames(obj', live')
  <2>1. \A p \in live : obj[p].name # {n}
    BY DEF AddState, Named
  <2>2. \A p \in live : obj'[p].name = obj[p].name /\ obj'[p].name # obj'[o].name
    BY <1>4, <1>5, <1>6, <1>7, <2>1
  <2>3. \A p, q \in live : obj[p].name = obj[q].name => p = q
    BY DEF GraphInv, Sound, UniqueNames
  <2>4. ASSUME NEW p \in live', NEW q \in live', obj'[p].name = obj'[q].name
        PROVE  p = q
    <3>1. (p \in live \/ p = o) /\ (q \in live \/ q = o)
      BY <1>1
    <3> QED
      BY <2>2, <2>3, <2>4, <3>1
  <2> QED
    BY <2>4 DEF UniqueNames
<1>10. ASSUME NEW p \in live', NEW q \in ToSet(obj'[p].next)
       PROVE  \E i \in Inputs : <<p, i>> \in obj'[q].deps
  <2>1. p # o /\ p \in live
    BY <1>1, <1>5, <1>6
  <2>2. q \in ToSet(obj[p].next)
    BY <1>4, <1>5, <2>1
  <2>3. \E i \in Inputs : <<p, i>> \in obj[q].deps
    BY <2>1, <2>2 DEF GraphInv, Sound, Backed
  <2>4. q \in Objs /\ q # o
    BY <1>1, <1>4, <2>1, <2>2, <2>3, GraphTypes DEF Successors, Free, State
  <2> QED
    BY <1>1, <1>4, <1>5, <1>7, <2>3, <2>4
<1>11. Backed(obj', live')
  BY <1>10 DEF Backed
<1> QED
  BY <1>4, <1>5, <1>8, <1>9, <1>11 DEF GraphInv, Sound

LEMMA SetStartStateStep ==
  ASSUME GraphInv, NEW o \in live, SetStartState(o)
  PROVE  GraphInv'
<1>1. Sound(obj, live, o, current)
  BY GraphTypes DEF GraphInv, Sound
<1>2. /\ obj' = Collected(live, o, current, obj) /\ start' = o /\ live' = live
      /\ current' = current
  BY DEF SetStartState, Edited
<1> QED
  BY <1>1, <1>2, SoundCollected DEF GraphInv

LEMMA TransitionStep ==
  ASSUME GraphInv, NEW p \in live, NEW q \in live, NEW c \in Inputs,
         \/ AddTransition(p, q, c) \/ RemoveTransition(p, q, c)
         \/ \E d \in Inputs : UpdateTransition(p, q, c, d)
  PROVE  GraphInv'
<1>1. Sound(obj, live, start, current)
  BY DEF GraphInv
<1>2. Sound(WithoutTransition(obj, p, q, c), live, start, current)
  BY <1>1, SoundWithoutTransition
<1>3. UNCHANGED <<live, start, current>>
  BY DEF AddTransition, RemoveTransition, UpdateTransition, Edited
<1>4. CASE AddTransition(p, q, c)
  <2>1. obj' = WithTransition(obj, p, q, c)
    BY <1>4 DEF AddTransition
  <2> QED
    BY <1>1, <1>3, <2>1, SoundWithTransition DEF GraphInv
<1>5. CASE RemoveTransition(p, q, c)
  <2>1. obj' = WithoutTransition(obj, p, q, c)
    BY <1>5 DEF RemoveTransition
  <2> QED
    BY <1>2, <1>3, <2>1 DEF GraphInv
<1>6. ASSUME NEW d \in Inputs, UpdateTransition(p, q, c, d) PROVE GraphInv'
  <2>1. \/ obj' = WithoutTransition(obj, p, q, c)
        \/ obj' = WithTransition(WithoutTransition(obj, p, q, c), p, q, d)
    BY <1>6 DEF UpdateTransition
  <2>2. Sound(WithTransition(WithoutTransition(obj, p, q, c), p, q, d), live, start, current)
    BY <1>2, SoundWithTransition
  <2> QED
    BY <1>2, <1>3, <2>1, <2>2 DEF GraphInv
<1> QED
  BY <1>4, <1>5, <1>6

LEMMA SaveAndLoadStep ==
  ASSUME GraphInv, SaveAndLoad
  PROVE  GraphInv'
<1>1. current' = NoState /\ NoState \notin Objs
  BY FsmAssumption DEF SaveAndLoad, NoState, Objs
<1>2. CASE input # <<>>
  <2>1. obj' = [o \in Objs |-> Free] /\ live' = {} /\ start' = NoState
    BY <1>2 DEF SaveAndLoad
  <2>2. obj' \in [Objs -> ObjType]
    BY <2>1, FreeType
  <2> QED
    BY <1>1, <2>1, <2>2 DEF GraphInv, Sound, UniqueNames, Backed
<1>3. CASE input = <<>>
  <2>1. PICK order \in SetToSeqs(live) : obj' = Loaded(order)
    BY <1>3 DEF SaveAndLoad
  <2>2. live' = live
        /\ start' = IF start # NoState /\ InMap(start) THEN ObjOf(obj[start].name) ELSE NoState
    BY <1>3 DEF SaveAndLoad
  <2>3. start' \in live \cup {NoState}
    BY <2>2, ObjOfIs DEF InMap
  <2>4. Sound(Loaded(order), live, start', NoState)
    BY <2>3, SoundLoaded
  <2> QED
    BY <1>1, <2>1, <2>2, <2>4 DEF GraphInv
<1> QED
  BY <1>2, <1>3

\* A step of the execution points to a state whose name is in the map, or to
\* one that was pointed to before.
LEMMA BecomesStep ==
  ASSUME GraphInv, NEW c \in Objs \cup {NoState}, c # NoState => obj[c].name # {},
         obj' = Collected(live, start, c, obj), current' = c, UNCHANGED <<live, start>>
  PROVE  GraphInv'
<1>1. Sound(obj, live, start, c)
  <2>1. start \in Objs \cup {NoState} /\ (start # NoState => obj[start].name # {})
    BY DEF GraphInv, Sound
  <2> QED
    BY <2>1 DEF GraphInv, Sound
<1> QED
  BY <1>1, SoundCollected DEF GraphInv

LEMMA NamedPointers ==
  ASSUME GraphInv
  PROVE  /\ start # NoState => obj[start].name # {}
         /\ current # NoState => obj[current].name # {}
         /\ \A d \in Objs : InMap(d) => obj[d].name # {}
  BY DEF GraphInv, Sound, InMap, Named

\* The transition found is one that can be taken.
LEMMA DestIs ==
  ASSUME GraphInv, NEW o \in Objs, NEW c, Dest(o, c) # NoState
  PROVE  Dest(o, c) \in Objs /\ Dest(o, c) \in Takeable(o, c)
<1> DEFINE hits == {i \in DOMAIN obj[o].next : <<o, c>> \in obj[obj[o].next[i]].deps}
<1>1. obj[o].next \in Seq(Objs)
  BY GraphTypes
<1>2. hits # {} /\ Dest(o, c) = obj[o].next[Min(hits)]
  BY DEF Dest
<1>3. hits \subseteq Nat
  BY <1>1
<1>4. Min(hits) \in hits
  <2> HIDE DEF hits
  <2>1. \E x \in hits : \A y \in hits : x <= y
    BY <1>2, <1>3, LeastNat
  <2> QED
    BY <2>1 DEF Min
<1> DEFINE i == Min(hits)
<1>5. i \in DOMAIN obj[o].next /\ <<o, c>> \in obj[obj[o].next[i]].deps
  BY <1>4
<1> HIDE DEF i, hits
<1>6. obj[o].next[i] \in Objs /\ obj[o].next[i] \in Successors(o)
  BY <1>1, <1>5 DEF Successors, ToSet
<1>7. Dest(o, c) = obj[o].next[i]
  BY <1>2 DEF i
<1> QED
  BY <1>5, <1>6, <1>7 DEF Takeable

\* The steps of the execution that enter a state, or fail.
LEMMA TransitionTaken ==
  ASSUME GraphInv, DataInv, NEW c \in Objs \cup {NoState}, c # NoState => obj[c].name # {},
         NEW out \in Seq(Objs), NEW w, NEW m \in MachineStates, input # <<>>,
         Transition(c, out, w, m)
  PROVE  /\ GraphInv' /\ machine' \in MachineStates /\ input' \in Seq(Inputs)
         /\ output' \in Seq(Objs) /\ word' \in {w, <<>>}
         /\ UNCHANGED <<live, start, expected, calls>>
<1> DEFINE d == IF c = NoState THEN NoState ELSE Dest(c, Head(input))
<1>1. input \in Seq(Inputs) /\ Tail(input) \in Seq(Inputs)
  BY DEF DataInv
<1>2. CASE d = NoState \/ ~ InMap(d)
  <2>1. Becomes(c, out, "ERROR", input, <<>>)
    BY <1>2 DEF Transition
  <2>2. GraphInv'
    BY <2>1, BecomesStep DEF Becomes
  <2> QED
    BY <1>1, <2>1, <2>2 DEF Becomes, MachineStates
<1>3. CASE d # NoState /\ InMap(d)
  <2>1. c # NoState /\ d = Dest(c, Head(input)) /\ c \in Objs
    BY <1>3
  <2>2. d \in Objs
    BY <1>3, <2>1, DestIs
  <2> HIDE DEF d
  <2>3. obj[d].name # {}
    BY <1>3, <2>2, NamedPointers
  <2>4. \/ Becomes(d, Append(out, d), m, Tail(input), w)
        \/ Becomes(d, Append(out, d), "ERROR", input, <<>>)
    BY <1>3, <2>1 DEF Transition, d
  <2>5. obj' = Collected(live, start, d, obj) /\ current' = d /\ UNCHANGED <<live, start>>
    BY <2>4 DEF Becomes
  <2>6. GraphInv'
    BY <2>2, <2>3, <2>5, BecomesStep
  <2>7. Append(out, d) \in Seq(Objs)
    BY <2>2
  <2> QED
    BY <1>1, <2>4, <2>6, <2>7 DEF Becomes, MachineStates
<1> QED
  BY <1>2, <1>3

LEMMA AfterStepType == AfterStep \in MachineStates
  BY DEF AfterStep, MachineStates

LEMMA ResetStep ==
  ASSUME GraphInv, DataInv, Reset
  PROVE  GraphInv' /\ DataInv'
<1>1. /\ obj' = Collected(live, start, start, obj) /\ current' = start
      /\ UNCHANGED <<live, start>> /\ start # NoState
  BY DEF Reset
<1>2. GraphInv'
  BY <1>1, GraphTypes, NamedPointers, BecomesStep
<1> QED
  BY <1>2 DEF DataInv, Reset, MachineStates

LEMMA RunStep ==
  ASSUME GraphInv, DataInv, Run
  PROVE  GraphInv' /\ DataInv'
<1>1. start \in Objs /\ start # NoState
  BY GraphTypes DEF Run, Valid
<1>2. \E c \in {start, current}, w \in {<<>>, input}, out \in {<<>>, <<start>>},
         m \in {machine, "RUNNING"} :
      Becomes(c, out, m, input, w) /\ mode' \in {mode, "run"}
  BY DEF Run
<1>3. PICK c \in {start, current}, w \in {<<>>, input}, out \in {<<>>, <<start>>},
           m \in {machine, "RUNNING"} :
      Becomes(c, out, m, input, w) /\ mode' \in {mode, "run"}
  BY <1>2
<1>4. GraphInv'
  BY <1>3, GraphTypes, NamedPointers, BecomesStep DEF Becomes
<1>5. <<>> \in Seq(Inputs) /\ <<>> \in Seq(Objs) /\ <<start>> \in Seq(Objs)
  BY <1>1
<1> QED
  BY <1>3, <1>4, <1>5 DEF DataInv, Becomes, MachineStates

LEMMA RunLoopStep ==
  ASSUME GraphInv, DataInv, RunLoop
  PROVE  GraphInv' /\ DataInv'
<1>1. /\ current \in Objs \cup {NoState} /\ (current # NoState => obj[current].name # {})
      /\ output \in Seq(Objs) /\ "RUNNING" \in MachineStates /\ input # <<>>
      /\ Transition(current, output, word, "RUNNING")
  BY GraphTypes, NamedPointers DEF DataInv, RunLoop, MachineStates
<1>2. /\ GraphInv' /\ machine' \in MachineStates /\ input' \in Seq(Inputs)
      /\ output' \in Seq(Objs) /\ word' \in {word, <<>>}
      /\ UNCHANGED <<live, start, expected, calls>>
  BY <1>1, TransitionTaken
<1>3. word \in Seq(Inputs) /\ word' \in Seq(Inputs) /\ expected \subseteq Inputs
      /\ mode' \in {"idle", "delete", "prune", "run", "crashed"}
  <2>1. <<>> \in Seq(Inputs) /\ word \in Seq(Inputs)
    BY DEF DataInv
  <2> QED
    BY <1>2, <2>1 DEF DataInv, RunLoop
<1> QED
  BY <1>2, <1>3 DEF DataInv

LEMMA DebugStepStep ==
  ASSUME GraphInv, DataInv, DebugStep
  PROVE  GraphInv' /\ DataInv'
<1>1. /\ current \in Objs \cup {NoState} /\ (current # NoState => obj[current].name # {})
      /\ start \in Objs /\ obj[start].name # {} /\ start # NoState
      /\ output \in Seq(Objs) /\ <<start>> \in Seq(Objs) /\ UNCHANGED mode
      /\ <<>> \in Seq(Inputs) /\ <<>> \in Seq(Objs) /\ input \in Seq(Inputs) /\ word \in Seq(Inputs)
  <2>1. start \in Objs /\ start # NoState
    BY GraphTypes DEF DebugStep
  <2> QED
    BY <2>1, GraphTypes, NamedPointers DEF DataInv, DebugStep
<1>2. CASE \E c \in {start, current}, out \in {<<>>, output, <<start>>}, m \in MachineStates :
              Becomes(c, out, m, input, <<>>)
  <2>1. PICK c \in {start, current}, out \in {<<>>, output, <<start>>}, m \in MachineStates :
              Becomes(c, out, m, input, <<>>)
    BY <1>2
  <2>2. GraphInv'
    BY <1>1, <2>1, BecomesStep DEF Becomes
  <2> QED
    BY <1>1, <2>1, <2>2 DEF DataInv, Becomes
<1>3. CASE input # <<>> /\ Transition(current, output, word, AfterStep)
  <2>1. /\ GraphInv' /\ machine' \in MachineStates /\ input' \in Seq(Inputs)
        /\ output' \in Seq(Objs) /\ word' \in {word, <<>>}
        /\ UNCHANGED <<live, start, expected, calls>>
    BY <1>1, <1>3, AfterStepType, TransitionTaken
  <2> QED
    BY <1>1, <2>1 DEF DataInv
<1>4. CASE input # <<>> /\ Transition(start, <<start>>, input, AfterStep)
  <2>1. /\ GraphInv' /\ machine' \in MachineStates /\ input' \in Seq(Inputs)
        /\ output' \in Seq(Objs) /\ word' \in {input, <<>>}
        /\ UNCHANGED <<live, start, expected, calls>>
    BY <1>1, <1>4, AfterStepType, TransitionTaken
  <2> QED
    BY <1>1, <2>1 DEF DataInv
<1>5. {"STOPPED", "ERROR"} \subseteq MachineStates
  BY DEF MachineStates
<1>6. \/ \E c \in {start, current}, out \in {<<>>, output, <<start>>}, m \in MachineStates :
            Becomes(c, out, m, input, <<>>)
      \/ input # <<>> /\ Transition(current, output, word, AfterStep)
      \/ input # <<>> /\ Transition(start, <<start>>, input, AfterStep)
  <2>1. CASE input = <<>>
    BY <1>5, <2>1 DEF DebugStep
  <2>2. CASE input # <<>> /\ machine = "RUNNING"
    BY <2>2 DEF DebugStep
  <2>3. CASE input # <<>> /\ machine # "RUNNING" /\ ~ InMap(start)
    BY <1>5, <2>3 DEF DebugStep
  <2>4. CASE input # <<>> /\ machine # "RUNNING" /\ InMap(start)
    BY <1>5, <2>4 DEF DebugStep
  <2> QED
    BY <2>1, <2>2, <2>3, <2>4
<1> QED
  BY <1>2, <1>3, <1>4, <1>6

\* The steps of removeState and pruneUnreachable.
LEMMA SkipStep ==
  ASSUME GraphInv, CallInv, DeleteSkip \/ PruneSkip \/ DeleteDescend \/ PruneDescend
  PROVE  GraphInv' /\ CallInv'
<1>1. /\ InCall /\ UNCHANGED <<obj, live, start, current>> /\ Top.todo # <<>>
      /\ mode' \in {mode, "crashed"}
  BY DEF DeleteSkip, PruneSkip, DeleteDescend, PruneDescend, InCall, graph, exec
<1>2. GraphInv'
  BY <1>1 DEF GraphInv
<1>3. stack \in Seq(Frames(Objs)) /\ stack # <<>>
  BY <1>1 DEF CallInv
<1>4. /\ Child \in Objs /\ NextChild \in Seq(Frames(Objs)) /\ Len(NextChild) = Len(stack)
      /\ Len(stack) \in Nat \ {0}
      /\ \A i \in 1 .. Len(stack) : NextChild[i].obj = stack[i].obj
  BY <1>1, <1>3, NextChildTop
<1> HIDE DEF NextChild
<1>5. CASE DeleteSkip \/ PruneSkip
  <2>1. stack' = NextChild
    BY <1>5 DEF DeleteSkip, PruneSkip
  <2> QED
    BY <1>1, <1>2, <1>3, <1>4, <2>1, CallKept
<1>6. CASE PruneDescend
  <2>1. stack' = <<Frame(Child)>> \o stack /\ mode = "prune"
    BY <1>6 DEF PruneDescend
  <2>2. stack' \in Seq(Frames(Objs)) /\ stack' # <<>>
    BY <1>3, <1>4, <2>1, FrameType
  <2> QED
    BY <1>1, <1>2, <1>3, <2>1, <2>2, CallKept
<1>7. CASE DeleteDescend
  <2> DEFINE o == ObjOf(obj[Child].name)
  <2>1. \/ mode' = "crashed"
        \/ stack' = <<Frame(o)>> \o NextChild
    BY <1>7 DEF DeleteDescend
  <2>2. o \in live /\ o \in Objs
    BY <1>7, ObjOfIs, GraphTypes DEF DeleteDescend
  <2> HIDE DEF o
  <2>3. CASE mode' = "crashed"
    BY <1>2, <2>3 DEF CallInv, InCall
  <2>4. CASE stack' = <<Frame(o)>> \o NextChild
    <3> DEFINE f == Frame(o)
               mid == NextChild
               new == <<f>> \o mid
    <3>1. f \in Frames(Objs) /\ f.obj = o
      BY <2>2, FrameType
    <3> HIDE DEF f
    <3>2. /\ new \in Seq(Frames(Objs)) /\ new # <<>> /\ Len(new) = Len(stack) + 1
          /\ new[1] = f /\ \A i \in 2 .. Len(stack) + 1 : new[i] = mid[i - 1]
      <4> HIDE DEF mid
      <4>1. mid \in Seq(Frames(Objs)) /\ Len(mid) = Len(stack)
        BY <1>4 DEF mid
      <4> QED
        BY <1>4, <3>1, <4>1
    <3>3. ASSUME NEW i \in 1 .. Len(new)
          PROVE  \/ new[i].obj \in live
                 \/ \E j \in 1 .. Len(stack) : new[i].obj = stack[j].obj
      <4>1. i = 1 \/ (i \in 2 .. Len(stack) + 1 /\ i - 1 \in 1 .. Len(stack))
        BY <1>4, <3>2
      <4>2. CASE i = 1
        BY <2>2, <3>1, <3>2, <4>2
      <4>3. CASE i \in 2 .. Len(stack) + 1 /\ i - 1 \in 1 .. Len(stack)
        BY <1>4, <3>2, <4>3
      <4> QED
        BY <4>1, <4>2, <4>3
    <3>4. stack' = new
      BY <2>4 DEF f
    <3> HIDE DEF new
    <3> QED
      BY <1>1, <1>2, <3>2, <3>3, <3>4, CallKept
  <2> QED
    BY <2>1, <2>3, <2>4
<1> QED
  BY <1>5, <1>6, <1>7

\* A call that ends collects what nobody holds.
LEMMA EndStep ==
  ASSUME NEW ob, Sound(ob, live', start, current), CallEnds,
         obj' = Collected(live', start, current, ob), UNCHANGED <<start, current>>
  PROVE  GraphInv' /\ CallInv'
<1>1. GraphInv'
  BY SoundCollected DEF GraphInv
<1>2. CallInv'
  BY DEF CallInv, InCall, CallEnds
<1> QED
  BY <1>1, <1>2

LEMMA DeleteEraseStep ==
  ASSUME GraphInv, CallInv, DeleteErase
  PROVE  GraphInv' /\ CallInv'
<1> DEFINE o == Top.obj
           ob == WithoutReferences(obj[o].name)
<1>1. /\ mode = "delete" /\ InCall /\ stack \in Seq(Frames(Objs)) /\ stack # <<>>
      /\ \A i \in 1 .. Len(stack) : Genuine(stack[i].obj)
  BY DEF CallInv, InCall, DeleteErase
<1>2. /\ o \in Objs /\ Genuine(o) /\ Len(stack) \in Nat /\ Len(stack) >= 1
  <2>1. o \in Objs /\ Top = stack[1] /\ Len(stack) \in Nat /\ Len(stack) >= 1
    BY <1>1, StackIs
  <2> QED
    BY <1>1, <2>1
<1>3. Sound(ob, live \ {o}, start, current)
  BY <1>2, SoundWithoutReferences
<1>4. /\ live' = live \ {o} /\ start' = start /\ current' = current
      /\ \/ Len(stack) = 1 /\ obj' = Collected(live', start, current, ob) /\ CallEnds
         \/ Len(stack) # 1 /\ obj' = ob /\ stack' = Tail(stack) /\ mode' = mode
  BY DEF DeleteErase, exec
<1>5. CASE Len(stack) = 1
  BY <1>3, <1>4, <1>5, EndStep
<1>6. CASE Len(stack) # 1
  <2>1. obj' = ob /\ stack' = Tail(stack) /\ mode' = mode
    BY <1>4, <1>6
  <2>2. GraphInv'
    BY <1>3, <1>4, <2>1 DEF GraphInv
  <2>3. /\ stack' \in Seq(Frames(Objs)) /\ stack' # <<>>
        /\ \A i \in 1 .. Len(stack') : \E j \in 1 .. Len(stack) : stack'[i].obj = stack[j].obj
    BY <1>1, <1>6, <2>1, TailWithin
  <2>4. \A q \in Objs : ob[q].name = obj[q].name
    <3>1. obj \in [Objs -> ObjType] /\ live \subseteq Objs
      BY GraphTypes
    <3> DEFINE n == obj[o].name
    <3>2. \A p \in Objs : WithoutReferences(n)[p].name = obj[p].name
      <4> HIDE DEF n
      <4> QED
        BY <3>1, WithoutReferencesIs
    <3> QED
      BY <3>2
  <2> HIDE DEF ob
  <2>5. live' \subseteq live /\ \A q \in Objs : obj'[q].name = obj[q].name
    BY <1>4, <2>1, <2>4
  <2>6. CallInv'
    BY <1>1, <2>1, <2>3, <2>5, CallKept
  <2> QED
    BY <2>2, <2>6
<1> QED
  BY <1>5, <1>6

LEMMA PruneEraseStep ==
  ASSUME GraphInv, CallInv, PruneErase
  PROVE  GraphInv' /\ CallInv'
<1> DEFINE o == Top.obj
           n == obj[Child].name
           ob == Pruned(o, n)
<1>1. /\ mode = "prune" /\ InCall /\ stack \in Seq(Frames(Objs)) /\ stack # <<>>
  BY DEF CallInv, InCall, PruneErase
<1>2. /\ obj' = ob /\ live' = live \ Named(n) /\ start' = start /\ current' = current
      /\ stack' = NextChild /\ Top.todo # <<>> /\ mode' = mode
  BY DEF PruneErase, exec
<1>3. o \in Objs
  BY <1>1, StackIs
<1> HIDE DEF n, o
<1>4. Sound(ob, live \ Named(n), start, current)
  BY <1>3, SoundPruned
<1>5. GraphInv'
  BY <1>2, <1>4 DEF GraphInv
<1>6. stack' \in Seq(Frames(Objs)) /\ stack' # <<>>
  <2>1. NextChild \in Seq(Frames(Objs)) /\ Len(NextChild) = Len(stack) /\ Len(stack) \in Nat \ {0}
    BY <1>1, <1>2, NextChildTop
  <2> QED
    BY <1>2, <2>1
<1>7. \A q \in Objs : ob[q].name = obj[q].name
  BY <1>3, GraphTypes, PrunedIs
<1> HIDE DEF ob
<1>8. CallInv'
  BY <1>1, <1>2, <1>6, <1>7, CallKept
<1> QED
  BY <1>5, <1>8

LEMMA PruneReturnStep ==
  ASSUME GraphInv, CallInv, PruneReturn
  PROVE  GraphInv' /\ CallInv'
<1>1. /\ mode = "prune" /\ InCall /\ stack \in Seq(Frames(Objs)) /\ stack # <<>>
  BY DEF CallInv, InCall, PruneReturn
<1>2. UNCHANGED <<live, start, current>>
  BY DEF PruneReturn, exec
<1>3. CASE Len(stack) = 1
  BY <1>2, <1>3, EndStep DEF PruneReturn, GraphInv
<1>4. CASE Len(stack) # 1
  <2>1. stack' = Tail(stack) /\ obj' = obj /\ mode' = mode
    BY <1>4 DEF PruneReturn
  <2>2. GraphInv'
    BY <1>2, <2>1 DEF GraphInv
  <2>3. stack' \in Seq(Frames(Objs)) /\ stack' # <<>>
    BY <1>1, <1>4, <2>1, TailIs
  <2> QED
    BY <1>1, <1>2, <2>1, <2>2, <2>3, CallKept
<1> QED
  BY <1>3, <1>4

LEMMA DeleteThrowsStep ==
  ASSUME GraphInv, DeleteThrows
  PROVE  GraphInv' /\ CallInv'
<1>1. /\ obj' = Collected(live', start, current, obj) /\ CallEnds
      /\ UNCHANGED <<live, start, current>>
  BY DEF DeleteThrows, exec
<1> QED
  BY <1>1, EndStep DEF GraphInv

\* What the calls do not touch.
LEMMA RecursionData ==
  ASSUME DataInv, Recursion
  PROVE  DataInv'
<1>1. UNCHANGED <<machine, input, output, word, expected>>
      /\ mode' \in {mode, "idle", "crashed"}
  BY DEF Recursion, DeleteSkip, DeleteThrows, DeleteDescend, DeleteErase, PruneSkip,
         PruneDescend, PruneErase, PruneReturn, CallEnds, exec
<1> QED
  BY <1>1 DEF DataInv

----------------------------------------------------------------------------
\* The first part of the invariant holds in every state.

Base == GraphInv /\ DataInv /\ CallInv

LEMMA InitBase == Init => Base
<1> SUFFICES ASSUME Init PROVE Base
  OBVIOUS
<1>1. obj \in [Objs -> ObjType]
  BY FreeType DEF Init
<1>2. GraphInv
  BY <1>1 DEF Init, GraphInv, Sound, UniqueNames, Backed
<1> QED
  BY <1>2 DEF Init, Base, DataInv, CallInv, InCall, MachineStates

LEMMA EditStep ==
  ASSUME Base, Edit
  PROVE  Base'
<1>1. ASSUME Edited, mode = "idle" PROVE DataInv' /\ CallInv'
  BY <1>1 DEF Edited, Base, DataInv, CallInv, InCall
<1>2. ASSUME NEW n \in Names, NEW f \in BOOLEAN, AddState(n, f) PROVE Base'
  BY <1>1, <1>2, AddStateStep DEF AddState, Base, Idle
<1>3. ASSUME NEW o \in live, RemoveState(o) PROVE Base'
  <2>1. /\ stack' = <<Frame(o)>> /\ mode' = "delete" /\ word' = <<>>
        /\ UNCHANGED <<obj, live, start, current, machine, input, output, expected>>
    BY <1>3 DEF RemoveState, graph
  <2>2. CallInv'
    BY <2>1, CallBegins, GraphTypes DEF Base
  <2> QED
    BY <2>1, <2>2 DEF Base, GraphInv, DataInv
<1>4. ASSUME NEW o \in live, SetStartState(o) PROVE Base'
  BY <1>1, <1>4, SetStartStateStep DEF SetStartState, Base, Idle
<1>5. ASSUME NEW p \in live, NEW q \in live, NEW c \in Inputs,
             \/ AddTransition(p, q, c) \/ RemoveTransition(p, q, c)
             \/ \E d \in Inputs : UpdateTransition(p, q, c, d)
      PROVE  Base'
  <2>1. Edited /\ mode = "idle"
    BY <1>5 DEF AddTransition, RemoveTransition, UpdateTransition, Idle
  <2> QED
    BY <1>1, <1>5, <2>1, TransitionStep DEF Base
<1>6. ASSUME Prune PROVE Base'
  <2>1. /\ stack' = <<Frame(start)>> /\ mode' = "prune" /\ word' = <<>> /\ start # NoState
        /\ UNCHANGED <<obj, live, start, current, machine, input, output, expected>>
    BY <1>6 DEF Prune, graph
  <2>2. start \in Objs
    BY <2>1, GraphTypes DEF Base
  <2>3. CallInv'
    BY <2>1, <2>2, CallBegins DEF Base
  <2> QED
    BY <2>1, <2>3 DEF Base, GraphInv, DataInv
<1> QED
  BY <1>2, <1>3, <1>4, <1>5, <1>6 DEF Edit

LEMMA RecursionStep ==
  ASSUME Base, Recursion
  PROVE  Base'
<1>1. GraphInv' /\ CallInv'
  BY SkipStep, DeleteThrowsStep, DeleteEraseStep, PruneEraseStep, PruneReturnStep
     DEF Base, Recursion
<1> QED
  BY <1>1, RecursionData DEF Base

LEMMA ExecuteStep ==
  ASSUME Base, Execute
  PROVE  Base'
<1>1. mode' \in {"idle", "run"}
  BY DEF Execute, SetInput, AddExpectedInput, RemoveExpectedInput, SetMachineState, Reset, Run,
         RunLoop, RunEnds, DebugStep, Idle
<1>2. CallInv'
  BY <1>1 DEF CallInv, InCall
<1>3. ASSUME NEW n \in 0 .. MaxInput, NEW w \in [1 .. n -> Inputs], SetInput(w)
      PROVE  GraphInv' /\ DataInv'
  <2>1. w \in Seq(Inputs) /\ <<>> \in Seq(Inputs)
    BY FsmAssumption
  <2> QED
    BY <1>3, <2>1 DEF Base, SetInput, GraphInv, DataInv, graph
<1>4. ASSUME NEW c \in Inputs, AddExpectedInput(c) \/ RemoveExpectedInput(c)
      PROVE  GraphInv' /\ DataInv'
  BY <1>4 DEF Base, AddExpectedInput, RemoveExpectedInput, GraphInv, DataInv, graph, exec
<1>5. ASSUME NEW m \in Settable, SetMachineState(m)
      PROVE  GraphInv' /\ DataInv'
  BY <1>5, FsmAssumption DEF Base, SetMachineState, GraphInv, DataInv, graph
<1>6. ASSUME RunEnds PROVE GraphInv' /\ DataInv'
  BY <1>6 DEF Base, RunEnds, GraphInv, DataInv, graph, MachineStates
<1>7. GraphInv' /\ DataInv'
  BY <1>3, <1>4, <1>5, <1>6, ResetStep, RunStep, RunLoopStep, DebugStepStep DEF Base, Execute
<1> QED
  BY <1>2, <1>7 DEF Base

LEMMA NextBase == Base /\ [Next]_vars => Base'
<1> SUFFICES ASSUME Base, [Next]_vars PROVE Base'
  OBVIOUS
<1>1. CASE SaveAndLoad
  <2>1. GraphInv'
    BY <1>1, SaveAndLoadStep DEF Base
  <2>2. machine' \in MachineStates /\ expected' \subseteq Inputs
        /\ input' = <<>> /\ word' = <<>> /\ output' = <<>> /\ mode' = "idle"
    BY <1>1 DEF SaveAndLoad, Base, DataInv, Idle, MachineStates
  <2> QED
    BY <2>1, <2>2 DEF Base, DataInv, CallInv, InCall
<1>2. CASE UNCHANGED vars
  <2>1. UNCHANGED <<obj, live, start, current, machine, input, output, word, expected, mode, stack>>
    BY <1>2 DEF vars, graph, exec, calls
  <2> QED
    BY <2>1 DEF Base, GraphInv, DataInv, CallInv, InCall, Genuine, GenuineIn
<1> QED
  BY <1>1, <1>2, EditStep, RecursionStep, ExecuteStep DEF Next

THEOREM BaseAlways == Spec => []Base
<1>1. Init => Base
  BY InitBase
<1>2. Base /\ [Next]_vars => Base'
  BY NextBase
<1> QED
  BY <1>1, <1>2, PTL DEF Spec

----------------------------------------------------------------------------
\* What follows from the first part.

(* In every state the objects are well formed, and the states in the map, the start state and *)
(* the current state are objects that exist (fsm.hpp).                                         *)
THEOREM TypeCorrect == Spec => []TypeOK
<1>1. Base => TypeOK
  BY TypesAre DEF Base
<1> QED
  BY <1>1, BaseAlways, PTL

\* In the objects new with the map lw, no state lists what the map does not
\* have, but for what it listed before, in ob and lv, and was not in the map.
NoStray(ob, lv, new, lw) ==
    \A o \in lw : \A q \in ToSet(new[o].next) :
        q \in lw \/ (o \in lv /\ q \in ToSet(ob[o].next) /\ q \notin lv)

LEMMA StrayIs ==
  ASSUME NoStray(obj, live, obj', live')
  PROVE  Stray' \subseteq Stray
  BY DEF NoStray, Stray, Successors

LEMMA StrayCollected ==
  ASSUME NEW ob, NEW lv, NEW new, NEW lw, NEW s, NEW c, Sound(new, lw, s, c),
         NoStray(ob, lv, new, lw)
  PROVE  NoStray(ob, lv, Collected(lw, s, c, new), lw)
<1> DEFINE col == Collected(lw, s, c, new)
<1>1. /\ new \in [Objs -> ObjType] /\ lw \in SUBSET Objs
      /\ s \in Objs \cup {NoState} /\ c \in Objs \cup {NoState}
  BY DEF Sound
<1>2. PICK H \in SUBSET Objs : lw \cup ({s, c} \ {NoState}) \subseteq H /\ KeptIn(H, new, col)
  BY <1>1, CollectedIs
<1> HIDE DEF col
<1>3. \A o \in lw : col[o].next = new[o].next
  BY <1>2 DEF KeptIn
<1>4. NoStray(ob, lv, col, lw)
  BY <1>3 DEF NoStray
<1> QED
  BY <1>4 DEF col

\* Nothing but the pointers changes, and what nobody holds goes.
LEMMA StrayPointers ==
  ASSUME GraphInv, GraphInv', UNCHANGED live,
         obj' = obj \/ obj' = Collected(live, start', current', obj)
  PROVE  Stray' \subseteq Stray
<1>1. NoStray(obj, live, obj, live)
  BY DEF NoStray
<1>2. CASE obj' = obj
  BY <1>1, <1>2, StrayIs
<1>3. CASE obj' = Collected(live, start', current', obj)
  <2>1. /\ obj \in [Objs -> ObjType] /\ live \in SUBSET Objs
        /\ start' \in Objs \cup {NoState} /\ current' \in Objs \cup {NoState}
    BY GraphTypes DEF GraphInv, Sound
  <2>2. PICK H \in SUBSET Objs : live \subseteq H /\ KeptIn(H, obj, obj')
    BY <1>3, <2>1, CollectedIs
  <2>3. NoStray(obj, live, obj', live')
    BY <2>2 DEF NoStray, KeptIn
  <2> QED
    BY <2>3, StrayIs
<1> QED
  BY <1>2, <1>3

LEMMA StrayEdit ==
  ASSUME Base, Base', Edit
  PROVE  Stray' \subseteq Stray
<1>1. obj \in [Objs -> ObjType] /\ live \subseteq Objs
  BY GraphTypes DEF Base
<1>2. ASSUME NEW n \in Names, NEW f \in BOOLEAN, AddState(n, f) PROVE Stray' \subseteq Stray
  <2>1. PICK o \in Objs : /\ obj' = [obj EXCEPT ![o] = State({n}, f)]
                          /\ live' = live \cup {o}
    BY <1>2 DEF AddState
  <2>2. ToSet(State({n}, f).next) = {}
    BY DEF State, ToSet
  <2>3. NoStray(obj, live, obj', live')
    BY <1>1, <2>1, <2>2 DEF NoStray
  <2> QED
    BY <2>3, StrayIs
<1>3. ASSUME NEW o \in live, SetStartState(o) PROVE Stray' \subseteq Stray
  <2>1. live' = live /\ obj' = Collected(live, start', current', obj)
    BY <1>3 DEF SetStartState, Edited
  <2> QED
    BY <2>1, StrayPointers DEF Base
<1>4. ASSUME (\E o \in live : RemoveState(o)) \/ Prune PROVE Stray' \subseteq Stray
  <2>1. UNCHANGED <<obj, live>>
    BY <1>4 DEF RemoveState, Prune, graph
  <2> QED
    BY <2>1, StrayPointers DEF Base
<1>5. ASSUME NEW p \in live, NEW q \in live, NEW c \in Inputs,
             \/ AddTransition(p, q, c) \/ RemoveTransition(p, q, c)
             \/ \E d \in Inputs : UpdateTransition(p, q, c, d)
      PROVE  Stray' \subseteq Stray
  <2> DEFINE ob == WithoutTransition(obj, p, q, c)
  <2>1. p \in Objs /\ q \in Objs
    BY <1>1
  <2>2. ob \in [Objs -> ObjType] /\ Unlinked(ob, obj, p, q, c)
    BY <1>1, <2>1, WithoutTransitionIs
  <2> HIDE DEF ob
  <2>3. ASSUME NEW new, new = obj \/ new = ob
        PROVE  /\ NoStray(obj, live, new, live)
               /\ \A d \in Inputs : NoStray(obj, live, WithTransition(new, p, q, d), live)
    <3>1. new \in [Objs -> ObjType] /\ \A o \in live : ToSet(new[o].next) \subseteq ToSet(obj[o].next)
      BY <1>1, <2>2, <2>3 DEF Unlinked
    <3>2. ASSUME NEW d \in Inputs PROVE NoStray(obj, live, WithTransition(new, p, q, d), live)
      <4> DEFINE ext == WithTransition(new, p, q, d)
      <4>1. Linked(ext, new, p, q, d)
        BY <2>1, <3>1, WithTransitionIs
      <4> HIDE DEF ext
      <4>2. ASSUME NEW o \in live, NEW r \in ToSet(ext[o].next)
            PROVE  r \in live \/ r \in ToSet(new[o].next)
        <5>1. o \in Objs /\ new[o].next \in Seq(Objs)
          BY <1>1, <3>1, FieldsIs
        <5>2. CASE o = p
          <6>1. ToSet(Append(new[o].next, q)) = ToSet(new[o].next) \cup {q}
            BY <2>1, <5>1, ToSetAppend
          <6> QED
            BY <4>1, <4>2, <5>1, <5>2, <6>1 DEF Linked
        <5>3. CASE o # p
          BY <4>1, <4>2, <5>1, <5>3 DEF Linked
        <5> QED
          BY <5>2, <5>3
      <4>3. NoStray(obj, live, ext, live)
        BY <3>1, <4>2 DEF NoStray
      <4> QED
        BY <4>3 DEF ext
    <3>3. NoStray(obj, live, new, live)
      BY <3>1 DEF NoStray
    <3> QED
      BY <3>2, <3>3
  <2>4. live' = live
    BY <1>5 DEF AddTransition, RemoveTransition, UpdateTransition
  <2>5. \/ obj' = ob
        \/ \E new \in {obj, ob}, d \in Inputs : obj' = WithTransition(new, p, q, d)
    BY <1>5 DEF AddTransition, RemoveTransition, UpdateTransition, ob
  <2>6. NoStray(obj, live, obj', live')
    BY <2>3, <2>4, <2>5
  <2> QED
    BY <2>6, StrayIs
<1> QED
  BY <1>2, <1>3, <1>4, <1>5 DEF Edit

\* Erasing a child of a removed state may be forgotten by its namesake.
LEMMA StrayPruned ==
  ASSUME Base, PruneErase
  PROVE  Stray' \subseteq Stray \cup Forgotten
<1> DEFINE p == Top.obj
           n == obj[Child].name
<1>1. /\ mode = "prune" /\ Top.todo # <<>> /\ ~ ReferencedElsewhere(n, p)
      /\ obj' = Pruned(p, n) /\ live' = live \ Named(n)
  BY DEF PruneErase
<1>2. p \in Objs
  BY <1>1, StackIs DEF Base, CallInv, InCall
<1>3. obj \in [Objs -> ObjType] /\ live \subseteq Objs
  BY GraphTypes DEF Base
<1>4. \A o \in Objs : Successors(o)' =
          IF o = p THEN {q \in Successors(o) : obj[q].name # n} ELSE Successors(o)
  <2> HIDE DEF n, p
  <2>1. \A o \in Objs : ToSet(Pruned(p, n)[o].next) =
           IF o = p THEN {q \in Successors(o) : obj[q].name # n} ELSE Successors(o)
    BY <1>2, <1>3, PrunedIs
  <2>2. \A o \in Objs : Successors(o)' = ToSet(Pruned(p, n)[o].next)
    BY <1>1 DEF Successors
  <2> QED
    BY <2>1, <2>2
<1> SUFFICES ASSUME NEW o \in live', NEW q \in Objs, q \in Successors(o)' \ live',
                    q \in live
             PROVE  <<o, q>> \in Forgotten
  BY <1>1, <1>3, <1>4 DEF Stray
<1>5. obj[q].name = n /\ o \in live /\ q \in Successors(o) /\ o # p
  BY <1>1, <1>3, <1>4 DEF Named
<1>6. obj[o].name = obj[p].name
  BY <1>1, <1>5 DEF ReferencedElsewhere
<1>7. p \notin live
  BY <1>5, <1>6 DEF Base, GraphInv, Sound, UniqueNames
<1> QED
  BY <1>1, <1>5, <1>6, <1>7 DEF Forgotten

LEMMA StrayErased ==
  ASSUME Base, DeleteErase
  PROVE  Stray' \subseteq Stray
<1> DEFINE o == Top.obj
           n == obj[o].name
           ob == WithoutReferences(n)
           lv == live \ {o}
<1>1. /\ mode = "delete" /\ live' = lv /\ UNCHANGED <<start, current>>
      /\ obj' = ob \/ obj' = Collected(live', start, current, ob)
  BY DEF DeleteErase, exec
<1>2. o \in Objs /\ Genuine(o)
  <2>1. stack \in Seq(Frames(Objs)) /\ stack # <<>>
    BY <1>1 DEF Base, CallInv, InCall
  <2>2. Top = stack[1] /\ Len(stack) \in Nat /\ Len(stack) >= 1 /\ o \in Objs
    BY <2>1, StackIs
  <2> QED
    BY <1>1, <2>2 DEF Base, CallInv, InCall
<1>3. Sound(ob, lv, start, current)
  BY <1>2, SoundWithoutReferences DEF Base
<1>4. \A p \in live : ToSet(ob[p].next) = {q \in Successors(p) : obj[q].name # n}
  <2> HIDE DEF n
  <2> QED
    BY GraphTypes, WithoutReferencesIs DEF Base
<1> HIDE DEF ob
<1>5. NoStray(obj, live, ob, lv)
  BY <1>4 DEF NoStray, Successors
<1>6. NoStray(obj, live, Collected(lv, start, current, ob), lv)
  BY <1>3, <1>5, StrayCollected
<1>7. NoStray(obj, live, obj', live')
  BY <1>1, <1>5, <1>6
<1> QED
  BY <1>7, StrayIs

LEMMA StrayLoaded ==
  ASSUME Base, SaveAndLoad
  PROVE  Stray' \subseteq Stray
<1>1. CASE input # <<>>
  BY <1>1 DEF SaveAndLoad, Stray
<1>2. CASE input = <<>>
  <2>1. PICK order \in SetToSeqs(live) : obj' = Loaded(order)
    BY <1>2 DEF SaveAndLoad
  <2>2. live' = live
    BY <1>2 DEF SaveAndLoad
  <2>3. \A o \in live : ToSet(obj'[o].next) = ReadNext(o)
    BY <2>1, LoadedIs DEF Base
  <2>4. NoStray(obj, live, obj', live')
    BY <2>2, <2>3 DEF NoStray, ReadNext
  <2> QED
    BY <2>4, StrayIs
<1> QED
  BY <1>1, <1>2

(* However states and transitions are added, removed, pruned and loaded, whatever a state of  *)
(* the map lists has a dependency on it; and no call leaves a state of the map listing what   *)
(* the map does not have, but for pruning that goes on from a state removed before: then only *)
(* the state that has its name by now (fsm.cpp:149-210, 1220-1316).                            *)
THEOREM NextBackedAlways == Spec => NextBacked
<1>1. Base => \A o \in live : \A q \in Successors(o) : \E c \in Inputs : <<o, c>> \in obj[q].deps
  BY DEF Base, GraphInv, Sound, Backed, Successors
<1>2. Base /\ Base' /\ [Next]_vars => [Stray' \subseteq Stray \cup Forgotten]_vars
  <2> SUFFICES ASSUME Base, Base', Next PROVE Stray' \subseteq Stray \cup Forgotten
    OBVIOUS
  <2>1. CASE Recursion
    <3>1. CASE DeleteSkip \/ DeleteDescend \/ PruneSkip \/ PruneDescend
      <4>1. UNCHANGED <<obj, live>>
        BY <3>1 DEF DeleteSkip, DeleteDescend, PruneSkip, PruneDescend, graph
      <4> QED
        BY <4>1, StrayPointers DEF Base
    <3>2. CASE DeleteThrows \/ PruneReturn
      <4>1. /\ UNCHANGED <<live, start, current>>
            /\ obj' = obj \/ obj' = Collected(live, start, current, obj)
        BY <3>2 DEF DeleteThrows, PruneReturn, exec
      <4> QED
        BY <4>1, StrayPointers DEF Base
    <3> QED
      BY <2>1, <3>1, <3>2, StrayErased, StrayPruned DEF Recursion
  <2>2. CASE Execute
    <3>1. /\ UNCHANGED <<live, start>>
          /\ obj' = obj \/ obj' = Collected(live, start, current', obj)
      BY <2>2 DEF Execute, SetInput, AddExpectedInput, RemoveExpectedInput, SetMachineState,
            Reset, Run, RunLoop, RunEnds, DebugStep, Transition, Becomes, graph
    <3> QED
      BY <3>1, StrayPointers DEF Base
  <2> QED
    BY <2>1, <2>2, StrayEdit, StrayLoaded DEF Next
<1> QED
  BY <1>1, <1>2, BaseAlways, PTL DEF Spec, NextBacked

(* What is read back from a file can take every step that was written to it, in whatever      *)
(* order the file has them (fsm.cpp:780-1087).                                                 *)
THEOREM LoadKeepsStepsAlways == Spec => []LoadKeepsSteps
<1>1. ASSUME GraphInv, NEW order \in SetToSeqs(live), NEW p \in live, NEW q \in live,
             NEW c \in Inputs, q \in Takeable(p, c)
      PROVE  q \in ToSet(Loaded(order)[p].next) /\ <<p, c>> \in Loaded(order)[q].deps
  <2> DEFINE t == <<p, q, c>>
  <2>1. live \subseteq Objs /\ <<p, c>> \in obj[q].deps
    BY <1>1, GraphTypes DEF Takeable
  <2>2. t \in Read /\ t[1] = p /\ t[2] = q /\ t[3] = c
    BY <2>1 DEF Read, Saved, Drawn, InMap, Named
  <2> HIDE DEF t
  <2>3. q \in ReadNext(p)
    BY <2>2 DEF ReadNext
  <2>4. <<p, c>> \in ReadDeps(q)
    BY <1>1, <2>2, ObjOfOwnName DEF ReadDeps
  <2> QED
    BY <1>1, <2>3, <2>4, LoadedIs
<1>2. Base => LoadKeepsSteps
  BY <1>1 DEF Base, LoadKeepsSteps
<1> QED
  BY <1>2, BaseAlways, PTL

\* The search never leaves a closed set that has the start state.
LEMMA VisitedIn ==
  ASSUME GraphInv, NEW S \in SUBSET Objs, start \in S, \A o \in S : Successors(o) \subseteq S
  PROVE  Visited \subseteq {obj[o].name : o \in S}
<1> DEFINE Nm == {obj[o].name : o \in S}
           D == [todo : Seq(S), names : SUBSET Nm]
           first == [todo |-> <<start>>, names |-> {}]
           g == [d \in D |-> VisitNext(d)]
           K == MaxObjs + MaxTransitions + 1
           Dfs(f) == f = [n \in 0 .. K |-> IF n = 0 THEN first ELSE VisitNext(f[n - 1])]
           dfs == CHOOSE f : Dfs(f)
<1>1. first \in D /\ K \in Nat
  BY FsmAssumption
<1>2. ASSUME NEW d \in D PROVE VisitNext(d) \in D
  <2> DEFINE todo == d.todo
             o == Head(todo)
  <2>1. todo \in Seq(S) /\ d.names \in SUBSET Nm
    OBVIOUS
  <2> HIDE DEF todo, Nm
  <2>2. CASE todo = <<>>
    BY <2>2 DEF VisitNext, todo
  <2>3. CASE todo # <<>>
    <3>1. o \in S /\ Tail(todo) \in Seq(S)
      BY <2>1, <2>3
    <3>2. obj[o].next \in Seq(S) /\ obj[o].name \in Nm
      BY <3>1, GraphTypes, SeqOfMembers DEF Successors, Nm
    <3> HIDE DEF o
    <3>3. obj[o].next \o Tail(todo) \in Seq(S)
      BY <3>1, <3>2
    <3>4. [todo |-> obj[o].next \o Tail(todo), names |-> d.names \cup {obj[o].name}] \in D
      BY <2>1, <3>2, <3>3
    <3>5. [d EXCEPT !.todo = Tail(todo)] \in D
      BY <3>1
    <3> QED
      BY <2>3, <3>4, <3>5 DEF VisitNext, todo, o
  <2> QED
    BY <2>2, <2>3
<1>3. g \in [D -> D]
  BY <1>2
<1>4. PICK f \in [0 .. K -> D] : Iterates(f, g, first, K)
  <2> HIDE DEF g, D, first, K
  <2> QED
    BY <1>1, <1>3, IteratesExist
<1>5. Dfs(f)
  <2>1. ASSUME NEW n \in 0 .. K PROVE f[n] = IF n = 0 THEN first ELSE VisitNext(f[n - 1])
    <3>1. CASE n = 0
      BY <1>4, <3>1 DEF Iterates
    <3>2. CASE n # 0
      <4> HIDE DEF D, first, K
      <4>1. n \in 1 .. K /\ n - 1 \in 0 .. K
        BY <1>1, <3>2
      <4>2. f[n] = g[f[n - 1]] /\ f[n - 1] \in D
        BY <1>4, <4>1 DEF Iterates
      <4> QED
        BY <3>2, <4>2
    <3> QED
      BY <3>1, <3>2
  <2> HIDE DEF D, first, K
  <2> QED
    BY <1>4, <2>1
<1>6. Dfs(dfs)
  <2> HIDE DEF Dfs
  <2> QED
    BY <1>5
<1>7. Visited = dfs[K].names
  BY DEF Visited
<1> HIDE DEF dfs, D, first, K
<1>8. dfs[0] \in D
  BY <1>1, <1>6
<1>9. ASSUME NEW n \in 1 .. K, dfs[n - 1] \in D PROVE dfs[n] \in D
  <2>1. dfs[n] = VisitNext(dfs[n - 1])
    BY <1>1, <1>6, <1>9
  <2> QED
    BY <1>2, <1>9, <2>1
<1>10. dfs[K] \in D
  <2>1. \A n \in 0 .. K : dfs[n] \in D
    BY <1>1, <1>8, <1>9, IteratesIn
  <2> QED
    BY <1>1, <2>1
<1>11. dfs[K].names \in SUBSET Nm
  BY <1>10 DEF D
<1> QED
  BY <1>7, <1>11

\* Two destinations of one character would be listed at two places.
LEMMA DeterminedIs ==
  ASSUME GraphInv, NEW o \in live, Deterministic(o), NEW c \in Inputs
  PROVE  Cardinality(Takeable(o, c)) <= 1
<1> DEFINE s == obj[o].next
<1>1. s \in Seq(Objs)
  BY GraphTypes
<1>2. ASSUME NEW p \in Takeable(o, c), NEW q \in Takeable(o, c) PROVE p = q
  <2>1. PICK i \in DOMAIN s : s[i] = p
    BY DEF Takeable, Successors, ToSet
  <2>2. PICK j \in DOMAIN s : s[j] = q
    BY DEF Takeable, Successors, ToSet
  <2>3. <<o, c>> \in obj[s[i]].deps /\ <<o, c>> \in obj[s[j]].deps
    BY <2>1, <2>2 DEF Takeable
  <2>4. i = j
    BY <2>1, <2>2, <2>3 DEF Deterministic
  <2> QED
    BY <2>1, <2>2, <2>4
<1>3. CASE Takeable(o, c) = {}
  BY <1>3, FS_EmptySet
<1>4. CASE Takeable(o, c) # {}
  <2>1. PICK q \in Takeable(o, c) : TRUE
    BY <1>4
  <2>2. Takeable(o, c) = {q}
    BY <1>2, <2>1
  <2>3. Cardinality({q}) = 1
    BY FS_Singleton
  <2> QED
    BY <2>2, <2>3
<1> QED
  BY <1>3, <1>4

(* What validateFSM lets pass has determined steps, can leave every state that is not final   *)
(* and can reach each of its states by steps, unless the start state was removed or a state   *)
(* lists what the map does not have (fsm.cpp:1102-1188).                                       *)
THEOREM ValidIsSoundAlways == Spec => []ValidIsSound
<1>1. ASSUME GraphInv, start \in live, Stray = {}, Valid
      PROVE  /\ \A o \in live, c \in Inputs : Cardinality(Takeable(o, c)) <= 1
             /\ \A o \in live : obj[o].final \/ \E c \in Inputs : Takeable(o, c) # {}
             /\ \A S \in SUBSET live :
                   start \in S /\ (\A o \in S, c \in Inputs : Takeable(o, c) \subseteq S)
                     => S = live
  <2>1. \A o \in live, c \in Inputs : Cardinality(Takeable(o, c)) <= 1
    BY <1>1, DeterminedIs DEF Valid
  <2>2. ASSUME NEW o \in live, ~ obj[o].final
        PROVE  \E c \in Inputs : Takeable(o, c) # {}
    <3> DEFINE s == obj[o].next
    <3>1. s \in Seq(Objs) /\ s # <<>>
      BY <1>1, <2>2, GraphTypes DEF Valid
    <3> HIDE DEF s
    <3>2. 1 \in DOMAIN s
      BY <3>1
    <3>3. s[1] \in Successors(o)
      BY <3>2 DEF s, Successors, ToSet
    <3>4. PICK c \in Inputs : <<o, c>> \in obj[s[1]].deps
      BY <1>1, <3>3 DEF GraphInv, Sound, Backed, Successors
    <3> QED
      BY <3>3, <3>4 DEF Takeable
  <2>3. ASSUME NEW S \in SUBSET live, start \in S,
               \A o \in S, c \in Inputs : Takeable(o, c) \subseteq S
        PROVE  S = live
    <3>1. ASSUME NEW o \in S, NEW q \in Successors(o) PROVE q \in S
      <4>1. PICK c \in Inputs : <<o, c>> \in obj[q].deps
        BY <1>1, <2>3, <3>1 DEF GraphInv, Sound, Backed, Successors
      <4> QED
        BY <2>3, <4>1 DEF Takeable
    <3>2. S \in SUBSET Objs
      BY <1>1, GraphTypes
    <3>3. Visited \subseteq {obj[o].name : o \in S}
      BY <1>1, <2>3, <3>1, <3>2, VisitedIn
    <3>4. ASSUME NEW o \in live PROVE o \in S
      <4>1. PICK p \in S : obj[p].name = obj[o].name
        BY <1>1, <3>3 DEF Valid
      <4> QED
        BY <1>1, <4>1 DEF GraphInv, Sound, UniqueNames
    <3> QED
      BY <3>4
  <2> QED
    BY <2>1, <2>2, <2>3
<1>2. Base => ValidIsSound
  BY <1>1 DEF Base, ValidIsSound
<1> QED
  BY <1>2, BaseAlways, PTL

----------------------------------------------------------------------------
\* The output of a run.

\* What is left of the input w when n - 1 of its characters are consumed.
LEMMA RestOfInput ==
  ASSUME NEW w \in Seq(Inputs), NEW n \in Nat \ {0}, NEW in,
         in = SubSeq(w, n, Len(w)), Len(in) = 1 + Len(w) - n, in # <<>>
  PROVE  /\ Head(in) = w[n] /\ Tail(in) = SubSeq(w, n + 1, Len(w))
         /\ Len(Tail(in)) = Len(w) - n
<1> DEFINE N == Len(w)
<1>1. N \in Nat /\ in \in Seq(Inputs) /\ n \in 1 .. N
  <2>1. N \in Nat
    OBVIOUS
  <2>2. n <= N
    BY <2>1
  <2>3. SubSeq(w, n, N) \in Seq(Inputs)
    BY <2>1, <2>2
  <2> QED
    BY <2>1, <2>2, <2>3
<1>2. Len(in) = N - n + 1 /\ \A i \in 1 .. N - n + 1 : in[i] = w[n + i - 1]
  BY <1>1
<1>3. /\ Head(in) = in[1] /\ Tail(in) \in Seq(Inputs) /\ Len(Tail(in)) = N - n
      /\ \A i \in 1 .. N - n : Tail(in)[i] = in[i + 1]
  BY <1>1, <1>2
<1>4. Head(in) = w[n]
  BY <1>1, <1>2, <1>3
<1>5. /\ SubSeq(w, n + 1, N) \in Seq(Inputs) /\ Len(SubSeq(w, n + 1, N)) = N - n
      /\ \A i \in 1 .. N - n : SubSeq(w, n + 1, N)[i] = w[n + i]
  BY <1>1
<1>6. \A i \in 1 .. N - n : Tail(in)[i] = w[n + i]
  BY <1>1, <1>2, <1>3
<1> DEFINE t == Tail(in)
           u == SubSeq(w, n + 1, N)
<1>7. /\ t \in Seq(Inputs) /\ u \in Seq(Inputs) /\ Len(t) = N - n /\ Len(u) = N - n
      /\ \A i \in 1 .. N - n : t[i] = u[i]
  BY <1>3, <1>5, <1>6
<1>8. t = u
  <2> DEFINE M == N - n
  <2>1. M \in Nat
    BY <1>1
  <2>2. /\ t \in Seq(Inputs) /\ u \in Seq(Inputs) /\ Len(t) = M /\ Len(u) = M
        /\ \A i \in 1 .. M : t[i] = u[i]
    BY <1>7
  <2> HIDE DEF t, u, M
  <2>3. DOMAIN t = 1 .. M /\ DOMAIN u = 1 .. M
    BY <2>2
  <2>4. t = [i \in 1 .. M |-> t[i]] /\ u = [i \in 1 .. M |-> u[i]]
    BY <2>2, <2>3
  <2> QED
    BY <2>2, <2>4
<1> QED
  BY <1>3, <1>4, <1>8

LEMMA WholeInput ==
  ASSUME NEW w \in Seq(Inputs)
  PROVE  SubSeq(w, 1, Len(w)) = w
<1> DEFINE u == SubSeq(w, 1, Len(w))
<1>1. u \in Seq(Inputs) /\ Len(u) = Len(w) /\ \A i \in 1 .. Len(w) : u[i] = w[i]
  OBVIOUS
<1> HIDE DEF u
<1>2. u = w
  BY <1>1
<1> QED
  BY <1>2 DEF u

\* A step from o on i to q, in the objects ob.
Steps(ob, o, i, q) == q \in ToSet(ob[o].next) /\ <<o, i>> \in ob[q].deps

\* Each state of the output out follows from the one before it on a character
\* of w.
Chain(ob, out, w) == \A i \in 1 .. Len(out) - 1 : Steps(ob, out[i], w[i], out[i + 1])

\* What OutputFollowsInput says but for the machine.
Follows(ob, s, w, in, out, c) ==
    /\ out # <<>> /\ Len(out) = 1 + Len(w) - Len(in)
    /\ in = SubSeq(w, Len(out), Len(w))
    /\ out[1] = s /\ c = Last(out)
    /\ Chain(ob, out, w)

RunInv == word # <<>> => /\ mode \in {"idle", "run"}
                         /\ Follows(obj, start, word, input, output, current)
                         /\ machine = "STOPPED" => input = <<>>

LEMMA HoldsEnough ==
  ASSUME GraphInv, NEW c \in Objs \cup {NoState}
  PROVE  \E H \in SUBSET Objs : /\ live \cup ({start, c} \ {NoState}) \subseteq H
                                /\ KeptIn(H, obj, Collected(live, start, c, obj))
<1>1. live \in SUBSET Objs /\ start \in Objs \cup {NoState} /\ obj \in [Objs -> ObjType]
  BY GraphTypes
<1> QED
  BY <1>1, CollectedIs

\* Collecting keeps the states of the output, which the start state holds.
LEMMA ChainKept ==
  ASSUME GraphInv, NEW c \in Objs \cup {NoState},
         NEW out \in Seq(Objs), out # <<>>, out[1] = start, NEW w, Chain(obj, out, w)
  PROVE  Chain(Collected(live, start, c, obj), out, w)
<1> DEFINE new == Collected(live, start, c, obj)
<1>1. /\ obj \in [Objs -> ObjType] /\ live \in SUBSET Objs /\ start \in Objs \cup {NoState}
      /\ Len(out) \in Nat \ {0} /\ start \in Objs /\ NoState \notin Objs
  BY GraphTypes, FsmAssumption DEF NoState, Objs
<1>2. PICK H \in SUBSET Objs : live \cup ({start, c} \ {NoState}) \subseteq H /\ KeptIn(H, obj, new)
  BY HoldsEnough
<1> HIDE DEF new
<1>3. ASSUME NEW o \in H, NEW i, NEW q, Steps(obj, o, i, q)
      PROVE  q \in H /\ Steps(new, o, i, q)
  <2>1. q \in ToSet(obj[o].next) /\ <<o, i>> \in obj[q].deps
    BY <1>3 DEF Steps
  <2>2. q \in H /\ new[o].next = obj[o].next
    BY <1>2, <2>1 DEF KeptIn
  <2>3. <<o, i>> \in {d \in obj[q].deps : d[1] \in H}
    BY <2>1
  <2>4. <<o, i>> \in new[q].deps
    BY <1>2, <2>2, <2>3 DEF KeptIn
  <2> QED
    BY <2>1, <2>2, <2>4 DEF Steps
<1>4. \A i \in 1 .. Len(out) : out[i] \in H
  <2> DEFINE f == [k \in 0 .. Len(out) - 1 |-> out[k + 1]]
  <2>1. f[0] \in H
    BY <1>1, <1>2
  <2>2. ASSUME NEW k \in 1 .. Len(out) - 1, f[k - 1] \in H PROVE f[k] \in H
    <3>1. f[k - 1] = out[k] /\ f[k] = out[k + 1]
      BY <1>1
    <3>2. Steps(obj, out[k], w[k], out[k + 1])
      BY DEF Chain
    <3> QED
      BY <1>3, <2>2, <3>1, <3>2
  <2>3. Len(out) - 1 \in Nat
    BY <1>1
  <2>4. \A k \in 0 .. Len(out) - 1 : f[k] \in H
    <3> HIDE DEF f
    <3> QED
      BY <2>1, <2>2, <2>3, IteratesIn
  <2> QED
    <3> SUFFICES ASSUME NEW i \in 1 .. Len(out) PROVE out[i] \in H
      OBVIOUS
    <3>1. i - 1 \in 0 .. Len(out) - 1 /\ f[i - 1] = out[i]
      BY <1>1
    <3> QED
      BY <2>4, <3>1
<1>5. ASSUME NEW i \in 1 .. Len(out) - 1 PROVE Steps(new, out[i], w[i], out[i + 1])
  <2>1. i \in 1 .. Len(out)
    BY <1>1
  <2> QED
    BY <1>3, <1>4, <2>1 DEF Chain
<1>6. Chain(new, out, w)
  BY <1>5 DEF Chain
<1> QED
  BY <1>6 DEF new

\* A run begins with the start state and the whole input.
LEMMA FollowsBegins ==
  ASSUME NEW w \in Seq(Inputs)
  PROVE  Follows(obj, start, w, w, <<start>>, start)
<1>1. <<start>> # <<>> /\ Len(<<start>>) = 1 /\ <<start>>[1] = start
  OBVIOUS
<1>2. Chain(obj, <<start>>, w)
  BY <1>1 DEF Chain
<1>3. Len(w) \in Nat
  OBVIOUS
<1> QED
  BY <1>1, <1>2, <1>3, WholeInput DEF Follows, Last

\* A transition adds the state entered and takes a character away.
LEMMA FollowsStep ==
  ASSUME NEW w \in Seq(Inputs), NEW in, in # <<>>, NEW out \in Seq(Objs), NEW c,
         Follows(obj, start, w, in, out, c), NEW d \in Objs, d \in Takeable(c, Head(in))
  PROVE  Follows(obj, start, w, Tail(in), Append(out, d), d)
<1> DEFINE n == Len(out)
           new == Append(out, d)
<1>1. n \in Nat \ {0} /\ Len(w) \in Nat
  BY DEF Follows
<1>2. /\ in = SubSeq(w, n, Len(w)) /\ Len(in) = 1 + Len(w) - n
      /\ c = out[n]
  <2>1. in \in Seq(Inputs)
    BY <1>1 DEF Follows
  <2>2. Len(in) \in Nat
    BY <2>1
  <2>3. n = 1 + Len(w) - Len(in) /\ in = SubSeq(w, n, Len(w)) /\ c = out[n]
    BY DEF Follows, Last
  <2>4. Len(in) = 1 + Len(w) - n
    BY <1>1, <2>2, <2>3
  <2> QED
    BY <2>3, <2>4
<1>3. /\ Head(in) = w[n] /\ Tail(in) = SubSeq(w, n + 1, Len(w))
      /\ Len(Tail(in)) = Len(w) - n
  BY <1>1, <1>2, RestOfInput
<1>4. /\ new # <<>> /\ Len(new) = n + 1 /\ new[n + 1] = d
      /\ \A i \in 1 .. n : new[i] = out[i]
  BY <1>1
<1> HIDE DEF new
<1>5. Chain(obj, new, w)
  <2> SUFFICES ASSUME NEW i \in 1 .. n PROVE Steps(obj, new[i], w[i], new[i + 1])
    BY <1>1, <1>4 DEF Chain
  <2>1. CASE i = n
    <3>1. new[i + 1] = d /\ new[i] = c /\ w[i] = Head(in)
      BY <1>1, <1>2, <1>3, <1>4, <2>1
    <3> QED
      BY <3>1 DEF Steps, Takeable, Successors
  <2>2. CASE i # n
    <3>1. i \in 1 .. n - 1 /\ i + 1 \in 1 .. n
      BY <1>1, <2>2
    <3>2. Steps(obj, out[i], w[i], out[i + 1])
      BY <3>1 DEF Follows, Chain
    <3> QED
      BY <1>4, <3>1, <3>2
  <2> QED
    BY <2>1, <2>2
<1>6. new[1] = start
  BY <1>1, <1>4 DEF Follows
<1>7. Len(new) = 1 + Len(w) - Len(Tail(in)) /\ Tail(in) = SubSeq(w, Len(new), Len(w))
  <2> DEFINE t == Tail(in)
             N == Len(w)
  <2>1. Len(t) = N - n /\ N \in Nat /\ t = SubSeq(w, n + 1, N) /\ Len(new) = n + 1
    BY <1>1, <1>3, <1>4
  <2> HIDE DEF t, N
  <2>2. Len(new) = 1 + N - Len(t) /\ t = SubSeq(w, Len(new), N)
    BY <1>1, <2>1
  <2> QED
    BY <2>2 DEF t, N
<1>8. d = Last(new)
  BY <1>4 DEF Last
<1>9. Follows(obj, start, w, Tail(in), new, d)
  BY <1>4, <1>5, <1>6, <1>7, <1>8 DEF Follows
<1> QED
  BY <1>9 DEF new

\* What follows before the states nobody holds are collected does afterwards.
LEMMA FollowsKept ==
  ASSUME GraphInv, NEW c \in Objs \cup {NoState}, NEW w, NEW in, NEW out \in Seq(Objs), NEW d,
         Follows(obj, start, w, in, out, d)
  PROVE  Follows(Collected(live, start, c, obj), start, w, in, out, d)
<1>1. Chain(Collected(live, start, c, obj), out, w)
  BY ChainKept DEF Follows
<1> QED
  BY <1>1 DEF Follows

\* A step that begins or goes on with a run, or ends it.
LEMMA BecomesRun ==
  ASSUME GraphInv, NEW c \in Objs \cup {NoState}, NEW out \in Seq(Objs), NEW m, NEW in, NEW w,
         Becomes(c, out, m, in, w), mode' \in {"idle", "run"},
         w # <<>> => Follows(obj, start, w, in, out, c) /\ (m = "STOPPED" => in = <<>>)
  PROVE  RunInv'
<1>1. /\ current' = c /\ output' = out /\ machine' = m /\ input' = in /\ word' = w
      /\ start' = start /\ obj' = Collected(live, start, c, obj)
  BY DEF Becomes
<1>2. w # <<>> => Follows(Collected(live, start, c, obj), start, w, in, out, c)
  BY FollowsKept
<1> QED
  BY <1>1, <1>2 DEF RunInv

LEMMA TransitionRun ==
  ASSUME GraphInv, DataInv, NEW c \in Objs \cup {NoState}, NEW out \in Seq(Objs),
         NEW w \in Seq(Inputs), NEW m, input # <<>>, Transition(c, out, w, m),
         mode' \in {"idle", "run"}, w # <<>> => Follows(obj, start, w, input, out, c),
         m = "STOPPED" => Tail(input) = <<>>
  PROVE  RunInv'
<1> DEFINE d == IF c = NoState THEN NoState ELSE Dest(c, Head(input))
<1>1. CASE d = NoState \/ ~ InMap(d)
  <2>1. Becomes(c, out, "ERROR", input, <<>>)
    BY <1>1 DEF Transition
  <2> QED
    BY <2>1, BecomesRun
<1>2. CASE d # NoState /\ InMap(d)
  <2>1. c # NoState /\ d = Dest(c, Head(input)) /\ c \in Objs
    BY <1>2
  <2>2. d \in Objs /\ d \in Takeable(c, Head(input))
    BY <1>2, <2>1, DestIs
  <2> HIDE DEF d
  <2>3. Append(out, d) \in Seq(Objs)
    BY <2>2
  <2>4. w # <<>> => Follows(obj, start, w, Tail(input), Append(out, d), d)
    BY <2>2, FollowsStep
  <2>5. CASE Becomes(d, Append(out, d), m, Tail(input), w)
    BY <2>2, <2>3, <2>4, <2>5, BecomesRun
  <2>6. CASE Becomes(d, Append(out, d), "ERROR", input, <<>>)
    BY <2>2, <2>3, <2>6, BecomesRun
  <2> QED
    BY <1>2, <2>1, <2>5, <2>6 DEF Transition, d
<1> QED
  BY <1>1, <1>2

LEMMA NextRun == Base /\ RunInv /\ [Next]_vars => RunInv'
<1> SUFFICES ASSUME Base, RunInv, [Next]_vars PROVE RunInv'
  OBVIOUS
<1> USE DEF Base
<1>1. /\ start \in Objs \cup {NoState} /\ current \in Objs \cup {NoState}
      /\ output \in Seq(Objs) /\ <<>> \in Seq(Objs) /\ word \in Seq(Inputs)
      /\ input \in Seq(Inputs) /\ NoState \notin Objs
  BY GraphTypes, FsmAssumption DEF DataInv, NoState, Objs
<1>2. CASE word' = <<>>
  BY <1>2 DEF RunInv
<1>3. CASE Edit \/ SaveAndLoad
  <2>1. CASE Edited
    BY <1>2, <2>1 DEF Edited
  <2>2. CASE Prune \/ (\E o \in live : RemoveState(o)) \/ SaveAndLoad
    BY <1>2, <2>2 DEF Prune, RemoveState, SaveAndLoad
  <2>3. CASE \E n \in Names, f \in BOOLEAN : AddState(n, f)
    BY <2>1, <2>3 DEF AddState
  <2>4. CASE \E o \in live : SetStartState(o)
    BY <2>1, <2>4 DEF SetStartState
  <2>5. CASE \E p, q \in live, c \in Inputs :
                \/ AddTransition(p, q, c) \/ RemoveTransition(p, q, c)
                \/ \E d \in Inputs : UpdateTransition(p, q, c, d)
    BY <2>1, <2>5 DEF AddTransition, RemoveTransition, UpdateTransition
  <2> QED
    BY <1>3, <2>2, <2>3, <2>4, <2>5 DEF Edit
<1>4. CASE Recursion
  <2>1. mode \in {"delete", "prune"} /\ word' = word
    BY <1>4 DEF Recursion, DeleteSkip, DeleteThrows, DeleteDescend, DeleteErase, PruneSkip,
           PruneDescend, PruneErase, PruneReturn, exec
  <2> QED
    BY <1>2, <2>1 DEF RunInv
<1>5. CASE UNCHANGED <<graph, exec>> /\ mode' = mode
  <2>1. UNCHANGED <<obj, start, word, input, output, current, machine, mode>>
    BY <1>5 DEF graph, exec
  <2> QED
    BY <2>1 DEF RunInv
<1>6. CASE UNCHANGED vars
  BY <1>5, <1>6 DEF vars
<1>7. CASE \E c \in Inputs : AddExpectedInput(c) \/ RemoveExpectedInput(c)
  BY <1>5, <1>7 DEF AddExpectedInput, RemoveExpectedInput
<1>8. CASE \/ \E w \in UNION {[1 .. n -> Inputs] : n \in 0 .. MaxInput} : SetInput(w)
           \/ \E m \in Settable : SetMachineState(m)
           \/ Reset
  BY <1>2, <1>8 DEF SetInput, SetMachineState, Reset
<1>9. CASE RunEnds
  <2>1. /\ mode' = "idle" /\ UNCHANGED <<obj, start, word, input, output, current>>
        /\ machine' = "STOPPED" => machine = "STOPPED" \/ input = <<>>
    BY <1>9 DEF RunEnds, graph
  <2> QED
    BY <2>1 DEF RunInv
<1>10. CASE Run
  <2>1. start \in Objs /\ <<start>> \in Seq(Objs)
    BY <1>1, <1>10 DEF Run, Valid
  <2>2. CASE Becomes(start, <<start>>, "RUNNING", input, input) /\ mode' = "run"
    <3>1. Follows(obj, start, input, input, <<start>>, start)
      BY <1>1, FollowsBegins
    <3> QED
      BY <2>1, <2>2, <3>1, BecomesRun
  <2>3. CASE \E c \in {start, current}, out \in {<<>>, <<start>>}, m \in {machine, "RUNNING"} :
                Becomes(c, out, m, input, <<>>)
    BY <1>2, <2>3 DEF Becomes
  <2> QED
    BY <1>10, <2>2, <2>3 DEF Run
<1>11. CASE RunLoop
  <2>1. Transition(current, output, word, "RUNNING") /\ input # <<>> /\ mode' = "run"
    BY <1>11 DEF RunLoop
  <2>2. word # <<>> => Follows(obj, start, word, input, output, current)
    BY DEF RunInv
  <2> QED
    BY <1>1, <2>1, <2>2, TransitionRun
<1>12. CASE DebugStep
  <2>1. mode' = "idle" /\ start \in Objs /\ <<start>> \in Seq(Objs)
    BY <1>1, <1>12 DEF DebugStep, Idle
  <2>2. AfterStep = "STOPPED" => Tail(input) = <<>>
    BY DEF AfterStep
  <2>3. CASE \E c \in {start, current}, out \in {<<>>, output, <<start>>}, m \in {"STOPPED", "ERROR"} :
                Becomes(c, out, m, input, <<>>)
    BY <1>2, <2>3 DEF Becomes
  <2>4. CASE input # <<>> /\ Transition(current, output, word, AfterStep)
    <3>1. word # <<>> => Follows(obj, start, word, input, output, current)
      BY DEF RunInv
    <3> QED
      BY <1>1, <2>1, <2>2, <2>4, <3>1, TransitionRun
  <2>5. CASE input # <<>> /\ Transition(start, <<start>>, input, AfterStep)
    <3>1. Follows(obj, start, input, input, <<start>>, start)
      BY <1>1, FollowsBegins
    <3> QED
      BY <1>1, <2>1, <2>2, <2>5, <3>1, TransitionRun
  <2>6. CASE input = <<>>
    BY <1>12, <2>3, <2>6 DEF DebugStep
  <2>7. CASE input # <<>> /\ machine = "RUNNING"
    BY <1>12, <2>4, <2>7 DEF DebugStep
  <2>8. CASE input # <<>> /\ machine # "RUNNING"
    BY <1>12, <2>3, <2>5, <2>8 DEF DebugStep
  <2> QED
    BY <2>6, <2>7, <2>8
<1> QED
  BY <1>3, <1>4, <1>6, <1>7, <1>8, <1>9, <1>10, <1>11, <1>12 DEF Next, Execute

(* The output of a run, and of debug steps, is that of the start state and of the states      *)
(* entered on the characters consumed, and a machine that has STOPPED has consumed all of     *)
(* them (fsm.cpp:381-502).                                                                     *)
THEOREM OutputFollowsInputAlways == Spec => []OutputFollowsInput
<1>1. Init => RunInv
  BY DEF Init, RunInv
<1>2. Base /\ RunInv /\ [Next]_vars => RunInv'
  BY NextRun
<1>3. RunInv => OutputFollowsInput
  BY DEF RunInv, Follows, Chain, Steps, Takeable, Successors, OutputFollowsInput
<1> QED
  BY <1>1, <1>2, <1>3, BaseAlways, PTL DEF Spec

----------------------------------------------------------------------------
\* Removing a state.

\* The names of a list of states.
NamesIn(ob, s) == {ob[q].name : q \in ToSet(s)}

\* Each frame of the stack st is about a child whose name the state of the
\* frame below alone lists.
Children(st, lv, ob) ==
    /\ \A i \in 1 .. Len(st) :
          /\ st[i].obj \in lv
          /\ \A k \in lv : ob[k].name \in NamesIn(ob, st[i].todo)
                             => ob[k].name \in NamesIn(ob, ob[st[i].obj].next)
    /\ \A i \in 1 .. Len(st) - 1 :
          /\ ob[st[i].obj].name \in NamesIn(ob, ob[st[i + 1].obj].next)
          /\ \A p \in lv : ob[st[i].obj].name \in NamesIn(ob, ob[p].next)
                             => p = st[i + 1].obj

\* A state that is on the stack twice has, in its upper frame, still to visit
\* the child that it visits in the lower one: it is not erased there.
Again(st, ob) ==
    \A i, j \in 1 .. Len(st) :
        i < j /\ st[i].obj = st[j].obj =>
            \/ ob[st[j - 1].obj].name \in NamesIn(ob, st[i].todo)
            \/ i > 1 /\ st[i - 1].obj = st[j - 1].obj

\* No state that is left has lost another that is left since the call began,
\* with the automaton b; whoever has lost one is on the stack.
Lost(st, lv, ob, b) ==
    /\ st[Len(st)].obj = b.root
    /\ \A p \in lv : ToSet(b.obj[p].next) \cap lv \subseteq ToSet(ob[p].next)
    /\ \A o \in b.live \ (lv \cup {b.root}), p \in lv :
          o \in ToSet(b.obj[p].next) => \E i \in 1 .. Len(st) : st[i].obj = p

RemovalInv ==
    mode = "delete" =>
        Children(stack, live, obj) /\ Again(stack, obj) /\ Lost(stack, live, obj, before)

\* Another state than p lists the name of the child k, or none does.
LEMMA ReferredTo ==
  ASSUME NEW k, NEW p, ReferencedElsewhere(obj[k].name, p)
  PROVE  \E r \in live : r # p /\ obj[k].name \in NamesIn(obj, obj[r].next)
<1>1. PICK r \in live : /\ obj[r].name # obj[p].name
                        /\ \E q \in Successors(r) : obj[q].name = obj[k].name
  BY DEF ReferencedElsewhere
<1> QED
  BY <1>1 DEF NamesIn, Successors

LEMMA ReferredToOnce ==
  ASSUME GraphInv, NEW k, NEW p \in live, ~ ReferencedElsewhere(obj[k].name, p)
  PROVE  \A r \in live : obj[k].name \in NamesIn(obj, obj[r].next) => r = p
<1> SUFFICES ASSUME NEW r \in live, obj[k].name \in NamesIn(obj, obj[r].next) PROVE r = p
  OBVIOUS
<1>1. obj[r].name = obj[p].name
  BY DEF ReferencedElsewhere, NamesIn, Successors
<1> QED
  BY <1>1 DEF GraphInv, Sound, UniqueNames

LEMMA RemoveBegins ==
  ASSUME GraphInv, NEW o \in live, RemoveState(o)
  PROVE  RemovalInv'
<1> DEFINE st == <<Frame(o)>>
<1>1. /\ stack' = st /\ live' = live /\ obj' = obj /\ before'.obj = obj
      /\ before'.live = live /\ before'.root = o
  BY DEF RemoveState, graph
<1>2. Len(st) = 1 /\ st[1].obj = o /\ st[1].todo = obj[o].next
  BY DEF Frame
<1> HIDE DEF st
<1>3. Children(st, live, obj)
  <2>1. \A i \in 1 .. Len(st) : i = 1
    BY <1>2
  <2>2. \A i \in 1 .. Len(st) - 1 : FALSE
    BY <1>2
  <2> QED
    BY <1>2, <2>1, <2>2 DEF Children
<1>4. Again(st, obj)
  BY <1>2 DEF Again
<1>5. Lost(st, live, obj, before')
  BY <1>1, <1>2 DEF Lost
<1> QED
  BY <1>1, <1>3, <1>4, <1>5 DEF RemovalInv

LEMMA SkipRemoval ==
  ASSUME GraphInv, CallInv, RemovalInv, DeleteSkip
  PROVE  RemovalInv'
<1>1. /\ mode = "delete" /\ Top.todo # <<>> /\ stack' = NextChild
      /\ UNCHANGED <<obj, live, before, mode>>
      /\ ReferencedElsewhere(obj[Child].name, Top.obj)
  BY DEF DeleteSkip, graph
<1>2. stack \in Seq(Frames(Objs)) /\ stack # <<>>
  BY <1>1 DEF CallInv, InCall
<1> DEFINE st == stack
           new == NextChild
           n == Len(stack)
<1>3. /\ n \in Nat \ {0} /\ Len(new) = n
      /\ Top = st[1] /\ Child \in ToSet(st[1].todo)
      /\ \A i \in 1 .. n : new[i].obj = st[i].obj
      /\ ToSet(st[1].todo) = ToSet(new[1].todo) \cup {Child}
      /\ \A i \in 2 .. n : new[i].todo = st[i].todo
  BY <1>1, <1>2, NextChildTop
<1>4. \A i \in 1 .. n : ToSet(new[i].todo) \subseteq ToSet(st[i].todo)
  <2> SUFFICES ASSUME NEW i \in 1 .. n PROVE ToSet(new[i].todo) \subseteq ToSet(st[i].todo)
    OBVIOUS
  <2>1. i = 1 \/ i \in 2 .. n
    BY <1>3
  <2> QED
    BY <1>3, <2>1
<1>5. PICK r \in live : r # st[1].obj /\ obj[Child].name \in NamesIn(obj, obj[r].next)
  BY <1>1, <1>3, ReferredTo
<1> HIDE DEF st, new, n
<1>6. /\ Children(st, live, obj) /\ Again(st, obj) /\ Lost(st, live, obj, before)
      /\ n = Len(st)
  BY <1>1 DEF RemovalInv, st, n
<1>7. Children(new, live, obj)
  <2>1. ASSUME NEW i \in 1 .. n
        PROVE  /\ new[i].obj \in live
               /\ \A x \in live : obj[x].name \in NamesIn(obj, new[i].todo)
                                  => obj[x].name \in NamesIn(obj, obj[new[i].obj].next)
    <3>1. NamesIn(obj, new[i].todo) \subseteq NamesIn(obj, st[i].todo)
      BY <1>4 DEF NamesIn
    <3> QED
      BY <1>3, <1>6, <3>1 DEF Children
  <2>2. ASSUME NEW i \in 1 .. n - 1
        PROVE  /\ obj[new[i].obj].name \in NamesIn(obj, obj[new[i + 1].obj].next)
               /\ \A p \in live : obj[new[i].obj].name \in NamesIn(obj, obj[p].next)
                                  => p = new[i + 1].obj
    <3>1. i \in 1 .. n /\ i + 1 \in 1 .. n
      BY <1>3
    <3>2. new[i].obj = st[i].obj /\ new[i + 1].obj = st[i + 1].obj
      BY <1>3, <3>1
    <3> QED
      BY <1>6, <3>2 DEF Children
  <2> QED
    BY <1>3, <2>1, <2>2 DEF Children
<1>8. Again(new, obj)
  <2> SUFFICES ASSUME NEW i \in 1 .. n, NEW j \in 1 .. n, i < j, new[i].obj = new[j].obj
               PROVE  \/ obj[new[j - 1].obj].name \in NamesIn(obj, new[i].todo)
                      \/ i > 1 /\ new[i - 1].obj = new[j - 1].obj
    BY <1>3 DEF Again
  <2>1. st[i].obj = st[j].obj /\ j - 1 \in 1 .. n /\ new[j - 1].obj = st[j - 1].obj
        /\ j - 1 \in 1 .. n - 1 /\ (j - 1) + 1 = j
    BY <1>3
  <2>2. \/ obj[st[j - 1].obj].name \in NamesIn(obj, st[i].todo)
        \/ i > 1 /\ st[i - 1].obj = st[j - 1].obj
    BY <1>6, <2>1 DEF Again
  <2>3. CASE i > 1
    <3>1. i - 1 \in 1 .. n /\ i \in 2 .. n
      BY <1>3, <2>3
    <3> QED
      BY <1>3, <2>1, <2>2, <3>1
  <2>4. CASE i = 1
    <3>1. obj[st[j - 1].obj].name \in NamesIn(obj, st[1].todo)
      BY <2>2, <2>4
    <3>2. \A p \in live : obj[st[j - 1].obj].name \in NamesIn(obj, obj[p].next) => p = st[j].obj
      BY <1>6, <2>1 DEF Children
    <3>3. obj[st[j - 1].obj].name # obj[Child].name
      BY <1>5, <2>1, <2>4, <3>2
    <3>4. obj[st[j - 1].obj].name \in NamesIn(obj, new[1].todo)
      BY <1>3, <3>1, <3>3 DEF NamesIn
    <3> QED
      BY <2>1, <2>4, <3>4
  <2> QED
    BY <1>3, <2>3, <2>4
<1>9. Lost(new, live, obj, before)
  <2>1. n \in 1 .. n
    BY <1>3
  <2>2. new[n].obj = before.root
    BY <1>3, <1>6, <2>1 DEF Lost
  <2> QED
    BY <1>3, <1>6, <2>2 DEF Lost
<1> QED
  BY <1>1, <1>7, <1>8, <1>9 DEF RemovalInv, new

\* The frame of the child is on top of what NextChild makes of the stack.
LEMMA DescendRemoval ==
  ASSUME GraphInv, CallInv, RemovalInv, DeleteDescend, mode' = "delete"
  PROVE  RemovalInv'
<1> DEFINE o == ObjOf(obj[Child].name)
           st == stack
           mid == NextChild
           new == <<Frame(o)>> \o mid
           n == Len(stack)
<1>1. /\ mode = "delete" /\ Top.todo # <<>> /\ stack' = new
      /\ UNCHANGED <<obj, live, before>>
      /\ ~ ReferencedElsewhere(obj[Child].name, Top.obj) /\ Named(obj[Child].name) # {}
  BY DEF DeleteDescend, graph
<1>2. stack \in Seq(Frames(Objs)) /\ stack # <<>>
  BY <1>1 DEF CallInv, InCall
<1>3. /\ n \in Nat \ {0} /\ Len(mid) = n /\ mid \in Seq(Frames(Objs))
      /\ Top = st[1] /\ Child \in ToSet(st[1].todo)
      /\ \A i \in 1 .. n : mid[i].obj = st[i].obj
      /\ ToSet(st[1].todo) = ToSet(mid[1].todo) \cup {Child}
      /\ \A i \in 2 .. n : mid[i].todo = st[i].todo
  BY <1>1, <1>2, NextChildTop
<1>4. o \in live /\ obj[o].name = obj[Child].name
  BY <1>1, ObjOfIs
<1>5. Frame(o).obj = o /\ Frame(o).todo = obj[o].next
  BY DEF Frame
<1>6. /\ Len(new) = n + 1 /\ new[1] = Frame(o)
      /\ \A i \in 2 .. n + 1 : new[i] = mid[i - 1]
  <2> HIDE DEF mid, n, o
  <2> QED
    BY <1>3
<1>7. Top.obj \in live /\ ~ ReferencedElsewhere(obj[o].name, Top.obj)
  BY <1>1, <1>3, <1>4 DEF RemovalInv, Children
<1>8. \A r \in live : obj[o].name \in NamesIn(obj, obj[r].next) => r = st[1].obj
  BY <1>1, <1>3, <1>4, <1>7, ReferredToOnce
<1> HIDE DEF st, new, mid, n, o
<1>9. /\ Children(st, live, obj) /\ Again(st, obj) /\ Lost(st, live, obj, before)
      /\ n = Len(st)
  BY <1>1 DEF RemovalInv, st, n
<1>10. \A i \in 2 .. n + 1 : i - 1 \in 1 .. n /\ new[i].obj = st[i - 1].obj
                             /\ ToSet(new[i].todo) \subseteq ToSet(st[i - 1].todo)
  <2> SUFFICES ASSUME NEW i \in 2 .. n + 1
               PROVE  i - 1 \in 1 .. n /\ new[i].obj = st[i - 1].obj
                      /\ ToSet(new[i].todo) \subseteq ToSet(st[i - 1].todo)
    OBVIOUS
  <2>1. i - 1 \in 1 .. n /\ (i = 2 \/ i - 1 \in 2 .. n)
    BY <1>3
  <2>2. new[i] = mid[i - 1]
    BY <1>6
  <2> QED
    BY <1>3, <2>1, <2>2
<1>11. new[1].obj = o /\ new[1].todo = obj[o].next
       /\ obj[o].name \in NamesIn(obj, obj[st[1].obj].next)
  <2>1. 1 \in 1 .. n
    BY <1>3
  <2>2. obj[o].name \in NamesIn(obj, st[1].todo)
    BY <1>3, <1>4 DEF NamesIn
  <2> QED
    BY <1>3, <1>4, <1>5, <1>6, <1>9, <2>1, <2>2 DEF Children
<1>12. Children(new, live, obj)
  <2>1. ASSUME NEW i \in 1 .. n + 1
        PROVE  /\ new[i].obj \in live
               /\ \A x \in live : obj[x].name \in NamesIn(obj, new[i].todo)
                                  => obj[x].name \in NamesIn(obj, obj[new[i].obj].next)
    <3>1. i = 1 \/ i \in 2 .. n + 1
      BY <1>3
    <3>2. CASE i = 1
      BY <1>4, <1>11, <3>2
    <3>3. CASE i \in 2 .. n + 1
      <4>1. NamesIn(obj, new[i].todo) \subseteq NamesIn(obj, st[i - 1].todo)
        BY <1>10, <3>3 DEF NamesIn
      <4> QED
        BY <1>9, <1>10, <3>3, <4>1 DEF Children
    <3> QED
      BY <3>1, <3>2, <3>3
  <2>2. ASSUME NEW i \in 1 .. n
        PROVE  /\ obj[new[i].obj].name \in NamesIn(obj, obj[new[i + 1].obj].next)
               /\ \A p \in live : obj[new[i].obj].name \in NamesIn(obj, obj[p].next)
                                  => p = new[i + 1].obj
    <3>1. i + 1 \in 2 .. n + 1 /\ (i + 1) - 1 = i
      BY <1>3
    <3>2. new[i + 1].obj = st[i].obj
      BY <1>10, <3>1
    <3>3. CASE i = 1
      BY <1>8, <1>11, <3>2, <3>3
    <3>4. CASE i # 1
      <4>1. i \in 2 .. n + 1 /\ i - 1 \in 1 .. n - 1 /\ (i - 1) + 1 = i
        BY <1>3, <3>4
      <4>2. new[i].obj = st[i - 1].obj
        BY <1>10, <4>1
      <4> QED
        BY <1>9, <3>2, <4>1, <4>2 DEF Children
    <3> QED
      BY <3>3, <3>4
  <2>3. (n + 1) - 1 = n
    BY <1>3
  <2> QED
    BY <1>6, <2>1, <2>2, <2>3 DEF Children
<1>13. Again(new, obj)
  <2> SUFFICES ASSUME NEW i \in 1 .. n + 1, NEW j \in 1 .. n + 1, i < j, new[i].obj = new[j].obj
               PROVE  \/ obj[new[j - 1].obj].name \in NamesIn(obj, new[i].todo)
                      \/ i > 1 /\ new[i - 1].obj = new[j - 1].obj
    BY <1>6 DEF Again
  <2>1. CASE i = 1
    <3>1. j - 1 \in 1 .. (n + 1) - 1 /\ (j - 1) + 1 = j
      BY <1>3, <2>1
    <3>2. obj[new[j - 1].obj].name \in NamesIn(obj, obj[new[j].obj].next)
      BY <1>6, <1>12, <3>1 DEF Children
    <3> QED
      BY <1>11, <2>1, <3>2
  <2>2. CASE i > 1
    <3>1. /\ i \in 2 .. n + 1 /\ j \in 2 .. n + 1 /\ j - 1 \in 2 .. n + 1
          /\ i - 1 \in 1 .. n /\ j - 1 \in 1 .. n /\ i - 1 < j - 1
      BY <1>3, <2>2
    <3>2. /\ new[i].obj = st[i - 1].obj /\ new[j].obj = st[j - 1].obj
          /\ new[j - 1].obj = st[(j - 1) - 1].obj
      BY <1>10, <3>1
    <3>3. \/ obj[st[(j - 1) - 1].obj].name \in NamesIn(obj, st[i - 1].todo)
          \/ i - 1 > 1 /\ st[(i - 1) - 1].obj = st[(j - 1) - 1].obj
      BY <1>9, <3>1, <3>2 DEF Again
    <3>4. new[i] = mid[i - 1]
      BY <1>6, <3>1
    <3>5. CASE i = 2
      <4> DEFINE x == st[(j - 1) - 1].obj
      <4>1. obj[x].name \in NamesIn(obj, st[1].todo)
        BY <3>3, <3>5
      <4>2. i - 1 = 1 /\ new[i].todo = mid[1].todo /\ x = new[j - 1].obj
        BY <3>2, <3>4, <3>5
      <4>3. x \in live
        BY <1>6, <1>12, <3>1, <4>2 DEF Children
      <4>4. CASE obj[x].name = obj[Child].name
        <5>1. x = o
          BY <1>4, <4>3, <4>4 DEF GraphInv, Sound, UniqueNames
        <5> QED
          BY <1>11, <2>2, <4>2, <5>1
      <4>5. CASE obj[x].name # obj[Child].name
        <5>1. obj[x].name \in NamesIn(obj, mid[1].todo)
          BY <1>3, <4>1, <4>5 DEF NamesIn
        <5> QED
          BY <4>2, <5>1
      <4> QED
        BY <4>4, <4>5
    <3>6. CASE i # 2
      <4>1. i - 1 \in 2 .. n /\ i - 1 \in 2 .. n + 1
        BY <1>3, <3>1, <3>6
      <4>2. new[i].todo = st[i - 1].todo /\ new[i - 1].obj = st[(i - 1) - 1].obj
        BY <1>3, <1>10, <3>4, <4>1
      <4> QED
        BY <2>2, <3>2, <3>3, <4>2
    <3> QED
      BY <3>5, <3>6
  <2> QED
    BY <1>3, <2>1, <2>2
<1>14. Lost(new, live, obj, before)
  <2>1. new[n + 1].obj = before.root
    <3>1. n + 1 \in 2 .. n + 1 /\ (n + 1) - 1 = n
      BY <1>3
    <3> QED
      BY <1>9, <1>10, <3>1 DEF Lost
  <2>2. ASSUME NEW x \in before.live \ (live \cup {before.root}), NEW p \in live,
               x \in ToSet(before.obj[p].next)
        PROVE  \E i \in 1 .. n + 1 : new[i].obj = p
    <3>1. PICK i \in 1 .. n : st[i].obj = p
      BY <1>9, <2>2 DEF Lost
    <3>2. i + 1 \in 2 .. n + 1 /\ i + 1 \in 1 .. n + 1 /\ (i + 1) - 1 = i
      BY <1>3
    <3> QED
      BY <1>10, <3>1, <3>2
  <2> QED
    BY <1>6, <1>9, <2>1, <2>2 DEF Lost
<1> QED
  BY <1>1, <1>12, <1>13, <1>14 DEF RemovalInv

\* The top of the stack, when all its children have been looked at, is not on
\* the stack again.
LEMMA TopIsOnce ==
  ASSUME NEW S, S \subseteq Objs, stack \in Seq(Frames(S)), stack # <<>>, Again(stack, obj),
         Top.todo = <<>>
  PROVE  \A j \in 2 .. Len(stack) : stack[j].obj # Top.obj
<1>1. Top = stack[1] /\ Len(stack) \in Nat /\ Len(stack) >= 1
  BY StackIs
<1>2. ToSet(stack[1].todo) = {}
  BY <1>1 DEF ToSet
<1> SUFFICES ASSUME NEW j \in 2 .. Len(stack), stack[j].obj = stack[1].obj PROVE FALSE
  BY <1>1
<1>3. 1 \in 1 .. Len(stack) /\ j \in 1 .. Len(stack) /\ 1 < j
  BY <1>1
<1>4. obj[stack[j - 1].obj].name \in NamesIn(obj, stack[1].todo) \/ 1 > 1
  BY <1>3 DEF Again
<1> QED
  BY <1>2, <1>4 DEF NamesIn

LEMMA EraseRemoval ==
  ASSUME GraphInv, CallInv, RemovalInv, DeleteErase, Len(stack) # 1
  PROVE  RemovalInv'
<1> DEFINE o == Top.obj
           st == stack
           new == Tail(stack)
           n == Len(stack)
           lv == live \ {o}
           ob == WithoutReferences(obj[Top.obj].name)
<1>1. /\ mode = "delete" /\ Top.todo = <<>> /\ stack' = new /\ obj' = ob /\ live' = lv
      /\ UNCHANGED <<mode, before>>
  BY DEF DeleteErase
<1>2. stack \in Seq(Frames(Objs)) /\ stack # <<>>
  BY <1>1 DEF CallInv, InCall
<1>3. /\ st \in Seq(Frames(Objs)) /\ st # <<>> /\ Top = st[1]
      /\ Children(st, live, obj) /\ Again(st, obj) /\ Lost(st, live, obj, before)
  BY <1>1, <1>2, StackIs DEF RemovalInv
<1>4. /\ n \in Nat \ {0} /\ n # 1 /\ Len(new) = n - 1
      /\ \A i \in 1 .. n - 1 : new[i] = st[i + 1]
  BY <1>3, TailIs
<1>5. \A j \in 2 .. n : st[j].obj # o
  BY <1>1, <1>3, TopIsOnce
<1>6. /\ \A p \in live : ToSet(ob[p].next) = {q \in Successors(p) : obj[q].name # obj[o].name}
      /\ \A p \in Objs : ob[p].name = obj[p].name
  BY GraphTypes, WithoutReferencesIs
<1>7. o = st[1].obj /\ o \in live
  <2>1. 1 \in 1 .. n
    BY <1>4
  <2> QED
    BY <1>3, <2>1 DEF Children
<1> HIDE DEF st, new, n, lv, ob, o
<1>8. n = Len(st) /\ lv = live \ {o}
  BY DEF st, n, lv
<1>9. \A p \in lv : /\ ToSet(ob[p].next) \subseteq ToSet(obj[p].next)
                    /\ ToSet(obj[p].next) \cap lv \subseteq ToSet(ob[p].next)
  <2> SUFFICES ASSUME NEW p \in lv, NEW q \in ToSet(obj[p].next), q \in lv
               PROVE  q \in ToSet(ob[p].next)
    BY <1>6, <1>8 DEF Successors
  <2>1. obj[q].name # obj[o].name
    BY <1>7, <1>8 DEF GraphInv, Sound, UniqueNames
  <2> QED
    BY <1>6, <1>8, <2>1 DEF Successors
<1>10. \A i \in 1 .. n - 1 : i + 1 \in 2 .. n /\ i + 1 \in 1 .. n /\ new[i] = st[i + 1]
                             /\ new[i].obj \in lv
  BY <1>3, <1>4, <1>5, <1>8 DEF Children
<1>11. \A i \in 1 .. n : st[i].obj \in live /\ NamesIn(ob, st[i].todo) = NamesIn(obj, st[i].todo)
  <2> SUFFICES ASSUME NEW i \in 1 .. n
               PROVE  st[i].obj \in live /\ NamesIn(ob, st[i].todo) = NamesIn(obj, st[i].todo)
    OBVIOUS
  <2>1. st[i] \in Frames(Objs)
    BY <1>3, <1>8
  <2>3. st[i].todo \in Seq(Objs)
    BY <2>1 DEF Frames
  <2>2. ToSet(st[i].todo) \subseteq Objs
    BY <2>3, ToSetIs
  <2> QED
    BY <1>3, <1>6, <1>8, <2>2 DEF Children, NamesIn
<1>12. ASSUME NEW k \in lv, NEW p \in lv
       PROVE  ob[k].name \in NamesIn(ob, ob[p].next) <=> obj[k].name \in NamesIn(obj, obj[p].next)
  <2>1. k \in Objs /\ p \in Objs /\ ob[k].name = obj[k].name /\ obj[k].name # obj[o].name
        /\ ToSet(obj[p].next) \subseteq Objs
    BY <1>6, <1>7, <1>8, GraphTypes DEF GraphInv, Sound, UniqueNames, Successors
  <2>2. NamesIn(ob, ob[p].next) = {obj[q].name : q \in {r \in Successors(p) : obj[r].name # obj[o].name}}
    BY <1>6, <1>8, <2>1 DEF NamesIn, Successors
  <2> QED
    BY <2>1, <2>2 DEF NamesIn, Successors
<1>13. \A k \in live : ob[k].name = obj[k].name
  BY <1>6, GraphTypes
<1>14. Children(new, lv, ob)
  <2>1. ASSUME NEW i \in 1 .. n - 1
        PROVE  /\ new[i].obj \in lv
               /\ \A k \in lv : ob[k].name \in NamesIn(ob, new[i].todo)
                                => ob[k].name \in NamesIn(ob, ob[new[i].obj].next)
    <3>1. \A k \in live : obj[k].name \in NamesIn(obj, new[i].todo)
                          => obj[k].name \in NamesIn(obj, obj[new[i].obj].next)
      BY <1>3, <1>8, <1>10 DEF Children
    <3>2. NamesIn(ob, new[i].todo) = NamesIn(obj, new[i].todo) /\ new[i].obj \in lv
      BY <1>10, <1>11
    <3> QED
      BY <1>8, <1>12, <1>13, <3>1, <3>2
  <2>2. ASSUME NEW i \in 1 .. (n - 1) - 1
        PROVE  /\ ob[new[i].obj].name \in NamesIn(ob, ob[new[i + 1].obj].next)
               /\ \A p \in lv : ob[new[i].obj].name \in NamesIn(ob, ob[p].next)
                                => p = new[i + 1].obj
    <3>1. i \in 1 .. n - 1 /\ i + 1 \in 1 .. n - 1
      BY <1>4
    <3>2. /\ obj[new[i].obj].name \in NamesIn(obj, obj[new[i + 1].obj].next)
          /\ \A p \in live : obj[new[i].obj].name \in NamesIn(obj, obj[p].next)
                              => p = new[i + 1].obj
      BY <1>3, <1>8, <1>10, <3>1 DEF Children
    <3>3. new[i].obj \in lv /\ new[i + 1].obj \in lv
      BY <1>10, <3>1
    <3> QED
      BY <1>8, <1>12, <3>2, <3>3
  <2> QED
    BY <1>4, <2>1, <2>2 DEF Children
<1>15. Again(new, ob)
  <2> SUFFICES ASSUME NEW i \in 1 .. n - 1, NEW j \in 1 .. n - 1, i < j, new[i].obj = new[j].obj
               PROVE  \/ ob[new[j - 1].obj].name \in NamesIn(ob, new[i].todo)
                      \/ i > 1 /\ new[i - 1].obj = new[j - 1].obj
    BY <1>4 DEF Again
  <2>1. i + 1 \in 1 .. n /\ j + 1 \in 1 .. n /\ i + 1 < j + 1 /\ j - 1 \in 1 .. n - 1
        /\ (i + 1) - 1 = i /\ (j + 1) - 1 = j /\ (j - 1) + 1 = j /\ j \in 2 .. n
    BY <1>4
  <2>2. new[i] = st[i + 1] /\ new[j] = st[j + 1] /\ new[j - 1] = st[j]
    BY <1>10, <2>1
  <2>3. \/ obj[st[j].obj].name \in NamesIn(obj, st[i + 1].todo)
        \/ st[i].obj = st[j].obj
    BY <1>3, <1>8, <2>1, <2>2 DEF Again
  <2>6. /\ NamesIn(ob, st[i + 1].todo) = NamesIn(obj, st[i + 1].todo)
        /\ ob[st[j].obj].name = obj[st[j].obj].name
    BY <1>11, <1>13, <2>1
  <2>4. CASE i = 1
    <3>1. st[i].obj # st[j].obj
      BY <1>5, <1>7, <2>1, <2>4
    <3> QED
      BY <2>2, <2>3, <2>6, <3>1
  <2>5. CASE i # 1
    <3>1. i > 1 /\ i - 1 \in 1 .. n - 1 /\ (i - 1) + 1 = i
      BY <1>4, <2>5
    <3>2. new[i - 1] = st[i]
      BY <1>10, <3>1
    <3> QED
      BY <2>2, <2>3, <2>6, <3>1, <3>2
  <2> QED
    BY <2>4, <2>5
<1>16. Lost(new, lv, ob, before)
  <2>1. new[n - 1].obj = before.root
    <3>1. n - 1 \in 1 .. n - 1 /\ (n - 1) + 1 = n
      BY <1>4
    <3> QED
      BY <1>3, <1>8, <1>10, <3>1 DEF Lost
  <2>2. \A p \in lv : ToSet(before.obj[p].next) \cap lv \subseteq ToSet(ob[p].next)
    BY <1>3, <1>8, <1>9 DEF Lost
  <2>3. ASSUME NEW x \in before.live \ (lv \cup {before.root}), NEW p \in lv,
               x \in ToSet(before.obj[p].next)
        PROVE  \E i \in 1 .. n - 1 : new[i].obj = p
    <3>1. CASE x = o
      <4>1. x \in ToSet(obj[p].next) /\ p \in live
        BY <1>3, <1>7, <1>8, <2>3, <3>1 DEF Lost
      <4>2. 1 \in 1 .. Len(st) - 1 /\ 1 \in 1 .. n - 1
        BY <1>4, <1>8
      <4>3. p = st[1 + 1].obj
        BY <1>3, <1>7, <3>1, <4>1, <4>2 DEF Children, NamesIn
      <4> QED
        BY <1>10, <4>2, <4>3
    <3>2. CASE x # o
      <4>1. x \in before.live \ (live \cup {before.root}) /\ p \in live /\ p # o
        BY <1>8, <2>3, <3>2
      <4>2. PICK i \in 1 .. n : st[i].obj = p
        BY <1>3, <1>8, <2>3, <4>1 DEF Lost
      <4>3. i # 1
        BY <1>7, <4>1, <4>2
      <4>4. i - 1 \in 1 .. n - 1 /\ (i - 1) + 1 = i
        BY <1>4, <4>3
      <4> QED
        BY <1>10, <4>2, <4>4
    <3> QED
      BY <3>1, <3>2
  <2> QED
    BY <1>4, <2>1, <2>2, <2>3 DEF Lost
<1> QED
  BY <1>1, <1>14, <1>15, <1>16 DEF RemovalInv

LEMMA NextRemoval == Base /\ RemovalInv /\ [Next]_vars => RemovalInv'
<1> SUFFICES ASSUME Base, RemovalInv, [Next]_vars PROVE RemovalInv'
  OBVIOUS
<1> USE DEF Base
<1>1. CASE mode' # "delete"
  BY <1>1 DEF RemovalInv
<1>2. CASE UNCHANGED <<obj, live, stack, before, mode>>
  BY <1>2 DEF RemovalInv
<1>3. CASE \E o \in live : RemoveState(o)
  BY <1>3, RemoveBegins
<1>4. CASE DeleteSkip
  BY <1>4, SkipRemoval
<1>5. CASE DeleteDescend
  BY <1>1, <1>5, DescendRemoval
<1>6. CASE DeleteErase
  <2>1. CASE Len(stack) = 1
    BY <1>1, <1>6, <2>1 DEF DeleteErase, CallEnds
  <2> QED
    BY <1>6, <2>1, EraseRemoval
<1>7. CASE DeleteThrows
  BY <1>1, <1>7 DEF DeleteThrows, CallEnds
<1>8. CASE PruneSkip \/ PruneDescend \/ PruneErase \/ PruneReturn
  BY <1>1, <1>8 DEF PruneSkip, PruneDescend, PruneErase, PruneReturn, CallEnds
<1>9. CASE SaveAndLoad \/ Execute
  BY <1>1, <1>9 DEF SaveAndLoad, Execute, SetInput, AddExpectedInput, RemoveExpectedInput,
        SetMachineState, Reset, Run, RunLoop, RunEnds, DebugStep, Becomes, Idle
<1>10. CASE Prune \/ (\E n \in Names, f \in BOOLEAN : AddState(n, f))
            \/ (\E o \in live : SetStartState(o))
            \/ \E p, q \in live, c \in Inputs :
                  \/ AddTransition(p, q, c) \/ RemoveTransition(p, q, c)
                  \/ \E d \in Inputs : UpdateTransition(p, q, c, d)
  <2>1. CASE Edited /\ Idle
    BY <1>1, <2>1 DEF Edited, Idle
  <2>2. CASE Prune
    BY <1>1, <2>2 DEF Prune
  <2>3. CASE \E n \in Names, f \in BOOLEAN : AddState(n, f)
    BY <2>1, <2>3 DEF AddState
  <2>4. CASE \E o \in live : SetStartState(o)
    BY <2>1, <2>4 DEF SetStartState
  <2>5. CASE \E p, q \in live, c \in Inputs :
                \/ AddTransition(p, q, c) \/ RemoveTransition(p, q, c)
                \/ \E d \in Inputs : UpdateTransition(p, q, c, d)
    BY <2>1, <2>5 DEF AddTransition, RemoveTransition, UpdateTransition
  <2> QED
    BY <1>10, <2>2, <2>3, <2>4, <2>5
<1>11. CASE UNCHANGED vars
  BY <1>2, <1>11 DEF vars, graph, calls
<1> QED
  BY <1>3, <1>4, <1>5, <1>6, <1>7, <1>8, <1>9, <1>10, <1>11 DEF Next, Edit, Recursion

\* A removal that comes to its end has erased the state it was called for, and
\* whoever has lost a state.
LEMMA RemovalEnds ==
  ASSUME Base, RemovalInv, [Next]_vars, mode = "delete", mode' = "idle",
         before.root \notin live',
         NEW o \in before.live \ (live' \cup {before.root}), NEW p \in before.live,
         o \in ToSet(before.obj[p].next)
  PROVE  p \notin live'
<1> USE DEF Base
<1>1. /\ Children(stack, live, obj) /\ Lost(stack, live, obj, before)
  BY DEF RemovalInv
<1>2. stack \in Seq(Frames(Objs)) /\ stack # <<>>
  BY DEF CallInv, InCall
<1>3. Top = stack[1] /\ Len(stack) \in Nat /\ Len(stack) >= 1
  BY <1>2, StackIs
<1>4. before.root \in live
  <2>1. Len(stack) \in 1 .. Len(stack)
    BY <1>3
  <2> QED
    BY <1>1, <2>1 DEF Children, Lost
<1>5. CASE DeleteErase
  <2>1. Len(stack) = 1 /\ live' = live \ {Top.obj}
    BY <1>5 DEF DeleteErase
  <2>2. Top.obj = before.root
    BY <1>1, <1>3, <2>1 DEF Lost
  <2> SUFFICES ASSUME p \in live' PROVE FALSE
    OBVIOUS
  <2>3. o \notin live /\ p \in live
    BY <2>1, <2>2
  <2>4. PICK i \in 1 .. Len(stack) : stack[i].obj = p
    BY <1>1, <2>3 DEF Lost
  <2>5. i = 1
    BY <2>1, <2>4
  <2> QED
    BY <1>3, <2>1, <2>4, <2>5
<1>6. CASE ~ DeleteErase
  <2>1. live' = live
    BY <1>6 DEF Next, Edit, AddState, RemoveState, SetStartState, AddTransition,
          RemoveTransition, UpdateTransition, Prune, Recursion, DeleteSkip, DeleteThrows,
          DeleteDescend, PruneSkip, PruneDescend, PruneErase, PruneReturn, SaveAndLoad, Execute,
          SetInput, AddExpectedInput, RemoveExpectedInput, SetMachineState, Reset, Run, RunLoop,
          RunEnds, DebugStep, Idle, vars, graph
  <2> QED
    BY <1>4, <2>1
<1> QED
  BY <1>5, <1>6

(* A removal that succeeds takes, besides the state named, only states that no state left in  *)
(* the automaton led to, however the removal recurs over cycles (fsm.cpp:1283-1316).          *)
THEOREM OrphansOnlyAlways == Spec => OrphansOnly
<1>1. Init => RemovalInv
  BY DEF Init, RemovalInv
<1>2. Base /\ RemovalInv /\ [Next]_vars => RemovalInv'
  BY NextRemoval
<1>3. Base /\ RemovalInv /\ [Next]_vars =>
        [mode = "delete" /\ mode' = "idle" /\ before.root \notin live' =>
           \A o \in before.live \ (live' \cup {before.root}) :
              \A p \in before.live :
                 o \in ToSet(before.obj[p].next) => p \notin live']_vars
  BY RemovalEnds
<1> QED
  BY <1>1, <1>2, <1>3, BaseAlways, PTL DEF Spec, OrphansOnly

=============================================================================
