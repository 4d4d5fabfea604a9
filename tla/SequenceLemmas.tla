--------------------------- MODULE SequenceLemmas ---------------------------
(***************************************************************************)
(* What the proofs need to know of sequences that are built piece by piece *)
(* of recursive functions.  Induction over the numbers is the principle of *)
(* the least counterexample, for a set of numbers (WFMin), so that no      *)
(* operator has to be instantiated.                                        *)
(***************************************************************************)
EXTENDS Integers, Sequences, Selections, SequenceTheorems, WellFoundedInduction, TLAPS

\* A set of numbers with zero and every successor has them all.
LEMMA EveryNumber ==
    ASSUME NEW T \in SUBSET Nat, 0 \in T, \A n \in T : n + 1 \in T
    PROVE  T = Nat
<1> SUFFICES ASSUME Nat \ T # {} PROVE FALSE
  OBVIOUS
<1> DEFINE R == OpToRel(<, Nat)
           U == Nat \ T
<1>1. IsWellFoundedOn(R, Nat)
  BY NatLessThanWellFounded
<1>2. \A a, b \in Nat : a < b => <<a, b>> \in R
  BY DEF OpToRel
<1> HIDE DEF R
<1>3. PICK n \in U : \A m \in U : ~ (<<m, n>> \in R)
  <2>1. U \subseteq Nat /\ U # {}
    OBVIOUS
  <2> HIDE DEF U
  <2> QED BY <1>1, <2>1, WFMin
<1>4. n \in Nat /\ n # 0 /\ n - 1 \in Nat /\ n - 1 < n
  OBVIOUS
<1>5. n - 1 \in T
  BY <1>2, <1>3, <1>4
<1>6. (n - 1) + 1 \in T /\ (n - 1) + 1 = n
  BY <1>4, <1>5
<1> QED BY <1>6

\* A set of numbers has a least one.
LEMMA LeastNumber ==
    ASSUME NEW T \in SUBSET Nat, T # {}
    PROVE  \E n \in T : \A m \in T : n <= m
<1> DEFINE R == OpToRel(<, Nat)
<1>1. IsWellFoundedOn(R, Nat)
  BY NatLessThanWellFounded
<1>2. \A a, b \in Nat : a < b => <<a, b>> \in R
  BY DEF OpToRel
<1> HIDE DEF R
<1>3. PICK n \in T : \A m \in T : ~ (<<m, n>> \in R)
  <2>1. T \subseteq Nat /\ T # {}
    OBVIOUS
  <2> QED BY <1>1, <2>1, WFMin
<1>4. n \in Nat /\ \A m \in T : m \in Nat /\ ~ (m < n)
  BY <1>2, <1>3
<1>5. \A m \in T : n <= m
  BY <1>4
<1> QED BY <1>5

-----------------------------------------------------------------------------
(* Flattened sequences *)

\* The flattened prefixes of a sequence of sequences.
Flattened(seqs, f, n) ==
    f = [i \in 1 .. n |-> IF i = 1 THEN seqs[i] ELSE f[i - 1] \o seqs[i]]

\* There is such a function for every number of prefixes.
LEMMA FlattenedExists ==
    ASSUME NEW seqs, NEW N \in Nat
    PROVE  \E f : Flattened(seqs, f, N)
<1> DEFINE T == {n \in Nat : \E f : Flattened(seqs, f, n)}
<1>1. 0 \in T
  <2>1. Flattened(seqs, <<>>, 0)
    BY DEF Flattened
  <2> QED BY <2>1
<1>2. ASSUME NEW n \in T PROVE n + 1 \in T
  <2>1. PICK f : Flattened(seqs, f, n)
    OBVIOUS
  <2> DEFINE new == IF n + 1 = 1 THEN seqs[n + 1] ELSE f[n] \o seqs[n + 1]
             g == [i \in 1 .. n + 1 |-> IF i = n + 1 THEN new ELSE f[i]]
  <2>2. n \in Nat
    OBVIOUS
  <2>3. ASSUME NEW i \in 1 .. n + 1
        PROVE  g[i] = IF i = 1 THEN seqs[i] ELSE g[i - 1] \o seqs[i]
    <3>1. CASE i = n + 1
      <4>1. g[i] = new
        BY <3>1
      <4>2. n # 0 => g[i - 1] = f[n]
        BY <2>2, <3>1
      <4> HIDE DEF g
      <4> QED BY <2>2, <3>1, <4>1, <4>2
    <3>2. CASE i # n + 1
      <4>1. i \in 1 .. n /\ g[i] = f[i]
        BY <2>2, <3>2
      <4>2. f[i] = IF i = 1 THEN seqs[i] ELSE f[i - 1] \o seqs[i]
        BY <2>1, <4>1 DEF Flattened
      <4>3. i # 1 => g[i - 1] = f[i - 1]
        BY <2>2, <4>1
      <4> HIDE DEF g
      <4> QED BY <4>1, <4>2, <4>3
    <3> QED BY <3>1, <3>2
  <2>4. g = [i \in 1 .. n + 1 |-> g[i]]
    OBVIOUS
  <2> HIDE DEF g
  <2>5. Flattened(seqs, g, n + 1)
    BY <2>3, <2>4 DEF Flattened
  <2> QED BY <2>2, <2>5
<1>3. T \in SUBSET Nat
  OBVIOUS
<1> HIDE DEF T
<1>4. N \in T
  BY <1>1, <1>2, <1>3, EveryNumber
<1> QED BY <1>4 DEF T

\* FlattenSeq is the last of them.
LEMMA FlattenUnfolds ==
    ASSUME NEW seqs, Len(seqs) \in Nat, Len(seqs) # 0
    PROVE  \E f : Flattened(seqs, f, Len(seqs)) /\ FlattenSeq(seqs) = f[Len(seqs)]
<1> DEFINE f == CHOOSE g : Flattened(seqs, g, Len(seqs))
<1>1. FlattenSeq(seqs) = f[Len(seqs)]
  BY DEF FlattenSeq, Flattened
<1>2. Flattened(seqs, f, Len(seqs))
  BY FlattenedExists
<1> QED BY <1>1, <1>2

\* The part is in the whole, behind the first off elements.
Placed(whole, part, off) ==
    \A m \in 1 .. Len(part) : off + m \in 1 .. Len(whole) /\ whole[off + m] = part[m]

\* What a whole made of the first n parts has to do with them: its elements are theirs,
\* each part is in it in one piece, and every element is in such a piece.
MadeOf(whole, seqs, n, S) ==
    /\ whole \in Seq(S)
    /\ \A i \in 1 .. n : \E off \in Nat : Placed(whole, seqs[i], off)
    /\ \A k \in 1 .. Len(whole) : \E i \in 1 .. n : \E off \in Nat :
          Placed(whole, seqs[i], off) /\ k - off \in 1 .. Len(seqs[i])

\* A flattened sequence is made of its parts.
LEMMA FlattenSpreads ==
    ASSUME NEW S, NEW seqs \in Seq(Seq(S))
    PROVE  MadeOf(FlattenSeq(seqs), seqs, Len(seqs), S)
<1>1. Len(seqs) \in Nat /\ \A i \in 1 .. Len(seqs) : seqs[i] \in Seq(S)
  OBVIOUS
<1>2. CASE Len(seqs) = 0
  <2>1. seqs = <<>> /\ FlattenSeq(seqs) = <<>>
    BY <1>2 DEF FlattenSeq
  <2>2. <<>> \in Seq(S) /\ Len(<<>>) = 0
    OBVIOUS
  <2>3. \A i \in 1 .. 0 : FALSE
    OBVIOUS
  <2>4. MadeOf(<<>>, <<>>, 0, S)
    BY <2>2, <2>3 DEF MadeOf
  <2> QED BY <1>2, <2>1, <2>4
<1>3. CASE Len(seqs) # 0
  <2>1. PICK f : Flattened(seqs, f, Len(seqs)) /\ FlattenSeq(seqs) = f[Len(seqs)]
    BY <1>1, <1>3, FlattenUnfolds
  <2> DEFINE N == Len(seqs)
             T == {n \in Nat : n + 1 <= N => MadeOf(f[n + 1], seqs, n + 1, S)}
  <2>2. /\ f[1] = seqs[1]
        /\ \A n \in Nat : n # 0 /\ n + 1 <= N => f[n + 1] = f[n] \o seqs[n + 1]
    <3>1. \A i \in 1 .. N : f[i] = IF i = 1 THEN seqs[i] ELSE f[i - 1] \o seqs[i]
      BY <2>1 DEF Flattened
    <3>2. 1 \in 1 .. N
      BY <1>1, <1>3
    <3>3. ASSUME NEW n \in Nat, n # 0, n + 1 <= N PROVE f[n + 1] = f[n] \o seqs[n + 1]
      <4>1. n + 1 \in 1 .. N /\ n + 1 # 1 /\ (n + 1) - 1 = n
        BY <1>1, <3>3
      <4> HIDE DEF N
      <4> QED BY <3>1, <4>1
    <3> QED BY <3>1, <3>2, <3>3
  <2>3. 0 \in T
    <3>1. seqs[1] \in Seq(S)
      BY <1>1, <1>3
    <3>2. Placed(seqs[1], seqs[1], 0)
      BY <3>1 DEF Placed
    <3>3. \A k \in 1 .. Len(seqs[1]) : k - 0 \in 1 .. Len(seqs[1])
      BY <3>1
    <3>4. MadeOf(seqs[1], seqs, 1, S)
      BY <3>1, <3>2, <3>3 DEF MadeOf
    <3> QED BY <2>2, <3>4
  <2>4. ASSUME NEW n \in T PROVE n + 1 \in T
    <3> SUFFICES ASSUME (n + 1) + 1 <= N
                 PROVE  MadeOf(f[(n + 1) + 1], seqs, (n + 1) + 1, S)
      OBVIOUS
    <3> DEFINE k == n + 1
               old == f[k]
               part == seqs[k + 1]
               whole == f[k + 1]
    <3>1. k \in Nat /\ k # 0 /\ k + 1 <= N /\ MadeOf(old, seqs, k, S) /\ k <= N
      BY <1>1
    <3>2. whole = old \o part
      BY <2>2, <3>1
    <3>3. old \in Seq(S) /\ part \in Seq(S)
      BY <1>1, <3>1 DEF MadeOf
    <3> HIDE DEF k, old, part, whole
    <3>4. /\ whole \in Seq(S) /\ Len(whole) = Len(old) + Len(part)
          /\ \A i \in 1 .. Len(old) : whole[i] = old[i]
          /\ \A i \in 1 .. Len(part) : whole[Len(old) + i] = part[i]
          /\ Len(old) \in Nat /\ Len(part) \in Nat
      BY <3>2, <3>3
    <3>5. ASSUME NEW p, NEW off \in Nat, Placed(old, p, off) PROVE Placed(whole, p, off)
      <4> SUFFICES ASSUME NEW m \in 1 .. Len(p)
                   PROVE  off + m \in 1 .. Len(whole) /\ whole[off + m] = p[m]
        BY DEF Placed
      <4>1. off + m \in 1 .. Len(old) /\ old[off + m] = p[m]
        BY <3>5 DEF Placed
      <4> QED BY <3>4, <4>1
    <3>6. Placed(whole, part, Len(old))
      BY <3>4 DEF Placed
    <3>7. \A i \in 1 .. k + 1 : i \in 1 .. k \/ i = k + 1
      BY <3>1
    <3>8. \A i \in 1 .. k + 1 : \E off \in Nat : Placed(whole, seqs[i], off)
      <4> TAKE i \in 1 .. k + 1
      <4>1. CASE i \in 1 .. k
        <5>1. PICK off \in Nat : Placed(old, seqs[i], off)
          BY <3>1, <4>1 DEF MadeOf
        <5> QED BY <3>5, <5>1
      <4>2. CASE i = k + 1
        BY <3>4, <3>6, <4>2 DEF part
      <4> QED BY <3>7, <4>1, <4>2
    <3>9. ASSUME NEW j \in 1 .. Len(whole)
          PROVE  \E i \in 1 .. k + 1 : \E off \in Nat :
                     Placed(whole, seqs[i], off) /\ j - off \in 1 .. Len(seqs[i])
      <4>1. CASE j \in 1 .. Len(old)
        <5>1. PICK i \in 1 .. k : \E off \in Nat :
                     Placed(old, seqs[i], off) /\ j - off \in 1 .. Len(seqs[i])
          BY <3>1, <4>1 DEF MadeOf
        <5>2. i \in 1 .. k + 1
          BY <3>1
        <5> QED BY <3>5, <5>1, <5>2
      <4>2. CASE j \notin 1 .. Len(old)
        <5>1. j - Len(old) \in 1 .. Len(part)
          BY <3>4, <4>2
        <5>2. k + 1 \in 1 .. k + 1
          BY <3>1
        <5> QED BY <3>4, <3>6, <5>1, <5>2 DEF part
      <4> QED BY <4>1, <4>2
    <3>10. MadeOf(whole, seqs, k + 1, S)
      BY <3>4, <3>8, <3>9 DEF MadeOf
    <3> QED BY <3>10 DEF whole, k
  <2>5. T \in SUBSET Nat
    OBVIOUS
  <2> HIDE DEF T
  <2>6. T = Nat
    BY <2>3, <2>4, <2>5, EveryNumber
  <2>7. MadeOf(f[N], seqs, N, S)
    <3>1. N - 1 \in Nat /\ (N - 1) + 1 = N /\ (N - 1) + 1 <= N
      BY <1>1, <1>3
    <3>2. N - 1 \in T
      BY <2>6, <3>1
    <3> HIDE DEF N
    <3>3. MadeOf(f[(N - 1) + 1], seqs, (N - 1) + 1, S)
      BY <3>1, <3>2 DEF T
    <3> QED BY <3>1, <3>3
  <2> QED BY <2>1, <2>7
<1> QED BY <1>2, <1>3

\* A sequence of sequences given part by part.
LEMMA FlattenParts ==
    ASSUME NEW S, NEW n \in Nat, NEW parts, parts = [i \in 1 .. n |-> parts[i]],
           \A i \in 1 .. n : parts[i] \in Seq(S)
    PROVE  /\ MadeOf(FlattenSeq(parts), parts, n, S)
           /\ FlattenSeq(parts) \in Seq(S)
<1>1. parts \in [1 .. n -> Seq(S)]
  OBVIOUS
<1>2. parts \in Seq(Seq(S)) /\ Len(parts) = n
  BY <1>1
<1>3. MadeOf(FlattenSeq(parts), parts, n, S)
  BY <1>2, FlattenSpreads
<1> QED BY <1>3 DEF MadeOf

\* A sequence over a set is one over a greater set.
LEMMA Widen ==
    ASSUME NEW A, NEW B, A \subseteq B, NEW s \in Seq(A)
    PROVE  s \in Seq(B)
<1>1. s \in [1 .. Len(s) -> A] /\ Len(s) \in Nat
  OBVIOUS
<1>2. s \in [1 .. Len(s) -> B]
  BY <1>1
<1> QED BY <1>1, <1>2

\* The elements of a concatenation are those of its parts.
LEMMA ConcatHas ==
    ASSUME NEW S, NEW s \in Seq(S), NEW t \in Seq(S)
    PROVE  /\ s \o t \in Seq(S)
           /\ \A i \in DOMAIN s : i \in DOMAIN (s \o t) /\ (s \o t)[i] = s[i]
           /\ \A i \in DOMAIN t : Len(s) + i \in DOMAIN (s \o t) /\ (s \o t)[Len(s) + i] = t[i]
           /\ \A k \in DOMAIN (s \o t) : k \notin DOMAIN s =>
                  k - Len(s) \in DOMAIN t /\ (s \o t)[k] = t[k - Len(s)]
<1>1. /\ DOMAIN s = 1 .. Len(s) /\ Len(s) \in Nat
      /\ DOMAIN t = 1 .. Len(t) /\ Len(t) \in Nat
  OBVIOUS
<1>2. /\ s \o t \in Seq(S) /\ Len(s \o t) = Len(s) + Len(t)
      /\ DOMAIN (s \o t) = 1 .. Len(s) + Len(t)
      /\ \A i \in 1 .. Len(s) + Len(t) :
            (s \o t)[i] = IF i <= Len(s) THEN s[i] ELSE t[i - Len(s)]
  OBVIOUS
<1> DEFINE whole == s \o t
<1> HIDE DEF whole
<1>3. /\ \A i \in DOMAIN s : i \in 1 .. Len(s) + Len(t) /\ i <= Len(s)
      /\ \A i \in DOMAIN t : /\ Len(s) + i \in 1 .. Len(s) + Len(t)
                             /\ ~ (Len(s) + i <= Len(s)) /\ (Len(s) + i) - Len(s) = i
      /\ \A k \in 1 .. Len(s) + Len(t) : k \notin DOMAIN s =>
             ~ (k <= Len(s)) /\ k - Len(s) \in DOMAIN t
  BY <1>1
<1> QED BY <1>2, <1>3

\* A set of sequences with the empty one and every one that is longer by an element has
\* them all.
LEMMA EverySequence ==
    ASSUME NEW E, NEW T \in SUBSET Seq(E), <<>> \in T,
           \A s \in T, e \in E : Append(s, e) \in T
    PROVE  T = Seq(E)
<1> DEFINE N == {n \in Nat : \A s \in Seq(E) : Len(s) = n => s \in T}
<1>1. 0 \in N
  <2>1. \A s \in Seq(E) : Len(s) = 0 => s = <<>>
    OBVIOUS
  <2> QED BY <2>1
<1>2. ASSUME NEW n \in N PROVE n + 1 \in N
  <2>1. n \in Nat /\ \A s \in Seq(E) : Len(s) = n => s \in T
    OBVIOUS
  <2>2. ASSUME NEW s \in Seq(E), Len(s) = n + 1 PROVE s \in T
    <3>1. s # <<>>
      BY <2>1, <2>2
    <3>2. PICK front \in Seq(E), last \in E : s = Append(front, last)
      BY <3>1, SequenceEmptyOrAppend
    <3>3. Len(front) = n
      BY <2>1, <2>2, <3>2, AppendProperties
    <3> QED BY <2>1, <3>2, <3>3
  <2> QED BY <2>1, <2>2
<1>3. N \in SUBSET Nat
  OBVIOUS
<1> HIDE DEF N
<1>4. N = Nat
  BY <1>1, <1>2, <1>3, EveryNumber
<1>5. \A s \in Seq(E) : Len(s) \in Nat
  OBVIOUS
<1>6. \A s \in Seq(E) : s \in T
  BY <1>4, <1>5 DEF N
<1> QED BY <1>6

LEMMA FlattenNothing == FlattenSeq(<<>>) = <<>>
BY DEF FlattenSeq

\* Two functions have the same first n values.
Alike(s, t, n) == \A i \in 1 .. n : s[i] = t[i]

\* Flattened prefixes do not depend on what follows.
LEMMA FlattenedAgree ==
    ASSUME NEW s, NEW t, NEW n \in Nat, NEW m \in Nat, n <= m,
           Alike(s, t, n),
           NEW f, NEW g, Flattened(s, f, n), Flattened(t, g, m)
    PROVE  Alike(f, g, n)
<1> DEFINE T == {k \in Nat : k + 1 <= n => f[k + 1] = g[k + 1]}
<1>0. /\ \A i \in 1 .. n : f[i] = IF i = 1 THEN s[i] ELSE f[i - 1] \o s[i]
      /\ \A i \in 1 .. m : g[i] = IF i = 1 THEN t[i] ELSE g[i - 1] \o t[i]
      /\ \A i \in 1 .. n : s[i] = t[i]
  BY DEF Flattened, Alike
<1>1. 0 \in T
  <2> SUFFICES ASSUME 1 <= n PROVE f[1] = g[1]
    OBVIOUS
  <2>1. 1 \in 1 .. n /\ 1 \in 1 .. m
    OBVIOUS
  <2> QED BY <1>0, <2>1
<1>2. ASSUME NEW k \in T PROVE k + 1 \in T
  <2> SUFFICES ASSUME (k + 1) + 1 <= n PROVE f[(k + 1) + 1] = g[(k + 1) + 1]
    OBVIOUS
  <2>1. k + 1 <= n /\ (k + 1) + 1 \in 1 .. n /\ (k + 1) + 1 \in 1 .. m
        /\ (k + 1) + 1 # 1 /\ ((k + 1) + 1) - 1 = k + 1
    OBVIOUS
  <2>2. f[k + 1] = g[k + 1]
    BY <2>1
  <2> QED BY <1>0, <2>1, <2>2
<1>3. T \in SUBSET Nat
  OBVIOUS
<1> HIDE DEF T
<1>4. T = Nat
  BY <1>1, <1>2, <1>3, EveryNumber
<1> SUFFICES ASSUME NEW i \in 1 .. n PROVE f[i] = g[i]
  BY DEF Alike
<1>5. i - 1 \in Nat /\ (i - 1) + 1 = i /\ (i - 1) + 1 <= n
  OBVIOUS
<1>6. i - 1 \in T
  BY <1>4, <1>5
<1> QED BY <1>5, <1>6 DEF T

\* One more piece.
LEMMA FlattenAppend ==
    ASSUME NEW S, NEW seqs \in Seq(Seq(S)), NEW piece \in Seq(S)
    PROVE  /\ FlattenSeq(Append(seqs, piece)) = FlattenSeq(seqs) \o piece
           /\ FlattenSeq(seqs) \in Seq(S)
<1>1. FlattenSeq(seqs) \in Seq(S)
  BY FlattenSpreads DEF MadeOf
<1>a. PICK n \in Nat : n = Len(seqs)
  OBVIOUS
<1>b. PICK more : more = Append(seqs, piece)
  OBVIOUS
<1>2. /\ n = Len(seqs) /\ more = Append(seqs, piece)
      /\ Len(more) = n + 1 /\ more[n + 1] = piece
      /\ \A i \in 1 .. n : seqs[i] = more[i]
      /\ n = 0 => seqs = <<>>
  BY <1>a, <1>b, AppendProperties, EmptySeq
<1>3. PICK g : Flattened(more, g, n + 1) /\ FlattenSeq(more) = g[n + 1]
  <2>1. Len(more) \in Nat /\ Len(more) # 0
    BY <1>2
  <2> QED BY <1>2, <2>1, FlattenUnfolds
<1>4. g[n + 1] = IF n + 1 = 1 THEN piece ELSE g[n] \o piece
  <2>1. n + 1 \in 1 .. n + 1 /\ (n + 1) - 1 = n
    OBVIOUS
  <2>2. \A i \in 1 .. n + 1 : g[i] = IF i = 1 THEN more[i] ELSE g[i - 1] \o more[i]
    BY <1>3 DEF Flattened
  <2> QED BY <1>2, <2>1, <2>2
<1>5. CASE n = 0
  <2>1. FlattenSeq(more) = piece
    BY <1>3, <1>4, <1>5
  <2>2. FlattenSeq(seqs) = <<>>
    BY <1>2, <1>5, FlattenNothing
  <2>3. <<>> \o piece = piece
    OBVIOUS
  <2> QED BY <1>1, <1>2, <2>1, <2>2, <2>3
<1>6. CASE n # 0
  <2>1. PICK f : Flattened(seqs, f, n) /\ FlattenSeq(seqs) = f[n]
    BY <1>2, <1>6, FlattenUnfolds
  <2>2. Alike(f, g, n)
    <3>1. n <= n + 1 /\ n + 1 \in Nat
      OBVIOUS
    <3>2. Flattened(seqs, f, n) /\ Flattened(more, g, n + 1)
      BY <1>3, <2>1
    <3>3. Alike(seqs, more, n)
      BY <1>2 DEF Alike
    <3> QED BY <3>1, <3>2, <3>3, FlattenedAgree
  <2>3. n \in 1 .. n /\ n + 1 # 1
    BY <1>6
  <2>4. f[n] = g[n]
    BY <2>2, <2>3 DEF Alike
  <2>5. FlattenSeq(more) = FlattenSeq(seqs) \o piece
    BY <1>3, <1>4, <2>1, <2>3, <2>4
  <2> QED BY <1>1, <1>2, <2>5
<1> QED BY <1>5, <1>6

LEMMA FlattenOne ==
    ASSUME NEW S, NEW piece \in Seq(S)
    PROVE  FlattenSeq(<<piece>>) = piece
<1>1. <<>> \in Seq(Seq(S)) /\ <<piece>> = Append(<<>>, piece) /\ <<>> \o piece = piece
  OBVIOUS
<1> QED BY <1>1, FlattenAppend, FlattenNothing

-----------------------------------------------------------------------------
(* Sequences made element by element *)

\* What the elements of a sequence contribute, one after the other.
Contributed(s, contribution) == FlattenSeq([i \in DOMAIN s |-> contribution[s[i]]])

\* What each element of a set contributes is a sequence.
Contributes(c, E, S) == c \in [E -> Seq(S)]

\* The contributions of a sequence that grows at its end.
LEMMA ContributedAppend ==
    ASSUME NEW E, NEW S, NEW c, Contributes(c, E, S), NEW s \in Seq(E), NEW e \in E
    PROVE  /\ Contributed(s, c) \in Seq(S)
           /\ Contributed(Append(s, e), c) = Contributed(s, c) \o c[e]
<1> DEFINE parts == [i \in DOMAIN s |-> c[s[i]]]
           more == [i \in DOMAIN Append(s, e) |-> c[Append(s, e)[i]]]
<1>1. /\ Len(s) \in Nat /\ DOMAIN s = 1 .. Len(s)
      /\ DOMAIN Append(s, e) = 1 .. Len(s) + 1
      /\ \A i \in 1 .. Len(s) : s[i] \in E /\ Append(s, e)[i] = s[i]
      /\ Append(s, e)[Len(s) + 1] = e /\ c[e] \in Seq(S)
      /\ \A x \in E : c[x] \in Seq(S)
  BY DEF Contributes
<1>2. parts \in Seq(Seq(S)) /\ Len(parts) = Len(s) /\ DOMAIN parts = 1 .. Len(s)
  <2>1. parts \in [1 .. Len(s) -> Seq(S)]
    BY <1>1
  <2> QED BY <1>1, <2>1
<1>3. more = Append(parts, c[e])
  <2>1. more \in [1 .. Len(s) + 1 -> Seq(S)]
    <3> SUFFICES ASSUME NEW i \in 1 .. Len(s) + 1 PROVE c[Append(s, e)[i]] \in Seq(S)
      BY <1>1
    <3>1. CASE i = Len(s) + 1
      BY <1>1, <3>1
    <3>2. CASE i # Len(s) + 1
      <4>1. i \in 1 .. Len(s)
        BY <1>1, <3>2
      <4> QED BY <1>1, <4>1
    <3> QED BY <3>1, <3>2
  <2>2. more \in Seq(Seq(S)) /\ Len(more) = Len(s) + 1
    <3> HIDE DEF more
    <3> QED BY <1>1, <2>1
  <2>3. ASSUME NEW i \in 1 .. Len(s) + 1 PROVE more[i] = Append(parts, c[e])[i]
    <3>1. CASE i = Len(s) + 1
      <4>1. more[i] = c[e]
        BY <1>1, <3>1
      <4>2. Append(parts, c[e])[i] = c[e]
        <5> HIDE DEF parts
        <5> QED BY <1>1, <1>2, <3>1, AppendProperties
      <4> QED BY <4>1, <4>2
    <3>2. CASE i # Len(s) + 1
      <4>1. i \in 1 .. Len(s)
        BY <1>1, <3>2
      <4>2. more[i] = c[s[i]] /\ parts[i] = c[s[i]]
        BY <1>1, <4>1
      <4>3. Append(parts, c[e])[i] = parts[i]
        <5> HIDE DEF parts
        <5> QED BY <1>1, <1>2, <4>1, AppendProperties
      <4> QED BY <4>2, <4>3
    <3> QED BY <3>1, <3>2
  <2> HIDE DEF more, parts
  <2>4. Append(parts, c[e]) \in Seq(Seq(S)) /\ Len(Append(parts, c[e])) = Len(s) + 1
    BY <1>1, <1>2, AppendProperties
  <2> QED BY <2>2, <2>3, <2>4, SeqEqual
<1> HIDE DEF parts
<1> QED BY <1>1, <1>2, <1>3, FlattenAppend DEF Contributed, parts

LEMMA ContributedNothing ==
    ASSUME NEW c
    PROVE  Contributed(<<>>, c) = <<>>
<1>1. [i \in DOMAIN <<>> |-> c[<<>>[i]]] = <<>>
  OBVIOUS
<1> QED BY <1>1, FlattenNothing DEF Contributed

LEMMA ContributedType ==
    ASSUME NEW E, NEW S, NEW c, Contributes(c, E, S), NEW s \in Seq(E)
    PROVE  Contributed(s, c) \in Seq(S)
<1>1. CASE s = <<>>
  <2>1. <<>> \in Seq(S)
    OBVIOUS
  <2> QED BY <1>1, <2>1, ContributedNothing
<1>2. CASE s # <<>>
  <2>1. PICK front \in Seq(E), last \in E : s = Append(front, last)
    BY <1>2, SequenceEmptyOrAppend
  <2> QED BY <2>1, ContributedAppend
<1> QED BY <1>1, <1>2

\* A sequence of one element, and two sequences one after the other.
LEMMA ContributedOne ==
    ASSUME NEW E, NEW S, NEW c, Contributes(c, E, S), NEW e \in E
    PROVE  Contributed(<<e>>, c) = c[e]
<1>1. <<>> \in Seq(E) /\ <<e>> = Append(<<>>, e) /\ c[e] \in Seq(S)
  BY DEF Contributes
<1>2. <<>> \o c[e] = c[e]
  BY <1>1, ConcatEmptySeq
<1>3. Contributed(Append(<<>>, e), c) = Contributed(<<>>, c) \o c[e]
  <2>1. \A x \in Seq(E) : Contributed(Append(x, e), c) = Contributed(x, c) \o c[e]
    BY ContributedAppend
  <2> QED BY <1>1, <2>1, Zenon
<1> QED BY <1>1, <1>2, <1>3, ContributedNothing

LEMMA ContributedConcat ==
    ASSUME NEW E, NEW S, NEW c, Contributes(c, E, S), NEW a \in Seq(E), NEW b \in Seq(E)
    PROVE  Contributed(a \o b, c) = Contributed(a, c) \o Contributed(b, c)
<1> DEFINE T == {t \in Seq(E) : Contributed(a \o t, c) = Contributed(a, c) \o Contributed(t, c)}
<1>0. Contributed(a, c) \in Seq(S)
  BY ContributedType
<1>1. <<>> \in T
  <2>1. a \o <<>> = a /\ Contributed(a, c) \o <<>> = Contributed(a, c) /\ <<>> \in Seq(E)
    BY <1>0, ConcatEmptySeq
  <2> QED BY <2>1, ContributedNothing
<1>2. ASSUME NEW t \in T, NEW e \in E PROVE Append(t, e) \in T
  <2>4. t \in Seq(E) /\ Contributed(a \o t, c) = Contributed(a, c) \o Contributed(t, c)
    OBVIOUS
  <2>6. /\ Append(t, e) \in Seq(E)
        /\ Contributed(a \o Append(t, e), c) = Contributed(a, c) \o Contributed(Append(t, e), c)
    <3> HIDE DEF T
    <3>0. c[e] \in Seq(S) /\ Contributed(t, c) \in Seq(S)
      BY <2>4, ContributedType DEF Contributes
    <3>1. a \o Append(t, e) = Append(a \o t, e) /\ a \o t \in Seq(E) /\ Append(t, e) \in Seq(E)
      BY <2>4
    <3>2. Contributed(Append(a \o t, e), c) = Contributed(a \o t, c) \o c[e]
      <4>1. \A x \in Seq(E) : Contributed(Append(x, e), c) = Contributed(x, c) \o c[e]
        BY ContributedAppend
      <4> QED BY <3>1, <4>1, Zenon
    <3>3. Contributed(Append(t, e), c) = Contributed(t, c) \o c[e]
      BY <2>4, ContributedAppend
    <3>5. (Contributed(a, c) \o Contributed(t, c)) \o c[e]
              = Contributed(a, c) \o (Contributed(t, c) \o c[e])
      <4>1. \A x, y, z \in Seq(S) : (x \o y) \o z = x \o (y \o z)
        BY ConcatAssociative
      <4> QED BY <1>0, <3>0, <4>1, Zenon
    <3> QED BY <2>4, <3>1, <3>2, <3>3, <3>5
  <2> QED BY <2>6
<1>3. T \in SUBSET Seq(E)
  OBVIOUS
<1> HIDE DEF T
<1>4. T = Seq(E)
  BY <1>1, <1>2, <1>3, EverySequence
<1>5. b \in T
  BY <1>4
<1> QED BY <1>5 DEF T

LEMMA RangeAppend ==
    ASSUME NEW S, NEW s \in Seq(S), NEW e
    PROVE  Range(Append(s, e)) = Range(s) \cup {e}
<1>1. /\ Len(s) \in Nat /\ DOMAIN s = 1 .. Len(s)
      /\ DOMAIN Append(s, e) = 1 .. Len(s) + 1
      /\ \A i \in 1 .. Len(s) : Append(s, e)[i] = s[i]
      /\ Append(s, e)[Len(s) + 1] = e
  OBVIOUS
<1>2. \A i \in 1 .. Len(s) + 1 : i \in 1 .. Len(s) \/ i = Len(s) + 1
  BY <1>1
<1>3. Len(s) + 1 \in 1 .. Len(s) + 1 /\ \A i \in 1 .. Len(s) : i \in 1 .. Len(s) + 1
  BY <1>1
<1> QED BY <1>1, <1>2, <1>3 DEF Range

\* The elements of the contributions are those of the contributions.
LEMMA ContributedHas ==
    ASSUME NEW E, NEW S, NEW c, Contributes(c, E, S), NEW s \in Seq(E)
    PROVE  Range(Contributed(s, c)) = UNION {Range(c[e]) : e \in Range(s)}
<1> DEFINE T == {t \in Seq(E) : Range(Contributed(t, c)) = UNION {Range(c[e]) : e \in Range(t)}}
<1>1. <<>> \in T
  <2>1. Range(<<>>) = {}
    BY DEF Range
  <2>2. <<>> \in Seq(E) /\ UNION {Range(c[e]) : e \in {}} = {}
    OBVIOUS
  <2> QED BY <2>1, <2>2, ContributedNothing
<1>2. ASSUME NEW t \in T, NEW e \in E PROVE Append(t, e) \in T
  <2>1. t \in Seq(E) /\ Range(Contributed(t, c)) = UNION {Range(c[x]) : x \in Range(t)}
    OBVIOUS
  <2>2. Append(t, e) \in Seq(E)
    BY <2>1
  <2>3. Range(Contributed(Append(t, e), c)) = UNION {Range(c[x]) : x \in Range(Append(t, e))}
    <3> HIDE DEF T
    <3>1. Contributed(t, c) \in Seq(S) /\ c[e] \in Seq(S)
      BY <2>1, ContributedType DEF Contributes
    <3>2. Contributed(Append(t, e), c) = Contributed(t, c) \o c[e]
      BY <2>1, ContributedAppend
    <3>3. Range(Contributed(t, c) \o c[e]) = Range(Contributed(t, c)) \cup Range(c[e])
      BY <3>1, RangeConcatenation
    <3>4. Range(Append(t, e)) = Range(t) \cup {e}
      BY <2>1, RangeAppend
    <3>5. UNION {Range(c[x]) : x \in Range(t) \cup {e}}
              = (UNION {Range(c[x]) : x \in Range(t)}) \cup Range(c[e])
      OBVIOUS
    <3> QED BY <2>1, <3>2, <3>3, <3>4, <3>5
  <2> QED BY <2>2, <2>3
<1>3. T \in SUBSET Seq(E)
  OBVIOUS
<1> HIDE DEF T
<1>4. T = Seq(E)
  BY <1>1, <1>2, <1>3, EverySequence
<1>5. s \in T
  BY <1>4
<1> QED BY <1>5 DEF T

\* Concatenation is associative, for any set of elements.
LEMMA Regroup == \A S : \A x, y, z \in Seq(S) : (x \o y) \o z = x \o (y \o z)
<1> SUFFICES ASSUME NEW S, NEW x \in Seq(S), NEW y \in Seq(S), NEW z \in Seq(S)
             PROVE  (x \o y) \o z = x \o (y \o z)
  OBVIOUS
<1> QED BY ConcatAssociative

\* The elements of a concatenation.
LEMMA RangeOfBoth == \A S : \A x, y \in Seq(S) : Range(x \o y) = Range(x) \cup Range(y)
<1> SUFFICES ASSUME NEW S, NEW x \in Seq(S), NEW y \in Seq(S)
             PROVE  Range(x \o y) = Range(x) \cup Range(y)
  OBVIOUS
<1> QED BY RangeConcatenation

\* A sequence that is not empty, from its other end.
LEMMA HeadThenTail ==
    ASSUME NEW S, NEW s \in Seq(S), s # <<>>
    PROVE  /\ Head(s) \in S /\ Tail(s) \in Seq(S) /\ <<Head(s)>> \in Seq(S)
           /\ s = <<Head(s)>> \o Tail(s)
<1>1. /\ Head(s) \in S /\ Tail(s) \in Seq(S) /\ Len(Tail(s)) = Len(s) - 1 /\ Head(s) = s[1]
      /\ \A i \in 1 .. Len(Tail(s)) : Tail(s)[i] = s[i + 1]
  BY HeadTailProperties
<1>2. <<Head(s)>> \in Seq(S) /\ Len(<<Head(s)>>) = 1 /\ <<Head(s)>>[1] = Head(s)
  BY <1>1
<1>3. /\ <<Head(s)>> \o Tail(s) \in Seq(S)
      /\ Len(<<Head(s)>> \o Tail(s)) = Len(<<Head(s)>>) + Len(Tail(s))
      /\ \A i \in 1 .. Len(<<Head(s)>>) + Len(Tail(s)) :
            (<<Head(s)>> \o Tail(s))[i] =
                IF i <= Len(<<Head(s)>>) THEN <<Head(s)>>[i] ELSE Tail(s)[i - Len(<<Head(s)>>)]
  BY <1>1, <1>2, ConcatProperties
<1>4. Len(s) \in Nat /\ Len(s) > 0
  OBVIOUS
<1>5. \E whole : whole = <<Head(s)>> \o Tail(s)
  OBVIOUS
<1>6. PICK whole : whole = <<Head(s)>> \o Tail(s)
  BY <1>5
<1>7. whole \in Seq(S) /\ Len(whole) = Len(s)
  BY <1>1, <1>2, <1>3, <1>4, <1>6
<1>8. ASSUME NEW i \in 1 .. Len(s) PROVE s[i] = whole[i]
  <2>1. i \in 1 .. 1 + Len(Tail(s))
    BY <1>1, <1>4
  <2>2. whole[i] = IF i <= 1 THEN Head(s) ELSE Tail(s)[i - 1]
    BY <1>2, <1>3, <1>6, <2>1
  <2>3. CASE i = 1
    BY <1>1, <2>2, <2>3
  <2>4. CASE i # 1
    <3>1. i - 1 \in 1 .. Len(Tail(s)) /\ ~ (i <= 1) /\ (i - 1) + 1 = i
      BY <1>1, <1>4, <2>4
    <3> QED BY <1>1, <2>2, <3>1
  <2> QED BY <2>3, <2>4
<1>9. s = whole
  BY <1>7, <1>8, SeqEqual
<1> QED BY <1>1, <1>2, <1>6, <1>9

\* A sequence with another last element.
LEMMA LastReplaced ==
    ASSUME NEW S, NEW front \in Seq(S), NEW last \in S, NEW x \in S
    PROVE  /\ Last(Append(front, last)) = last
           /\ [Append(front, last) EXCEPT ![Len(Append(front, last))] = x] = Append(front, x)
<1>1. PICK s : s = Append(front, last)
  OBVIOUS
<1>2. PICK t : t = Append(front, x)
  OBVIOUS
<1>3. PICK n \in Nat : n = Len(front)
  OBVIOUS
<1>4. /\ s \in Seq(S) /\ Len(s) = n + 1 /\ s[n + 1] = last
      /\ t \in Seq(S) /\ Len(t) = n + 1 /\ t[n + 1] = x
      /\ \A i \in 1 .. n : s[i] = front[i] /\ t[i] = front[i]
  BY <1>1, <1>2, <1>3, AppendProperties
<1>5. n + 1 \in 1 .. n + 1
  OBVIOUS
<1>6. PICK u : u = [s EXCEPT ![n + 1] = x]
  OBVIOUS
<1>7. /\ u \in Seq(S) /\ Len(u) = n + 1
      /\ \A j \in 1 .. n + 1 : u[j] = IF j = n + 1 THEN x ELSE s[j]
  BY <1>4, <1>5, <1>6, ExceptSeq
<1>8. ASSUME NEW i \in 1 .. n + 1 PROVE u[i] = t[i]
  <2>1. CASE i = n + 1
    BY <1>4, <1>7, <2>1
  <2>2. CASE i # n + 1
    <3>1. i \in 1 .. n
      BY <2>2
    <3> QED BY <1>4, <1>7, <2>2, <3>1
  <2> QED BY <2>1, <2>2
<1>9. u = t
  BY <1>4, <1>7, <1>8, SeqEqual
<1>10. Last(s) = last
  BY <1>4 DEF Last
<1> QED BY <1>1, <1>2, <1>4, <1>6, <1>9, <1>10

-----------------------------------------------------------------------------
(* The elements of a sequence that are in a set *)

\* What an element contributes to a choice.
Choice(E, T) == [e \in E |-> IF e \in T THEN <<e>> ELSE <<>>]

LEMMA ChosenContributed ==
    ASSUME NEW E, NEW T, NEW s \in Seq(E)
    PROVE  /\ Contributes(Choice(E, T), E, E)
           /\ Chosen(s, T) = Contributed(s, Choice(E, T))
<1>1. \A e \in E : <<e>> \in Seq(E) /\ <<>> \in Seq(E)
  OBVIOUS
<1>2. Contributes(Choice(E, T), E, E)
  BY <1>1 DEF Contributes, Choice
<1>3. \A i \in DOMAIN s : s[i] \in E
  OBVIOUS
<1>4. [i \in DOMAIN s |-> IF s[i] \in T THEN <<s[i]>> ELSE <<>>]
          = [i \in DOMAIN s |-> Choice(E, T)[s[i]]]
  BY <1>3 DEF Choice
<1> QED BY <1>2, <1>4 DEF Chosen, Contributed

LEMMA ChosenNothing ==
    ASSUME NEW T
    PROVE  Chosen(<<>>, T) = <<>>
<1>1. [i \in DOMAIN <<>> |-> IF <<>>[i] \in T THEN <<<<>>[i]>> ELSE <<>>] = <<>>
  OBVIOUS
<1> QED BY <1>1, FlattenNothing DEF Chosen

LEMMA ChosenType ==
    ASSUME NEW E, NEW T, NEW s \in Seq(E)
    PROVE  Chosen(s, T) \in Seq(E)
BY ChosenContributed, ContributedType

\* One more element.
LEMMA ChosenAppend ==
    ASSUME NEW E, NEW T, NEW s \in Seq(E), NEW e \in E
    PROVE  Chosen(Append(s, e), T) = IF e \in T THEN Append(Chosen(s, T), e) ELSE Chosen(s, T)
<1>1. Append(s, e) \in Seq(E) /\ Chosen(s, T) \in Seq(E)
  BY ChosenType
<1>2. /\ Contributes(Choice(E, T), E, E)
      /\ Chosen(s, T) = Contributed(s, Choice(E, T))
  BY ChosenContributed
<1>3. Chosen(Append(s, e), T) = Contributed(Append(s, e), Choice(E, T))
  <2>1. \A x \in Seq(E) : Chosen(x, T) = Contributed(x, Choice(E, T))
    BY ChosenContributed
  <2> QED BY <1>1, <2>1, Zenon
<1>4. Contributed(Append(s, e), Choice(E, T)) = Contributed(s, Choice(E, T)) \o Choice(E, T)[e]
  <2>1. \A x \in Seq(E) : Contributed(Append(x, e), Choice(E, T))
                               = Contributed(x, Choice(E, T)) \o Choice(E, T)[e]
    BY <1>2, ContributedAppend
  <2> QED BY <2>1, Zenon
<1>5. Choice(E, T)[e] = IF e \in T THEN <<e>> ELSE <<>>
  BY DEF Choice
<1>6. Chosen(s, T) \o <<e>> = Append(Chosen(s, T), e) /\ Chosen(s, T) \o <<>> = Chosen(s, T)
  BY <1>1, AppendIsConcat, ConcatEmptySeq
<1> QED BY <1>2, <1>3, <1>4, <1>5, <1>6

LEMMA ChosenOne ==
    ASSUME NEW E, NEW T, NEW e \in E
    PROVE  Chosen(<<e>>, T) = IF e \in T THEN <<e>> ELSE <<>>
<1>1. <<e>> \in Seq(E)
  OBVIOUS
<1>2. Chosen(<<e>>, T) = Contributed(<<e>>, Choice(E, T))
  BY <1>1, ChosenContributed
<1>3. Contributes(Choice(E, T), E, E)
  BY <1>1, ChosenContributed
<1>4. Contributed(<<e>>, Choice(E, T)) = Choice(E, T)[e]
  BY <1>3, ContributedOne
<1> QED BY <1>2, <1>4 DEF Choice

LEMMA ChosenConcat ==
    ASSUME NEW E, NEW T, NEW a \in Seq(E), NEW b \in Seq(E)
    PROVE  Chosen(a \o b, T) = Chosen(a, T) \o Chosen(b, T)
<1>1. a \o b \in Seq(E)
  OBVIOUS
<1>2. \A x \in Seq(E) : Chosen(x, T) = Contributed(x, Choice(E, T))
  BY ChosenContributed
<1>3. Contributes(Choice(E, T), E, E)
  BY ChosenContributed
<1>4. Contributed(a \o b, Choice(E, T)) = Contributed(a, Choice(E, T)) \o Contributed(b, Choice(E, T))
  BY <1>3, ContributedConcat
<1> QED BY <1>1, <1>2, <1>4, Zenon

LEMMA ChosenHas ==
    ASSUME NEW E, NEW T, NEW s \in Seq(E)
    PROVE  Range(Chosen(s, T)) = Range(s) \cap T
<1>1. /\ Chosen(s, T) = Contributed(s, Choice(E, T))
      /\ Contributes(Choice(E, T), E, E)
  BY ChosenContributed
<1>2. Range(Contributed(s, Choice(E, T))) = UNION {Range(Choice(E, T)[e]) : e \in Range(s)}
  BY <1>1, ContributedHas
<1>3. Range(s) \subseteq E
  BY RangeOfSeq
<1>4. \A e \in E : Range(Choice(E, T)[e]) = {e} \cap T
  <2>1. Range(<<>>) = {} /\ \A e \in E : Range(<<e>>) = {e}
    BY DEF Range
  <2> QED BY <2>1 DEF Choice
<1>5. UNION {Range(Choice(E, T)[e]) : e \in Range(s)} = Range(s) \cap T
  BY <1>3, <1>4
<1> QED BY <1>1, <1>2, <1>5

\* Nothing is left out of a sequence over the set.
LEMMA ChosenAll ==
    ASSUME NEW E, NEW T, NEW s \in Seq(E), Range(s) \subseteq T
    PROVE  Chosen(s, T) = s
<1> DEFINE N == {t \in Seq(E) : Range(t) \subseteq T => Chosen(t, T) = t}
<1>1. <<>> \in N
  <2>1. <<>> \in Seq(E)
    OBVIOUS
  <2> QED BY <2>1, ChosenNothing
<1>2. ASSUME NEW t \in N, NEW e \in E PROVE Append(t, e) \in N
  <2>1. t \in Seq(E) /\ (Range(t) \subseteq T => Chosen(t, T) = t) /\ Append(t, e) \in Seq(E)
    OBVIOUS
  <2> SUFFICES ASSUME Range(Append(t, e)) \subseteq T PROVE Chosen(Append(t, e), T) = Append(t, e)
    BY <2>1
  <2> HIDE DEF N
  <2>2. Range(Append(t, e)) = Range(t) \cup {e}
    BY <2>1, RangeAppend
  <2>3. e \in T /\ Chosen(t, T) = t
    BY <2>1, <2>2
  <2>4. Chosen(Append(t, e), T) = IF e \in T THEN Append(Chosen(t, T), e) ELSE Chosen(t, T)
    BY <2>1, ChosenAppend
  <2> QED BY <2>3, <2>4
<1>3. N \in SUBSET Seq(E)
  OBVIOUS
<1> HIDE DEF N
<1>4. N = Seq(E)
  BY <1>1, <1>2, <1>3, EverySequence
<1>5. s \in N
  BY <1>4
<1> QED BY <1>5 DEF N

\* From the first element on.
LEMMA ChosenFromHead ==
    ASSUME NEW E, NEW T, NEW s \in Seq(E), s # <<>>
    PROVE  Chosen(s, T) = (IF Head(s) \in T THEN <<Head(s)>> ELSE <<>>) \o Chosen(Tail(s), T)
<1>1. /\ Head(s) \in E /\ Tail(s) \in Seq(E) /\ <<Head(s)>> \in Seq(E)
      /\ s = <<Head(s)>> \o Tail(s)
  BY HeadThenTail
<1>2. Chosen(<<Head(s)>> \o Tail(s), T) = Chosen(<<Head(s)>>, T) \o Chosen(Tail(s), T)
  <2>1. \A a, b \in Seq(E) : Chosen(a \o b, T) = Chosen(a, T) \o Chosen(b, T)
    BY ChosenConcat
  <2> QED BY <1>1, <2>1, Zenon
<1>3. Chosen(<<Head(s)>>, T) = IF Head(s) \in T THEN <<Head(s)>> ELSE <<>>
  BY <1>1, ChosenOne
<1> QED BY <1>1, <1>2, <1>3, Zenon

-----------------------------------------------------------------------------
(* Sequences without repetition *)

\* A new element at the end.
LEMMA InjectiveAppend ==
    ASSUME NEW E, NEW s \in Seq(E), NEW e \in E
    PROVE  IsInjective(Append(s, e)) <=> IsInjective(s) /\ e \notin Range(s)
<1>1. /\ Len(s) \in Nat /\ DOMAIN s = 1 .. Len(s)
      /\ DOMAIN Append(s, e) = 1 .. Len(s) + 1
      /\ \A i \in 1 .. Len(s) : Append(s, e)[i] = s[i]
      /\ Append(s, e)[Len(s) + 1] = e
  OBVIOUS
<1>2. \A i \in 1 .. Len(s) + 1 : i \in 1 .. Len(s) \/ i = Len(s) + 1
  BY <1>1
<1>3. /\ Len(s) + 1 \in 1 .. Len(s) + 1
      /\ \A i \in 1 .. Len(s) : i \in 1 .. Len(s) + 1 /\ i # Len(s) + 1
  BY <1>1
<1>4. ASSUME IsInjective(Append(s, e)) PROVE IsInjective(s) /\ e \notin Range(s)
  BY <1>1, <1>3, <1>4 DEF IsInjective, Range
<1>5. ASSUME IsInjective(s), e \notin Range(s) PROVE IsInjective(Append(s, e))
  <2>1. \A i, j \in 1 .. Len(s) : s[i] = s[j] => i = j
    BY <1>1, <1>5 DEF IsInjective
  <2>2. \A i \in 1 .. Len(s) : s[i] # e
    BY <1>1, <1>5 DEF Range
  <2> QED BY <1>1, <1>2, <2>1, <2>2 DEF IsInjective
<1> QED BY <1>4, <1>5

\* What is chosen of them.
LEMMA ChosenInjective ==
    ASSUME NEW E, NEW T, NEW s \in Seq(E), IsInjective(s)
    PROVE  IsInjective(Chosen(s, T))
<1> DEFINE N == {t \in Seq(E) : IsInjective(t) => IsInjective(Chosen(t, T))}
<1>1. <<>> \in N
  <2>1. <<>> \in Seq(E)
    OBVIOUS
  <2> QED BY <2>1, ChosenNothing
<1>2. ASSUME NEW t \in N, NEW e \in E PROVE Append(t, e) \in N
  <2>1. t \in Seq(E) /\ (IsInjective(t) => IsInjective(Chosen(t, T))) /\ Append(t, e) \in Seq(E)
    OBVIOUS
  <2> SUFFICES ASSUME IsInjective(Append(t, e)) PROVE IsInjective(Chosen(Append(t, e), T))
    BY <2>1
  <2> HIDE DEF N
  <2>2. IsInjective(t) /\ e \notin Range(t)
    BY <2>1, InjectiveAppend
  <2>3. Chosen(t, T) \in Seq(E) /\ Range(Chosen(t, T)) = Range(t) \cap T
    BY <2>1, ChosenType, ChosenHas
  <2>4. Chosen(Append(t, e), T) = IF e \in T THEN Append(Chosen(t, T), e) ELSE Chosen(t, T)
    BY <2>1, ChosenAppend
  <2>5. IsInjective(Append(Chosen(t, T), e))
    BY <2>1, <2>2, <2>3, InjectiveAppend
  <2> QED BY <2>1, <2>2, <2>4, <2>5
<1>3. N \in SUBSET Seq(E)
  OBVIOUS
<1> HIDE DEF N
<1>4. N = Seq(E)
  BY <1>1, <1>2, <1>3, EverySequence
<1>5. s \in N
  BY <1>4
<1> QED BY <1>5 DEF N

\* Its tail is what is left without its head.
LEMMA TailIsChosen ==
    ASSUME NEW E, NEW s \in Seq(E), s # <<>>, IsInjective(s)
    PROVE  /\ Chosen(s, E \ {Head(s)}) = Tail(s)
           /\ Head(s) \notin Range(Tail(s))
<1>1. /\ Head(s) \in E /\ Tail(s) \in Seq(E) /\ Len(Tail(s)) = Len(s) - 1 /\ Head(s) = s[1]
      /\ \A i \in 1 .. Len(Tail(s)) : Tail(s)[i] = s[i + 1]
      /\ Len(s) \in Nat /\ Len(s) > 0 /\ DOMAIN s = 1 .. Len(s)
      /\ DOMAIN Tail(s) = 1 .. Len(Tail(s))
  BY HeadTailProperties
<1>2. Head(s) \notin Range(Tail(s))
  <2> SUFFICES ASSUME NEW i \in 1 .. Len(Tail(s)), Tail(s)[i] = Head(s) PROVE FALSE
    BY <1>1 DEF Range
  <2>1. i + 1 \in 1 .. Len(s) /\ 1 \in 1 .. Len(s) /\ i + 1 # 1
    BY <1>1
  <2> QED BY <1>1, <2>1 DEF IsInjective
<1>3. Range(Tail(s)) \subseteq E \ {Head(s)}
  BY <1>1, <1>2, RangeOfSeq
<1>4. Chosen(Tail(s), E \ {Head(s)}) = Tail(s)
  BY <1>1, <1>3, ChosenAll
<1>5. Chosen(s, E \ {Head(s)})
          = (IF Head(s) \in E \ {Head(s)} THEN <<Head(s)>> ELSE <<>>) \o Chosen(Tail(s), E \ {Head(s)})
  BY ChosenFromHead
<1>6. <<>> \o Tail(s) = Tail(s)
  BY <1>1, ConcatEmptySeq
<1> QED BY <1>2, <1>4, <1>5, <1>6

-----------------------------------------------------------------------------
(* Folds written as recursive functions *)

\* A fold of typed steps over the first n elements of s has a value of the type after
\* each of them.
FoldedTo(f, a, step, s, n) == f[0] = a /\ \A i \in 1 .. n : f[i] = step[f[i - 1]][s[i]]

\* A fold of n steps that stays in A exists.
Foldable(A, a, step, s, n) == \E f \in [0 .. n -> A] : FoldedTo(f, a, step, s, n)

\* step takes a value of A and an element of E to a value of A.
Advances(step, A, E) == step \in [A -> [E -> A]]

\* The first n elements of s are of E.
ReadsFrom(s, n, E) == \A i \in 1 .. n : s[i] \in E

\* There is such a fold.
LEMMA FoldExists ==
    ASSUME NEW A, NEW E, NEW a \in A, NEW step, Advances(step, A, E), NEW s, NEW N \in Nat,
           ReadsFrom(s, N, E)
    PROVE  Foldable(A, a, step, s, N)
<1> DEFINE T == {n \in Nat : n <= N => Foldable(A, a, step, s, n)}
<1>1. 0 \in T
  <2>1. [i \in 0 .. 0 |-> a] \in [0 .. 0 -> A] /\ FoldedTo([i \in 0 .. 0 |-> a], a, step, s, 0)
    BY DEF FoldedTo
  <2> QED BY <2>1 DEF Foldable
<1>2. ASSUME NEW n \in T PROVE n + 1 \in T
  <2> SUFFICES ASSUME n + 1 <= N PROVE Foldable(A, a, step, s, n + 1)
    OBVIOUS
  <2>0. n \in Nat /\ Foldable(A, a, step, s, n)
    OBVIOUS
  <2>1. PICK f \in [0 .. n -> A] : FoldedTo(f, a, step, s, n)
    BY <2>0 DEF Foldable
  <2>2. step[f[n]][s[n + 1]] \in A
    <3>1. f[n] \in A /\ s[n + 1] \in E
      BY <2>0, <2>1 DEF ReadsFrom
    <3> QED BY <3>1 DEF Advances
  <2> DEFINE g == [i \in 0 .. n + 1 |-> IF i = n + 1 THEN step[f[n]][s[n + 1]] ELSE f[i]]
  <2>3. g \in [0 .. n + 1 -> A]
    BY <2>0, <2>1, <2>2
  <2>4. g[0] = a
    BY <2>0, <2>1 DEF FoldedTo
  <2>5. ASSUME NEW i \in 1 .. n + 1 PROVE g[i] = step[g[i - 1]][s[i]]
    <3>1. CASE i = n + 1
      <4>1. g[i - 1] = f[n] /\ g[i] = step[f[n]][s[n + 1]]
        BY <2>0, <3>1
      <4> QED BY <3>1, <4>1
    <3>2. CASE i # n + 1
      <4>1. i \in 1 .. n /\ g[i] = f[i] /\ g[i - 1] = f[i - 1]
        BY <2>0, <3>2
      <4>2. f[i] = step[f[i - 1]][s[i]]
        BY <2>1, <4>1 DEF FoldedTo
      <4> QED BY <4>1, <4>2
    <3> QED BY <3>1, <3>2
  <2> HIDE DEF g
  <2> QED BY <2>3, <2>4, <2>5 DEF Foldable, FoldedTo
<1>3. T \in SUBSET Nat
  OBVIOUS
<1>4. T = Nat
  <2> HIDE DEF T
  <2> QED BY <1>1, <1>2, <1>3, EveryNumber
<1> QED BY <1>4

\* A function whose steps are those of a fold as long as its values are of the type.
Follows(f, A, a, step, s, n) ==
    f[0] = a /\ \A i \in 1 .. n : f[i - 1] \in A => f[i] = step[f[i - 1]][s[i]]

\* Then they are.
LEMMA FoldTyped ==
    ASSUME NEW A, NEW E, NEW a \in A, NEW step, Advances(step, A, E), NEW s, NEW N \in Nat,
           ReadsFrom(s, N, E),
           NEW f, Follows(f, A, a, step, s, N)
    PROVE  \A i \in 0 .. N : f[i] \in A
<1> DEFINE T == {n \in Nat : n <= N => f[n] \in A}
<1>1. 0 \in T
  BY DEF Follows
<1>2. ASSUME NEW n \in T PROVE n + 1 \in T
  <2> SUFFICES ASSUME n + 1 <= N PROVE f[n + 1] \in A
    OBVIOUS
  <2>1. n \in Nat /\ f[n] \in A /\ n + 1 \in 1 .. N /\ (n + 1) - 1 = n
    OBVIOUS
  <2>2. f[n + 1] = step[f[n]][s[n + 1]]
    BY <2>1 DEF Follows
  <2> QED BY <2>1, <2>2 DEF Advances, ReadsFrom
<1>3. T \in SUBSET Nat
  OBVIOUS
<1>4. T = Nat
  <2> HIDE DEF T
  <2> QED BY <1>1, <1>2, <1>3, EveryNumber
<1> QED BY <1>4

-----------------------------------------------------------------------------
(* More of what is chosen *)

\* A sequence is one of its own elements.
LEMMA OfItsElements ==
    ASSUME NEW E, NEW s \in Seq(E), NEW F, Range(s) \subseteq F
    PROVE  s \in Seq(F)
<1>1. Len(s) \in Nat /\ s \in [1 .. Len(s) -> E] /\ DOMAIN s = 1 .. Len(s)
  OBVIOUS
<1>2. \A i \in 1 .. Len(s) : s[i] \in F
  BY <1>1 DEF Range
<1>3. s \in [1 .. Len(s) -> F]
  BY <1>1, <1>2
<1> QED BY <1>1, <1>3

\* What is chosen is the same for sets that agree on the sequence.
LEMMA ChosenAlike ==
    ASSUME NEW E, NEW s \in Seq(E), NEW T, NEW U, Range(s) \cap T = Range(s) \cap U
    PROVE  Chosen(s, T) = Chosen(s, U)
<1>1. \A i \in DOMAIN s : s[i] \in T <=> s[i] \in U
  BY DEF Range
<1>2. [i \in DOMAIN s |-> IF s[i] \in T THEN <<s[i]>> ELSE <<>>]
          = [i \in DOMAIN s |-> IF s[i] \in U THEN <<s[i]>> ELSE <<>>]
  BY <1>1
<1> QED BY <1>2 DEF Chosen
=============================================================================
