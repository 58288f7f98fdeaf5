---------------------------- MODULE Lists_proofs ----------------------------
(***************************************************************************)
(* Induction over the natural numbers and over sequences, in the form of   *)
(* sets that hold all of them, and what FlattenSeq and Filtered make of    *)
(* any sequence.                                                           *)
(***************************************************************************)
EXTENDS Lists, FiniteSetTheorems, SequenceTheorems, WellFoundedInduction, TLAPS

-----------------------------------------------------------------------------
(* Sets of natural numbers *)

LEMMA LeastOf == ASSUME NEW S, S \subseteq Nat, S # {} PROVE \E t \in S : \A u \in S : t <= u
<1>1. IsWellFoundedOn({pair \in Nat \X Nat : pair[1] < pair[2]}, Nat)
  <2>1. OpToRel(<, Nat) = {pair \in Nat \X Nat : pair[1] < pair[2]}
    BY DEF OpToRel
  <2>2. QED
    BY <2>1, NatLessThanWellFounded, Zenon
<1>2. PICK earlier : earlier = {pair \in Nat \X Nat : pair[1] < pair[2]}
  OBVIOUS
<1>3. PICK t \in S : \A u \in S : <<u, t>> \notin earlier
  BY <1>1, <1>2, WFMin
<1>4. ASSUME NEW u \in S PROVE t <= u
  <2>1. t \in Nat /\ u \in Nat
    OBVIOUS
  <2>2. PICK pair : pair = <<u, t>>
    OBVIOUS
  <2>3. pair \in Nat \X Nat /\ pair[1] = u /\ pair[2] = t /\ pair \notin earlier
    BY <1>3, <2>1, <2>2
  <2>4. ~(u < t)
    BY <1>2, <2>3
  <2>5. QED
    BY <2>1, <2>4
<1>5. QED
  BY <1>4

\* Induction, by the least number that is not in the set.
LEMMA Inductive ==
  ASSUME NEW S, 0 \in S, \A n \in Nat : n \in S => n + 1 \in S
  PROVE  Nat \subseteq S
<1> DEFINE Left == {n \in Nat : n \notin S}
<1> SUFFICES ASSUME Left # {} PROVE FALSE
  OBVIOUS
<1>1. PICK t \in Left : \A u \in Left : t <= u
  <2>1. Left \subseteq Nat
    OBVIOUS
  <2> HIDE DEF Left
  <2>2. QED
    BY <2>1, LeastOf
<1>2. t \in Nat /\ t # 0 /\ t - 1 \in Nat /\ (t - 1) + 1 = t
  OBVIOUS
<1>3. t - 1 \in S
  BY <1>1, <1>2
<1>4. QED
  BY <1>2, <1>3

-----------------------------------------------------------------------------
(* Sequences, and sequences of sequences *)

\* The first n rounds of FlattenSeq.
Flattens(f, seqs, n) == f = [i \in 1 .. n |-> IF i = 1 THEN seqs[i] ELSE f[i - 1] \o seqs[i]]

LEMMA FlattensExist == ASSUME NEW seqs PROVE \A n \in Nat : \E f : Flattens(f, seqs, n)
<1> DEFINE S == {n \in Nat : \E f : Flattens(f, seqs, n)}
<1>1. 0 \in S
  <2>1. PICK none : none = [i \in 1 .. 0 |-> {}]
    OBVIOUS
  <2>2. Flattens(none, seqs, 0)
    BY <2>1 DEF Flattens
  <2>3. QED
    BY <2>2
<1>2. ASSUME NEW n \in Nat, n \in S PROVE n + 1 \in S
  <2>1. PICK f : Flattens(f, seqs, n)
    BY <1>2
  <2>2. PICK g : g = [i \in 1 .. n + 1 |-> IF i # n + 1 THEN f[i]
                                           ELSE IF i = 1 THEN seqs[i] ELSE f[i - 1] \o seqs[i]]
    OBVIOUS
  <2>3. \A i \in 1 .. n : g[i] = f[i]
    BY <2>2
  <2>4. \A i \in 1 .. n : f[i] = IF i = 1 THEN seqs[i] ELSE f[i - 1] \o seqs[i]
    BY <2>1 DEF Flattens
  <2>5. ASSUME NEW i \in 1 .. n + 1 PROVE g[i] = IF i = 1 THEN seqs[i] ELSE g[i - 1] \o seqs[i]
    <3>1. i # 1 => i - 1 \in 1 .. n
      OBVIOUS
    <3>2. CASE i = n + 1
      BY <2>2, <2>3, <3>1, <3>2
    <3>3. CASE i # n + 1
      <4>1. i \in 1 .. n
        BY <3>3
      <4>2. QED
        BY <2>3, <2>4, <3>1, <4>1
    <3>4. QED
      BY <3>2, <3>3
  <2>6. g = [i \in 1 .. n + 1 |-> IF i = 1 THEN seqs[i] ELSE g[i - 1] \o seqs[i]]
    BY <2>2, <2>5
  <2>7. Flattens(g, seqs, n + 1)
    BY <2>6 DEF Flattens
  <2>8. QED
    BY <2>7
<1> HIDE DEF S
<1>3. Nat \subseteq S
  BY <1>1, <1>2, Inductive
<1>4. QED
  BY <1>3 DEF S

LEMMA FlattenIs ==
  ASSUME NEW seqs, Len(seqs) \in Nat \ {0}
  PROVE  \E f : Flattens(f, seqs, Len(seqs)) /\ FlattenSeq(seqs) = f[Len(seqs)]
<1>1. PICK f : f = CHOOSE g : Flattens(g, seqs, Len(seqs))
  OBVIOUS
<1>2. Flattens(f, seqs, Len(seqs))
  BY <1>1, FlattensExist
<1>3. FlattenSeq(seqs) = f[Len(seqs)]
  BY <1>1 DEF FlattenSeq, Flattens
<1>4. QED
  BY <1>2, <1>3

\* The rounds depend on the sequences they have come by only.
Alike(a, b, m) == \A i \in 1 .. m : a[i] = b[i]

LEMMA FlattensAgree ==
  ASSUME NEW m \in Nat, NEW n \in Nat, m <= n, NEW a, NEW b, Alike(a, b, m),
         NEW f, Flattens(f, a, m), NEW g, Flattens(g, b, n)
  PROVE  \A i \in 1 .. m : f[i] = g[i]
<1>1. \A i \in 1 .. m : f[i] = IF i = 1 THEN a[i] ELSE f[i - 1] \o a[i]
  BY DEF Flattens
<1>2. \A i \in 1 .. n : g[i] = IF i = 1 THEN b[i] ELSE g[i - 1] \o b[i]
  BY DEF Flattens
<1> DEFINE S == {i \in Nat : i \in 1 .. m => f[i] = g[i]}
<1>3. 0 \in S
  OBVIOUS
<1>4. ASSUME NEW i \in Nat, i \in S PROVE i + 1 \in S
  <2>1. SUFFICES ASSUME i + 1 \in 1 .. m PROVE f[i + 1] = g[i + 1]
    OBVIOUS
  <2>2. i + 1 \in 1 .. n /\ (i + 1 # 1 => i \in 1 .. m) /\ (i + 1) - 1 = i
    BY <2>1
  <2>3. i + 1 # 1 => f[i] = g[i]
    BY <1>4, <2>2
  <2>4. QED
    BY <1>1, <1>2, <2>1, <2>2, <2>3 DEF Alike
<1> HIDE DEF S
<1>5. Nat \subseteq S
  BY <1>3, <1>4, Inductive
<1>6. QED
  BY <1>5 DEF S

LEMMA FlattenEmpty == FlattenSeq(<<>>) = <<>>
BY DEF FlattenSeq

\* What FlattenSeq makes of one sequence more, and of what kind it is.
LEMMA FlattenAppend ==
  ASSUME NEW E, NEW seqs \in Seq(Seq(E)), NEW last \in Seq(E)
  PROVE  FlattenSeq(Append(seqs, last)) = FlattenSeq(seqs) \o last
<1>1. PICK more : more = Append(seqs, last)
  OBVIOUS
<1>2. PICK n \in Nat : n = Len(seqs)
  BY LenProperties
<1>3. /\ Len(more) = n + 1 /\ more[n + 1] = last
      /\ \A i \in 1 .. n : more[i] = seqs[i]
  BY <1>1, <1>2, AppendProperties
<1>4. PICK g : Flattens(g, more, n + 1) /\ FlattenSeq(more) = g[n + 1]
  BY <1>2, <1>3, FlattenIs
<1>5. g[n + 1] = IF n + 1 = 1 THEN last ELSE g[(n + 1) - 1] \o last
  <2>1. \A i \in 1 .. n + 1 : g[i] = IF i = 1 THEN more[i] ELSE g[i - 1] \o more[i]
    BY <1>4 DEF Flattens
  <2>2. n + 1 \in 1 .. n + 1
    BY <1>2
  <2>3. QED
    BY <1>3, <2>1, <2>2
<1>6. CASE n = 0
  <2>1. seqs = <<>>
    BY <1>2, <1>6, EmptySeq
  <2>2. FlattenSeq(seqs) = <<>>
    BY <2>1, FlattenEmpty
  <2>3. <<>> \o last = last
    BY ConcatEmptySeq
  <2>4. QED
    BY <1>1, <1>4, <1>5, <1>6, <2>2, <2>3
<1>7. CASE n # 0
  <2>1. PICK f : Flattens(f, seqs, n) /\ FlattenSeq(seqs) = f[n]
    BY <1>2, <1>7, FlattenIs
  <2>2. \A i \in 1 .. n : f[i] = g[i]
    <3>1. PICK k \in Nat : k = n + 1 /\ n <= k /\ Flattens(g, more, k)
      BY <1>4
    <3>2. Alike(seqs, more, n)
      BY <1>3 DEF Alike
    <3>3. QED
      BY <2>1, <3>1, <3>2, FlattensAgree
  <2>3. f[n] = g[n] /\ (n + 1) - 1 = n /\ n + 1 # 1
    BY <1>2, <1>7, <2>2
  <2>4. QED
    BY <1>1, <1>4, <1>5, <2>1, <2>3
<1>8. QED
  BY <1>6, <1>7

\* Induction over sequences, from the left.
LEMMA SequencesIn ==
  ASSUME NEW E, NEW S, <<>> \in S, \A s \in Seq(E) : \A e \in E : s \in S => Append(s, e) \in S
  PROVE  Seq(E) \subseteq S
<1> DEFINE N == {n \in Nat : \A s \in Seq(E) : Len(s) = n => s \in S}
<1>1. 0 \in N
  <2>1. \A s \in Seq(E) : Len(s) = 0 => s = <<>>
    BY EmptySeq
  <2>2. QED
    BY <2>1
<1>2. ASSUME NEW n \in Nat, n \in N PROVE n + 1 \in N
  <2>1. SUFFICES ASSUME NEW s \in Seq(E), Len(s) = n + 1 PROVE s \in S
    OBVIOUS
  <2>2. s # <<>>
    BY <2>1, EmptySeq
  <2>3. PICK t \in Seq(E), e \in E : s = Append(t, e)
    BY <2>2, SequenceEmptyOrAppend
  <2>4. Len(t) \in Nat /\ Len(s) = Len(t) + 1
    BY <2>3, AppendProperties, LenProperties
  <2>5. t \in S
    BY <1>2, <2>1, <2>4
  <2>6. QED
    BY <2>3, <2>5
<1> HIDE DEF N
<1>3. Nat \subseteq N
  BY <1>1, <1>2, Inductive
<1>4. ASSUME NEW s \in Seq(E) PROVE s \in S
  <2>1. Len(s) \in N
    BY <1>3, LenProperties
  <2>2. QED
    BY <2>1 DEF N
<1>5. QED
  BY <1>4

LEMMA FlattenTyped == ASSUME NEW E PROVE \A seqs \in Seq(Seq(E)) : FlattenSeq(seqs) \in Seq(E)
<1> DEFINE S == {seqs \in Seq(Seq(E)) : FlattenSeq(seqs) \in Seq(E)}
<1>1. <<>> \in S
  BY FlattenEmpty, EmptySeq
<1>2. ASSUME NEW seqs \in Seq(Seq(E)), NEW last \in Seq(E), seqs \in S PROVE Append(seqs, last) \in S
  <2>1. FlattenSeq(Append(seqs, last)) = FlattenSeq(seqs) \o last
    BY FlattenAppend
  <2>2. FlattenSeq(seqs) \in Seq(E) /\ Append(seqs, last) \in Seq(Seq(E))
    BY <1>2, AppendProperties
  <2>3. QED
    BY <2>1, <2>2, ConcatProperties
<1> HIDE DEF S
<1>3. Seq(Seq(E)) \subseteq S
  BY <1>1, <1>2, SequencesIn
<1>4. QED
  BY <1>3 DEF S

-----------------------------------------------------------------------------
(* What is kept of a sequence *)

LEMMA FilteredEmpty == ASSUME NEW H PROVE Filtered(<<>>, H) = <<>>
<1>1. [i \in DOMAIN <<>> |-> IF <<>>[i] \in H THEN <<<<>>[i]>> ELSE <<>>] = <<>>
  OBVIOUS
<1>2. QED
  BY <1>1, FlattenEmpty DEF Filtered

LEMMA FunctionIsSequence ==
  ASSUME NEW S, NEW n \in Nat, NEW p \in [1 .. n -> S] PROVE p \in Seq(S) /\ Len(p) = n
OBVIOUS

\* t is s and then e; n is how long s is.
Appended(S, s, e, t, n) ==
  /\ n \in Nat /\ DOMAIN s = 1 .. n /\ t \in Seq(S) /\ Len(t) = n + 1 /\ DOMAIN t = 1 .. n + 1
  /\ t[n + 1] = e /\ Alike(s, t, n)

LEMMA AppendParts ==
  ASSUME NEW S, NEW s \in Seq(S), NEW e \in S PROVE Appended(S, s, e, Append(s, e), Len(s))
<1>1. PICK n, t : n = Len(s) /\ t = Append(s, e)
  OBVIOUS
<1>2. n \in Nat /\ DOMAIN s = 1 .. n
  BY <1>1, LenProperties
<1>3. t \in Seq(S) /\ Len(t) = n + 1 /\ t[n + 1] = e
  BY <1>1, AppendProperties
<1>4. DOMAIN t = 1 .. n + 1
  BY <1>3, LenProperties
<1>5. \A i \in 1 .. n : t[i] = s[i]
  BY <1>1, AppendProperties
<1>6. QED
  BY <1>1, <1>2, <1>3, <1>4, <1>5 DEF Alike, Appended

LEMMA AppendFrom ==
  ASSUME NEW S, NEW s \in Seq(S), NEW n, n = Len(s), NEW t \in Seq(S), Len(t) = n + 1, Alike(s, t, n)
  PROVE  t = Append(s, t[n + 1])
<1>1. n \in Nat /\ n + 1 \in 1 .. n + 1
  BY LenProperties
<1>2. t[n + 1] \in S
  BY <1>1, ElementOfSeq
<1>3. PICK r : r = Append(s, t[n + 1])
  OBVIOUS
<1>4. r \in Seq(S) /\ Len(r) = n + 1 /\ r[n + 1] = t[n + 1] /\ Alike(s, r, n)
  <2>1. Appended(S, s, t[n + 1], r, n)
    BY <1>2, <1>3, AppendParts
  <2>2. QED
    BY <2>1 DEF Appended
<1>5. \A i \in 1 .. n + 1 : t[i] = r[i]
  BY <1>1, <1>4 DEF Alike
<1>6. t = r
  BY <1>4, <1>5, SeqEqual
<1>7. QED
  BY <1>3, <1>6

\* A sequence of which every element is put in a sequence of its own, or dropped.
Piece(e, H) == IF e \in H THEN <<e>> ELSE <<>>
Pieces(s, H) == [i \in DOMAIN s |-> Piece(s[i], H)]

LEMMA PieceTyped == ASSUME NEW E, NEW H, NEW e \in E PROVE Piece(e, H) \in Seq(E)
BY DEF Piece

LEMMA PiecesTyped ==
  ASSUME NEW E, NEW H, NEW s \in Seq(E)
  PROVE  Pieces(s, H) \in Seq(Seq(E)) /\ Len(Pieces(s, H)) = Len(s)
<1>1. PICK n \in Nat : n = Len(s) /\ DOMAIN s = 1 .. n
  BY LenProperties
<1>2. PICK p : p = Pieces(s, H)
  OBVIOUS
<1>3. p = [i \in 1 .. n |-> Piece(s[i], H)]
  BY <1>1, <1>2 DEF Pieces
<1>4. \A i \in 1 .. n : Piece(s[i], H) \in Seq(E)
  BY <1>1, ElementOfSeq, PieceTyped
<1>5. PICK X : X = Seq(E)
  OBVIOUS
<1>6. p \in [1 .. n -> X]
  BY <1>3, <1>4, <1>5
<1>7. p \in Seq(X) /\ Len(p) = n
  BY <1>6, FunctionIsSequence
<1>8. QED
  BY <1>1, <1>2, <1>5, <1>7

LEMMA FilteredAppend ==
  ASSUME NEW E, NEW H, NEW s \in Seq(E), NEW e \in E
  PROVE  Filtered(Append(s, e), H) = Filtered(s, H) \o Piece(e, H)
<1>1. PICK p : p = Pieces(s, H)
  OBVIOUS
<1>2. PICK t, q : t = Append(s, e) /\ q = Pieces(t, H)
  OBVIOUS
<1>3. PICK n : n = Len(s)
  OBVIOUS
<1>4. /\ n \in Nat /\ DOMAIN s = 1 .. n /\ t \in Seq(E) /\ Len(t) = n + 1 /\ DOMAIN t = 1 .. n + 1
      /\ t[n + 1] = e /\ Alike(s, t, n)
  <2>1. Appended(E, s, e, t, n)
    BY <1>2, <1>3, AppendParts
  <2>2. QED
    BY <2>1 DEF Appended
<1>5. p \in Seq(Seq(E)) /\ Len(p) = n /\ q \in Seq(Seq(E)) /\ Len(q) = n + 1
  <2>1. p \in Seq(Seq(E)) /\ Len(p) = Len(s)
    BY <1>1, PiecesTyped
  <2>2. q \in Seq(Seq(E)) /\ Len(q) = Len(t)
    <3>1. t \in Seq(E) /\ q = Pieces(t, H)
      BY <1>2, <1>4
    <3>2. QED
      BY <3>1, PiecesTyped
  <2>3. QED
    BY <1>3, <1>4, <2>1, <2>2
<1>6. q[n + 1] = Piece(e, H)
  BY <1>2, <1>4 DEF Pieces
<1>7. Alike(p, q, n)
  BY <1>1, <1>2, <1>4 DEF Pieces, Alike
<1>8. q = Append(p, q[n + 1])
  BY <1>5, <1>7, AppendFrom
<1>9. FlattenSeq(q) = FlattenSeq(p) \o Piece(e, H)
  BY <1>5, <1>6, <1>8, FlattenAppend, PieceTyped
<1>10. Filtered(t, H) = FlattenSeq(q) /\ Filtered(s, H) = FlattenSeq(p)
  BY <1>1, <1>2 DEF Filtered, Pieces, Piece
<1>11. QED
  BY <1>2, <1>9, <1>10

LEMMA FilteredTyped == ASSUME NEW E, NEW H, NEW s \in Seq(E) PROVE Filtered(s, H) \in Seq(E)
<1>1. Pieces(s, H) \in Seq(Seq(E))
  BY PiecesTyped
<1>2. FlattenSeq(Pieces(s, H)) \in Seq(E)
  BY <1>1, FlattenTyped
<1>3. QED
  BY <1>2 DEF Filtered, Pieces, Piece

\* What is kept of two sequences is kept of the one they make.
LEMMA FilteredConcat ==
  ASSUME NEW E, NEW H, NEW s \in Seq(E)
  PROVE  \A t \in Seq(E) : Filtered(s \o t, H) = Filtered(s, H) \o Filtered(t, H)
<1> DEFINE S == {t \in Seq(E) : Filtered(s \o t, H) = Filtered(s, H) \o Filtered(t, H)}
<1>1. <<>> \in S
  <2>1. s \o <<>> = s /\ Filtered(<<>>, H) = <<>> /\ Filtered(s, H) \o <<>> = Filtered(s, H)
    BY ConcatEmptySeq, FilteredEmpty, FilteredTyped
  <2>2. QED
    BY <2>1, EmptySeq
<1>2. ASSUME NEW t \in Seq(E), NEW e \in E, t \in S PROVE Append(t, e) \in S
  <2>1. PICK a, b, c : a = Filtered(s, H) /\ b = Filtered(t, H) /\ c = Piece(e, H)
    OBVIOUS
  <2>2. a \in Seq(E) /\ b \in Seq(E) /\ c \in Seq(E)
    BY <2>1, FilteredTyped, PieceTyped
  <2>3. s \o t \in Seq(E)
    BY ConcatProperties
  <2>4. s \o Append(t, e) = Append(s \o t, e)
    <3>1. Append(t, e) = t \o <<e>> /\ Append(s \o t, e) = (s \o t) \o <<e>> /\ <<e>> \in Seq(E)
      BY <2>3, AppendIsConcat
    <3>2. (s \o t) \o <<e>> = s \o (t \o <<e>>)
      BY <3>1, ConcatAssociative
    <3>3. QED
      BY <3>1, <3>2
  <2>5. Filtered(Append(s \o t, e), H) = Filtered(s \o t, H) \o c
    BY <2>1, <2>3, FilteredAppend
  <2>6. Filtered(s \o t, H) = a \o b
    BY <1>2, <2>1
  <2>7. Filtered(Append(t, e), H) = b \o c
    BY <2>1, FilteredAppend
  <2>8. (a \o b) \o c = a \o (b \o c)
    BY <2>2, ConcatAssociative
  <2>9. Append(t, e) \in Seq(E)
    BY AppendProperties
  <2>10. QED
    BY <2>1, <2>4, <2>5, <2>6, <2>7, <2>8, <2>9
<1> HIDE DEF S
<1>3. Seq(E) \subseteq S
  BY <1>1, <1>2, SequencesIn
<1>4. QED
  BY <1>3 DEF S

\* What is kept of one kind is that kind, and nothing of another kind.
LEMMA FilteredOfFiltered ==
  ASSUME NEW E, NEW H, NEW K, H \intersect K = {}
  PROVE  \A s \in Seq(E) : Filtered(Filtered(s, H), H) = Filtered(s, H) /\ Filtered(Filtered(s, H), K) = <<>>
<1> DEFINE S == {s \in Seq(E) : Filtered(Filtered(s, H), H) = Filtered(s, H) /\ Filtered(Filtered(s, H), K) = <<>>}
<1>1. <<>> \in S
  BY FilteredEmpty, EmptySeq
<1>2. ASSUME NEW s \in Seq(E), NEW e \in E, s \in S PROVE Append(s, e) \in S
  <2>1. PICK a, t : a = Filtered(s, H) /\ t = Append(s, e)
    OBVIOUS
  <2>2. a \in Seq(E) /\ t \in Seq(E)
    BY <2>1, FilteredTyped, AppendProperties
  <2>3. Filtered(t, H) = a \o Piece(e, H)
    BY <2>1, FilteredAppend
  <2>4. Filtered(a, H) = a /\ Filtered(a, K) = <<>>
    BY <1>2, <2>1
  <2>5. CASE e \in H
    <3>1. Filtered(t, H) = a \o <<e>> /\ a \o <<e>> = Append(a, e)
      BY <2>2, <2>3, <2>5, AppendIsConcat DEF Piece
    <3>2. Filtered(Append(a, e), H) = a \o <<e>>
      BY <2>2, <2>4, <2>5, FilteredAppend DEF Piece
    <3>3. Filtered(Append(a, e), K) = <<>> \o <<>>
      <4>1. Piece(e, K) = <<>>
        BY <2>5 DEF Piece
      <4>2. QED
        BY <2>2, <2>4, <4>1, FilteredAppend
    <3>4. <<>> \o <<>> = <<>>
      BY EmptySeq, ConcatEmptySeq
    <3>5. QED
      BY <2>1, <2>2, <3>1, <3>2, <3>3, <3>4
  <2>6. CASE e \notin H
    <3>1. Filtered(t, H) = a
      BY <2>2, <2>3, <2>6, ConcatEmptySeq DEF Piece
    <3>2. QED
      BY <2>1, <2>2, <2>4, <3>1
  <2>7. QED
    BY <2>5, <2>6
<1> HIDE DEF S
<1>3. Seq(E) \subseteq S
  BY <1>1, <1>2, SequencesIn
<1>4. QED
  BY <1>3 DEF S

LEMMA FilteredOfBoth ==
  ASSUME NEW E, NEW H, NEW s \in Seq(E), NEW t \in Seq(E), NEW w, w = s \o t
  PROVE  Filtered(w, H) = Filtered(s, H) \o Filtered(t, H)
BY FilteredConcat
=============================================================================
