---------------------------- MODULE Store_proofs ----------------------------
(***************************************************************************)
(* What one machine keeps, for any number of records, hosts and bundles:   *)
(* an admissible policy plan settles; an install of the capture hook never *)
(* costs the user settings, and a command that ended did what was asked;   *)
(* an export that ended leaves the folder as planned, and no export        *)
(* touches what people put there; the readers of the store agree on        *)
(* accepted facts; imports of bundles settle; and the tables and files of  *)
(* all of them keep their shape.                                           *)
(***************************************************************************)
EXTENDS MCStore, Outbox_proofs, Lists_proofs

-----------------------------------------------------------------------------
(* PolicyPlan: what can be reached *)

Onward(edges, before) == before \cup {e[2] : e \in {d \in edges : d[1] \in before}}
Closed(edges, set) == \A e \in edges : e[1] \in set => e[2] \in set
Rounds(f, edges, start, n) ==
  f = [i \in 0 .. n |-> IF i = 0 THEN {start} ELSE Onward(edges, f[i - 1])]

\* The rounds of the search exist, for any number of them.
LEMMA RoundsExist == ASSUME NEW edges, NEW start PROVE \A n \in Nat : \E f : Rounds(f, edges, start, n)
<1> DEFINE S == {n \in Nat : \E f : Rounds(f, edges, start, n)}
<1>1. 0 \in S
  <2>1. Rounds([i \in 0 .. 0 |-> {start}], edges, start, 0)
    BY DEF Rounds
  <2>2. QED
    BY <2>1
<1>2. ASSUME NEW n \in Nat, n \in S PROVE n + 1 \in S
  <2>1. PICK f : Rounds(f, edges, start, n)
    BY <1>2
  <2>2. PICK g : g = [i \in 0 .. n + 1 |-> IF i = n + 1 THEN Onward(edges, f[n]) ELSE f[i]]
    OBVIOUS
  <2>3. \A i \in 0 .. n : g[i] = f[i]
    BY <2>2
  <2>4. \A i \in 0 .. n : f[i] = IF i = 0 THEN {start} ELSE Onward(edges, f[i - 1])
    BY <2>1 DEF Rounds
  <2>5. ASSUME NEW i \in 0 .. n + 1 PROVE g[i] = IF i = 0 THEN {start} ELSE Onward(edges, g[i - 1])
    <3>1. CASE i = n + 1
      BY <2>2, <2>3, <3>1
    <3>2. CASE i # n + 1
      <4>1. i \in 0 .. n /\ (i # 0 => i - 1 \in 0 .. n)
        BY <3>2
      <4>2. QED
        BY <2>3, <2>4, <4>1
    <3>3. QED
      BY <3>1, <3>2
  <2>6. g = [i \in 0 .. n + 1 |-> IF i = 0 THEN {start} ELSE Onward(edges, g[i - 1])]
    BY <2>2, <2>5
  <2>7. QED
    BY <2>6 DEF Rounds
<1> HIDE DEF S
<1>3. Nat \subseteq S
  BY <1>1, <1>2, Inductive
<1>4. QED
  BY <1>3 DEF S

\* The search of ReachedFrom finds the least set that holds the start and is closed: there
\* are rounds enough for the longest way, since each round that is not the last finds a
\* vertex and there are no more vertices than edges, but for the start.
LEMMA ReachedIsLeast ==
  ASSUME NEW edges, IsFiniteSet(edges), NEW start
  PROVE  /\ start \in ReachedFrom(edges, start) /\ Closed(edges, ReachedFrom(edges, start))
         /\ \A set : start \in set /\ Closed(edges, set) => ReachedFrom(edges, start) \subseteq set
<1>1. PICK N : N = Cardinality(edges)
  OBVIOUS
<1>2. N \in Nat
  BY <1>1, FS_CardinalityType
<1>3. PICK f : Rounds(f, edges, start, N) /\ ReachedFrom(edges, start) = f[N]
  <2>1. PICK f : f = CHOOSE g : Rounds(g, edges, start, N)
    OBVIOUS
  <2>2. Rounds(f, edges, start, N)
    BY <1>2, <2>1, RoundsExist
  <2>3. ReachedFrom(edges, start) = f[N]
    BY <1>1, <2>1 DEF ReachedFrom, Rounds, Onward
  <2>4. QED
    BY <2>2, <2>3
<1>4. f[0] = {start} /\ \A i \in 0 .. N : i # 0 => f[i] = Onward(edges, f[i - 1])
  <2>1. \A i \in 0 .. N : f[i] = IF i = 0 THEN {start} ELSE Onward(edges, f[i - 1])
    BY <1>3 DEF Rounds
  <2>2. 0 \in 0 .. N
    BY <1>2
  <2>3. QED
    BY <2>1, <2>2
<1>5. ASSUME NEW P, 0 \in P, \A i \in Nat : i + 1 \in 0 .. N /\ i \in P => i + 1 \in P
      PROVE  N \in P
  <2> DEFINE Q == {i \in Nat : i \in 0 .. N => i \in P}
  <2>1. 0 \in Q
    BY <1>5
  <2>2. ASSUME NEW i \in Nat, i \in Q PROVE i + 1 \in Q
    BY <1>2, <1>5, <2>2
  <2> HIDE DEF Q
  <2>3. Nat \subseteq Q
    BY <2>1, <2>2, Inductive
  <2>4. QED
    BY <1>2, <2>3 DEF Q
<1>6. ASSUME NEW i \in Nat, i + 1 \in 0 .. N PROVE f[i + 1] = Onward(edges, f[i])
  BY <1>4, <1>6
<1>7. start \in f[N]
  <2> DEFINE P == {i \in Nat : start \in f[i]}
  <2>1. 0 \in P
    BY <1>4
  <2>2. ASSUME NEW i \in Nat, i + 1 \in 0 .. N, i \in P PROVE i + 1 \in P
    BY <1>6, <2>2 DEF Onward
  <2> HIDE DEF P
  <2>3. N \in P
    BY <1>5, <2>1, <2>2
  <2>4. QED
    BY <2>3 DEF P
<1>8. ASSUME NEW set, start \in set, Closed(edges, set) PROVE f[N] \subseteq set
  <2> DEFINE P == {i \in Nat : f[i] \subseteq set}
  <2>1. 0 \in P
    BY <1>4, <1>8
  <2>2. ASSUME NEW i \in Nat, i + 1 \in 0 .. N, i \in P PROVE i + 1 \in P
    <3>1. Onward(edges, f[i]) \subseteq set
      BY <1>8, <2>2 DEF Onward, Closed
    <3>2. QED
      BY <1>6, <2>2, <3>1
  <2> HIDE DEF P
  <2>3. N \in P
    BY <1>5, <2>1, <2>2
  <2>4. QED
    BY <2>3 DEF P
<1>9. PICK T, V : T = {e[2] : e \in edges} /\ V = T \cup {start}
  OBVIOUS
<1>10. IsFiniteSet(T) /\ Cardinality(T) \in Nat /\ Cardinality(T) <= N
  <2>1. PICK to : to = [e \in edges |-> e[2]]
    OBVIOUS
  <2>2. to \in Surjection(edges, T)
    BY <1>9, <2>1 DEF Surjection
  <2>3. QED
    BY <1>1, <2>2, FS_Surjection, FS_CardinalityType
<1>11. IsFiniteSet(V) /\ Cardinality(V) \in Nat /\ Cardinality(V) <= N + 1
  <2>1. CASE start \in T
    <3>1. V = T
      BY <1>9, <2>1
    <3>2. QED
      BY <1>2, <1>10, <3>1
  <2>2. CASE start \notin T
    <3>1. IsFiniteSet(T \cup {start}) /\ Cardinality(T \cup {start}) = Cardinality(T) + 1
      BY <1>10, <2>2, FS_AddElement
    <3>2. QED
      BY <1>2, <1>9, <1>10, <3>1
  <2>3. QED
    BY <2>1, <2>2
<1>12. Closed(edges, V) /\ start \in V
  BY <1>9 DEF Closed
<1>13. Closed(edges, f[N])
  <2> DEFINE P == {i \in Nat : f[i] \subseteq V /\ (Closed(edges, f[i]) \/ Cardinality(f[i]) >= i + 1)}
  <2>1. 0 \in P
    <3>1. Cardinality({start}) = 1
      BY FS_Singleton
    <3>2. QED
      BY <1>4, <1>12, <3>1
  <2>2. ASSUME NEW i \in Nat, i + 1 \in 0 .. N, i \in P PROVE i + 1 \in P
    <3>1. f[i + 1] = Onward(edges, f[i]) /\ f[i] \subseteq f[i + 1]
      BY <1>6, <2>2 DEF Onward
    <3>2. f[i + 1] \subseteq V
      BY <1>12, <2>2, <3>1 DEF Onward, Closed
    <3>3. CASE Closed(edges, f[i])
      <4>1. f[i + 1] = f[i]
        BY <3>1, <3>3 DEF Onward, Closed
      <4>2. QED
        BY <2>2, <3>2, <3>3, <4>1
    <3>4. CASE ~Closed(edges, f[i])
      <4>1. Cardinality(f[i]) >= i + 1
        BY <2>2, <3>4
      <4>2. PICK v \in f[i + 1] : v \notin f[i]
        BY <3>1, <3>4 DEF Onward, Closed
      <4>3. /\ IsFiniteSet(f[i]) /\ IsFiniteSet(f[i + 1])
            /\ Cardinality(f[i]) \in Nat /\ Cardinality(f[i + 1]) \in Nat
        BY <1>11, <2>2, <3>2, FS_Subset, FS_CardinalityType
      <4>4. f[i] \cup {v} \subseteq f[i + 1] /\ Cardinality(f[i] \cup {v}) = Cardinality(f[i]) + 1
        BY <3>1, <4>2, <4>3, FS_AddElement
      <4>5. Cardinality(f[i] \cup {v}) <= Cardinality(f[i + 1])
        BY <4>3, <4>4, FS_Subset
      <4>6. Cardinality(f[i + 1]) >= (i + 1) + 1
        BY <4>1, <4>3, <4>4, <4>5
      <4>7. QED
        BY <3>2, <4>6
    <3>5. QED
      BY <3>3, <3>4
  <2> HIDE DEF P
  <2>3. N \in P
    BY <1>5, <2>1, <2>2
  <2>4. f[N] \subseteq V /\ (Closed(edges, f[N]) \/ Cardinality(f[N]) >= N + 1)
    BY <2>3 DEF P
  <2>5. CASE Cardinality(f[N]) >= N + 1
    <3>1. Cardinality(f[N]) \in Nat /\ Cardinality(f[N]) <= Cardinality(V)
      BY <1>11, <2>4, FS_Subset, FS_CardinalityType
    <3>2. Cardinality(f[N]) = Cardinality(V)
      BY <1>2, <1>11, <2>5, <3>1
    <3>3. f[N] = V
      BY <1>11, <2>4, <3>2, FS_Subset
    <3>4. QED
      BY <1>12, <3>3
  <2>6. QED
    BY <2>4, <2>5
<1>14. QED
  BY <1>3, <1>7, <1>8, <1>13

-----------------------------------------------------------------------------
(* PolicyPlan: a plan that is carried out settles *)

\* The Supersessions of t suit the entry that would have by in place of t.
Fine(t, by, x) ==
  /\ \A r \in x : r.of = t => r.by = by /\ r.origin # "inbox"
  /\ Cardinality({r \in x : r.of = t}) <= 1
  /\ \A w \in by : t \notin ReachedFrom(Replacements(x), w)

\* What the entry of s says whatever the Supersessions are, and what it looks at in them.
Stays(s) == \E e : e.reason \notin EligibleReasons /\ \A x : EntryOf(s, x) = e
Intends(s, t, by, fresh) ==
  /\ fresh \in WriteReasons /\ s \notin inbox /\ t \in Observed(s, "from") /\ t.of = s
  /\ by = {} \/ \E w \in Observed(s, "to") : by = {w}
  /\ \A x : EntryOf(s, x) = Intent({t}, by, x, fresh)

\* What is observed of a source is of that source, and is told apart by its key.
LEMMA ObservedUnits ==
  ASSUME NEW s, NEW p
  PROVE  /\ \A u \in Observed(s, p) : u.of = s
         /\ \A u \in Observed(s, p), w \in Observed(s, p) : u.key = w.key => u = w
<1>1. \A k : UnitOf(s, p, k).of = s /\ UnitOf(s, p, k).key = k
  BY DEF UnitOf
<1>2. \A u \in Observed(s, p) : u = UnitOf(s, p, u.key)
  BY <1>1 DEF Observed
<1>3. QED
  BY <1>1, <1>2

\* An authorised Observation is the only one: there is one per key.
LEMMA AuthorizedIsOne ==
  ASSUME NEW s, NEW p
  PROVE  Authorized(s, p) = {} \/ \E u \in Observed(s, p) : Authorized(s, p) = {u}
BY ObservedUnits DEF Authorized

LEMMA EntryForms ==
  ASSUME NEW s PROVE Stays(s) \/ \E t, by, fresh : Intends(s, t, by, fresh)
<1>1. PICK old, new : old = Authorized(s, "from") /\ new = Authorized(s, "to")
  OBVIOUS
<1>2. CASE /\ s \notin inbox /\ decided[s]["to"] # "none" /\ old # {}
           /\ ~\E p \in PlanPolicies : Observed(s, p) # Authorized(s, p)
           /\ (old \cup new) \cap inbox = {} /\ Effective(s) # "none"
           /\ (Effective(s) = "reject" \/ new # {})
  <2>1. PICK t \in Observed(s, "from") : old = {t}
    BY <1>1, <1>2, AuthorizedIsOne
  <2>2. t.of = s
    BY ObservedUnits
  <2>3. CASE Effective(s) = "reject"
    <3>1. \A x : EntryOf(s, x) = Intent({t}, {}, x, "invalidate")
      BY <1>1, <1>2, <2>1, <2>3 DEF EntryOf
    <3>2. Intends(s, t, {}, "invalidate")
      BY <1>2, <2>2, <3>1 DEF Intends, WriteReasons
    <3>3. QED
      BY <3>2
  <2>4. CASE Effective(s) # "reject"
    <3>1. PICK w \in Observed(s, "to") : new = {w}
      BY <1>1, <1>2, <2>4, AuthorizedIsOne
    <3>2. \A x : EntryOf(s, x) = Intent({t}, {w}, x, "replace")
      BY <1>1, <1>2, <2>1, <2>4, <3>1 DEF EntryOf
    <3>3. Intends(s, t, {w}, "replace")
      BY <1>2, <2>2, <3>1, <3>2 DEF Intends, WriteReasons
    <3>4. QED
      BY <3>3
  <2>5. QED
    BY <2>3, <2>4
<1>3. CASE ~(/\ s \notin inbox /\ decided[s]["to"] # "none" /\ old # {}
             /\ ~\E p \in PlanPolicies : Observed(s, p) # Authorized(s, p)
             /\ (old \cup new) \cap inbox = {} /\ Effective(s) # "none"
             /\ (Effective(s) = "reject" \/ new # {}))
  <2>1. PICK e : e = EntryOf(s, {})
    OBVIOUS
  <2>2. \A x : EntryOf(s, x) = e
    BY <1>1, <1>3, <2>1 DEF EntryOf
  <2>3. e.reason \in {"imported_unsafe", "ambiguous_unsafe", "missing_unsafe"}
    BY <1>1, <1>3, <2>1 DEF EntryOf, Entry
  <2>4. QED
    BY <2>2, <2>3 DEF Stays, EligibleReasons, WriteReasons
<1>4. QED
  BY <1>2, <1>3


\* An entry is eligible where the Supersessions of its target suit it, and writes where
\* there are none.
LEMMA IntendsEntry ==
  ASSUME NEW x, IsFiniteSet(x), NEW s, NEW t, NEW by, NEW fresh, Intends(s, t, by, fresh)
  PROVE  /\ EntryOf(s, x).target = {t} /\ EntryOf(s, x).replacement = by
         /\ EntryOf(s, x).reason \in EligibleReasons <=> Fine(t, by, x)
         /\ Fine(t, by, x) => EntryOf(s, x).reason =
              IF \E r \in x : r.of = t THEN "already_applied" ELSE fresh
<1>1. PICK e : e = EntryOf(s, x) /\ e = Intent({t}, by, x, fresh) /\ fresh \in WriteReasons
  BY DEF Intends
<1>2. PICK rows, have : rows = {r \in x : r.of = t} /\ have = {r \in rows : r.by = by}
  OBVIOUS
<1>3. PICK cyclic \in BOOLEAN : cyclic <=> \E w \in by : t \in ReachedFrom(Replacements(x), w)
  OBVIOUS
<1>4. e = Entry(IF by = {} /\ have # rows THEN "conflicting_intent_unsafe"
            ELSE IF \E r \in have : r.origin = "inbox" THEN "imported_unsafe"
            ELSE IF cyclic THEN "cycle_unsafe"
            ELSE IF have # rows THEN "conflicting_intent_unsafe"
            ELSE IF Cardinality(have) > 1 THEN "ambiguous_unsafe"
            ELSE IF have # {} THEN "already_applied" ELSE fresh,
            {t}, by)
  <2>1. {r \in x : r.of \in {t}} = rows
    BY <1>2
  <2>2. cyclic <=> \E u \in {t}, w \in by : u \in ReachedFrom(Replacements(x), w)
    BY <1>3
  <2>3. QED
    BY <1>1, <1>2, <2>1, <2>2 DEF Intent
<1>5. Cardinality(rows) \in Nat
  BY <1>2, FS_Subset, FS_CardinalityType
<1>6. e.target = {t} /\ e.replacement = by
  BY <1>4 DEF Entry
<1>7. e.reason = IF by = {} /\ have # rows THEN "conflicting_intent_unsafe"
            ELSE IF \E r \in have : r.origin = "inbox" THEN "imported_unsafe"
            ELSE IF cyclic THEN "cycle_unsafe"
            ELSE IF have # rows THEN "conflicting_intent_unsafe"
            ELSE IF Cardinality(have) > 1 THEN "ambiguous_unsafe"
            ELSE IF have # {} THEN "already_applied" ELSE fresh
  BY <1>4 DEF Entry
<1>8. Fine(t, by, x) <=> /\ have = rows /\ ~\E r \in have : r.origin = "inbox"
                         /\ ~cyclic /\ ~(Cardinality(rows) > 1)
  <2>1. (\A r \in x : r.of = t => r.by = by /\ r.origin # "inbox")
          <=> have = rows /\ ~\E r \in have : r.origin = "inbox"
    BY <1>2
  <2>2. QED
    BY <1>2, <1>3, <1>5, <2>1 DEF Fine
<1>9. fresh \in {"replace", "invalidate"}
  BY <1>1 DEF WriteReasons
<1>10. e.reason \in EligibleReasons <=> Fine(t, by, x)
  BY <1>7, <1>8, <1>9 DEF EligibleReasons, WriteReasons
<1>11. Fine(t, by, x) => e.reason = IF \E r \in x : r.of = t THEN "already_applied" ELSE fresh
  BY <1>2, <1>7, <1>8
<1>12. QED
  BY <1>1, <1>6, <1>10, <1>11

\* The Supersession that carries out a write.
RowOf(t, by) == [of |-> t, by |-> by, origin |-> "local", n |-> 1]

\* The sources whose entry the plan writes.
Writes(s, sups) == s \in Candidates /\ EntryOf(s, sups).reason \in WriteReasons

\* What is carried out are the Supersessions of the sources that the plan writes.
LEMMA CarriedRows ==
  ASSUME NEW sups, IsFiniteSet(sups)
  PROVE  \A r : r \in CarriedOut(sups) <=>
           r \in sups \/ \E s \in Candidates : Writes(s, sups) /\
             \E t, by, fresh : Intends(s, t, by, fresh) /\ r = RowOf(t, by)
<1> SUFFICES ASSUME NEW r
             PROVE  r \in CarriedOut(sups) <=>
                      r \in sups \/ \E s \in Candidates : Writes(s, sups) /\
                        \E t, by, fresh : Intends(s, t, by, fresh) /\ r = RowOf(t, by)
  OBVIOUS
<1>1. PICK written : written =
        {entry \in {EntryOf(s, sups) : s \in Candidates} : entry.reason \in WriteReasons}
  OBVIOUS
<1>2. CarriedOut(sups) = sups \cup {[of |-> CHOOSE u \in w.target : TRUE, by |-> w.replacement,
                                     origin |-> "local", n |-> 1] : w \in written}
  BY <1>1 DEF CarriedOut
<1>3. ASSUME NEW t, NEW by, NEW e, e.target = {t}, e.replacement = by
      PROVE  [of |-> CHOOSE u \in e.target : TRUE, by |-> e.replacement, origin |-> "local", n |-> 1]
               = RowOf(t, by)
  <2>1. (CHOOSE u \in {t} : TRUE) = t
    OBVIOUS
  <2>2. QED
    BY <1>3, <2>1 DEF RowOf
<1>4. ASSUME NEW s, NEW t, NEW by, NEW fresh, Intends(s, t, by, fresh)
      PROVE  EntryOf(s, sups).target = {t} /\ EntryOf(s, sups).replacement = by
  BY <1>4, IntendsEntry
<1>5. ASSUME NEW s \in Candidates, Writes(s, sups)
      PROVE  /\ EntryOf(s, sups) \in written
             /\ \E t, by, fresh : Intends(s, t, by, fresh)
  <2>1. EntryOf(s, sups) \in written
    BY <1>1, <1>5 DEF Writes
  <2>2. ~Stays(s)
    BY <1>5 DEF Stays, Writes, EligibleReasons
  <2>3. QED
    BY <2>1, <2>2, EntryForms
<1>6. ASSUME r \in CarriedOut(sups), r \notin sups
      PROVE  \E s \in Candidates : Writes(s, sups) /\
               \E t, by, fresh : Intends(s, t, by, fresh) /\ r = RowOf(t, by)
  <2>1. PICK w \in written : r = [of |-> CHOOSE u \in w.target : TRUE, by |-> w.replacement,
                                  origin |-> "local", n |-> 1]
    BY <1>2, <1>6
  <2>2. PICK s \in Candidates : w = EntryOf(s, sups) /\ w.reason \in WriteReasons
    BY <1>1
  <2>3. Writes(s, sups)
    BY <2>2 DEF Writes
  <2>4. PICK t, by, fresh : Intends(s, t, by, fresh)
    BY <1>5, <2>3
  <2>5. r = RowOf(t, by)
    BY <1>3, <1>4, <2>1, <2>2, <2>4
  <2>6. QED
    BY <2>3, <2>4, <2>5
<1>7. ASSUME NEW s \in Candidates, Writes(s, sups), NEW t, NEW by, NEW fresh,
             Intends(s, t, by, fresh), r = RowOf(t, by)
      PROVE  r \in CarriedOut(sups)
  <2>1. EntryOf(s, sups) \in written
    BY <1>5, <1>7
  <2>2. r = [of |-> CHOOSE u \in EntryOf(s, sups).target : TRUE, by |-> EntryOf(s, sups).replacement,
             origin |-> "local", n |-> 1]
    BY <1>3, <1>4, <1>7
  <2>3. QED
    BY <1>2, <2>1, <2>2
<1>8. ASSUME r \in sups PROVE r \in CarriedOut(sups)
  BY <1>2, <1>8
<1>9. QED
  BY <1>6, <1>7, <1>8

\* There are finitely many of them.
LEMMA CarriedFinite ==
  ASSUME IsFiniteSet(Sources), NEW sups, IsFiniteSet(sups)
  PROVE  IsFiniteSet(Candidates) /\ IsFiniteSet(CarriedOut(sups))
<1>1. IsFiniteSet(Candidates)
  BY FS_Subset DEF Candidates
<1>2. PICK all : all = {EntryOf(s, sups) : s \in Candidates}
  OBVIOUS
<1>3. PICK written : written = {entry \in all : entry.reason \in WriteReasons}
  OBVIOUS
<1>4. PICK rows : rows = {[of |-> CHOOSE u \in w.target : TRUE, by |-> w.replacement,
                           origin |-> "local", n |-> 1] : w \in written}
  OBVIOUS
<1>5. IsFiniteSet(all)
  <2>1. PICK to : to = [s \in Candidates |-> EntryOf(s, sups)]
    OBVIOUS
  <2>2. to \in Surjection(Candidates, all)
    BY <1>2, <2>1 DEF Surjection
  <2>3. QED
    BY <1>1, <2>2, FS_Surjection
<1>6. IsFiniteSet(written)
  BY <1>3, <1>5, FS_Subset
<1>7. IsFiniteSet(rows)
  <2>1. PICK to : to = [w \in written |-> [of |-> CHOOSE u \in w.target : TRUE, by |-> w.replacement,
                           origin |-> "local", n |-> 1]]
    OBVIOUS
  <2>2. to \in Surjection(written, rows)
    BY <1>4, <2>1 DEF Surjection
  <2>3. QED
    BY <1>6, <2>2, FS_Surjection
<1>8. CarriedOut(sups) = sups \cup rows
  BY <1>2, <1>3, <1>4 DEF CarriedOut
<1>9. QED
  BY <1>1, <1>7, <1>8, FS_Union

LEMMA ReplacementsFinite ==
  ASSUME NEW x, IsFiniteSet(x) PROVE IsFiniteSet(Replacements(x))
<1>1. PICK some : some = {r \in x : r.by # {}}
  OBVIOUS
<1>2. PICK to : to = [r \in some |-> <<r.of, CHOOSE w \in r.by : TRUE>>]
  OBVIOUS
<1>3. Replacements(x) = {<<r.of, CHOOSE w \in r.by : TRUE>> : r \in some}
  BY <1>1 DEF Replacements
<1>4. to \in Surjection(some, Replacements(x))
  BY <1>2, <1>3 DEF Surjection
<1>5. QED
  BY <1>1, <1>4, FS_Subset, FS_Surjection

\* More arrows reach no less.
LEMMA ReachedGrows ==
  ASSUME NEW few, NEW more, IsFiniteSet(more), few \subseteq more, NEW start
  PROVE  ReachedFrom(few, start) \subseteq ReachedFrom(more, start)
<1>1. IsFiniteSet(few)
  BY FS_Subset
<1>2. Closed(few, ReachedFrom(more, start)) /\ start \in ReachedFrom(more, start)
  BY ReachedIsLeast DEF Closed
<1>3. QED
  BY <1>1, <1>2, ReachedIsLeast


\* A source has one intent, and an Observation is intended by the source it is of.
LEMMA IntendsOnce ==
  ASSUME NEW s, NEW t, NEW by, NEW fresh, Intends(s, t, by, fresh),
         NEW v, NEW b, NEW f, Intends(v, t, b, f)
  PROVE  v = s /\ b = by
<1>1. v = s
  BY DEF Intends
<1>2. IsFiniteSet({})
  BY FS_EmptySet
<1>3. EntryOf(s, {}).replacement = by /\ EntryOf(v, {}).replacement = b
  BY <1>2, IntendsEntry
<1>4. QED
  BY <1>1, <1>3

\* The Supersessions of an Observation afterwards: its own source's is the one that is added.
LEMMA RowsAfter ==
  ASSUME NEW sups, IsFiniteSet(sups), NEW s \in Candidates,
         NEW t, NEW by, NEW fresh, Intends(s, t, by, fresh)
  PROVE  {r \in CarriedOut(sups) : r.of = t} =
           {r \in sups : r.of = t} \cup IF Writes(s, sups) THEN {RowOf(t, by)} ELSE {}
<1>1. RowOf(t, by).of = t /\ \A u, b : RowOf(u, b).of = u
  BY DEF RowOf
<1>2. ASSUME NEW r, r.of = t,
             NEW v \in Candidates, Writes(v, sups), NEW u, NEW b, NEW f, Intends(v, u, b, f), r = RowOf(u, b)
      PROVE  v = s /\ r = RowOf(t, by)
  <2>1. u = t
    BY <1>1, <1>2
  <2>2. v = s /\ b = by
    BY <1>2, <2>1, IntendsOnce
  <2>3. QED
    BY <1>2, <2>1, <2>2
<1>3. \A r : r \in CarriedOut(sups) /\ r.of = t <=>
        r.of = t /\ (r \in sups \/ (Writes(s, sups) /\ r = RowOf(t, by)))
  BY <1>1, <1>2, CarriedRows
<1>4. QED
  BY <1>1, <1>3

\* What was eligible has its Supersession afterwards and only that.
LEMMA FineAfter ==
  ASSUME IsFiniteSet(Sources), NEW sups, IsFiniteSet(sups), NEW s \in Candidates,
         NEW t, NEW by, NEW fresh, Intends(s, t, by, fresh), Fine(t, by, sups),
         \A w \in by : t \notin ReachedFrom(Replacements(CarriedOut(sups)), w)
  PROVE  /\ Fine(t, by, CarriedOut(sups)) /\ Cardinality({r \in CarriedOut(sups) : r.of = t}) = 1
         /\ \E r \in CarriedOut(sups) : r.of = t
<1>1. PICK before, after : /\ before = {r \in sups : r.of = t}
                           /\ after = {r \in CarriedOut(sups) : r.of = t}
  OBVIOUS
<1>2. EntryOf(s, sups).reason = IF before # {} THEN "already_applied" ELSE fresh
  BY <1>1, IntendsEntry
<1>3. fresh \in WriteReasons /\ "already_applied" \notin WriteReasons
  BY DEF Intends, WriteReasons
<1>4. Writes(s, sups) <=> before = {}
  BY <1>2, <1>3 DEF Writes
<1>5. RowOf(t, by).of = t /\ RowOf(t, by).by = by /\ RowOf(t, by).origin = "local"
  BY DEF RowOf
<1>6. after = IF before = {} THEN {RowOf(t, by)} ELSE before
  BY <1>1, <1>4, RowsAfter
<1>7. (\A r \in before : r.by = by /\ r.origin # "inbox") /\ Cardinality(before) <= 1
  BY <1>1 DEF Fine
<1>8. Cardinality(after) = 1
  <2>1. CASE before = {}
    BY <1>6, <2>1, FS_Singleton
  <2>2. CASE before # {}
    <3>1. IsFiniteSet(before) /\ Cardinality(before) \in Nat /\ Cardinality(before) # 0
      BY <1>1, <2>2, FS_Subset, FS_CardinalityType, FS_EmptySet
    <3>2. QED
      BY <1>6, <1>7, <2>2, <3>1
  <2>3. QED
    BY <2>1, <2>2
<1>9. after # {} /\ \A r \in after : r.by = by /\ r.origin # "inbox"
  BY <1>5, <1>6, <1>7
<1>10. \A r \in CarriedOut(sups) : r.of = t => r.by = by /\ r.origin # "inbox"
  BY <1>1, <1>9
<1>11. Fine(t, by, CarriedOut(sups))
  BY <1>1, <1>8, <1>10 DEF Fine
<1>12. QED
  BY <1>1, <1>8, <1>9, <1>11

\* What was not eligible is not afterwards.
LEMMA UnfitAfter ==
  ASSUME IsFiniteSet(Sources), NEW sups, IsFiniteSet(sups), NEW s \in Candidates,
         NEW t, NEW by, NEW fresh, Intends(s, t, by, fresh), ~Fine(t, by, sups)
  PROVE  ~Fine(t, by, CarriedOut(sups))
<1>1. ~Writes(s, sups)
  BY IntendsEntry DEF Writes, EligibleReasons
<1>2. PICK before : before = {r \in sups : r.of = t} /\ before = {r \in CarriedOut(sups) : r.of = t}
  <2>1. {r \in CarriedOut(sups) : r.of = t} = {r \in sups : r.of = t} \cup {}
    BY <1>1, RowsAfter
  <2>2. QED
    BY <2>1
<1>3. \A r \in sups : r \in CarriedOut(sups)
  BY CarriedRows
<1>4. CASE Cardinality(before) <= 1
  <2>1. CASE \E r \in sups : r.of = t /\ ~(r.by = by /\ r.origin # "inbox")
    BY <1>3, <2>1 DEF Fine
  <2>2. CASE \A r \in sups : r.of = t => r.by = by /\ r.origin # "inbox"
    <3>1. PICK w \in by : t \in ReachedFrom(Replacements(sups), w)
      BY <1>2, <1>4, <2>2 DEF Fine
    <3>2. IsFiniteSet(Replacements(CarriedOut(sups)))
      BY CarriedFinite, ReplacementsFinite
    <3>3. Replacements(sups) \subseteq Replacements(CarriedOut(sups))
      BY <1>3 DEF Replacements
    <3>4. t \in ReachedFrom(Replacements(CarriedOut(sups)), w)
      BY <3>1, <3>2, <3>3, ReachedGrows
    <3>5. QED
      BY <3>4 DEF Fine
  <2>3. QED
    BY <2>1, <2>2
<1>5. CASE ~(Cardinality(before) <= 1)
  BY <1>2, <1>5 DEF Fine
<1>6. QED
  BY <1>4, <1>5

\* The replacements afterwards are those the plan looked for a cycle in.
LEMMA EdgesAfter ==
  ASSUME NEW sups, IsFiniteSet(sups)
  PROVE  /\ Replacements(CarriedOut(sups)) = PlannedEdges(PlanOf(sups), sups)
         /\ \A e \in Replacements(CarriedOut(sups)) : e \in Replacements(sups) \/
              \E v \in Candidates : \E t, w, fresh : Intends(v, t, {w}, fresh) /\ e = <<t, w>>
<1>1. PICK planned : planned = {v \in Candidates : Writes(v, sups)}
  OBVIOUS
<1>2. PlannedEdges(PlanOf(sups), sups) = Replacements(sups) \cup
        UNION {EntryOf(s, sups).target \X EntryOf(s, sups).replacement : s \in planned}
  BY <1>1 DEF PlannedEdges, PlanOf, Writes
<1>3. ASSUME NEW v \in planned
      PROVE  \E t, by, fresh : /\ Intends(v, t, by, fresh)
                               /\ EntryOf(v, sups).target = {t} /\ EntryOf(v, sups).replacement = by
  <2>1. ~Stays(v)
    BY <1>1 DEF Stays, Writes, EligibleReasons
  <2>2. PICK t, by, fresh : Intends(v, t, by, fresh)
    BY <2>1, EntryForms
  <2>3. QED
    BY <2>2, IntendsEntry
<1>4. ASSUME NEW e, e \in UNION {EntryOf(s, sups).target \X EntryOf(s, sups).replacement : s \in planned}
      PROVE  e \in Replacements(CarriedOut(sups))
  <2>1. PICK v \in planned : e \in EntryOf(v, sups).target \X EntryOf(v, sups).replacement
    BY <1>4
  <2>2. PICK t, by, fresh : /\ Intends(v, t, by, fresh)
                            /\ EntryOf(v, sups).target = {t} /\ EntryOf(v, sups).replacement = by
    BY <1>3
  <2>3. PICK w \in by : e = <<t, w>>
    BY <2>1, <2>2
  <2>4. by = {w}
    BY <2>2, <2>3 DEF Intends
  <2>5. PICK r : r = RowOf(t, by)
    OBVIOUS
  <2>6. r \in CarriedOut(sups)
    BY <1>1, <2>2, <2>5, CarriedRows
  <2>7. r.of = t /\ r.by = {w} /\ r.by # {} /\ (CHOOSE b \in {w} : TRUE) = w
    BY <2>4, <2>5 DEF RowOf
  <2>8. e = <<r.of, CHOOSE b \in r.by : TRUE>>
    BY <2>3, <2>7
  <2>9. QED
    BY <2>6, <2>7, <2>8 DEF Replacements
<1>5. \A e \in Replacements(sups) : e \in Replacements(CarriedOut(sups))
  BY CarriedRows DEF Replacements
<1>6. ASSUME NEW e \in Replacements(CarriedOut(sups)), e \notin Replacements(sups)
      PROVE  /\ e \in UNION {EntryOf(s, sups).target \X EntryOf(s, sups).replacement : s \in planned}
             /\ \E v \in Candidates : \E t, w, fresh : Intends(v, t, {w}, fresh) /\ e = <<t, w>>
  <2>1. PICK r \in CarriedOut(sups) : r.by # {} /\ e = <<r.of, CHOOSE w \in r.by : TRUE>>
    BY DEF Replacements
  <2>2. r \notin sups
    BY <1>6, <2>1 DEF Replacements
  <2>3. PICK v \in Candidates : Writes(v, sups) /\
          \E t, by, fresh : Intends(v, t, by, fresh) /\ r = RowOf(t, by)
    BY <2>1, <2>2, CarriedRows
  <2>4. PICK t, by, fresh : Intends(v, t, by, fresh) /\ r = RowOf(t, by)
    BY <2>3
  <2>5. r.of = t /\ r.by = by /\ by # {}
    BY <2>1, <2>4 DEF RowOf
  <2>6. PICK w : by = {w}
    BY <2>4, <2>5 DEF Intends
  <2>7. (CHOOSE b \in {w} : TRUE) = w
    OBVIOUS
  <2>8. e = <<t, w>>
    BY <2>1, <2>5, <2>6, <2>7
  <2>9. EntryOf(v, sups).target = {t} /\ EntryOf(v, sups).replacement = {w}
    BY <2>4, <2>6, IntendsEntry
  <2>10. v \in planned
    BY <1>1, <2>3
  <2>11. e \in EntryOf(v, sups).target \X EntryOf(v, sups).replacement
    BY <2>8, <2>9
  <2>12. Intends(v, t, {w}, fresh) /\ e = <<t, w>>
    BY <2>4, <2>6, <2>8
  <2>13. QED
    BY <2>10, <2>11, <2>12
<1>7. QED
  <2>1. Replacements(CarriedOut(sups)) = PlannedEdges(PlanOf(sups), sups)
    BY <1>2, <1>4, <1>5, <1>6
  <2>2. QED
    BY <2>1, <1>6


\* An entry with an intent is made of its reason, its target and its replacement.
LEMMA IntendsShape ==
  ASSUME NEW x, NEW s, NEW t, NEW by, NEW fresh, Intends(s, t, by, fresh)
  PROVE  EntryOf(s, x) = Entry(EntryOf(s, x).reason, {t}, by)
<1>1. PICK e : e = EntryOf(s, x) /\ e = Intent({t}, by, x, fresh)
  BY DEF Intends
<1>2. \E reason : e = Entry(reason, {t}, by)
  BY <1>1 DEF Intent
<1>3. PICK reason : e = Entry(reason, {t}, by)
  BY <1>2
<1>4. e.reason = reason
  BY <1>3 DEF Entry
<1>5. QED
  BY <1>1, <1>3, <1>4

\* The entry of a candidate afterwards.
LEMMA EntryAfter ==
  ASSUME IsFiniteSet(Sources), NEW sups, IsFiniteSet(sups), Admissible(sups), NEW s \in Candidates
  PROVE  /\ EntryOf(s, CarriedOut(sups)).reason \notin WriteReasons
         /\ EntryOf(s, CarriedOut(sups)).reason \in EligibleReasons
              <=> EntryOf(s, sups).reason \in EligibleReasons
         /\ EntryOf(s, sups).reason \in EligibleReasons =>
              /\ EntryOf(s, CarriedOut(sups)) = [EntryOf(s, sups) EXCEPT !.reason = "already_applied"]
              /\ EntryOf(s, CarriedOut(sups)).target = EntryOf(s, sups).target
              /\ EntryOf(s, CarriedOut(sups)).replacement = EntryOf(s, sups).replacement
              /\ \A u \in EntryOf(s, sups).target :
                   /\ Cardinality({r \in CarriedOut(sups) : r.of = u}) = 1
                   /\ \A w \in EntryOf(s, sups).replacement :
                        u \notin ReachedFrom(Replacements(CarriedOut(sups)), w)
<1>1. PICK after : after = CarriedOut(sups)
  OBVIOUS
<1>2. IsFiniteSet(after)
  BY <1>1, CarriedFinite
<1>3. WriteReasons \subseteq EligibleReasons
        /\ "already_applied" \in EligibleReasons /\ "already_applied" \notin WriteReasons
  BY DEF EligibleReasons, WriteReasons
<1>4. CASE Stays(s)
  <2>1. EntryOf(s, after).reason \notin EligibleReasons /\ EntryOf(s, sups).reason \notin EligibleReasons
    BY <1>4 DEF Stays
  <2>2. QED
    BY <1>1, <1>3, <2>1
<1>5. CASE \E t, by, fresh : Intends(s, t, by, fresh)
  <2>1. PICK t, by, fresh : Intends(s, t, by, fresh)
    BY <1>5
  <2>2. /\ EntryOf(s, sups).target = {t} /\ EntryOf(s, sups).replacement = by
        /\ EntryOf(s, sups).reason \in EligibleReasons <=> Fine(t, by, sups)
    BY <2>1, IntendsEntry
  <2>3. /\ EntryOf(s, after).target = {t} /\ EntryOf(s, after).replacement = by
        /\ EntryOf(s, after).reason \in EligibleReasons <=> Fine(t, by, after)
        /\ Fine(t, by, after) => EntryOf(s, after).reason =
             IF \E r \in after : r.of = t THEN "already_applied" ELSE fresh
    BY <1>2, <2>1, IntendsEntry
  <2>4. CASE Fine(t, by, sups)
    <3>1. \A u \in PlanOf(sups)[s].target, w \in PlanOf(sups)[s].replacement :
            u \notin ReachedFrom(PlannedEdges(PlanOf(sups), sups), w)
      <4>1. PlanOf(sups)[s].reason \in EligibleReasons
        BY <2>2, <2>4 DEF PlanOf
      <4>2. QED
        BY <4>1 DEF Admissible
    <3>2. \A w \in by : t \notin ReachedFrom(Replacements(after), w)
      <4>1. PlanOf(sups)[s] = EntryOf(s, sups)
        BY DEF PlanOf
      <4>2. QED
        BY <1>1, <2>2, <3>1, <4>1, EdgesAfter
    <3>3. /\ Fine(t, by, after) /\ Cardinality({r \in after : r.of = t}) = 1
          /\ \E r \in after : r.of = t
      BY <1>1, <2>1, <2>4, <3>2, FineAfter
    <3>4. EntryOf(s, after).reason = "already_applied"
      BY <2>3, <3>3
    <3>5. EntryOf(s, after) = [EntryOf(s, sups) EXCEPT !.reason = "already_applied"]
      <4>1. PICK reason : EntryOf(s, sups) = Entry(reason, {t}, by)
        BY <2>1, IntendsShape
      <4>2. EntryOf(s, after) = Entry("already_applied", {t}, by)
        BY <2>1, <3>4, IntendsShape
      <4>3. [Entry(reason, {t}, by) EXCEPT !.reason = "already_applied"] = Entry("already_applied", {t}, by)
        BY DEF Entry
      <4>4. QED
        BY <4>1, <4>2, <4>3
    <3>6. \A u \in {t} : /\ Cardinality({r \in after : r.of = u}) = 1
                         /\ \A w \in by : u \notin ReachedFrom(Replacements(after), w)
      BY <3>2, <3>3
    <3>7. QED
      BY <1>1, <1>3, <2>2, <2>3, <2>4, <3>3, <3>4, <3>5, <3>6
  <2>5. CASE ~Fine(t, by, sups)
    <3>1. ~Fine(t, by, after)
      BY <1>1, <2>1, <2>5, UnfitAfter
    <3>2. QED
      BY <1>1, <1>3, <2>2, <2>3, <2>5, <3>1
  <2>6. QED
    BY <2>4, <2>5
<1>6. QED
  BY <1>4, <1>5, EntryForms

\* The arrows that hang candidates together.
LineageOf(v) == IF v \in inbox THEN {} ELSE Observed(v, "from") \cup Observed(v, "to")
Ways(sups) == Replacements(sups) \cup UNION {{<<v, u>> : u \in LineageOf(v)} : v \in Candidates}
BothWays(links) == links \cup {<<e[2], e[1]>> : e \in links}

LEMMA LinkedByWays ==
  ASSUME NEW s, NEW sups
  PROVE  Linked(s, sups) = ReachedFrom(BothWays(Ways(sups)), s) \cap Candidates
BY DEF Linked, Ways, LineageOf, BothWays

\* There are finitely many of them.
LEMMA WaysFinite ==
  ASSUME IsFiniteSet(Sources), NEW sups, IsFiniteSet(sups)
  PROVE  IsFiniteSet(BothWays(Ways(sups)))
<1>1. IsFiniteSet(Candidates)
  BY FS_Subset DEF Candidates
<1>2. ASSUME NEW v, NEW p PROVE IsFiniteSet(Observed(v, p))
  <2>1. PICK a, b : a = {UnitOf(v, p, "ordinary")} /\ b = {UnitOf(v, p, "held")}
    OBVIOUS
  <2>2. IsFiniteSet(a) /\ IsFiniteSet(b)
    BY <2>1, FS_Singleton
  <2>3. Observed(v, p) \subseteq a \cup b
    BY <2>1 DEF Observed
  <2>4. QED
    BY <2>2, <2>3, FS_Union, FS_Subset
<1>3. ASSUME NEW v PROVE IsFiniteSet(LineageOf(v))
  BY <1>2, FS_Union, FS_EmptySet DEF LineageOf
<1>4. PICK lines : lines = {LineageOf(v) : v \in Candidates}
  OBVIOUS
<1>5. IsFiniteSet(lines)
  <2>1. PICK to : to = [v \in Candidates |-> LineageOf(v)]
    OBVIOUS
  <2>2. to \in Surjection(Candidates, lines)
    BY <1>4, <2>1 DEF Surjection
  <2>3. QED
    BY <1>1, <2>2, FS_Surjection
<1>6. IsFiniteSet(UNION lines)
  BY <1>3, <1>4, <1>5, FS_UNION
<1>7. IsFiniteSet(Candidates \X UNION lines)
  BY <1>1, <1>6, FS_Product
<1>8. UNION {{<<v, u>> : u \in LineageOf(v)} : v \in Candidates} \subseteq Candidates \X UNION lines
  BY <1>4
<1>9. IsFiniteSet(UNION {{<<v, u>> : u \in LineageOf(v)} : v \in Candidates})
  BY <1>7, <1>8, FS_Subset
<1>10. IsFiniteSet(Ways(sups))
  BY <1>9, ReplacementsFinite, FS_Union DEF Ways
<1>11. PICK links, turned : links = Ways(sups) /\ turned = {<<e[2], e[1]>> : e \in links}
  OBVIOUS
<1>12. IsFiniteSet(turned)
  <2>1. PICK to : to = [e \in links |-> <<e[2], e[1]>>]
    OBVIOUS
  <2>2. to \in Surjection(links, turned)
    BY <1>11, <2>1 DEF Surjection
  <2>3. QED
    BY <1>10, <1>11, <2>2, FS_Surjection
<1>13. QED
  BY <1>10, <1>11, <1>12, FS_Union DEF BothWays

\* A write joins what hangs together already: both its ends are of its own candidate.
LEMMA LinkedAfter ==
  ASSUME IsFiniteSet(Sources), NEW sups, IsFiniteSet(sups), NEW s
  PROVE  Linked(s, CarriedOut(sups)) \subseteq Linked(s, sups)
<1>1. PICK links, R : links = Ways(sups) /\ R = ReachedFrom(BothWays(links), s)
  OBVIOUS
<1>2. PICK more : more = Ways(CarriedOut(sups))
  OBVIOUS
<1>3. IsFiniteSet(BothWays(links)) /\ IsFiniteSet(BothWays(more))
  BY <1>1, <1>2, WaysFinite, CarriedFinite
<1>4. s \in R /\ Closed(BothWays(links), R)
  BY <1>1, <1>3, ReachedIsLeast
<1>5. \A e \in links : e[1] \in R <=> e[2] \in R
  <2>1. SUFFICES ASSUME NEW e \in links PROVE e[1] \in R <=> e[2] \in R
    OBVIOUS
  <2>2. e \in BothWays(links) /\ <<e[2], e[1]>> \in BothWays(links)
    BY DEF BothWays
  <2>3. QED
    BY <1>4, <2>2 DEF Closed
<1>6. ASSUME NEW v \in Candidates, NEW u \in LineageOf(v) PROVE <<v, u>> \in links
  BY <1>1 DEF Ways
<1>7. ASSUME NEW e \in more PROVE e[1] \in R <=> e[2] \in R
  <2>1. CASE e \in links
    BY <1>5, <2>1
  <2>2. CASE e \notin links
    <3>1. e \in Replacements(CarriedOut(sups)) /\ e \notin Replacements(sups)
      BY <1>1, <1>2, <2>2 DEF Ways
    <3>2. PICK v \in Candidates : \E t, w, fresh : Intends(v, t, {w}, fresh) /\ e = <<t, w>>
      BY <3>1, EdgesAfter
    <3>3. PICK t, w, fresh : Intends(v, t, {w}, fresh) /\ e = <<t, w>>
      BY <3>2
    <3>4. t \in LineageOf(v) /\ w \in LineageOf(v)
      <4>1. PICK b : b = {w} /\ Intends(v, t, b, fresh)
        BY <3>3
      <4>2. v \notin inbox /\ t \in Observed(v, "from") /\ w \in Observed(v, "to")
        BY <4>1 DEF Intends
      <4>3. QED
        BY <4>2 DEF LineageOf
    <3>5. <<v, t>> \in links /\ <<v, w>> \in links
      BY <1>6, <3>4
    <3>6. (v \in R <=> t \in R) /\ (v \in R <=> w \in R)
      BY <1>5, <3>5
    <3>7. QED
      BY <3>3, <3>6
  <2>3. QED
    BY <2>1, <2>2
<1>8. Closed(BothWays(more), R)
  BY <1>7 DEF BothWays, Closed
<1>9. ReachedFrom(BothWays(more), s) \subseteq R
  BY <1>3, <1>4, <1>8, ReachedIsLeast
<1>10. QED
  BY <1>1, <1>2, <1>9, LinkedByWays


\* A plan that may be followed settles, whatever has been decided, observed and retracted.
LEMMA SettlesNow ==
  ASSUME IsFiniteSet(Sources), IsFiniteSet(supersessions)
  PROVE  PlanSettles
<1> SUFFICES ASSUME Admissible(supersessions),
                    Cardinality({r \in CarriedOut(supersessions) : r.origin = "local"}) < ScanLimit
             PROVE  /\ Admissible(CarriedOut(supersessions))
                    /\ \A s \in Candidates : PlanOf(supersessions)[s].reason \in EligibleReasons =>
                         /\ PlanOf(CarriedOut(supersessions))[s] =
                              [PlanOf(supersessions)[s] EXCEPT !.reason = "already_applied"]
                         /\ \A u \in PlanOf(supersessions)[s].target :
                              /\ Cardinality({r \in CarriedOut(supersessions) : r.of = u}) = 1
                              /\ \A w \in PlanOf(supersessions)[s].replacement :
                                   u \notin ReachedFrom(Replacements(CarriedOut(supersessions)), w)
  BY DEF PlanSettles
<1>1. PICK sups, after : sups = supersessions /\ after = CarriedOut(supersessions)
  OBVIOUS
<1>2. IsFiniteSet(sups) /\ Admissible(sups) /\ after = CarriedOut(sups)
  BY <1>1
<1>3. PICK plan, settled : plan = PlanOf(sups) /\ settled = PlanOf(after)
  OBVIOUS
<1>4. \A s \in Candidates : plan[s] = EntryOf(s, sups) /\ settled[s] = EntryOf(s, after)
  BY <1>3 DEF PlanOf
<1>5. ASSUME NEW s \in Candidates
      PROVE  /\ settled[s].reason \notin WriteReasons
             /\ settled[s].reason \in EligibleReasons <=> plan[s].reason \in EligibleReasons
             /\ plan[s].reason \in EligibleReasons =>
                  /\ settled[s] = [plan[s] EXCEPT !.reason = "already_applied"]
                  /\ settled[s].target = plan[s].target /\ settled[s].replacement = plan[s].replacement
                  /\ \A u \in plan[s].target :
                       /\ Cardinality({r \in after : r.of = u}) = 1
                       /\ \A w \in plan[s].replacement : u \notin ReachedFrom(Replacements(after), w)
  BY <1>2, <1>4, EntryAfter
<1>6. PlannedEdges(settled, after) = Replacements(after)
  <2>1. {v \in Candidates : settled[v].reason \in WriteReasons} = {}
    BY <1>5
  <2>2. QED
    BY <2>1 DEF PlannedEdges
<1>7. Cardinality(inbox \cup {r \in after : r.origin = "inbox"}) < ScanLimit
  <2>1. \A t, by : RowOf(t, by).origin # "inbox"
    BY DEF RowOf
  <2>2. \A r : r \in after /\ r.origin = "inbox" <=> r \in sups /\ r.origin = "inbox"
    BY <1>2, <2>1, CarriedRows
  <2>3. {r \in after : r.origin = "inbox"} = {r \in sups : r.origin = "inbox"}
    BY <2>2
  <2>4. QED
    BY <1>2, <2>3 DEF Admissible
<1>8. Admissible(after)
  <2>1. PICK eligible : eligible = {s \in Candidates : plan[s].reason \in EligibleReasons}
    OBVIOUS
  <2>2. eligible = {s \in Candidates : settled[s].reason \in EligibleReasons}
    BY <1>5, <2>1
  <2>3. \A s \in eligible : Linked(s, sups) \subseteq eligible
    BY <1>2, <1>3, <2>1 DEF Admissible
  <2>4. \A s \in eligible : Linked(s, after) \subseteq eligible
    BY <1>2, <2>3, LinkedAfter
  <2>5. \A s \in eligible : \A u \in settled[s].target, w \in settled[s].replacement :
          u \notin ReachedFrom(PlannedEdges(settled, after), w)
    BY <1>5, <1>6, <2>1
  <2>6. \A s, v \in eligible :
          s # v /\ settled[s].reason \in WriteReasons /\ settled[v].reason \in WriteReasons
            => settled[s].target # settled[v].target
    BY <1>5, <2>1
  <2>7. Cardinality(Candidates) <= PlanLimit
    BY <1>2 DEF Admissible
  <2>8. Cardinality({r \in after : r.origin = "local"}) < ScanLimit
    BY <1>1
  <2>9. QED
    BY <1>3, <1>7, <2>2, <2>4, <2>5, <2>6, <2>7, <2>8 DEF Admissible
<1>9. QED
  BY <1>1, <1>3, <1>5, <1>8

PlanInv == PlanTypeOK /\ IsFiniteSet(supersessions)

LEMMA PlanInvInit == PlanInit => PlanInv
<1> SUFFICES ASSUME PlanInit PROVE PlanInv
  OBVIOUS
<1>1. PlanTypeOK
  BY DEF PlanInit, PlanTypeOK, PlanPolicies, Unit
<1>2. IsFiniteSet(supersessions)
  BY FS_EmptySet DEF PlanInit
<1>3. QED
  BY <1>1, <1>2 DEF PlanInv

\* A Supersession that a person records, or that is pulled, is well formed.
LEMMA SupersessionAdded ==
  ASSUME PlanAssumption, PlanInv, NEW a \in Arrows, NEW origin \in {"local", "inbox"}, NEW n \in {1, 2},
         supersessions' = supersessions \cup {[of |-> a[1], by |-> a[2], origin |-> origin, n |-> n]},
         UNCHANGED <<sharedKey, decided, reviewed, units, inbox>>
  PROVE  PlanInv'
<1>1. [of |-> a[1], by |-> a[2], origin |-> origin, n |-> n] \in SupersessionRow
  BY DEF PlanAssumption, SupersessionRow
<1>2. IsFiniteSet(supersessions')
  BY FS_AddElement DEF PlanInv
<1>3. PlanTypeOK'
  BY <1>1 DEF PlanInv, PlanTypeOK
<1>4. QED
  BY <1>2, <1>3 DEF PlanInv

LEMMA PlanInvStep == PlanAssumption /\ PlanInv /\ [PlanNext]_planVars => PlanInv'
<1> SUFFICES ASSUME PlanAssumption, PlanInv, [PlanNext]_planVars PROVE PlanInv'
  OBVIOUS
<1>1. ASSUME NEW s \in Sources, NEW p \in PlanPolicies, NEW k \in {"ordinary", "held"}
      PROVE  UnitOf(s, p, k) \in Unit
  BY <1>1 DEF UnitOf, Unit, PlanPolicies
<1>2. ASSUME NEW s \in Sources, NEW p \in PlanPolicies, NEW verdict \in Verdicts[s], Decide(s, p, verdict)
      PROVE  PlanInv'
  <2>1. verdict \in {"promote", "hold", "reject"}
    BY DEF PlanAssumption
  <2>2. QED
    BY <1>2, <2>1 DEF Decide, PlanInv, PlanTypeOK
<1>3. ASSUME NEW s \in Sources, NEW p \in PlanPolicies, ObserveDecided(s, p) PROVE PlanInv'
  BY <1>1, <1>3 DEF ObserveDecided, Materialise, PlanInv, PlanTypeOK
<1>4. ASSUME NEW s \in Sources, NEW p \in PlanPolicies, ObserveReviewed(s, p) PROVE PlanInv'
  BY <1>1, <1>4 DEF ObserveReviewed, Materialise, PlanInv, PlanTypeOK
<1>5. ASSUME NEW s \in Sources, NEW p \in PlanPolicies, NEW decision \in {"promote", "reject"},
             ReviewDecided(s, p, decision)
      PROVE  PlanInv'
  BY <1>5 DEF ReviewDecided, PlanInv, PlanTypeOK
<1>6. ASSUME NEW u \in Unit, PullUnit(u) PROVE PlanInv'
  BY <1>6 DEF PullUnit, PlanInv, PlanTypeOK
<1>7. ASSUME NEW a \in Arrows, PullSupersession(a[1], a[2]) PROVE PlanInv'
  BY <1>7, SupersessionAdded DEF PullSupersession
<1>8. ASSUME NEW a \in Arrows, NEW n \in {1, 2}, Retract(a[1], a[2], n) PROVE PlanInv'
  BY <1>8, SupersessionAdded DEF Retract
<1>9. CASE UNCHANGED planVars
  BY <1>9 DEF planVars, PlanInv, PlanTypeOK
<1>10. QED
  BY <1>2, <1>3, <1>4, <1>5, <1>6, <1>7, <1>8, <1>9 DEF PlanNext

\* What the preview reads is well formed whatever is decided, reviewed, observed,
\* retracted and pulled.
THEOREM PlanTyped == PlanSpec => []PlanTypeOK
<1>1. PlanInv => PlanTypeOK
  BY DEF PlanInv
<1>2. QED
  BY <1>1, PlanAssumption, PlanInvInit, PlanInvStep, PTL DEF PlanSpec

\* An admissible preview can be followed as it stands (previewPolicyReconciliation,
\* buildPolicyReconciliationPlanV2): afterwards it is admissible and has nothing to write,
\* and each unit it touched has one Supersession and no replacement that leads back to it.
THEOREM PlanSettled == PlanSpec => []PlanSettles
<1>1. PlanInv => PlanSettles
  BY PlanAssumption, SettlesNow DEF PlanInv, PlanAssumption
<1>2. QED
  BY <1>1, PlanAssumption, PlanInvInit, PlanInvStep, PTL DEF PlanSpec

-----------------------------------------------------------------------------
(* HookSetup *)

\* An install has the settings it found in the file until they are in the backup, or, if
\* that failed, until it writes the file.
Rescued(c) ==
  c.kind = "install" /\ ~c.edited /\ Whole(c.seen) =>
    /\ c.stage \in {"idle", "cut", "backup", "rename", "inplace"}
    /\ c.stage = "backup" => hostFile = c.seen /\ ~c.unsaved
    /\ c.stage \in {"rename", "inplace"} => (IF c.unsaved THEN hostFile ELSE backup) = c.seen
    /\ ~c.unsaved => hostFile = c.seen \/ backup = c.seen
    /\ c.unsaved => hostFile \in {c.seen, Installed, Torn}

\* A command is a record of its six fields.
IsCommand(c) ==
  c = [stage |-> c.stage, kind |-> c.kind, bin |-> c.bin, seen |-> c.seen, edited |-> c.edited,
       unsaved |-> c.unsaved]

SetupInv == IsCommand(command) /\ Rescued(command)

LEMMA SetupInvInit == SetupInit => SetupInv
BY DEF SetupInit, SetupInv, IsCommand, Rescued

\* What a change of one field of a command leaves.
LEMMA StageMoves ==
  ASSUME NEW c, IsCommand(c), NEW next, NEW d, d = [c EXCEPT !.stage = next]
  PROVE  /\ IsCommand(d) /\ d.stage = next /\ d.kind = c.kind /\ d.seen = c.seen /\ d.edited = c.edited
         /\ d.bin = c.bin /\ d.unsaved = c.unsaved
BY DEF IsCommand

\* A step of an install that writes neither what it has read nor where it writes.
LEMMA SameInstall ==
  ASSUME UNCHANGED hostKind, command'.bin = command.bin, command'.seen = command.seen
  PROVE  Installed' = Installed
BY DEF Installed

LEMMA SetupInvStep == SetupInv /\ [SetupNext]_setupVars => SetupInv'
<1> SUFFICES ASSUME SetupInv, [SetupNext]_setupVars PROVE SetupInv'
  OBVIOUS
<1>1. ASSUME NEW bin \in Bins, InstallRead(bin) PROVE SetupInv'
  BY <1>1 DEF InstallRead, Reads, SetupInv, IsCommand, Rescued
<1>2. ASSUME NEW bin \in Bins, UninstallRead(bin) PROVE SetupInv'
  BY <1>2 DEF UninstallRead, Reads, SetupInv, IsCommand, Rescued
\* A step to another stage.
<1>3. ASSUME NEW next, Then(next), UNCHANGED hostKind
      PROVE  /\ IsCommand(command)' /\ command'.stage = next /\ command'.kind = command.kind
             /\ command'.seen = command.seen /\ command'.edited = command.edited
             /\ command'.unsaved = command.unsaved /\ Installed' = Installed
  <2>1. PICK c, d : c = command /\ d = command' /\ IsCommand(c) /\ d = [c EXCEPT !.stage = next]
    BY <1>3 DEF Then, SetupInv
  <2>2. /\ IsCommand(d) /\ d.stage = next /\ d.kind = c.kind /\ d.seen = c.seen /\ d.edited = c.edited
        /\ d.bin = c.bin /\ d.unsaved = c.unsaved
    BY <2>1, StageMoves
  <2>3. QED
    BY <1>3, <2>1, <2>2, SameInstall
<1>4. CASE InstallBackup
  <2>1. PICK next \in {"rename", "inplace"} : Then(next)
    BY <1>4 DEF InstallBackup, WriteStage
  <2>2. /\ UNCHANGED <<hostKind, hostFile>> /\ command.stage = "backup"
        /\ hostFile # Absent => backup' = hostFile
    BY <1>4 DEF InstallBackup, Backup
  <2>3. QED
    BY <1>3, <2>1, <2>2 DEF SetupInv, Rescued, Whole
<1>5. CASE BackupFails
  <2>1. PICK next \in {"rename", "inplace"} : next = WriteStage
    BY DEF WriteStage
  <2>2. PICK c, d : /\ c = command /\ d = command' /\ IsCommand(c)
                    /\ d = [c EXCEPT !.stage = next, !.unsaved = TRUE]
    BY <1>5, <2>1 DEF BackupFails, SetupInv
  <2>3. /\ IsCommand(d) /\ d.stage = next /\ d.kind = c.kind /\ d.seen = c.seen /\ d.edited = c.edited
        /\ d.bin = c.bin /\ d.unsaved = TRUE
    BY <2>2 DEF IsCommand
  <2>4. UNCHANGED <<hostKind, hostFile>> /\ command.stage = "backup"
    BY <1>5 DEF BackupFails
  <2>5. QED
    BY <2>1, <2>2, <2>3, <2>4 DEF SetupInv, Rescued
<1>6. CASE InstallRename
  <2>1. command.stage = "rename" /\ UNCHANGED <<hostKind, backup>>
    BY <1>6 DEF InstallRename
  <2>2. CASE hostFile' = Installed /\ Then("idle")
    BY <1>3, <2>1, <2>2 DEF SetupInv, Rescued
  <2>3. CASE Then("inplace") /\ UNCHANGED hostFile
    BY <1>3, <2>1, <2>3 DEF SetupInv, Rescued
  <2>4. QED
    BY <1>6, <2>2, <2>3 DEF InstallRename
<1>7. CASE InstallInPlace
  <2>1. /\ command.stage = "inplace" /\ UNCHANGED <<hostKind, backup>> /\ Then("idle")
        /\ hostFile' = Installed
    BY <1>7 DEF InstallInPlace
  <2>2. QED
    BY <1>3, <2>1 DEF SetupInv, Rescued
<1>8. CASE UninstallWrite
  <2>1. command.stage = "remove" /\ Then("idle") /\ UNCHANGED hostKind
    BY <1>8 DEF UninstallWrite
  <2>2. QED
    BY <1>3, <2>1 DEF SetupInv, Rescued
<1>9. CASE SetupCut
  <2>1. command.stage \notin {"idle", "cut"} /\ Then("cut") /\ UNCHANGED hostKind
    BY <1>9 DEF SetupCut
  <2>2. /\ command.stage \in {"backup", "rename"} => UNCHANGED hostFile
        /\ command.stage \in {"rename", "inplace"} => UNCHANGED backup
        /\ UNCHANGED hostFile \/ hostFile' = Torn
    BY <1>9 DEF SetupCut
  <2>3. QED
    BY <1>3, <2>1, <2>2 DEF SetupInv, Rescued
<1>10. CASE EditByHand
  <2>1. command' = [command EXCEPT !.edited = TRUE]
    BY <1>10 DEF EditByHand
  <2>2. IsCommand(command)' /\ command'.edited
    BY <2>1 DEF SetupInv, IsCommand
  <2>3. QED
    BY <2>2 DEF SetupInv, Rescued
<1>11. CASE UNCHANGED setupVars
  BY <1>11 DEF setupVars, SetupInv, IsCommand, Rescued, Installed
<1>12. QED
  BY <1>1, <1>2, <1>4, <1>5, <1>6, <1>7, <1>8, <1>9, <1>10, <1>11 DEF SetupNext

-----------------------------------------------------------------------------
(* HookSetup: what is left of the groups *)

Hooks == UserHooks \union Ours

LEMMA FilteredOfHooks ==
  ASSUME NEW H, NEW s \in Seq(Hooks), NEW t \in Seq(Hooks)
  PROVE  Filtered(s \o t, H) = Filtered(s, H) \o Filtered(t, H)
<1>1. PICK E : E = Hooks
  OBVIOUS
<1>2. s \in Seq(E) /\ t \in Seq(E)
  BY <1>1
<1>3. \A x \in Seq(E) : Filtered(s \o x, H) = Filtered(s, H) \o Filtered(x, H)
  BY <1>2, FilteredConcat
<1>4. QED
  BY <1>2, <1>3

\* Where the groups that are left grow by one, their entries grow by what it holds.
LEMMA GroupsGrow ==
  ASSUME NEW H, NEW m \in Seq(Seq(Hooks)), NEW x \in Seq(Hooks)
  PROVE  Filtered(FlattenSeq(m \o <<x>>), H) = Filtered(FlattenSeq(m), H) \o Filtered(x, H)
<1>1. m \o <<x>> = Append(m, x)
  BY AppendIsConcat
<1>2. FlattenSeq(Append(m, x)) = FlattenSeq(m) \o x
  BY FlattenAppend
<1>3. FlattenSeq(m) \in Seq(Hooks)
  BY FlattenTyped
<1>4. PICK f : f = FlattenSeq(m) /\ f \in Seq(Hooks) /\ FlattenSeq(m \o <<x>>) = f \o x
  BY <1>1, <1>2, <1>3
<1>5. Filtered(f \o x, H) = Filtered(f, H) \o Filtered(x, H)
  BY <1>4, FilteredOfHooks
<1>6. QED
  BY <1>4, <1>5

\* The users' hooks of a group hold no entry of CarpeOS.
LEMMA UsersOnly ==
  ASSUME SetupAssumption, NEW g \in Seq(Hooks)
  PROVE  /\ UsersIn(g) \in Seq(Hooks) /\ OursIn(g) \in Seq(Hooks)
         /\ UsersIn(UsersIn(g)) = UsersIn(g) /\ OursIn(UsersIn(g)) = <<>>
<1>1. UserHooks \intersect Ours = {}
  BY DEF SetupAssumption
<1>2. QED
  BY <1>1, FilteredTyped, FilteredOfFiltered DEF UsersIn, OursIn

LEMMA OneOfOurs ==
  ASSUME SetupAssumption, NEW bin \in Bins \union {Bare}
  PROVE  /\ CarpeOS(bin) \in Hooks /\ <<CarpeOS(bin)>> \in Seq(Hooks)
         /\ UsersIn(<<CarpeOS(bin)>>) = <<>> /\ OursIn(<<CarpeOS(bin)>>) = <<CarpeOS(bin)>>
<1>1. PICK c : c = CarpeOS(bin)
  OBVIOUS
<1>2. c \in Ours /\ c \notin UserHooks /\ c \in Hooks
  BY <1>1 DEF Ours, Hooks, SetupAssumption
<1>3. <<>> \in Seq(Hooks) /\ <<c>> \in Seq(Hooks) /\ Append(<<>>, c) = <<c>>
  BY <1>2
<1>4. Piece(c, UserHooks) = <<>> /\ Piece(c, Ours) = <<c>>
  BY <1>2 DEF Piece
<1>5. Filtered(<<c>>, UserHooks) = <<>> \o <<>> /\ Filtered(<<c>>, Ours) = <<>> \o <<c>>
  <2>1. PICK s : s = <<>> /\ s \in Seq(Hooks) /\ Append(s, c) = <<c>>
    BY <1>3
  <2>2. \A H : Filtered(Append(s, c), H) = Filtered(s, H) \o Piece(c, H)
    BY <1>2, <2>1, FilteredAppend
  <2>3. \A H : Filtered(s, H) = <<>>
    BY <2>1, FilteredEmpty
  <2>4. QED
    BY <1>4, <2>1, <2>2, <2>3
<1>6. <<>> \o <<>> = <<>> /\ <<>> \o <<c>> = <<c>>
  BY <1>3, ConcatEmptySeq
<1>7. QED
  BY <1>1, <1>2, <1>3, <1>5, <1>6 DEF UsersIn, OursIn

\* The entries of one group more.
LEMMA EntriesGrow ==
  ASSUME SetupAssumption, NEW gs \in Seq(Seq(Hooks)), NEW g \in Seq(Hooks)
  PROVE  /\ UsersIn(FlattenSeq(Append(gs, g))) = UsersIn(FlattenSeq(gs)) \o UsersIn(g)
         /\ OursIn(FlattenSeq(Append(gs, g))) = OursIn(FlattenSeq(gs)) \o OursIn(g)
         /\ UsersIn(FlattenSeq(gs)) \in Seq(Hooks) /\ OursIn(FlattenSeq(gs)) \in Seq(Hooks)
<1>1. FlattenSeq(Append(gs, g)) = FlattenSeq(gs) \o g
  BY FlattenAppend
<1>2. FlattenSeq(gs) \in Seq(Hooks)
  BY FlattenTyped
<1>3. PICK f, w : f = FlattenSeq(gs) /\ w = FlattenSeq(Append(gs, g)) /\ f \in Seq(Hooks) /\ w = f \o g
  BY <1>1, <1>2
<1>4. ASSUME NEW H PROVE Filtered(w, H) = Filtered(f, H) \o Filtered(g, H) /\ Filtered(f, H) \in Seq(Hooks)
  <2>1. Filtered(w, H) = Filtered(f, H) \o Filtered(g, H)
    BY <1>3, FilteredOfHooks
  <2>2. Filtered(f, H) \in Seq(Hooks)
    BY <1>3, FilteredTyped
  <2>3. QED
    BY <2>1, <2>2
<1>5. QED
  BY <1>3, <1>4 DEF UsersIn, OursIn

-----------------------------------------------------------------------------
(* HookSetup: the merge *)

Had(gs) == \E i \in DOMAIN gs : OursIn(gs[i]) # <<>>
AfterOf(gs, bin, i) ==
  IF OursIn(gs[i]) # <<>> /\ \A j \in 1 .. (i - 1) : ~(OursIn(gs[j]) # <<>>)
    THEN <<Append(UsersIn(gs[i]), CarpeOS(bin))>>
  ELSE IF OursIn(gs[i]) # <<>> /\ UsersIn(gs[i]) = <<>> THEN <<>>
  ELSE <<UsersIn(gs[i])>>
Afters(gs, bin) == [i \in DOMAIN gs |-> AfterOf(gs, bin, i)]

LEMMA MergedIs ==
  ASSUME NEW gs, NEW bin
  PROVE  Merged(gs, bin) = IF Had(gs) THEN FlattenSeq(Afters(gs, bin)) ELSE Append(gs, <<CarpeOS(bin)>>)
BY DEF Merged, Had, Afters, AfterOf

LEMMA AftersTyped ==
  ASSUME SetupAssumption, NEW bin \in Bins \union {Bare}, NEW gs \in Seq(Seq(Hooks))
  PROVE  Afters(gs, bin) \in Seq(Seq(Seq(Hooks))) /\ Len(Afters(gs, bin)) = Len(gs)
<1>1. PICK n \in Nat : n = Len(gs) /\ DOMAIN gs = 1 .. n
  BY LenProperties
<1>2. PICK G, X, p : G = Seq(Hooks) /\ X = Seq(G) /\ p = Afters(gs, bin)
  OBVIOUS
<1>3. ASSUME NEW i \in 1 .. n PROVE AfterOf(gs, bin, i) \in X
  <2>1. gs[i] \in Seq(Hooks)
    BY <1>1, ElementOfSeq
  <2>2. UsersIn(gs[i]) \in G
    BY <1>2, <2>1, UsersOnly
  <2>3. Append(UsersIn(gs[i]), CarpeOS(bin)) \in G
    BY <1>2, <2>2, OneOfOurs, AppendProperties
  <2>4. <<>> \in X /\ \A x \in G : <<x>> \in X
    BY <1>2
  <2>5. QED
    BY <2>2, <2>3, <2>4 DEF AfterOf
<1>4. p = [i \in 1 .. n |-> AfterOf(gs, bin, i)]
  BY <1>1, <1>2 DEF Afters
<1>5. p \in [1 .. n -> X]
  BY <1>3, <1>4
<1>6. p \in Seq(X) /\ Len(p) = n
  BY <1>5, FunctionIsSequence
<1>7. QED
  BY <1>1, <1>2, <1>6

\* What the groups come to so far: the user's hooks in their order, and one entry of
\* CarpeOS where there was one.
MergeOK(gs, bin) ==
  /\ UsersIn(FlattenSeq(FlattenSeq(Afters(gs, bin)))) = UsersIn(FlattenSeq(gs))
  /\ OursIn(FlattenSeq(FlattenSeq(Afters(gs, bin)))) = IF Had(gs) THEN <<CarpeOS(bin)>> ELSE <<>>
  /\ Had(gs) <=> OursIn(FlattenSeq(gs)) # <<>>

LEMMA MergeGrows ==
  ASSUME SetupAssumption, NEW bin \in Bins \union {Bare},
         NEW gs \in Seq(Seq(Hooks)), NEW g \in Seq(Hooks), MergeOK(gs, bin)
  PROVE  MergeOK(Append(gs, g), bin)
<1>1. PICK n, t : n = Len(gs) /\ t = Append(gs, g)
  OBVIOUS
<1>2. Appended(Seq(Hooks), gs, g, t, n)
  BY <1>1, AppendParts
<1>3. /\ n \in Nat /\ DOMAIN gs = 1 .. n /\ t \in Seq(Seq(Hooks)) /\ Len(t) = n + 1
      /\ DOMAIN t = 1 .. n + 1 /\ t[n + 1] = g /\ Alike(gs, t, n)
  BY <1>2 DEF Appended
<1>4. PICK p, q : p = Afters(gs, bin) /\ q = Afters(t, bin)
  OBVIOUS
<1>5. p \in Seq(Seq(Seq(Hooks))) /\ Len(p) = n
  BY <1>1, <1>4, AftersTyped
<1>6. q \in Seq(Seq(Seq(Hooks))) /\ Len(q) = n + 1
  <2>1. Afters(t, bin) \in Seq(Seq(Seq(Hooks))) /\ Len(Afters(t, bin)) = Len(t)
    BY <1>3, AftersTyped
  <2>2. QED
    BY <1>3, <1>4, <2>1
<1>7. Alike(p, q, n)
  <2>1. ASSUME NEW i \in 1 .. n PROVE AfterOf(gs, bin, i) = AfterOf(t, bin, i)
    <3>1. \A j \in 1 .. (i - 1) : j \in 1 .. n
      BY <1>3
    <3>2. gs[i] = t[i] /\ \A j \in 1 .. (i - 1) : gs[j] = t[j]
      BY <1>3, <3>1 DEF Alike
    <3>3. QED
      BY <3>2 DEF AfterOf
  <2>2. \A i \in 1 .. n : i \in 1 .. n + 1
    BY <1>3
  <2>3. QED
    BY <1>3, <1>4, <2>1, <2>2 DEF Alike, Afters
<1>8. q[n + 1] = IF OursIn(g) # <<>> /\ ~Had(gs) THEN <<Append(UsersIn(g), CarpeOS(bin))>>
                 ELSE IF OursIn(g) # <<>> /\ UsersIn(g) = <<>> THEN <<>>
                 ELSE <<UsersIn(g)>>
  <2>1. q[n + 1] = AfterOf(t, bin, n + 1)
    BY <1>3, <1>4 DEF Afters
  <2>2. 1 .. ((n + 1) - 1) = 1 .. n
    BY <1>3
  <2>3. (\A j \in 1 .. n : ~(OursIn(t[j]) # <<>>)) <=> ~Had(gs)
    BY <1>3 DEF Had, Alike
  <2>4. QED
    BY <1>3, <2>1, <2>2, <2>3 DEF AfterOf
<1>9. Had(t) <=> Had(gs) \/ OursIn(g) # <<>>
  <2>1. \A i \in 1 .. n + 1 : i \in 1 .. n \/ i = n + 1
    BY <1>3
  <2>2. \A i \in 1 .. n : i \in 1 .. n + 1 /\ t[i] = gs[i]
    <3>1. \A i \in 1 .. n : i \in 1 .. n + 1
      BY <1>3
    <3>2. \A i \in 1 .. n : gs[i] = t[i]
      BY <1>3 DEF Alike
    <3>3. QED
      BY <3>1, <3>2
  <2>3. n + 1 \in 1 .. n + 1
    BY <1>3
  <2>4. QED
    BY <1>3, <2>1, <2>2, <2>3 DEF Had
<1>10. PICK m : m = FlattenSeq(p)
  OBVIOUS
<1>11. m \in Seq(Seq(Hooks)) /\ FlattenSeq(q) = m \o q[n + 1]
  <2>1. m \in Seq(Seq(Hooks))
    BY <1>5, <1>10, FlattenTyped
  <2>2. PICK last : last = q[n + 1] /\ q = Append(p, last)
    BY <1>5, <1>6, <1>7, AppendFrom
  <2>3. last \in Seq(Seq(Hooks))
    <3>1. n + 1 \in 1 .. Len(q)
      BY <1>3, <1>6
    <3>2. QED
      BY <1>6, <2>2, <3>1, ElementOfSeq
  <2>4. FlattenSeq(Append(p, last)) = FlattenSeq(p) \o last
    BY <1>5, <2>3, FlattenAppend
  <2>5. QED
    BY <1>10, <2>1, <2>2, <2>4
<1>12. /\ UsersIn(FlattenSeq(m)) = UsersIn(FlattenSeq(gs))
       /\ OursIn(FlattenSeq(m)) = IF Had(gs) THEN <<CarpeOS(bin)>> ELSE <<>>
       /\ Had(gs) <=> OursIn(FlattenSeq(gs)) # <<>>
  BY <1>4, <1>10 DEF MergeOK
<1>13. PICK us, os, ug, og :
         /\ us = UsersIn(FlattenSeq(gs)) /\ os = OursIn(FlattenSeq(gs))
         /\ ug = UsersIn(g) /\ og = OursIn(g)
  OBVIOUS
<1>14. /\ us \in Seq(Hooks) /\ os \in Seq(Hooks) /\ ug \in Seq(Hooks) /\ og \in Seq(Hooks)
       /\ UsersIn(ug) = ug /\ OursIn(ug) = <<>>
       /\ UsersIn(FlattenSeq(t)) = us \o ug /\ OursIn(FlattenSeq(t)) = os \o og
  BY <1>1, <1>13, EntriesGrow, UsersOnly
<1>15. os \o og = <<>> <=> os = <<>> /\ og = <<>>
  BY <1>14, ConcatEqualIffEmpty
<1>16. Had(t) <=> OursIn(FlattenSeq(t)) # <<>>
  BY <1>9, <1>12, <1>13, <1>14, <1>15
<1>17. \A x \in Seq(Hooks) : /\ UsersIn(FlattenSeq(m \o <<x>>)) = us \o UsersIn(x)
                            /\ OursIn(FlattenSeq(m \o <<x>>)) = OursIn(FlattenSeq(m)) \o OursIn(x)
  <2>1. ASSUME NEW H
        PROVE  \A x \in Seq(Hooks) : Filtered(FlattenSeq(m \o <<x>>), H) = Filtered(FlattenSeq(m), H) \o Filtered(x, H)
    <3>1. m \in Seq(Seq(Hooks))
      BY <1>11
    <3>2. QED
      BY <3>1, GroupsGrow
  <2>2. QED
    BY <1>12, <1>13, <2>1 DEF UsersIn, OursIn
<1>18. PICK c : c = CarpeOS(bin) /\ c \in Hooks /\ <<c>> \in Seq(Hooks)
                /\ UsersIn(<<c>>) = <<>> /\ OursIn(<<c>>) = <<c>>
  BY OneOfOurs
<1>19. <<>> \o <<c>> = <<c>> /\ <<c>> \o <<>> = <<c>> /\ <<>> \o <<>> = <<>>
       /\ us \o <<>> = us /\ ug \o <<>> = ug
  BY <1>14, <1>18, ConcatEmptySeq, EmptySeq
<1>20. /\ UsersIn(FlattenSeq(FlattenSeq(q))) = us \o ug
       /\ OursIn(FlattenSeq(FlattenSeq(q))) = IF Had(t) THEN <<c>> ELSE <<>>
  <2>1. CASE og # <<>> /\ ~Had(gs)
    <3>1. PICK x : x = Append(ug, c) /\ x \in Seq(Hooks) /\ x = ug \o <<c>>
      <4>1. ug \in Seq(Hooks) /\ c \in Hooks
        BY <1>14, <1>18
      <4>2. Append(ug, c) \in Seq(Hooks) /\ Append(ug, c) = ug \o <<c>>
        BY <4>1, AppendProperties, AppendIsConcat
      <4>3. QED
        BY <4>2
    <3>2. FlattenSeq(q) = m \o <<x>>
      BY <1>8, <1>11, <1>13, <1>18, <2>1, <3>1
    <3>3. UsersIn(x) = ug \o <<>> /\ OursIn(x) = <<>> \o <<c>>
      <4>1. PICK y : y = <<c>> /\ y \in Seq(Hooks) /\ x = ug \o y /\ ug \in Seq(Hooks)
        BY <1>14, <1>18, <3>1
      <4>2. \A H : Filtered(x, H) = Filtered(ug, H) \o Filtered(y, H)
        <5>1. ASSUME NEW H PROVE Filtered(x, H) = Filtered(ug, H) \o Filtered(y, H)
          <6>1. y \in Seq(Hooks) /\ ug \in Seq(Hooks) /\ x = ug \o y
            BY <4>1
          <6>2. QED
            BY <6>1, FilteredOfHooks
        <5>2. QED
          BY <5>1
      <4>3. QED
        BY <1>14, <1>18, <4>1, <4>2 DEF UsersIn, OursIn
    <3>4. OursIn(FlattenSeq(m)) = <<>> /\ Had(t)
      BY <1>9, <1>12, <1>13, <2>1
    <3>5. QED
      BY <1>17, <1>19, <3>1, <3>2, <3>3, <3>4
  <2>2. CASE og # <<>> /\ Had(gs) /\ ug = <<>>
    <3>1. FlattenSeq(q) = m
      BY <1>8, <1>11, <1>13, <2>2, ConcatEmptySeq
    <3>2. QED
      BY <1>9, <1>12, <1>13, <1>18, <1>19, <2>2, <3>1
  <2>3. CASE ~(og # <<>> /\ ~Had(gs)) /\ ~(og # <<>> /\ Had(gs) /\ ug = <<>>)
    <3>1. FlattenSeq(q) = m \o <<ug>>
      BY <1>8, <1>11, <1>13, <2>3
    <3>2. Had(t) <=> Had(gs)
      BY <1>9, <1>13, <2>3
    <3>3. PICK o : o = OursIn(FlattenSeq(m)) /\ o \o <<>> = o
      BY <1>12, <1>18, <1>19
    <3>4. UsersIn(FlattenSeq(FlattenSeq(q))) = us \o ug /\ OursIn(FlattenSeq(FlattenSeq(q))) = o
      BY <1>14, <1>17, <3>1, <3>3
    <3>5. QED
      BY <1>12, <1>18, <3>2, <3>3, <3>4
  <2>4. QED
    BY <2>1, <2>2, <2>3
<1>21. MergeOK(t, bin)
  BY <1>4, <1>14, <1>16, <1>18, <1>20 DEF MergeOK
<1>22. QED
  BY <1>1, <1>21

\* An install leaves one entry of CarpeOS, the wrapper's, and the user's hooks as they were.
LEMMA MergeDoes ==
  ASSUME SetupAssumption, NEW bin \in Bins \union {Bare}, NEW gs \in Seq(Seq(Hooks))
  PROVE  /\ Merged(gs, bin) \in Seq(Seq(Hooks))
         /\ OursIn(FlattenSeq(Merged(gs, bin))) = <<CarpeOS(bin)>>
         /\ UsersIn(FlattenSeq(Merged(gs, bin))) = UsersIn(FlattenSeq(gs))
<1> DEFINE S == {x \in Seq(Seq(Hooks)) : MergeOK(x, bin)}
<1>1. <<>> \in S
  <2>1. Afters(<<>>, bin) = <<>>
    BY DEF Afters
  <2>2. ~Had(<<>>)
    BY DEF Had
  <2>3. UsersIn(<<>>) = <<>> /\ OursIn(<<>>) = <<>>
    BY FilteredEmpty DEF UsersIn, OursIn
  <2>4. MergeOK(<<>>, bin)
    BY <2>1, <2>2, <2>3, FlattenEmpty DEF MergeOK
  <2>5. QED
    BY <2>4, EmptySeq
<1>2. ASSUME NEW x \in Seq(Seq(Hooks)), NEW g \in Seq(Hooks), x \in S PROVE Append(x, g) \in S
  <2>1. MergeOK(Append(x, g), bin)
    BY <1>2, MergeGrows
  <2>2. QED
    BY <2>1, AppendProperties
<1> HIDE DEF S
<1>3. Seq(Seq(Hooks)) \subseteq S
  BY <1>1, <1>2, SequencesIn
<1>4. MergeOK(gs, bin)
  BY <1>3 DEF S
<1>5. PICK c : c = CarpeOS(bin) /\ c \in Hooks /\ <<c>> \in Seq(Hooks)
               /\ UsersIn(<<c>>) = <<>> /\ OursIn(<<c>>) = <<c>>
  BY OneOfOurs
<1>6. CASE Had(gs)
  <2>1. Merged(gs, bin) = FlattenSeq(Afters(gs, bin))
    BY <1>6, MergedIs
  <2>2. Afters(gs, bin) \in Seq(Seq(Seq(Hooks)))
    BY AftersTyped
  <2>3. FlattenSeq(Afters(gs, bin)) \in Seq(Seq(Hooks))
    BY <2>2, FlattenTyped
  <2>4. QED
    BY <1>4, <1>6, <2>1, <2>3 DEF MergeOK
<1>7. CASE ~Had(gs)
  <2>1. Merged(gs, bin) = Append(gs, <<c>>)
    BY <1>5, <1>7, MergedIs
  <2>2. PICK y : y = <<c>> /\ y \in Seq(Hooks)
    BY <1>5
  <2>3. Append(gs, y) \in Seq(Seq(Hooks))
    BY <2>2, AppendProperties
  <2>4. OursIn(FlattenSeq(gs)) = <<>>
    BY <1>4, <1>7 DEF MergeOK
  <2>5. /\ UsersIn(FlattenSeq(Append(gs, y))) = UsersIn(FlattenSeq(gs)) \o <<>>
        /\ OursIn(FlattenSeq(Append(gs, y))) = <<>> \o y
        /\ UsersIn(FlattenSeq(gs)) \in Seq(Hooks)
    BY <1>5, <2>2, <2>4, EntriesGrow
  <2>6. UsersIn(FlattenSeq(gs)) \o <<>> = UsersIn(FlattenSeq(gs)) /\ <<>> \o y = y
    BY <2>2, <2>5, ConcatEmptySeq
  <2>7. QED
    BY <1>5, <2>1, <2>2, <2>3, <2>5, <2>6
<1>8. QED
  BY <1>6, <1>7

-----------------------------------------------------------------------------
(* HookSetup: the removal *)

LeftOf(g) == IF UsersIn(g) = <<>> THEN <<>> ELSE <<UsersIn(g)>>
Lefts(gs) == [i \in DOMAIN gs |-> LeftOf(gs[i])]

LEMMA LeftsTyped ==
  ASSUME SetupAssumption, NEW gs \in Seq(Seq(Hooks))
  PROVE  Lefts(gs) \in Seq(Seq(Seq(Hooks))) /\ Len(Lefts(gs)) = Len(gs)
<1>1. PICK n \in Nat : n = Len(gs) /\ DOMAIN gs = 1 .. n
  BY LenProperties
<1>2. PICK G, X, p : G = Seq(Hooks) /\ X = Seq(G) /\ p = Lefts(gs)
  OBVIOUS
<1>3. ASSUME NEW i \in 1 .. n PROVE LeftOf(gs[i]) \in X
  <2>1. gs[i] \in Seq(Hooks)
    BY <1>1, ElementOfSeq
  <2>2. UsersIn(gs[i]) \in G
    BY <1>2, <2>1, UsersOnly
  <2>3. <<>> \in X /\ \A x \in G : <<x>> \in X
    BY <1>2
  <2>4. QED
    BY <2>2, <2>3 DEF LeftOf
<1>4. p = [i \in 1 .. n |-> LeftOf(gs[i])]
  BY <1>1, <1>2 DEF Lefts
<1>5. p \in [1 .. n -> X]
  BY <1>3, <1>4
<1>6. p \in Seq(X) /\ Len(p) = n
  BY <1>5, FunctionIsSequence
<1>7. QED
  BY <1>1, <1>2, <1>6

RemoveOK(gs) ==
  /\ UsersIn(FlattenSeq(FlattenSeq(Lefts(gs)))) = UsersIn(FlattenSeq(gs))
  /\ OursIn(FlattenSeq(FlattenSeq(Lefts(gs)))) = <<>>

LEMMA RemoveGrows ==
  ASSUME SetupAssumption, NEW gs \in Seq(Seq(Hooks)), NEW g \in Seq(Hooks), RemoveOK(gs)
  PROVE  RemoveOK(Append(gs, g))
<1>1. PICK n, t : n = Len(gs) /\ t = Append(gs, g)
  OBVIOUS
<1>2. Appended(Seq(Hooks), gs, g, t, n)
  BY <1>1, AppendParts
<1>3. /\ n \in Nat /\ DOMAIN gs = 1 .. n /\ t \in Seq(Seq(Hooks)) /\ Len(t) = n + 1
      /\ DOMAIN t = 1 .. n + 1 /\ t[n + 1] = g /\ Alike(gs, t, n)
  BY <1>2 DEF Appended
<1>4. PICK p, q : p = Lefts(gs) /\ q = Lefts(t)
  OBVIOUS
<1>5. p \in Seq(Seq(Seq(Hooks))) /\ Len(p) = n
  BY <1>1, <1>4, LeftsTyped
<1>6. q \in Seq(Seq(Seq(Hooks))) /\ Len(q) = n + 1
  <2>1. Lefts(t) \in Seq(Seq(Seq(Hooks))) /\ Len(Lefts(t)) = Len(t)
    BY <1>3, LeftsTyped
  <2>2. QED
    BY <1>3, <1>4, <2>1
<1>7. Alike(p, q, n)
  BY <1>3, <1>4 DEF Alike, Lefts
<1>8. q[n + 1] = LeftOf(g)
  BY <1>3, <1>4 DEF Lefts
<1>9. PICK m : m = FlattenSeq(p)
  OBVIOUS
<1>10. m \in Seq(Seq(Hooks)) /\ FlattenSeq(q) = m \o q[n + 1]
  <2>1. m \in Seq(Seq(Hooks))
    BY <1>5, <1>9, FlattenTyped
  <2>2. PICK last : last = q[n + 1] /\ q = Append(p, last)
    BY <1>5, <1>6, <1>7, AppendFrom
  <2>3. last \in Seq(Seq(Hooks))
    <3>1. n + 1 \in 1 .. Len(q)
      BY <1>3, <1>6
    <3>2. QED
      BY <1>6, <2>2, <3>1, ElementOfSeq
  <2>4. FlattenSeq(Append(p, last)) = FlattenSeq(p) \o last
    BY <1>5, <2>3, FlattenAppend
  <2>5. QED
    BY <1>9, <2>1, <2>2, <2>4
<1>11. PICK us, ug : us = UsersIn(FlattenSeq(gs)) /\ ug = UsersIn(g)
  OBVIOUS
<1>12. UsersIn(FlattenSeq(m)) = us /\ OursIn(FlattenSeq(m)) = <<>>
  BY <1>4, <1>9, <1>11 DEF RemoveOK
<1>13. /\ us \in Seq(Hooks) /\ ug \in Seq(Hooks) /\ UsersIn(ug) = ug /\ OursIn(ug) = <<>>
       /\ UsersIn(FlattenSeq(t)) = us \o ug
  BY <1>1, <1>11, EntriesGrow, UsersOnly
<1>14. us \o <<>> = us /\ <<>> \o <<>> = <<>> /\ m \o <<>> = m
  BY <1>10, <1>13, ConcatEmptySeq, EmptySeq
<1>15. UsersIn(FlattenSeq(FlattenSeq(q))) = us \o ug /\ OursIn(FlattenSeq(FlattenSeq(q))) = <<>>
  <2>1. CASE ug = <<>>
    <3>1. FlattenSeq(q) = m
      BY <1>8, <1>10, <1>11, <1>14, <2>1 DEF LeftOf
    <3>2. QED
      BY <1>12, <1>14, <2>1, <3>1
  <2>2. CASE ug # <<>>
    <3>1. FlattenSeq(q) = m \o <<ug>>
      BY <1>8, <1>10, <1>11, <2>2 DEF LeftOf
    <3>2. ASSUME NEW H PROVE Filtered(FlattenSeq(m \o <<ug>>), H) = Filtered(FlattenSeq(m), H) \o Filtered(ug, H)
      <4>1. m \in Seq(Seq(Hooks)) /\ ug \in Seq(Hooks)
        BY <1>10, <1>13
      <4>2. QED
        BY <4>1, GroupsGrow
    <3>3. /\ UsersIn(FlattenSeq(FlattenSeq(q))) = UsersIn(FlattenSeq(m)) \o UsersIn(ug)
          /\ OursIn(FlattenSeq(FlattenSeq(q))) = OursIn(FlattenSeq(m)) \o OursIn(ug)
      BY <3>1, <3>2 DEF UsersIn, OursIn
    <3>4. QED
      BY <1>12, <1>13, <1>14, <3>3
  <2>3. QED
    BY <2>1, <2>2
<1>16. RemoveOK(t)
  BY <1>4, <1>13, <1>15 DEF RemoveOK
<1>17. QED
  BY <1>1, <1>16

\* An uninstall leaves no entry of CarpeOS, and the user's hooks as they were.
LEMMA RemoveDoes ==
  ASSUME SetupAssumption, NEW gs \in Seq(Seq(Hooks))
  PROVE  /\ Removed(gs) \in Seq(Seq(Hooks))
         /\ OursIn(FlattenSeq(Removed(gs))) = <<>>
         /\ UsersIn(FlattenSeq(Removed(gs))) = UsersIn(FlattenSeq(gs))
<1> DEFINE S == {x \in Seq(Seq(Hooks)) : RemoveOK(x)}
<1>1. <<>> \in S
  <2>1. Lefts(<<>>) = <<>>
    BY DEF Lefts
  <2>2. UsersIn(<<>>) = <<>> /\ OursIn(<<>>) = <<>>
    BY FilteredEmpty DEF UsersIn, OursIn
  <2>3. RemoveOK(<<>>)
    BY <2>1, <2>2, FlattenEmpty DEF RemoveOK
  <2>4. QED
    BY <2>3, EmptySeq
<1>2. ASSUME NEW x \in Seq(Seq(Hooks)), NEW g \in Seq(Hooks), x \in S PROVE Append(x, g) \in S
  <2>1. RemoveOK(Append(x, g))
    BY <1>2, RemoveGrows
  <2>2. QED
    BY <2>1, AppendProperties
<1> HIDE DEF S
<1>3. Seq(Seq(Hooks)) \subseteq S
  BY <1>1, <1>2, SequencesIn
<1>4. RemoveOK(gs)
  BY <1>3 DEF S
<1>5. Removed(gs) = FlattenSeq(Lefts(gs))
  BY DEF Removed, Lefts, LeftOf
<1>6. FlattenSeq(Lefts(gs)) \in Seq(Seq(Hooks))
  BY LeftsTyped, FlattenTyped
<1>7. QED
  BY <1>4, <1>5, <1>6 DEF RemoveOK

-----------------------------------------------------------------------------
(* HookSetup: the commands *)

LEMMA GroupsAreWhole ==
  ASSUME SetupAssumption
  PROVE  /\ \A file \in Seq(Seq(Hooks)) : Whole(file) /\ file \in SettingsFile /\ Entries(file) = FlattenSeq(file)
         /\ \A file \in SettingsFile : /\ Groups(file) \in Seq(Seq(Hooks))
                                       /\ Whole(file) => file \in Seq(Seq(Hooks))
<1>1. PICK S : S = Seq(Seq(Hooks)) /\ SettingsFile = {Absent, Torn} \union S /\ <<>> \in S
  BY EmptySeq DEF SettingsFile, Hooks
<1>2. {Absent, Torn} \intersect S = {}
  BY <1>1 DEF SetupAssumption, Hooks
<1>3. \A file \in S : Whole(file) /\ file \in SettingsFile
  BY <1>1, <1>2 DEF Whole
<1>4. \A file \in SettingsFile : Groups(file) \in S /\ (Whole(file) => file \in S)
  BY <1>1 DEF Groups, Whole
<1>5. \A file \in S : Entries(file) = FlattenSeq(file)
  BY <1>3 DEF Entries, Groups
<1>6. QED
  BY <1>1, <1>3, <1>4, <1>5

LEMMA OneGroup ==
  ASSUME NEW E, NEW y \in Seq(E) PROVE <<y>> \in Seq(Seq(E)) /\ FlattenSeq(<<y>>) = y
<1>1. PICK T : T = Seq(E) /\ y \in T
  OBVIOUS
<1>2. PICK none : none = <<>> /\ none \in Seq(T) /\ Append(none, y) = <<y>> /\ <<y>> \in Seq(T)
  <2>1. <<>> \in Seq(T) /\ <<y>> \in Seq(T)
    BY <1>1
  <2>2. Append(<<>>, y) = <<>> \o <<y>> /\ <<>> \o <<y>> = <<y>>
    BY <1>1, <2>1, AppendIsConcat, ConcatEmptySeq
  <2>3. QED
    BY <2>1, <2>2
<1>3. FlattenSeq(Append(none, y)) = FlattenSeq(none) \o y
  BY <1>1, <1>2, FlattenAppend
<1>4. FlattenSeq(none) = <<>> /\ <<>> \o y = y
  BY <1>2, FlattenEmpty, ConcatEmptySeq
<1>5. QED
  BY <1>1, <1>2, <1>3, <1>4

\* The settings that an install writes.
LEMMA InstallDoes ==
  ASSUME SetupAssumption, hostKind \in {"json", "ts"}, NEW bin \in Bins, command.bin = bin,
         NEW seen \in SettingsFile, command.seen = seen
  PROVE  /\ Installed \in SettingsFile /\ Whole(Installed) /\ OursIn(Entries(Installed)) = <<CarpeOS(bin)>>
         /\ hostKind = "json" => UsersIn(Entries(Installed)) = UsersIn(Entries(seen))
<1>1. CASE hostKind = "json"
  <2>1. Groups(seen) \in Seq(Seq(Hooks)) /\ Entries(seen) = FlattenSeq(Groups(seen))
    BY GroupsAreWhole DEF Entries
  <2>2. PICK file : file = Installed /\ file = Merged(Groups(seen), bin)
    BY <1>1 DEF Installed
  <2>3. /\ file \in Seq(Seq(Hooks)) /\ OursIn(FlattenSeq(file)) = <<CarpeOS(bin)>>
        /\ UsersIn(FlattenSeq(file)) = UsersIn(FlattenSeq(Groups(seen)))
    BY <2>1, <2>2, MergeDoes
  <2>4. Whole(file) /\ file \in SettingsFile /\ Entries(file) = FlattenSeq(file)
    BY <2>3, GroupsAreWhole
  <2>5. QED
    BY <2>1, <2>2, <2>3, <2>4
<1>2. CASE hostKind = "ts"
  <2>1. PICK y : y = <<CarpeOS(bin)>> /\ y \in Seq(Hooks) /\ OursIn(y) = y
    BY OneOfOurs
  <2>2. PICK file : file = Installed /\ file = <<y>>
    BY <1>2, <2>1 DEF Installed, PluginText
  <2>3. file \in Seq(Seq(Hooks)) /\ FlattenSeq(file) = y
    <3>1. <<y>> \in Seq(Seq(Hooks)) /\ FlattenSeq(<<y>>) = y
      BY <2>1, OneGroup
    <3>2. QED
      BY <2>2, <3>1
  <2>4. Whole(file) /\ file \in SettingsFile /\ Entries(file) = FlattenSeq(file)
    BY <2>3, GroupsAreWhole
  <2>5. QED
    BY <1>2, <2>1, <2>2, <2>3, <2>4
<1>3. QED
  BY <1>1, <1>2

\* What a command that came to its end has written, or found as it should be.
Uninstalled == IF hostKind = "ts" THEN Absent ELSE Removed(command.seen)

HooksInv ==
  /\ SetupTypeOK /\ IsCommand(command)
  /\ command.kind # "none" => command.bin \in Bins
  /\ command.kind = "uninstall" => Whole(command.seen)
  /\ command.stage = "idle" /\ ~command.edited /\ command.kind = "install" => hostFile = Installed
  /\ command.stage = "idle" /\ ~command.edited /\ command.kind = "uninstall" =>
       \/ hostFile = Uninstalled
       \/ hostFile = command.seen /\ OursIn(Entries(command.seen)) = <<>>

LEMMA HooksInvInit == SetupAssumption /\ SetupInit => HooksInv
<1> SUFFICES ASSUME SetupAssumption, SetupInit PROVE HooksInv
  OBVIOUS
<1>1. hostKind \in {"json", "ts"} /\ hostFile \in SettingsFile /\ Absent \in SettingsFile
  BY DEF SetupInit, SetupAssumption, SettingsFile
<1>2. QED
  BY <1>1 DEF SetupInit, SetupAssumption, HooksInv, SetupTypeOK, IsCommand

\* A command that starts has read the settings.
LEMMA ReadKeeps ==
  ASSUME SetupAssumption, HooksInv, NEW bin \in Bins, NEW kind, NEW next, Reads(kind, bin, next),
         \/ /\ kind = "install" /\ next \in {"idle", "backup"}
            /\ next = "idle" => hostKind = "ts" /\ hostFile = PluginText(bin)
         \/ /\ kind = "uninstall" /\ next \in {"idle", "remove"} /\ Whole(hostFile)
            /\ next = "idle" => OursIn(Entries(hostFile)) = <<>>
  PROVE  HooksInv'
<1>1. /\ command'.stage = next /\ command'.kind = kind /\ command'.bin = bin /\ command'.seen = hostFile
      /\ command'.edited = FALSE /\ command'.unsaved = FALSE /\ IsCommand(command)'
      /\ UNCHANGED <<hostKind, hostFile, backup, edits>>
  BY DEF Reads, IsCommand
<1>2. SetupTypeOK'
  BY <1>1 DEF HooksInv, SetupTypeOK
<1>3. kind = "install" /\ next = "idle" => hostFile' = Installed'
  BY <1>1 DEF Installed
<1>4. QED
  BY <1>1, <1>2, <1>3 DEF HooksInv

\* A step of a command: it moves to another stage and writes the files.
LEMMA MoveKeeps ==
  ASSUME SetupAssumption, HooksInv, NEW next, Then(next), UNCHANGED <<hostKind, edits>>,
         hostFile' \in SettingsFile, backup' \in SettingsFile,
         \/ next = "cut"
         \/ command.kind = "install" /\ next \in {"rename", "inplace"}
         \/ command.kind = "install" /\ next = "idle" /\ hostFile' = Installed
         \/ command.kind = "uninstall" /\ next = "idle" /\ hostFile' = Uninstalled
  PROVE  HooksInv'
<1>1. /\ IsCommand(command)' /\ command'.stage = next /\ command'.kind = command.kind
      /\ command'.seen = command.seen /\ command'.edited = command.edited /\ command'.bin = command.bin
      /\ command'.unsaved = command.unsaved
  <2>1. PICK c, d : c = command /\ d = command' /\ IsCommand(c) /\ d = [c EXCEPT !.stage = next]
    BY DEF Then, HooksInv
  <2>2. /\ IsCommand(d) /\ d.stage = next /\ d.kind = c.kind /\ d.seen = c.seen /\ d.edited = c.edited
        /\ d.bin = c.bin /\ d.unsaved = c.unsaved
    BY <2>1 DEF IsCommand
  <2>3. QED
    BY <2>1, <2>2
<1>2. Installed' = Installed /\ Uninstalled' = Uninstalled
  BY <1>1 DEF Installed, Uninstalled
<1>3. SetupTypeOK'
  BY <1>1 DEF HooksInv, SetupTypeOK
<1>4. QED
  BY <1>1, <1>2, <1>3 DEF HooksInv

LEMMA HooksInvStep == SetupAssumption /\ HooksInv /\ [SetupNext]_setupVars => HooksInv'
<1> SUFFICES ASSUME SetupAssumption, HooksInv, [SetupNext]_setupVars PROVE HooksInv'
  OBVIOUS
<1>1. /\ hostFile \in SettingsFile /\ backup \in SettingsFile /\ command.seen \in SettingsFile
      /\ Absent \in SettingsFile /\ Torn \in SettingsFile /\ hostKind \in {"json", "ts"}
  BY DEF HooksInv, SetupTypeOK, SettingsFile
<1>2. ASSUME command.stage \in {"backup", "rename", "inplace"}
      PROVE  command.kind = "install" /\ Installed \in SettingsFile
  <2>1. command.kind = "install" /\ command.bin \in Bins
    BY <1>2 DEF HooksInv, SetupTypeOK
  <2>2. QED
    BY <1>1, <2>1, InstallDoes
<1>3. ASSUME command.stage = "remove"
      PROVE  command.kind = "uninstall" /\ Uninstalled \in SettingsFile
  <2>1. command.kind = "uninstall" /\ Whole(command.seen)
    BY <1>3 DEF HooksInv, SetupTypeOK
  <2>2. command.seen \in Seq(Seq(Hooks))
    BY <1>1, <2>1, GroupsAreWhole
  <2>3. Removed(command.seen) \in SettingsFile
    BY <2>2, RemoveDoes, GroupsAreWhole
  <2>4. QED
    BY <1>1, <2>1, <2>3 DEF Uninstalled
<1>4. ASSUME NEW bin \in Bins, InstallRead(bin) PROVE HooksInv'
  <2>1. PICK next : /\ next = (IF hostKind = "ts" /\ hostFile = PluginText(bin) THEN "idle" ELSE "backup")
                    /\ Reads("install", bin, next)
    BY <1>4 DEF InstallRead
  <2>2. QED
    BY <2>1, ReadKeeps
<1>5. ASSUME NEW bin \in Bins, UninstallRead(bin) PROVE HooksInv'
  <2>1. PICK next : /\ next = (IF OursIn(Entries(hostFile)) = <<>> THEN "idle" ELSE "remove")
                    /\ Reads("uninstall", bin, next)
    BY <1>5 DEF UninstallRead
  <2>2. Whole(hostFile)
    BY <1>5 DEF UninstallRead, Whole
  <2>3. QED
    BY <2>1, <2>2, ReadKeeps
<1>6. CASE InstallBackup
  <2>1. PICK next \in {"rename", "inplace"} : Then(next)
    BY <1>6 DEF InstallBackup, WriteStage
  <2>2. command.kind = "install" /\ UNCHANGED <<hostKind, hostFile, edits>>
    BY <1>2, <1>6 DEF InstallBackup
  <2>3. backup' \in SettingsFile
    BY <1>1, <1>6 DEF InstallBackup, Backup
  <2>4. QED
    BY <1>1, <2>1, <2>2, <2>3, MoveKeeps
<1>7. CASE InstallRename
  <2>1. command.kind = "install" /\ Installed \in SettingsFile /\ UNCHANGED <<hostKind, backup, edits>>
    BY <1>2, <1>7 DEF InstallRename
  <2>2. CASE hostFile' = Installed /\ Then("idle")
    BY <1>1, <2>1, <2>2, MoveKeeps
  <2>3. CASE Then("inplace") /\ UNCHANGED hostFile
    BY <1>1, <2>1, <2>3, MoveKeeps
  <2>4. QED
    BY <1>7, <2>2, <2>3 DEF InstallRename
<1>8. CASE InstallInPlace
  <2>1. command.kind = "install" /\ Installed \in SettingsFile /\ UNCHANGED <<hostKind, backup, edits>>
    BY <1>2, <1>8 DEF InstallInPlace
  <2>2. hostFile' = Installed /\ Then("idle")
    BY <1>8 DEF InstallInPlace
  <2>3. QED
    BY <1>1, <2>1, <2>2, MoveKeeps
<1>9. CASE UninstallWrite
  <2>1. command.kind = "uninstall" /\ Uninstalled \in SettingsFile /\ UNCHANGED <<hostKind, backup, edits>>
    BY <1>3, <1>9 DEF UninstallWrite
  <2>2. hostFile' = Uninstalled /\ Then("idle")
    BY <1>9 DEF UninstallWrite, Uninstalled
  <2>3. QED
    BY <1>1, <2>1, <2>2, MoveKeeps
<1>10. CASE SetupCut
  <2>1. Then("cut") /\ UNCHANGED <<hostKind, edits>>
    BY <1>10 DEF SetupCut
  <2>2. hostFile' \in SettingsFile /\ backup' \in SettingsFile
    BY <1>1, <1>10 DEF SetupCut
  <2>3. QED
    BY <2>1, <2>2, MoveKeeps
<1>11. CASE EditByHand
  <2>1. hostFile' \in SettingsFile
    BY <1>1, <1>11 DEF EditByHand, SetupAssumption
  <2>2. command' = [command EXCEPT !.edited = TRUE] /\ UNCHANGED <<hostKind, backup>>
    BY <1>11 DEF EditByHand
  <2>3. edits' \in 0 .. MaxEdits
    BY <1>11 DEF EditByHand, HooksInv, SetupTypeOK, SetupAssumption
  <2>4. /\ IsCommand(command)' /\ command'.stage = command.stage /\ command'.kind = command.kind
        /\ command'.seen = command.seen /\ command'.edited = TRUE /\ command'.bin = command.bin
        /\ command'.unsaved = command.unsaved
    BY <2>2 DEF HooksInv, IsCommand
  <2>5. SetupTypeOK'
    BY <2>1, <2>2, <2>3, <2>4 DEF HooksInv, SetupTypeOK
  <2>6. QED
    BY <2>4, <2>5 DEF HooksInv
<1>12. CASE UNCHANGED setupVars
  BY <1>12 DEF setupVars, HooksInv, SetupTypeOK, IsCommand, Installed, Uninstalled
<1>13. CASE BackupFails
  <2>1. PICK next \in {"rename", "inplace"} : next = WriteStage
    BY DEF WriteStage
  <2>2. command' = [command EXCEPT !.stage = next, !.unsaved = TRUE]
    BY <1>13, <2>1 DEF BackupFails
  <2>3. UNCHANGED <<hostKind, hostFile, edits>> /\ backup' \in SettingsFile /\ command.kind = "install"
    BY <1>1, <1>2, <1>13 DEF BackupFails
  <2>4. /\ IsCommand(command)' /\ command'.stage = next /\ command'.kind = command.kind
        /\ command'.seen = command.seen /\ command'.edited = command.edited /\ command'.bin = command.bin
        /\ command'.unsaved = TRUE
    BY <2>2 DEF HooksInv, IsCommand
  <2>5. SetupTypeOK'
    BY <1>1, <2>3, <2>4 DEF HooksInv, SetupTypeOK
  <2>6. QED
    BY <2>3, <2>4, <2>5 DEF HooksInv
<1>14. QED
  BY <1>4, <1>5, <1>6, <1>7, <1>8, <1>9, <1>10, <1>11, <1>12, <1>13 DEF SetupNext

\* What a command that came to its end leaves, and what the doctor says of it.
LEMMA AskedNow == ASSUME SetupAssumption, HooksInv PROVE HooksAsAsked
<1> SUFFICES ASSUME command.stage = "idle", command.kind # "none", ~command.edited
             PROVE  /\ OursIn(Entries(hostFile)) =
                         IF command.kind = "install" THEN <<CarpeOS(command.bin)>> ELSE <<>>
                    /\ hostKind = "json" => UsersIn(Entries(hostFile)) = UsersIn(Entries(command.seen))
                    /\ Probe(command.bin) =
                         IF command.kind = "uninstall" THEN "not_installed"
                         ELSE IF hostKind = "ts" THEN "ok" ELSE "installed"
  BY DEF HooksAsAsked
<1>1. PICK bin : bin = command.bin /\ bin \in Bins /\ bin # Bare
  BY DEF HooksInv, SetupAssumption
<1>2. PICK seen : seen = command.seen /\ seen \in SettingsFile
  BY DEF HooksInv, SetupTypeOK
<1>3. hostKind \in {"json", "ts"} /\ command.kind \in {"install", "uninstall"}
  BY DEF HooksInv, SetupTypeOK
<1>4. PICK c, bare : c = CarpeOS(bin) /\ bare = CarpeOS(Bare) /\ c # bare
  <2>1. PICK c, bare : c = CarpeOS(bin) /\ bare = CarpeOS(Bare)
    OBVIOUS
  <2>2. c.bin = bin /\ bare.bin = Bare
    BY <2>1 DEF CarpeOS
  <2>3. QED
    BY <1>1, <2>1, <2>2
<1>5. PICK ours : ours = ToSet(OursIn(Entries(hostFile)))
  OBVIOUS
<1>6. CASE command.kind = "install"
  <2>1. hostFile = Installed
    BY <1>6 DEF HooksInv
  <2>2. /\ Whole(hostFile) /\ OursIn(Entries(hostFile)) = <<c>>
        /\ hostKind = "json" => UsersIn(Entries(hostFile)) = UsersIn(Entries(seen))
    BY <1>1, <1>2, <1>3, <1>4, <2>1, InstallDoes
  <2>3. ours = {c}
    BY <1>5, <2>2 DEF ToSet
  <2>4. hostFile # Absent /\ hostFile # Torn
    BY <2>2 DEF Whole
  <2>5. Probe(bin) = IF hostKind = "ts" THEN "ok" ELSE "installed"
    BY <1>3, <1>4, <1>5, <2>3, <2>4 DEF Probe
  <2>6. QED
    BY <1>1, <1>2, <1>4, <1>6, <2>2, <2>5
<1>7. CASE command.kind = "uninstall"
  <2>1. Whole(seen) /\ seen \in Seq(Seq(Hooks)) /\ Entries(seen) = FlattenSeq(seen)
    BY <1>2, <1>7, GroupsAreWhole DEF HooksInv
  <2>2. CASE hostKind = "ts" /\ hostFile = Absent
    <3>1. Entries(hostFile) = <<>>
      BY <2>2, FlattenEmpty DEF Entries, Groups, Whole
    <3>2. OursIn(Entries(hostFile)) = <<>>
      BY <3>1, FilteredEmpty DEF OursIn
    <3>3. Probe(bin) = "not_installed"
      BY <2>2 DEF Probe
    <3>4. QED
      BY <1>1, <1>7, <2>2, <3>2, <3>3
  <2>3. ASSUME Whole(hostFile), OursIn(Entries(hostFile)) = <<>>
        PROVE  Probe(bin) = "not_installed"
    <3>1. ours = {}
      BY <1>5, <2>3 DEF ToSet
    <3>2. hostFile # Absent /\ hostFile # Torn
      BY <2>3 DEF Whole
    <3>3. QED
      BY <1>3, <1>5, <3>1, <3>2 DEF Probe
  <2>4. CASE hostKind = "json" /\ hostFile = Removed(seen)
    <3>1. /\ hostFile \in Seq(Seq(Hooks)) /\ OursIn(FlattenSeq(hostFile)) = <<>>
          /\ UsersIn(FlattenSeq(hostFile)) = UsersIn(FlattenSeq(seen))
      BY <2>1, <2>4, RemoveDoes
    <3>2. Whole(hostFile) /\ Entries(hostFile) = FlattenSeq(hostFile)
      BY <3>1, GroupsAreWhole
    <3>3. QED
      BY <1>1, <1>2, <1>7, <2>1, <2>3, <3>1, <3>2
  <2>5. CASE hostFile = seen /\ OursIn(Entries(seen)) = <<>>
    BY <1>1, <1>2, <1>7, <2>1, <2>3, <2>5
  <2>6. QED
    BY <1>2, <1>3, <1>7, <2>2, <2>4, <2>5 DEF HooksInv, Uninstalled
<1>8. QED
  BY <1>3, <1>6, <1>7

\* Whatever is installed, removed, cut and edited, the files stay absent, torn or groups of
\* hook entries.
THEOREM SetupTyped == SetupSpec => []SetupTypeOK
<1>1. HooksInv => SetupTypeOK
  BY DEF HooksInv
<1>2. QED
  BY <1>1, SetupAssumption, HooksInvInit, HooksInvStep, PTL DEF SetupSpec

\* A setup command that came to its end has done what was asked, whatever groups it found
\* (mergeHostHooks, uninstallHostHooks, probeHostHooks).
THEOREM HooksDoneAsAsked == SetupSpec => []HooksAsAsked
<1>1. SetupAssumption /\ HooksInv => HooksAsAsked
  BY AskedNow
<1>2. QED
  BY <1>1, SetupAssumption, HooksInvInit, HooksInvStep, PTL DEF SetupSpec

\* Wherever an install stands or was cut, the settings it found are whole in the file or in
\* its backup, unless somebody saved the file meanwhile, or the backup could not be made
\* and the file was written in place (installCaptureHooks, mergeHostHooks).
THEOREM SettingsSurvive == SetupSpec => []SettingsRecoverable
<1>1. SetupAssumption /\ HooksInv /\ SetupInv => SettingsRecoverable
  <2> SUFFICES ASSUME SetupAssumption, HooksInv, SetupInv,
                      command.kind = "install" /\ ~command.edited /\ Whole(command.seen),
                      ~(command.unsaved /\ hostFile \in IF hostKind = "ts" THEN {Torn, Installed} ELSE {Torn})
               PROVE  \E file \in {hostFile, backup} :
                        Whole(file) /\ UsersIn(Entries(file)) = UsersIn(Entries(command.seen))
    BY DEF SettingsRecoverable
  <2>1. CASE \E file \in {hostFile, backup} : file = command.seen
    BY <2>1
  <2>2. CASE hostFile = Installed /\ hostKind # "ts"
    <3>1. PICK bin, seen : bin = command.bin /\ bin \in Bins /\ seen = command.seen /\ seen \in SettingsFile
      BY DEF HooksInv, SetupTypeOK
    <3>2. hostKind = "json"
      BY <2>2 DEF HooksInv, SetupTypeOK
    <3>3. Whole(Installed) /\ UsersIn(Entries(Installed)) = UsersIn(Entries(seen))
      BY <3>1, <3>2, InstallDoes
    <3>4. QED
      BY <2>2, <3>1, <3>3
  <2>3. QED
    BY <2>1, <2>2 DEF SetupInv, Rescued
<1>2. SetupInit => SetupInv
  BY SetupInvInit
<1>3. SetupInv /\ [SetupNext]_setupVars => SetupInv'
  BY SetupInvStep
<1>4. QED
  BY <1>1, <1>2, <1>3, SetupAssumption, HooksInvInit, HooksInvStep, PTL DEF SetupSpec

-----------------------------------------------------------------------------
(* OkfExport *)

IsExport(e) == e = [stage |-> e.stage, files |-> e.files, todo |-> e.todo, strays |-> e.strays]

\* What an export has still to do, what it has done, and what it may not touch.
HalfExported(e) ==
  /\ \A path \in DOMAIN e.files :
       (path \in DOMAIN folder /\ folder[path] = e.files[path]) \/ [op |-> "write", path |-> path] \in e.todo
  /\ \A path \in DOMAIN folder \ DOMAIN e.files :
       folder[path] = People \/ path \in e.strays \/ [op |-> "delete", path |-> path] \in e.todo
  /\ \A step \in e.todo :
       /\ step.op \in {"delete", "write"} /\ step = [op |-> step.op, path |-> step.path]
       /\ step.path \notin e.strays /\ (step.op = "write" <=> step.path \in DOMAIN e.files)

FolderInv ==
  /\ IsExport(export) /\ visits \in Nat
  /\ export.stage = "running" => HalfExported(export)
  /\ FolderSettles

LEMMA FolderInvInit == OkfInit => FolderInv
BY DEF OkfInit, NoExport, FolderInv, IsExport, FolderSettles

LEMMA StartKeeps ==
  ASSUME FolderInv, NEW withHeld \in BOOLEAN, NEW policy \in {"delete_missing", "tombstone_missing"},
         StartExport(withHeld, policy)
  PROVE  FolderInv'
<1>1. PICK plan : plan = Plan(withHeld)
  OBVIOUS
<1>2. PICK gone : gone = Missing(plan)
  OBVIOUS
<1>3. PICK files : files = IF policy = "delete_missing" THEN plan
                           ELSE [path \in DOMAIN plan \union gone |-> IF path \in gone THEN Tombstone ELSE plan[path]]
  OBVIOUS
<1>4. PICK deleted : deleted = IF policy = "delete_missing" THEN gone ELSE {}
  OBVIOUS
<1>5. PICK e : e = [stage |-> "running", files |-> files,
                    todo |-> Steps("delete", deleted) \union Steps("write", DOMAIN files),
                    strays |-> DOMAIN folder \ Owned]
  OBVIOUS
<1>6. ~Collides(files) /\ export' = e /\ UNCHANGED <<folder, manifest, visits>>
  BY <1>1, <1>2, <1>3, <1>4, <1>5 DEF StartExport
<1>7. DOMAIN files = DOMAIN plan \cup (IF policy = "delete_missing" THEN {} ELSE gone)
  BY <1>3
<1>8. /\ gone = Owned \ DOMAIN plan /\ (DOMAIN files \intersect DOMAIN folder) \subseteq Owned
      /\ Owned' = Owned
  BY <1>2, <1>6 DEF Missing, Collides, Owned
<1>9. /\ e.stage = "running" /\ e.files = files /\ e.strays = DOMAIN folder \ Owned
      /\ e.todo = [op : {"delete"}, path : deleted] \union [op : {"write"}, path : DOMAIN files]
  BY <1>5 DEF Steps
<1>10. HalfExported(e)
  <2>1. ASSUME NEW path \in DOMAIN files PROVE [op |-> "write", path |-> path] \in e.todo
    BY <1>9
  <2>2. ASSUME NEW path \in DOMAIN folder \ DOMAIN files, path \notin e.strays
        PROVE  [op |-> "delete", path |-> path] \in e.todo
    <3>1. path \in deleted
      BY <1>4, <1>7, <1>8, <1>9, <2>2
    <3>2. QED
      BY <1>9, <3>1
  <2>3. ASSUME NEW step \in e.todo
        PROVE  /\ step.op \in {"delete", "write"} /\ step = [op |-> step.op, path |-> step.path]
               /\ step.path \notin e.strays /\ (step.op = "write" <=> step.path \in DOMAIN e.files)
    <3>1. CASE step \in [op : {"delete"}, path : deleted]
      <4>1. step.op = "delete" /\ step.path \in deleted /\ step = [op |-> step.op, path |-> step.path]
        BY <3>1
      <4>2. step.path \in Owned /\ step.path \notin DOMAIN files
        BY <1>4, <1>7, <1>8, <4>1
      <4>3. QED
        BY <1>9, <4>1, <4>2
    <3>2. CASE step \in [op : {"write"}, path : DOMAIN files]
      <4>1. step.op = "write" /\ step.path \in DOMAIN files /\ step = [op |-> step.op, path |-> step.path]
        BY <3>2
      <4>2. step.path \notin e.strays
        BY <1>8, <1>9, <4>1
      <4>3. QED
        BY <1>9, <4>1, <4>2
    <3>3. QED
      BY <1>9, <2>3, <3>1, <3>2
  <2>4. QED
    BY <1>9, <2>1, <2>2, <2>3 DEF HalfExported
<1>11. HalfExported(export)'
  BY <1>6, <1>10 DEF HalfExported
<1>12. IsExport(export)' /\ export'.stage = "running" /\ visits' \in Nat
  BY <1>5, <1>6 DEF FolderInv, IsExport
<1>13. QED
  BY <1>11, <1>12 DEF FolderInv, FolderSettles

\* The next file is written or deleted.
LEMMA FileKeeps == ASSUME FolderInv, ExportFile PROVE FolderInv'
<1>1. PICK step \in export.todo :
        /\ export.stage = "running"
        /\ folder' = IF step.op = "write" THEN WithFile(folder, step.path, export.files[step.path])
                     ELSE WithoutFile(folder, step.path)
        /\ export' = [export EXCEPT !.todo = @ \ {step}]
        /\ UNCHANGED <<manifest, visits>>
  BY DEF ExportFile
<1>2. PICK todo : todo = export.todo \ {step}
  OBVIOUS
<1>3. IsExport(export) /\ HalfExported(export)
  BY <1>1 DEF FolderInv
<1>4. /\ IsExport(export)' /\ export'.stage = "running" /\ export'.files = export.files
      /\ export'.todo = todo /\ export'.strays = export.strays
  BY <1>1, <1>2, <1>3 DEF IsExport
<1>5. /\ step.op \in {"delete", "write"} /\ step = [op |-> step.op, path |-> step.path]
      /\ step.op = "write" <=> step.path \in DOMAIN export.files
  BY <1>1, <1>3 DEF HalfExported
<1>6. ASSUME NEW path \in DOMAIN export.files
      PROVE  \/ path \in DOMAIN folder' /\ folder'[path] = export.files[path]
             \/ [op |-> "write", path |-> path] \in todo
  <2>1. CASE step.op = "write" /\ path = step.path
    BY <1>1, <2>1 DEF WithFile
  <2>2. CASE ~(step.op = "write" /\ path = step.path)
    <3>1. step # [op |-> "write", path |-> path] /\ path # step.path
      BY <1>5, <1>6, <2>2
    <3>2. path \in DOMAIN folder => path \in DOMAIN folder' /\ folder'[path] = folder[path]
      BY <1>1, <3>1 DEF WithFile, WithoutFile
    <3>3. QED
      BY <1>2, <1>3, <1>6, <3>1, <3>2 DEF HalfExported
  <2>3. QED
    BY <2>1, <2>2
<1>7. ASSUME NEW path \in DOMAIN folder', path \notin DOMAIN export.files
      PROVE  folder'[path] = People \/ path \in export.strays \/ [op |-> "delete", path |-> path] \in todo
  <2>1. path # step.path /\ path \in DOMAIN folder /\ folder'[path] = folder[path]
    BY <1>1, <1>5, <1>7 DEF WithFile, WithoutFile
  <2>2. step # [op |-> "delete", path |-> path]
    BY <2>1
  <2>3. QED
    BY <1>2, <1>3, <1>7, <2>1, <2>2 DEF HalfExported
<1>8. \A s \in todo : s \in export.todo
  BY <1>2
<1>9. HalfExported(export)'
  BY <1>3, <1>4, <1>6, <1>7, <1>8 DEF HalfExported
<1>10. QED
  BY <1>1, <1>4, <1>9 DEF FolderInv, FolderSettles

LEMMA FolderInvStep == FolderInv /\ [OkfNext]_okfVars => FolderInv'
<1> SUFFICES ASSUME FolderInv, [OkfNext]_okfVars PROVE FolderInv'
  OBVIOUS
<1>1. ASSUME export' = NoExport, visits' \in Nat PROVE FolderInv'
  BY <1>1 DEF NoExport, FolderInv, IsExport, FolderSettles
<1>2. ASSUME NEW withHeld \in BOOLEAN, NEW policy \in {"delete_missing", "tombstone_missing"},
             StartExport(withHeld, policy)
      PROVE  FolderInv'
  BY <1>2, StartKeeps
<1>3. CASE ExportFile
  BY <1>3, FileKeeps
<1>4. CASE WriteManifest
  <2>1. /\ export.stage = "running" /\ export.todo = {} /\ manifest' = DOMAIN export.files
        /\ export' = [export EXCEPT !.stage = "done"] /\ UNCHANGED <<folder, visits>>
    BY <1>4 DEF WriteManifest
  <2>2. /\ IsExport(export)' /\ export'.stage = "done" /\ export'.files = export.files
        /\ export'.strays = export.strays
    BY <2>1 DEF FolderInv, IsExport
  <2>3. HalfExported(export)
    BY <2>1 DEF FolderInv
  <2>4. FolderSettles'
    BY <2>1, <2>2, <2>3 DEF HalfExported, FolderSettles
  <2>5. QED
    BY <2>1, <2>2, <2>4 DEF FolderInv
<1>5. CASE ExportCut
  BY <1>1, <1>5 DEF ExportCut, FolderInv
<1>6. ASSUME NEW r \in Records, StoreLearns(r) \/ StoreErases(r) PROVE FolderInv'
  BY <1>1, <1>6 DEF StoreLearns, StoreErases, FolderInv
<1>7. CASE Visit
  <2>1. visits' \in Nat
    BY <1>7 DEF Visit, FolderInv
  <2>2. CASE export.stage # "running"
    BY <1>1, <1>7, <2>1, <2>2 DEF Visit
  <2>3. CASE export.stage = "running"
    <3>1. PICK path \in Files \ DOMAIN folder : folder' = WithFile(folder, path, People) /\ UNCHANGED manifest
      BY <1>7, <2>3 DEF Visit
    <3>2. UNCHANGED export
      BY <1>7, <2>3 DEF Visit
    <3>3. /\ DOMAIN folder' = DOMAIN folder \cup {path} /\ folder'[path] = People
          /\ \A p \in DOMAIN folder : folder'[p] = folder[p]
      BY <3>1 DEF WithFile
    <3>4. HalfExported(export)'
      BY <2>3, <3>2, <3>3 DEF FolderInv, HalfExported
    <3>5. QED
      BY <2>1, <2>3, <3>2, <3>4 DEF FolderInv, IsExport, FolderSettles
  <2>4. QED
    BY <2>2, <2>3
<1>8. CASE UNCHANGED okfVars
  BY <1>8 DEF okfVars, FolderInv, IsExport, HalfExported, FolderSettles
<1>9. QED
  BY <1>2, <1>3, <1>4, <1>5, <1>6, <1>7, <1>8 DEF OkfNext

\* While an export runs, each planned file is written or still to be written, and what else
\* is in the folder is people's, was no export's when it began, or is still to be deleted
\* (rebuildOkfProjection).
THEOREM FolderInvariant == OkfSpec => []FolderInv
<1>1. OkfInit => FolderInv
  BY FolderInvInit
<1>2. FolderInv /\ [OkfNext]_okfVars => FolderInv'
  BY FolderInvStep
<1>3. QED
  BY <1>1, <1>2, PTL DEF OkfSpec

\* An export that came to its end leaves what it planned, and of earlier exports nothing
\* but what no manifest listed when it began, also after exports that were cut.
THEOREM FolderSettled == OkfSpec => []FolderSettles
<1>1. FolderInv => FolderSettles
  BY DEF FolderInv
<1>2. QED
  BY <1>1, FolderInvariant, PTL

\* No export overwrites or deletes a file it found there that no manifest lists
\* (assertPreflightTargets).
THEOREM PeopleKeepTheirs == OkfSpec => UnmanagedPreserved
<1> DEFINE Keeps == \A path \in DOMAIN folder :
              /\ folder[path] = People /\ path \notin Owned
              /\ export.stage = "running" /\ path \in export.strays /\ visits' = visits
              => path \in DOMAIN folder' /\ folder'[path] = People
<1>1. FolderInv /\ [OkfNext]_okfVars => [Keeps]_okfVars
  <2> SUFFICES ASSUME FolderInv, OkfNext, NEW path \in DOMAIN folder, folder[path] = People,
                      export.stage = "running", path \in export.strays, visits' = visits
               PROVE  path \in DOMAIN folder' /\ folder'[path] = People
    OBVIOUS
  <2>1. CASE ExportFile
    <3>1. PICK step \in export.todo :
            folder' = IF step.op = "write" THEN WithFile(folder, step.path, export.files[step.path])
                      ELSE WithoutFile(folder, step.path)
      BY <2>1 DEF ExportFile
    <3>2. path # step.path
      BY <3>1 DEF FolderInv, HalfExported
    <3>3. QED
      BY <3>1, <3>2 DEF WithFile, WithoutFile
  <2>2. CASE WriteManifest \/ ExportCut
    BY <2>2 DEF WriteManifest, ExportCut
  <2>3. ~Visit
    BY DEF Visit, FolderInv
  <2>4. QED
    BY <2>1, <2>2, <2>3 DEF OkfNext, StartExport, StoreLearns, StoreErases
<1>2. QED
  BY <1>1, FolderInvariant, PTL DEF OkfSpec, UnmanagedPreserved

\* What an export carries is of the shape it writes to the folder.
ExportTyped(e) ==
  /\ IsExport(e) /\ PartialFolder(e.files) /\ e.strays \subseteq Files
  /\ e.stage \in {"idle", "running", "done"}
  /\ e.todo \subseteq [op : {"delete", "write"}, path : Files]

OkfTyping == OkfTypeOK /\ ExportTyped(export)

LEMMA NoExportTyped == ExportTyped(NoExport)
<1>1. PICK none : none = NoFiles
  OBVIOUS
<1>2. DOMAIN none = {} /\ PartialFolder(none)
  BY <1>1 DEF NoFiles, PartialFolder
<1>3. PICK e : e = [stage |-> "idle", files |-> none, todo |-> {}, strays |-> {}]
  OBVIOUS
<1>4. e = NoExport /\ IsExport(e) /\ e.stage = "idle" /\ e.files = none /\ e.todo = {} /\ e.strays = {}
  BY <1>1, <1>3 DEF NoExport, IsExport
<1>5. ExportTyped(e)
  BY <1>2, <1>4 DEF ExportTyped
<1>6. QED
  BY <1>4, <1>5

LEMMA OkfTypingInit == OkfInit => OkfTyping
<1> SUFFICES ASSUME OkfInit PROVE OkfTyping
  OBVIOUS
<1>1. PartialFolder(folder)
  BY DEF OkfInit, NoFiles, PartialFolder
<1>2. ExportTyped(export)
  BY NoExportTyped DEF OkfInit
<1>3. QED
  BY <1>1, <1>2, OkfAssumption DEF OkfInit, OkfTyping, OkfTypeOK, ExportTyped

\* The planned files are of records the store has and nobody erased, and the index.
LEMMA PlanOfKnown ==
  ASSUME known \subseteq Records, NEW withHeld
  PROVE  PartialFolder(Plan(withHeld))
<1>1. PICK concepts : concepts = Shown(withHeld) \union Lineage(withHeld)
  OBVIOUS
<1>2. concepts \subseteq Records
  BY <1>1 DEF Shown, Lineage, AcceptedClaims, Observations, Of
<1>3. PICK plan : plan = [path \in concepts \union {Index} |->
                            IF path = Index THEN [by |-> "index", lists |-> concepts]
                            ELSE [by |-> "concept", of |-> path, status |-> Status(path)]]
  OBVIOUS
<1>4. plan = Plan(withHeld)
  BY <1>1, <1>3 DEF Plan
<1>5. DOMAIN plan \subseteq Files
  BY <1>2, <1>3 DEF Files
<1>6. ASSUME NEW path \in DOMAIN plan PROVE plan[path] \in Contents
  <2>1. CASE path = Index
    <3>1. plan[path] = [by |-> "index", lists |-> concepts]
      BY <1>3, <2>1
    <3>2. QED
      BY <1>2, <3>1 DEF Contents
  <2>2. CASE path # Index
    <3>1. path \in Records /\ plan[path] = [by |-> "concept", of |-> path, status |-> Status(path)]
      BY <1>2, <1>3, <2>2
    <3>2. PICK status \in {"stable", "deprecated", "draft"} : status = Status(path)
      BY DEF Status
    <3>3. plan[path] = [by |-> "concept", of |-> path, status |-> status]
      BY <3>1, <3>2
    <3>4. QED
      BY <3>1, <3>3 DEF Contents
  <2>3. QED
    BY <2>1, <2>2
<1>7. QED
  BY <1>4, <1>5, <1>6 DEF PartialFolder

\* A file is added or replaced, or goes.
LEMMA FilesStayTyped ==
  ASSUME NEW files, PartialFolder(files), NEW path
  PROVE  /\ PartialFolder(WithoutFile(files, path))
         /\ \A content \in Contents : path \in Files => PartialFolder(WithFile(files, path, content))
BY DEF PartialFolder, WithFile, WithoutFile

LEMMA StartTyped ==
  ASSUME OkfTyping, NEW withHeld \in BOOLEAN, NEW policy \in {"delete_missing", "tombstone_missing"},
         StartExport(withHeld, policy)
  PROVE  OkfTyping'
<1>1. PICK plan : plan = Plan(withHeld)
  OBVIOUS
<1>2. PICK gone : gone = Missing(plan)
  OBVIOUS
<1>3. PICK files : files = IF policy = "delete_missing" THEN plan
                           ELSE [path \in DOMAIN plan \union gone |-> IF path \in gone THEN Tombstone ELSE plan[path]]
  OBVIOUS
<1>4. PICK deleted : deleted = IF policy = "delete_missing" THEN gone ELSE {}
  OBVIOUS
<1>5. PICK e : e = [stage |-> "running", files |-> files,
                    todo |-> Steps("delete", deleted) \union Steps("write", DOMAIN files),
                    strays |-> DOMAIN folder \ Owned]
  OBVIOUS
<1>6. export' = e /\ exports < MaxExports /\ exports' = exports + 1 /\ UNCHANGED <<known, erased, folder, manifest, visits>>
  BY <1>1, <1>2, <1>3, <1>4, <1>5 DEF StartExport
<1>7. PartialFolder(plan)
  BY <1>1, PlanOfKnown DEF OkfTyping, OkfTypeOK
<1>8. gone \subseteq Files
  BY <1>2 DEF Missing, Owned, OkfTyping, OkfTypeOK
<1>9. PartialFolder(files)
  <2>1. CASE policy = "delete_missing"
    BY <1>3, <1>7, <2>1
  <2>2. CASE policy # "delete_missing"
    <3>1. files = [path \in DOMAIN plan \union gone |-> IF path \in gone THEN Tombstone ELSE plan[path]]
      BY <1>3, <2>2
    <3>2. Tombstone \in Contents
      BY DEF Contents
    <3>3. QED
      BY <1>7, <1>8, <3>1, <3>2 DEF PartialFolder
  <2>3. QED
    BY <2>1, <2>2
<1>10. DOMAIN files \subseteq Files /\ deleted \subseteq Files
  BY <1>4, <1>8, <1>9 DEF PartialFolder
<1>11. /\ e.stage = "running" /\ e.files = files /\ e.strays = DOMAIN folder \ Owned
       /\ e.todo = [op : {"delete"}, path : deleted] \union [op : {"write"}, path : DOMAIN files]
       /\ IsExport(e)
  BY <1>5 DEF Steps, IsExport
<1>12. e.todo \subseteq [op : {"delete", "write"}, path : Files]
  BY <1>10, <1>11
<1>13. e.strays \subseteq Files
  BY <1>11 DEF OkfTyping, OkfTypeOK, PartialFolder
<1>14. ExportTyped(e)
  BY <1>9, <1>11, <1>12, <1>13 DEF ExportTyped
<1>15. exports' \in 0..MaxExports
  BY <1>6, OkfAssumption DEF OkfTyping, OkfTypeOK
<1>16. QED
  BY <1>6, <1>14, <1>15 DEF OkfTyping, OkfTypeOK, ExportTyped, PartialFolder, IsExport

LEMMA OkfTypingStep == FolderInv /\ OkfTyping /\ [OkfNext]_okfVars => OkfTyping'
<1> SUFFICES ASSUME FolderInv, OkfTyping, [OkfNext]_okfVars PROVE OkfTyping'
  OBVIOUS
<1>0. /\ ExportTyped(export) /\ PartialFolder(folder) /\ OkfTypeOK
  BY DEF OkfTyping, OkfTypeOK
<1>1. ASSUME NEW withHeld \in BOOLEAN, NEW policy \in {"delete_missing", "tombstone_missing"},
             StartExport(withHeld, policy)
      PROVE  OkfTyping'
  BY <1>1, StartTyped
<1>2. ASSUME UNCHANGED <<known, erased, manifest, exports, visits>>, PartialFolder(folder)', ExportTyped(export)'
      PROVE  OkfTyping'
  BY <1>0, <1>2 DEF OkfTyping, OkfTypeOK, ExportTyped
<1>3. CASE ExportFile
  <2>1. PICK step \in export.todo :
          /\ folder' = IF step.op = "write" THEN WithFile(folder, step.path, export.files[step.path])
                       ELSE WithoutFile(folder, step.path)
          /\ export' = [export EXCEPT !.todo = @ \ {step}]
          /\ UNCHANGED <<known, erased, manifest, exports, visits>>
    BY <1>3 DEF ExportFile
  <2>2. PICK e : e = export
    OBVIOUS
  <2>3. PICK todo : todo = e.todo \ {step}
    OBVIOUS
  <2>4. PICK new : new = [e EXCEPT !.todo = todo]
    OBVIOUS
  <2>5. export' = new /\ IsExport(e)
    BY <1>0, <2>1, <2>2, <2>3, <2>4 DEF ExportTyped
  <2>6. IsExport(new) /\ new.stage = e.stage /\ new.files = e.files /\ new.todo = todo /\ new.strays = e.strays
    BY <2>4, <2>5 DEF IsExport
  <2>7. ExportTyped(new)
    BY <1>0, <2>2, <2>3, <2>6 DEF ExportTyped
  <2>8. step \in [op : {"delete", "write"}, path : Files]
    BY <1>0, <2>1 DEF ExportTyped
  <2>9. step.op = "write" => export.files[step.path] \in Contents
    BY <1>0, <1>3, <2>1 DEF ExportTyped, ExportFile, PartialFolder, FolderInv, HalfExported
  <2>10. PartialFolder(folder')
    BY <1>0, <2>1, <2>8, <2>9, FilesStayTyped
  <2>11. PartialFolder(folder)' /\ ExportTyped(export)'
    BY <2>5, <2>7, <2>10 DEF PartialFolder, ExportTyped, IsExport
  <2>12. QED
    BY <1>2, <2>1, <2>11
<1>4. CASE WriteManifest
  <2>1. PICK e : e = export
    OBVIOUS
  <2>2. PICK new : new = [e EXCEPT !.stage = "done"]
    OBVIOUS
  <2>3. export' = new /\ IsExport(e) /\ manifest' = DOMAIN e.files /\ UNCHANGED <<known, erased, folder, exports, visits>>
    BY <1>0, <1>4, <2>1, <2>2 DEF ExportTyped, WriteManifest
  <2>4. IsExport(new) /\ new.stage = "done" /\ new.files = e.files /\ new.todo = e.todo /\ new.strays = e.strays
    BY <2>2, <2>3 DEF IsExport
  <2>5. ExportTyped(new) /\ manifest' \subseteq Files
    BY <1>0, <2>1, <2>3, <2>4 DEF ExportTyped, PartialFolder
  <2>6. QED
    BY <1>0, <2>3, <2>5 DEF OkfTyping, OkfTypeOK, ExportTyped, PartialFolder, IsExport
<1>5. CASE ExportCut
  BY <1>0, <1>5, NoExportTyped DEF ExportCut, OkfTyping, OkfTypeOK, ExportTyped, PartialFolder, IsExport
<1>6. ASSUME NEW r \in Records, StoreLearns(r) \/ StoreErases(r) PROVE OkfTyping'
  BY <1>0, <1>6, NoExportTyped DEF StoreLearns, StoreErases, OkfTyping, OkfTypeOK, ExportTyped, PartialFolder, IsExport
<1>7. CASE Visit
  <2>1. ExportTyped(export)'
    BY <1>0, <1>7, NoExportTyped DEF Visit, ExportTyped, PartialFolder, IsExport
  <2>2. visits' \in 0..MaxVisits
    BY <1>0, <1>7, OkfAssumption DEF Visit, OkfTypeOK
  <2>3. PartialFolder(folder)'
    <3>1. People \in Contents
      BY DEF Contents
    <3>2. PartialFolder(folder')
      BY <1>0, <1>7, <3>1, FilesStayTyped DEF Visit
    <3>3. QED
      BY <3>2 DEF PartialFolder
  <2>4. (manifest \in {NoManifest, BadManifest} \/ manifest \subseteq Files)'
    BY <1>0, <1>7 DEF Visit, OkfTypeOK
  <2>5. QED
    BY <1>0, <1>7, <2>1, <2>2, <2>3, <2>4 DEF Visit, OkfTyping, OkfTypeOK, ExportTyped
<1>8. CASE UNCHANGED okfVars
  BY <1>0, <1>8 DEF okfVars, OkfTyping, OkfTypeOK, ExportTyped, PartialFolder, IsExport
<1>9. QED
  BY <1>1, <1>3, <1>4, <1>5, <1>6, <1>7, <1>8 DEF OkfNext

\* The folder holds files, tombstones and what people put there, and the manifest is
\* absent, unreadable or a list of paths, wherever exports were cut.
THEOREM FolderTyped == OkfSpec => []OkfTypeOK
<1>1. OkfTyping => OkfTypeOK
  BY DEF OkfTyping
<1>2. QED
  BY <1>1, FolderInvariant, OkfTypingInit, OkfTypingStep, PTL DEF OkfSpec

-----------------------------------------------------------------------------
(* AcceptedFacts *)

LEMMA FactsStep == FactsTypeOK /\ [FactsNext]_factVars => FactsTypeOK'
<1> SUFFICES ASSUME FactsTypeOK, [FactsNext]_factVars PROVE FactsTypeOK'
  OBVIOUS
<1>1. ASSUME NEW s \in Supports, ObserveSupport(s) PROVE FactsTypeOK'
  BY <1>1 DEF ObserveSupport, FactsTypeOK
<1>2. ASSUME NEW c \in Claims, ProposeClaim(c) PROVE FactsTypeOK'
  BY <1>2 DEF ProposeClaim, FactsTypeOK
<1>3. ASSUME NEW c \in Claims, NEW isDraft \in BOOLEAN, PullClaim(c, isDraft) PROVE FactsTypeOK'
  BY <1>3 DEF PullClaim, FactsTypeOK
<1>4. ASSUME NEW d \in Decision, DecideClaim(d) PROVE FactsTypeOK'
  BY <1>4 DEF DecideClaim, FactsTypeOK
<1>5. ASSUME NEW x \in Claims \cup Supports, RetractFact(x) PROVE FactsTypeOK'
  <2>1. [withdraws |-> x] \in Withdrawal
    BY DEF Withdrawal
  <2>2. QED
    BY <1>5, <2>1 DEF RetractFact, FactsTypeOK
<1>6. ASSUME NEW event \in filed, PullErasure(event) PROVE FactsTypeOK'
  BY <1>6 DEF PullErasure, FactsTypeOK
<1>7. CASE UNCHANGED factVars
  BY <1>7 DEF factVars, FactsTypeOK
<1>8. QED
  BY <1>1, <1>2, <1>3, <1>4, <1>5, <1>6, <1>7 DEF FactsNext

\* A store has events of the types there are, its drafts are Claims, and what is erased is
\* an event it has.
THEOREM FactsTyped == FactsSpec => []FactsTypeOK
<1>1. FactsInit => FactsTypeOK
  BY DEF FactsInit, FactsTypeOK
<1>2. QED
  BY <1>1, FactsStep, PTL DEF FactsSpec

LEMMA FirstIsOne ==
  ASSUME NEW c \in Claims, NEW says, DecisionsOf(c, says) # {}
  PROVE  FirstDecision(c, says) \in DecisionsOf(c, says)
<1>1. PICK ds : ds = DecisionsOf(c, says)
  OBVIOUS
<1>2. PICK times : times = {d.at : d \in ds}
  OBVIOUS
<1>3. ds \subseteq Decision /\ ds # {}
  BY <1>1 DEF DecisionsOf, Decisions
<1>4. \A d \in ds : d.at \in Nat
  BY <1>3, FactsAssumption DEF Decision
<1>5. times \subseteq Nat /\ times # {}
  BY <1>2, <1>3, <1>4
<1>6. PICK t \in times : \A u \in times : t <= u
  BY <1>5, LeastOf
<1>7. PICK d \in ds : d.at = t
  BY <1>2
<1>8. \A other \in ds : d.at <= other.at
  BY <1>2, <1>6, <1>7
<1>9. QED
  BY <1>1, <1>7, <1>8 DEF FirstDecision

\* Decisions are not withdrawn.
LEMMA DecisionsStand ==
  ASSUME FactsTypeOK, NEW d \in Decisions
  PROVE  [withdraws |-> d] \notin filed
<1> SUFFICES ASSUME [withdraws |-> d] \in filed PROVE FALSE
  OBVIOUS
<1>1. d \in Decision /\ d \notin Claims \cup Supports
  BY KindsAssumption DEF Decisions
<1>2. PICK w : w = [withdraws |-> d]
  OBVIOUS
<1>3. w.withdraws = d /\ DOMAIN w = {"withdraws"}
  BY <1>2
<1>4. w \notin Withdrawal
  BY <1>1, <1>3 DEF Withdrawal
<1>5. w \notin Decision
  BY <1>3 DEF Decision
<1>6. w \notin Claims \cup Supports
  BY <1>1, <1>2, KindsAssumption
<1>7. QED
  BY <1>2, <1>4, <1>5, <1>6 DEF FactsTypeOK

LEMMA NoteThenExport ==
  ASSUME NEW c \in Claims, NoteOf(c) = "accepted_fact" PROVE ExportedAs(c) = "stable"
<1>1. /\ c \notin effaced /\ ~NoteSuperseded(c) /\ NoteDecisions(c) = {d \in Decisions : d.of = c}
      /\ \E d \in NoteDecisions(c) : d.says = "accepted"
      /\ ~\E d \in NoteDecisions(c) : d.says = "rejected"
  BY DEF NoteOf
<1>2. \A d \in NoteDecisions(c) : d \notin effaced
  BY DEF NoteDecisions
<1>3. ~(DecisionsOf(c, "accepted") \subseteq effaced) /\ DecisionsOf(c, "rejected") \subseteq effaced
  BY <1>1, <1>2 DEF DecisionsOf
<1>4. QED
  BY <1>1, <1>3 DEF ExportedAs, NoteSuperseded

LEMMA PackThenExport ==
  ASSUME FactsTypeOK, NEW c \in Claims, BearingOn(c) \cap effaced = {}, PackFact(c)
  PROVE  /\ ExportedAs(c) = "stable" /\ DecisionsOf(c, "accepted") # {} /\ DecisionsOf(c, "rejected") = {}
         /\ c \notin effaced /\ ~NoteSuperseded(c)
<1>1. c \notin effaced /\ \A d \in Decisions : d.of = c => d \notin effaced
  BY DEF BearingOn
<1>2. DecisionsOf(c, "rejected") = {}
  <2> SUFFICES ASSUME DecisionsOf(c, "rejected") # {} PROVE FALSE
    OBVIOUS
  <2>1. PICK d : d = FirstDecision(c, "rejected")
    OBVIOUS
  <2>2. d \in Decisions /\ d.of = c /\ d \in filed
    BY <2>1, FirstIsOne DEF DecisionsOf, Decisions
  <2>3. PackEligible(d)
    BY <1>1, <2>2, DecisionsStand DEF PackEligible
  <2>4. QED
    BY <2>1, <2>3 DEF PackFact
<1>3. DecisionsOf(c, "accepted") # {} /\ ~(DecisionsOf(c, "accepted") \subseteq effaced)
  BY <1>1 DEF PackFact, DecisionsOf
<1>4. [withdraws |-> c] \notin filed
  BY DEF PackFact, PackEligible
<1>5. QED
  BY <1>1, <1>2, <1>3, <1>4 DEF ExportedAs, NoteSuperseded

LEMMA ReadersDecide ==
  ASSUME FactsTypeOK, NEW c \in Claims \cap filed, BearingOn(c) \cap effaced = {}, SupportOf[c] \subseteq filed
  PROVE  /\ PackFact(c) <=> DecidedFor(c) /\ c \notin drafts
         /\ NoteOf(c) = "accepted_fact" <=> DecidedFor(c) /\ c \notin drafts
         /\ DecidedFor(c) => ExportedAs(c) = "stable"
         /\ DecidedFor(c) /\ c \in drafts => NoteOf(c) = "proposed_claim"
<1>1. c \notin effaced /\ (\A d \in Decisions : d.of = c => d \notin effaced) /\ SupportOf[c] \cap effaced = {}
  BY DEF BearingOn
<1>2. \A x \in {c} \cup SupportOf[c] : PackEligible(x) <=> ~NoteSuperseded(x)
  <2>1. ASSUME NEW x \in {c} \cup SupportOf[c] PROVE [withdraws |-> x] \notin effaced
    BY <2>1 DEF BearingOn
  <2>2. QED
    BY <1>1, <2>1 DEF PackEligible, NoteSuperseded
<1>3. (\A s \in SupportOf[c] \cap filed : PackEligible(s)) <=> NoteSupported(c)
  BY <1>1, <1>2 DEF NoteSupported
<1>4. \A says \in {"accepted", "rejected"} : DecisionsOf(c, says) # {} => PackEligible(FirstDecision(c, says))
  <2>1. ASSUME NEW says \in {"accepted", "rejected"}, DecisionsOf(c, says) # {}
        PROVE  PackEligible(FirstDecision(c, says))
    <3>1. PICK d : d = FirstDecision(c, says)
      OBVIOUS
    <3>2. d \in Decisions /\ d.of = c /\ d \in filed
      BY <2>1, <3>1, FirstIsOne DEF DecisionsOf, Decisions
    <3>3. QED
      BY <1>1, <3>1, <3>2, DecisionsStand DEF PackEligible
  <2>2. QED
    BY <2>1
<1>5. DecidedFor(c) <=>
        /\ ~NoteSuperseded(c) /\ NoteSupported(c)
        /\ DecisionsOf(c, "accepted") # {} /\ DecisionsOf(c, "rejected") = {}
  <2>1. \A x \in {c} \cup SupportOf[c] : [withdraws |-> x] \notin filed <=> ~NoteSuperseded(x)
    BY DEF BearingOn, NoteSuperseded
  <2>2. NoteSupported(c) <=> \A x \in SupportOf[c] : ~NoteSuperseded(x)
    BY <1>1 DEF NoteSupported
  <2>3. QED
    BY <2>1, <2>2 DEF DecidedFor
<1>6. PackFact(c) <=> DecidedFor(c) /\ c \notin drafts
  BY <1>2, <1>3, <1>4, <1>5 DEF PackFact
<1>7. NoteSupported(c) => NoteDecisions(c) = {d \in Decisions : d.of = c}
  BY <1>1 DEF NoteDecisions
<1>8. /\ DecisionsOf(c, "accepted") # {} <=> \E d \in Decisions : d.of = c /\ d.says = "accepted"
      /\ DecisionsOf(c, "rejected") = {} <=> ~\E d \in Decisions : d.of = c /\ d.says = "rejected"
  BY DEF DecisionsOf
<1>9. ASSUME DecidedFor(c)
      PROVE  /\ c \notin drafts => NoteOf(c) = "accepted_fact"
             /\ c \in drafts => NoteOf(c) = "proposed_claim"
  <2>1. /\ \E d \in NoteDecisions(c) : d.says = "accepted"
        /\ ~\E d \in NoteDecisions(c) : d.says = "rejected"
    BY <1>5, <1>7, <1>8, <1>9
  <2>2. QED
    BY <1>1, <1>5, <1>7, <1>9, <2>1 DEF NoteOf
<1>10. ASSUME NoteOf(c) = "accepted_fact" PROVE DecidedFor(c) /\ c \notin drafts
  <2>1. /\ ~NoteSuperseded(c) /\ NoteSupported(c) /\ c \notin drafts
        /\ \E d \in NoteDecisions(c) : d.says = "accepted"
        /\ ~\E d \in NoteDecisions(c) : d.says = "rejected"
    BY <1>10 DEF NoteOf
  <2>2. QED
    BY <1>5, <1>7, <1>8, <2>1
<1>11. DecidedFor(c) => ExportedAs(c) = "stable"
  <2> SUFFICES ASSUME DecidedFor(c) PROVE ExportedAs(c) = "stable"
    OBVIOUS
  <2>1. PICK d \in DecisionsOf(c, "accepted") : TRUE
    BY <1>5
  <2>2. d \notin effaced
    BY <1>1, <2>1 DEF DecisionsOf
  <2>3. QED
    BY <1>1, <1>5, <2>1, <2>2 DEF ExportedAs, NoteSuperseded
<1>12. QED
  BY <1>6, <1>9, <1>10, <1>11

\* What the pack, the notes and the export make of a Claim that is decided for: one accepted
\* fact if it is no draft, and if it is, two readers that hold it back and one that publishes
\* it - whatever decisions, retractions, erasures and pulls there were and in whatever order
\* (classifyContext, renderClaim, mapEventsToOkf).
THEOREM ReadersDoPart == FactsSpec => []ReadersPartOnDrafts
<1>1. FactsTypeOK => ReadersPartOnDrafts
  <2> SUFFICES ASSUME FactsTypeOK, NEW c \in Claims \cap filed
               PROVE  /\ NoteOf(c) = "accepted_fact" => ExportedAs(c) = "stable"
                      /\ BearingOn(c) \cap effaced = {} =>
                           /\ PackSection(c) = "accepted" => ExportedAs(c) = "stable"
                           /\ SupportOf[c] \subseteq filed =>
                                /\ PackSection(c) = "accepted" <=> DecidedFor(c) /\ c \notin drafts
                                /\ NoteOf(c) = "accepted_fact" <=> DecidedFor(c) /\ c \notin drafts
                                /\ DecidedFor(c) /\ c \in drafts =>
                                     /\ ExportedAs(c) = "stable"
                                     /\ PackSection(c) = "draft" /\ NoteOf(c) = "proposed_claim"
    BY DEF ReadersPartOnDrafts
  <2>1. PackSection(c) = "accepted" <=> PackFact(c)
    BY DEF PackSection
  <2>2. DecidedFor(c) /\ c \in drafts => PackSection(c) = "draft"
    BY DEF PackSection, PackFact, DecidedFor
  <2>3. QED
    BY <2>1, <2>2, NoteThenExport, PackThenExport, ReadersDecide
<1>2. QED
  BY <1>1, FactsTyped, PTL

-----------------------------------------------------------------------------
(* KnowledgeBundle *)

\* One Observation for a key; one under the key of an imported statement is of that statement.
ShelfOK(entries) ==
  /\ entries \in Seq(Shelved)
  /\ \A i, j \in DOMAIN entries : entries[i].key = entries[j].key => i = j
  /\ \A i \in DOMAIN entries : entries[i].key.from = "bundle" => entries[i].key.of = entries[i].says

FileOK(file) == \A i \in DOMAIN file : file[i] \in Carried

IsRun(r) ==
  r = [pc |-> r.pc, file |-> r.file, todo |-> r.todo, anchored |-> r.anchored,
       active |-> r.active, spared |-> r.spared]

\* What an import has gone through, with its anchor and nothing refused, is on the shelf.
ImportOK(r, h) ==
  /\ IsRun(r) /\ FileOK(r.file) /\ r.active \in BOOLEAN /\ r.todo \subseteq DOMAIN r.file
  /\ r.pc = "done" => r.todo = {}
  /\ r.anchored /\ r.spared => \A i \in DOMAIN r.file \ r.todo : ImportedCopies(h, r.file[i].says) # {}

BundleInv ==
  /\ DOMAIN shelf = Homes /\ \A h \in Homes : ShelfOK(shelf[h])
  /\ bundle \in {NoBundle, TornBundle} \/ FileOK(bundle)
  /\ importer = [p \in Importers |-> importer[p]]
  /\ \A p \in Importers : ImportOK(importer[p], ImportsAt[p])

LEMMA BundleInvInit == BundleInit => BundleInv
<1> SUFFICES ASSUME BundleInit PROVE BundleInv
  OBVIOUS
<1>1. \A h \in Homes : shelf[h] = <<>> /\ shelf[h] \in Seq(Shelved) /\ DOMAIN shelf[h] = {}
  BY EmptySeq DEF BundleInit
<1>2. \A h \in Homes : ShelfOK(shelf[h])
  BY <1>1 DEF ShelfOK
<1>3. ASSUME NEW p \in Importers PROVE ImportOK(importer[p], ImportsAt[p])
  <2>1. PICK none : none = <<>>
    OBVIOUS
  <2>2. DOMAIN none = {}
    BY <2>1
  <2>3. PICK run : run = [pc |-> "idle", file |-> none, todo |-> {}, anchored |-> FALSE, active |-> TRUE,
                          spared |-> TRUE]
    OBVIOUS
  <2>4. importer[p] = run
    BY <2>1, <2>3 DEF BundleInit, IdleImporter
  <2>5. run.pc = "idle" /\ run.file = none /\ run.todo = {} /\ run.active = TRUE /\ IsRun(run)
    BY <2>3 DEF IsRun
  <2>6. QED
    BY <2>2, <2>4, <2>5 DEF ImportOK, FileOK
<1>4. QED
  BY <1>2, <1>3 DEF BundleInit, BundleInv

\* An Observation that may be added to a shelf: under a key it does not hold, and if it
\* is imported, under that of its statement.
Fits(x, old) ==
  /\ x \in Shelved /\ \A i \in DOMAIN old : old[i].key # x.key
  /\ x.key.from = "bundle" => x.key.of = x.says

\* A shelf keeps what it had.
StillHas(old, new) == DOMAIN old \subseteq DOMAIN new /\ \A i \in DOMAIN old : new[i] = old[i]

LEMMA ShelfGrows ==
  ASSUME NEW old, ShelfOK(old), NEW x, Fits(x, old), NEW new, new = Append(old, x)
  PROVE  ShelfOK(new) /\ StillHas(old, new) /\ \E i \in DOMAIN new : new[i] = x
<1>1. old \in Seq(Shelved) /\ Len(old) \in Nat /\ DOMAIN old = 1 .. Len(old)
  BY DEF ShelfOK
<1>2. /\ new \in Seq(Shelved) /\ Len(new) = Len(old) + 1 /\ new[Len(old) + 1] = x
      /\ \A i \in 1 .. Len(old) : new[i] = old[i]
  BY <1>1, AppendProperties DEF Fits
<1>3. DOMAIN new = 1 .. (Len(old) + 1)
  BY <1>2
<1>4. \A i \in DOMAIN new : (i \in DOMAIN old /\ new[i] = old[i]) \/ (i = Len(old) + 1 /\ new[i] = x)
  BY <1>1, <1>2, <1>3
<1>5. ShelfOK(new)
  BY <1>2, <1>4 DEF ShelfOK, Fits
<1>6. QED
  BY <1>1, <1>2, <1>3, <1>5 DEF StillHas

\* What has been imported stays.
LEMMA CopiesStay ==
  ASSUME BundleInv, NEW h \in Homes,
         shelf'[h] = shelf[h] \/ StillHas(shelf[h], shelf'[h])
  PROVE  \A s : ImportedCopies(h, s) # {} => ImportedCopies(h, s)' # {}
BY DEF ImportedCopies, StillHas

LEMMA LearnKeeps ==
  ASSUME BundleInv, NEW h \in Homes, NEW s \in Sayings, NEW active \in BOOLEAN, Learn(h, s, active)
  PROVE  BundleInv'
<1>1. PICK x : x = [says |-> s, key |-> OwnKey(s), active |-> active]
  OBVIOUS
<1>2. x \in Shelved /\ x.key.from = "evidence" /\ x.key = OwnKey(s)
  BY <1>1 DEF Shelved, OwnKey
<1>3. shelf' = [shelf EXCEPT ![h] = Append(shelf[h], x)] /\ UNCHANGED <<bundle, importer>>
      /\ \A i \in DOMAIN shelf[h] : shelf[h][i].key # x.key
  BY <1>1, <1>2 DEF Learn, HoldsKey
<1>4. PICK new : new = Append(shelf[h], x)
  OBVIOUS
<1>5. ShelfOK(new) /\ StillHas(shelf[h], new)
  <2>1. ShelfOK(shelf[h]) /\ Fits(x, shelf[h])
    BY <1>2, <1>3 DEF BundleInv, Fits
  <2>2. QED
    BY <1>4, <2>1, ShelfGrows
<1>6. DOMAIN shelf' = Homes /\ shelf'[h] = new /\ \A g \in Homes \ {h} : shelf'[g] = shelf[g]
  BY <1>3, <1>4 DEF BundleInv
<1>7. \A g \in Homes : ShelfOK(shelf'[g])
  BY <1>5, <1>6 DEF BundleInv
<1>8. \A g \in Homes : \A t : ImportedCopies(g, t) # {} => ImportedCopies(g, t)' # {}
  BY <1>5, <1>6, CopiesStay DEF StillHas
<1>9. ASSUME NEW p \in Importers PROVE ImportOK(importer[p], ImportsAt[p])'
  <2>1. ImportsAt[p] \in Homes
    BY BundleAssumption
  <2>2. QED
    BY <1>3, <1>8, <2>1 DEF BundleInv, ImportOK, FileOK, IsRun
<1>10. QED
  BY <1>3, <1>6, <1>7, <1>9 DEF BundleInv, FileOK, ShelfOK

\* The file and the import that reads it change, the shelves do not.
LEMMA RunKeeps ==
  ASSUME BundleInv, UNCHANGED shelf, bundle' = bundle \/ bundle' \in {NoBundle, TornBundle} \/ FileOK(bundle'),
         NEW p \in Importers, NEW run, ImportOK(run, ImportsAt[p]),
         importer' = [importer EXCEPT ![p] = run] \/ UNCHANGED importer
  PROVE  BundleInv'
<1>1. (DOMAIN shelf = Homes /\ \A h \in Homes : ShelfOK(shelf[h]))'
  BY DEF BundleInv, ShelfOK
<1>2. (bundle \in {NoBundle, TornBundle} \/ FileOK(bundle))'
  BY DEF BundleInv, FileOK
<1>3. importer' = [q \in Importers |-> importer'[q]] /\ \A q \in Importers : importer'[q] \in {run, importer[q]}
  BY DEF BundleInv
<1>4. ASSUME NEW q \in Importers PROVE ImportOK(importer'[q], ImportsAt[q])
  <2>1. importer'[q] = importer[q] \/ (q = p /\ importer'[q] = run)
    BY DEF BundleInv
  <2>2. QED
    BY <2>1 DEF BundleInv
<1>5. ASSUME NEW q \in Importers PROVE ImportOK(importer[q], ImportsAt[q])'
  BY <1>4 DEF ImportOK, ImportedCopies, FileOK, IsRun
<1>6. QED
  BY <1>1, <1>2, <1>3, <1>5 DEF BundleInv

\* A unit goes to the shelf, unless it is there or the import has no anchor.
LEMMA ImportKeeps ==
  ASSUME BundleInv, NEW p \in Importers, NEW i \in importer[p].todo, ImportUnit(p, i)
  PROVE  BundleInv'
<1>1. PICK h \in Homes : h = ImportsAt[p]
  BY BundleAssumption
<1>2. PICK r : r = importer[p]
  OBVIOUS
<1>3. ImportOK(r, h) /\ i \in DOMAIN r.file /\ r.file[i] \in Carried
  BY <1>1, <1>2 DEF BundleInv, ImportOK, FileOK
<1>4. PICK unit \in Carried : unit = r.file[i]
  BY <1>3
<1>5. PICK key : key = [from |-> "bundle", of |-> unit.says]
  OBVIOUS
<1>6. PICK x : x = [says |-> unit.says, key |-> key, active |-> r.active]
  OBVIOUS
<1>7. x \in Shelved /\ x.says = unit.says /\ x.key = key /\ key.from = "bundle" /\ key.of = unit.says
  BY <1>3, <1>5, <1>6 DEF Shelved, Carried, ImportOK
<1>8. /\ r.pc = "running" /\ UNCHANGED bundle /\ importer' = [importer EXCEPT ![p].todo = @ \ {i}]
      /\ shelf' = IF r.anchored /\ ~HoldsKey(h, key) THEN [shelf EXCEPT ![h] = Append(shelf[h], x)] ELSE shelf
  BY <1>1, <1>2, <1>4, <1>5, <1>6 DEF ImportUnit, IsNext, ImportKey
<1>9. PICK todo : todo = r.todo \ {i}
  OBVIOUS
<1>10. PICK run : run = [r EXCEPT !.todo = todo]
  OBVIOUS
<1>11. /\ IsRun(run) /\ run.pc = r.pc /\ run.file = r.file /\ run.todo = todo /\ run.anchored = r.anchored
       /\ run.active = r.active /\ run.spared = r.spared
  BY <1>3, <1>10 DEF ImportOK, IsRun
<1>12. importer' = [importer EXCEPT ![p] = run]
  BY <1>2, <1>8, <1>9, <1>10
<1>13. PICK old : old = shelf[h]
  OBVIOUS
<1>14. PICK new : new = IF r.anchored /\ ~HoldsKey(h, key) THEN Append(old, x) ELSE old
  OBVIOUS
<1>15. DOMAIN shelf' = Homes /\ shelf'[h] = new /\ \A g \in Homes \ {h} : shelf'[g] = shelf[g]
  BY <1>8, <1>13, <1>14 DEF BundleInv
<1>16. /\ ShelfOK(new) /\ StillHas(old, new)
       /\ r.anchored => \E j \in DOMAIN new : new[j].says = unit.says /\ new[j].key.from = "bundle"
  <2>1. ShelfOK(old)
    BY <1>13 DEF BundleInv
  <2>2. CASE r.anchored /\ ~HoldsKey(h, key)
    <3>1. new = Append(old, x) /\ Fits(x, old)
      BY <1>7, <1>13, <1>14, <2>2 DEF HoldsKey, Fits
    <3>2. ShelfOK(new) /\ StillHas(old, new) /\ \E j \in DOMAIN new : new[j] = x
      BY <2>1, <3>1, ShelfGrows
    <3>3. QED
      BY <1>7, <3>2
  <2>3. CASE r.anchored /\ HoldsKey(h, key)
    <3>1. new = old
      BY <1>14, <2>3
    <3>2. PICK j \in DOMAIN old : old[j].key = key
      BY <1>13, <2>3 DEF HoldsKey
    <3>3. old[j].says = unit.says /\ old[j].key.from = "bundle"
      BY <1>7, <2>1, <3>2 DEF ShelfOK
    <3>4. QED
      BY <2>1, <3>1, <3>3 DEF StillHas
  <2>4. CASE ~r.anchored
    BY <1>14, <2>1, <2>4 DEF StillHas
  <2>5. QED
    BY <2>2, <2>3, <2>4
<1>17. \A g \in Homes : ShelfOK(shelf'[g])
  BY <1>15, <1>16 DEF BundleInv
<1>18. \A g \in Homes : \A t : ImportedCopies(g, t) # {} => ImportedCopies(g, t)' # {}
  BY <1>13, <1>15, <1>16, CopiesStay DEF StillHas
<1>19. r.anchored => ImportedCopies(h, unit.says)' # {}
  BY <1>15, <1>16 DEF ImportedCopies
<1>20. ASSUME NEW q \in Importers PROVE ImportOK(importer[q], ImportsAt[q])'
  <2>1. ImportsAt[q] \in Homes
    BY BundleAssumption
  <2>2. CASE q # p
    <3>1. importer'[q] = importer[q]
      BY <1>12, <2>2
    <3>2. QED
      BY <1>18, <2>1, <3>1 DEF BundleInv, ImportOK, FileOK, IsRun
  <2>3. CASE q = p
    <3>1. importer'[q] = run
      BY <1>12, <2>3 DEF BundleInv
    <3>2. ASSUME r.anchored, r.spared, NEW j \in DOMAIN r.file \ todo PROVE ImportedCopies(h, r.file[j].says)' # {}
      <4>1. CASE j = i
        BY <1>4, <1>19, <3>2, <4>1
      <4>2. CASE j # i
        BY <1>3, <1>9, <1>18, <3>2, <4>2 DEF ImportOK
      <4>3. QED
        BY <4>1, <4>2
    <3>3. todo \subseteq DOMAIN r.file /\ r.pc # "done"
      BY <1>3, <1>8, <1>9 DEF ImportOK
    <3>4. ImportOK(run, h)'
      BY <1>3, <1>11, <3>2, <3>3 DEF ImportOK, FileOK, IsRun
    <3>5. QED
      BY <1>1, <2>3, <3>1, <3>4
  <2>4. QED
    BY <2>2, <2>3
<1>21. QED
  BY <1>8, <1>12, <1>15, <1>17, <1>20 DEF BundleInv, FileOK, ShelfOK

LEMMA BundleInvStep == BundleInv /\ [BundleNext]_bundleVars => BundleInv'
<1> SUFFICES ASSUME BundleInv, [BundleNext]_bundleVars PROVE BundleInv'
  OBVIOUS
<1>1. ASSUME NEW h \in Homes, Export(h) PROVE BundleInv'
  <2>1. UNCHANGED <<shelf, importer>> /\ bundle' \in {Portable(h), TornBundle}
    BY <1>1 DEF Export
  <2>2. shelf[h] \in Seq(Shelved)
    BY DEF BundleInv, ShelfOK
  <2>3. ASSUME NEW i \in DOMAIN Portable(h) PROVE Portable(h)[i] \in Carried
    <3>1. i \in DOMAIN shelf[h] /\ Portable(h)[i] = [says |-> shelf[h][i].says, source |-> [at |-> h, key |-> shelf[h][i].key]]
      BY DEF Portable
    <3>2. shelf[h][i] \in Shelved
      BY <2>2, <3>1
    <3>3. QED
      BY <3>1, <3>2 DEF Shelved, Carried
  <2>4. (bundle \in {NoBundle, TornBundle} \/ FileOK(bundle))'
    BY <2>1, <2>3 DEF FileOK
  <2>5. QED
    BY <2>1, <2>4 DEF BundleInv, ShelfOK, ImportOK, FileOK, IsRun, ImportedCopies
<1>2. ASSUME NEW h \in Homes, NEW s \in Sayings, NEW active \in BOOLEAN, Learn(h, s, active) PROVE BundleInv'
  BY <1>2, LearnKeeps
<1>3. ASSUME NEW p \in Importers, NEW i \in importer[p].todo, ImportUnit(p, i) PROVE BundleInv'
  BY <1>3, ImportKeeps
<1>4. ASSUME NEW p \in Importers, NEW i \in importer[p].todo, UnitRefused(p, i) PROVE BundleInv'
  <2>1. PICK r : r = importer[p]
    OBVIOUS
  <2>2. ImportOK(r, ImportsAt[p])
    BY <2>1 DEF BundleInv
  <2>3. PICK todo : todo = r.todo \ {i}
    OBVIOUS
  <2>4. PICK no : no = FALSE
    OBVIOUS
  <2>5. PICK run : run = [r EXCEPT !.todo = todo, !.spared = no]
    OBVIOUS
  <2>6. /\ r.pc = "running" /\ UNCHANGED <<shelf, bundle>>
        /\ importer' = [importer EXCEPT ![p] = run]
    BY <1>4, <2>1, <2>3, <2>4, <2>5 DEF UnitRefused, IsNext, BundleInv
  <2>7. /\ IsRun(run) /\ run.pc = "running" /\ run.file = r.file /\ run.todo = todo /\ run.active = r.active
        /\ ~run.spared
    BY <2>2, <2>4, <2>5, <2>6 DEF ImportOK, IsRun
  <2>8. ImportOK(run, ImportsAt[p])
    BY <2>2, <2>3, <2>7 DEF ImportOK
  <2>9. QED
    BY <2>6, <2>8, RunKeeps
<1>5. ASSUME NEW p \in Importers, EndImport(p) PROVE BundleInv'
  <2>1. PICK r : r = importer[p]
    OBVIOUS
  <2>2. ImportOK(r, ImportsAt[p])
    BY <2>1 DEF BundleInv
  <2>3. PICK run : run = [r EXCEPT !.pc = "done"]
    OBVIOUS
  <2>4. r.todo = {} /\ UNCHANGED <<shelf, bundle>> /\ importer' = [importer EXCEPT ![p] = run]
    BY <1>5, <2>1, <2>3 DEF EndImport
  <2>5. /\ IsRun(run) /\ run.file = r.file /\ run.todo = r.todo /\ run.active = r.active
        /\ run.anchored = r.anchored /\ run.spared = r.spared
    BY <2>2, <2>3 DEF ImportOK, IsRun
  <2>6. ImportOK(run, ImportsAt[p])
    BY <2>2, <2>4, <2>5 DEF ImportOK
  <2>7. QED
    BY <2>4, <2>6, RunKeeps
<1>6. ASSUME NEW run, run.pc # "done", run.todo = DOMAIN run.file, IsRun(run), run.active \in BOOLEAN,
             FileOK(run.file), NEW p \in Importers, importer' = [importer EXCEPT ![p] = run],
             UNCHANGED <<shelf, bundle>>
      PROVE  BundleInv'
  <2>1. ImportOK(run, ImportsAt[p])
    BY <1>6 DEF ImportOK
  <2>2. QED
    BY <1>6, <2>1, RunKeeps
<1>7. ASSUME NEW p \in Importers, ImportDies(p) PROVE BundleInv'
  <2>1. PICK none : none = <<>>
    OBVIOUS
  <2>2. DOMAIN none = {} /\ FileOK(none)
    BY <2>1 DEF FileOK
  <2>3. PICK run : run = [pc |-> "idle", file |-> none, todo |-> {}, anchored |-> FALSE, active |-> TRUE,
                          spared |-> TRUE]
    OBVIOUS
  <2>4. importer' = [importer EXCEPT ![p] = run] /\ UNCHANGED <<shelf, bundle>>
    BY <1>7, <2>1, <2>3 DEF ImportDies, IdleImporter
  <2>5. run.pc = "idle" /\ run.file = none /\ run.todo = {} /\ run.active = TRUE /\ IsRun(run)
    BY <2>3 DEF IsRun
  <2>6. QED
    BY <1>6, <2>2, <2>4, <2>5
<1>8. ASSUME NEW p \in Importers, NEW active \in BOOLEAN, StartImport(p, active) PROVE BundleInv'
  <2>1. PICK anchored \in BOOLEAN :
          importer' = [importer EXCEPT ![p] =
            [pc |-> "running", file |-> bundle, todo |-> DOMAIN bundle, anchored |-> anchored,
             active |-> active, spared |-> TRUE]]
    BY <1>8 DEF StartImport
  <2>2. PICK run : run = [pc |-> "running", file |-> bundle, todo |-> DOMAIN bundle, anchored |-> anchored,
                          active |-> active, spared |-> TRUE]
    OBVIOUS
  <2>3. importer' = [importer EXCEPT ![p] = run] /\ UNCHANGED <<shelf, bundle>> /\ FileOK(bundle)
    BY <1>8, <2>1, <2>2 DEF StartImport, BundleInv
  <2>4. run.pc = "running" /\ run.file = bundle /\ run.todo = DOMAIN bundle /\ run.active = active /\ IsRun(run)
    BY <2>2 DEF IsRun
  <2>5. QED
    BY <1>6, <2>3, <2>4
<1>9. CASE UNCHANGED bundleVars
  BY <1>9 DEF bundleVars, BundleInv, ShelfOK, ImportOK, FileOK, IsRun, ImportedCopies
<1>10. QED
  BY <1>1, <1>2, <1>3, <1>4, <1>5, <1>7, <1>8, <1>9 DEF BundleNext

\* A store has one Observation under a key, that of an imported statement is of it, and
\* what a running import with its anchor has gone through is there (importKnowledgeBundle).
THEOREM BundleInvariant == BundleSpec => []BundleInv
<1>1. BundleInit => BundleInv
  BY BundleInvInit
<1>2. BundleInv /\ [BundleNext]_bundleVars => BundleInv'
  BY BundleInvStep
<1>3. QED
  BY <1>1, <1>2, PTL DEF BundleSpec

\* However often bundles are exported, imported again or carried in a circle, a store has
\* at most one imported Observation of a statement, and an import that ended undisturbed
\* leaves one of every unit of its file.
THEOREM ImportsSettle == BundleSpec => []ImportSettles
<1>1. BundleInv => ImportSettles
  <2> SUFFICES ASSUME BundleInv PROVE ImportSettles
    OBVIOUS
  <2>1. ASSUME NEW h \in Homes, NEW s \in Sayings, NEW i \in ImportedCopies(h, s), NEW j \in ImportedCopies(h, s)
        PROVE  i = j
    <3>1. /\ i \in DOMAIN shelf[h] /\ shelf[h][i].says = s /\ shelf[h][i].key.from = "bundle"
          /\ j \in DOMAIN shelf[h] /\ shelf[h][j].says = s /\ shelf[h][j].key.from = "bundle"
      BY DEF ImportedCopies
    <3>2. ShelfOK(shelf[h])
      BY DEF BundleInv
    <3>3. shelf[h][i].key.of = s /\ shelf[h][j].key.of = s
      BY <3>1, <3>2 DEF ShelfOK
    <3>4. shelf[h][i].key \in [from : {"evidence", "bundle"}, of : Sayings]
          /\ shelf[h][j].key \in [from : {"evidence", "bundle"}, of : Sayings]
      <4>1. shelf[h] \in Seq(Shelved)
        BY <3>2 DEF ShelfOK
      <4>2. shelf[h][i] \in Shelved /\ shelf[h][j] \in Shelved
        BY <3>1, <4>1
      <4>3. QED
        BY <4>2 DEF Shelved
    <3>5. shelf[h][i].key = shelf[h][j].key
      BY <3>1, <3>3, <3>4
    <3>6. QED
      BY <3>1, <3>2, <3>5 DEF ShelfOK
  <2>2. ASSUME NEW p \in Importers, importer[p].pc = "done", importer[p].anchored, importer[p].spared,
               NEW i \in DOMAIN importer[p].file
        PROVE  ImportedCopies(ImportsAt[p], importer[p].file[i].says) # {}
    <3>1. ImportOK(importer[p], ImportsAt[p])
      BY DEF BundleInv
    <3>2. QED
      BY <2>2, <3>1 DEF ImportOK
  <2>3. QED
    BY <2>1, <2>2 DEF ImportSettles
<1>2. QED
  BY <1>1, BundleInvariant, PTL
-----------------------------------------------------------------------------
(* KnowledgeBundle: the file, and how often it was carried *)

\* What BundleInv leaves open of the shape of the state.
BundleTyping ==
  /\ bundle \in {NoBundle, TornBundle} \/ DOMAIN bundle \subseteq Nat
  /\ \A p \in Importers :
       importer[p].pc \in {"idle", "running", "done"} /\ DOMAIN importer[p].file \subseteq Nat
  /\ carried \in [exports : 0..MaxBundles, imports : 0..MaxImports, busy : 0..MaxBusy]

LEMMA BundleTypingInit == BundleInit => BundleTyping
<1> SUFFICES ASSUME BundleInit PROVE BundleTyping
  OBVIOUS
<1>1. ASSUME NEW p \in Importers
      PROVE  importer[p].pc \in {"idle", "running", "done"} /\ DOMAIN importer[p].file \subseteq Nat
  <2>1. PICK none : none = <<>>
    OBVIOUS
  <2>2. PICK run : run = [pc |-> "idle", file |-> none, todo |-> {}, anchored |-> FALSE, active |-> TRUE,
                          spared |-> TRUE]
    OBVIOUS
  <2>3. importer[p] = run /\ run.pc = "idle" /\ run.file = none /\ DOMAIN none = {}
    BY <2>1, <2>2 DEF BundleInit, IdleImporter
  <2>4. QED
    BY <2>3
<1>2. QED
  BY <1>1, BundleAssumption DEF BundleInit, BundleTyping

\* One importer moves on, with a file it has or the one it found.
LEMMA RunStaysTyped ==
  ASSUME BundleInv, BundleTyping, NEW p \in Importers, NEW run,
         run.pc \in {"idle", "running", "done"}, DOMAIN run.file \subseteq Nat,
         importer' = [importer EXCEPT ![p] = run], UNCHANGED bundle,
         carried' \in [exports : 0..MaxBundles, imports : 0..MaxImports, busy : 0..MaxBusy]
  PROVE  BundleTyping'
<1>1. ASSUME NEW q \in Importers PROVE importer'[q] = run \/ importer'[q] = importer[q]
  BY DEF BundleInv
<1>2. QED
  BY <1>1 DEF BundleTyping

LEMMA BundleTypingStep == BundleInv /\ BundleTyping /\ [BundleNext]_bundleVars => BundleTyping'
<1> SUFFICES ASSUME BundleInv, BundleTyping, [BundleNext]_bundleVars PROVE BundleTyping'
  OBVIOUS
<1>1. ASSUME NEW h \in Homes, Export(h) PROVE BundleTyping'
  <2>1. /\ bundle' \in {Portable(h), TornBundle} /\ UNCHANGED importer
        /\ carried.exports < MaxBundles /\ carried' = [carried EXCEPT !.exports = @ + 1]
    BY <1>1 DEF Export
  <2>2. carried' \in [exports : 0..MaxBundles, imports : 0..MaxImports, busy : 0..MaxBusy]
    BY <2>1, BundleAssumption DEF BundleTyping
  <2>3. DOMAIN Portable(h) \subseteq Nat
    <3>1. DOMAIN Portable(h) \subseteq DOMAIN shelf[h]
      BY DEF Portable
    <3>2. shelf[h] \in Seq(Shelved)
      BY DEF BundleInv, ShelfOK
    <3>3. DOMAIN shelf[h] = 1 .. Len(shelf[h]) /\ Len(shelf[h]) \in Nat
      BY <3>2
    <3>4. QED
      BY <3>1, <3>3
  <2>4. QED
    BY <2>1, <2>2, <2>3 DEF BundleTyping
<1>2. ASSUME NEW h \in Homes, NEW s \in Sayings, NEW active \in BOOLEAN, Learn(h, s, active) PROVE BundleTyping'
  BY <1>2 DEF Learn, BundleTyping
<1>3. ASSUME NEW p \in Importers, NEW i \in importer[p].todo, ImportUnit(p, i) PROVE BundleTyping'
  <2>1. PICK r : r = importer[p]
    OBVIOUS
  <2>2. PICK todo : todo = r.todo \ {i}
    OBVIOUS
  <2>3. PICK run : run = [r EXCEPT !.todo = todo]
    OBVIOUS
  <2>4. importer' = [importer EXCEPT ![p] = run] /\ UNCHANGED <<bundle, carried>>
    BY <1>3, <2>1, <2>2, <2>3 DEF ImportUnit
  <2>5. IsRun(r)
    BY <2>1 DEF BundleInv, ImportOK
  <2>6. run.pc = r.pc /\ run.file = r.file
    BY <2>3, <2>5 DEF IsRun
  <2>7. QED
    BY <2>1, <2>4, <2>6, RunStaysTyped DEF BundleTyping
<1>4. ASSUME NEW p \in Importers, NEW i \in importer[p].todo, UnitRefused(p, i) PROVE BundleTyping'
  <2>1. PICK r : r = importer[p]
    OBVIOUS
  <2>2. PICK todo : todo = r.todo \ {i}
    OBVIOUS
  <2>3. PICK run : run = [r EXCEPT !.todo = todo, !.spared = FALSE]
    OBVIOUS
  <2>4. /\ importer' = [importer EXCEPT ![p] = run] /\ UNCHANGED bundle
        /\ carried.busy < MaxBusy /\ carried' = [carried EXCEPT !.busy = @ + 1]
    BY <1>4, <2>1, <2>2, <2>3 DEF UnitRefused, BundleInv
  <2>5. IsRun(r)
    BY <2>1 DEF BundleInv, ImportOK
  <2>6. run.pc = r.pc /\ run.file = r.file
    BY <2>3, <2>5 DEF IsRun
  <2>7. carried' \in [exports : 0..MaxBundles, imports : 0..MaxImports, busy : 0..MaxBusy]
    BY <2>4, BundleAssumption DEF BundleTyping
  <2>8. QED
    BY <2>1, <2>4, <2>6, <2>7, RunStaysTyped DEF BundleTyping
<1>5. ASSUME NEW p \in Importers, EndImport(p) PROVE BundleTyping'
  <2>1. PICK r : r = importer[p]
    OBVIOUS
  <2>2. PICK run : run = [r EXCEPT !.pc = "done"]
    OBVIOUS
  <2>3. importer' = [importer EXCEPT ![p] = run] /\ UNCHANGED <<bundle, carried>>
    BY <1>5, <2>1, <2>2 DEF EndImport
  <2>4. IsRun(r)
    BY <2>1 DEF BundleInv, ImportOK
  <2>5. run.pc = "done" /\ run.file = r.file
    BY <2>2, <2>4 DEF IsRun
  <2>6. QED
    BY <2>1, <2>3, <2>5, RunStaysTyped DEF BundleTyping
<1>6. ASSUME NEW p \in Importers, ImportDies(p) PROVE BundleTyping'
  <2>1. PICK none : none = <<>>
    OBVIOUS
  <2>2. PICK run : run = [pc |-> "idle", file |-> none, todo |-> {}, anchored |-> FALSE, active |-> TRUE,
                          spared |-> TRUE]
    OBVIOUS
  <2>3. run.pc = "idle" /\ run.file = none /\ DOMAIN none = {}
    BY <2>1, <2>2
  <2>4. importer' = [importer EXCEPT ![p] = run] /\ UNCHANGED <<bundle, carried>>
    BY <1>6, <2>1, <2>2 DEF ImportDies, IdleImporter
  <2>5. QED
    BY <2>3, <2>4, RunStaysTyped DEF BundleTyping
<1>7. ASSUME NEW p \in Importers, NEW active \in BOOLEAN, StartImport(p, active) PROVE BundleTyping'
  <2>1. PICK anchored \in BOOLEAN :
          importer' = [importer EXCEPT ![p] =
            [pc |-> "running", file |-> bundle, todo |-> DOMAIN bundle, anchored |-> anchored,
             active |-> active, spared |-> TRUE]]
    BY <1>7 DEF StartImport
  <2>2. PICK run : run = [pc |-> "running", file |-> bundle, todo |-> DOMAIN bundle, anchored |-> anchored,
                          active |-> active, spared |-> TRUE]
    OBVIOUS
  <2>3. /\ bundle \notin {NoBundle, TornBundle} /\ UNCHANGED bundle
        /\ carried.imports < MaxImports /\ carried' = [carried EXCEPT !.imports = @ + 1]
    BY <1>7 DEF StartImport
  <2>4. importer' = [importer EXCEPT ![p] = run] /\ run.pc = "running" /\ run.file = bundle
    BY <2>1, <2>2
  <2>5. carried' \in [exports : 0..MaxBundles, imports : 0..MaxImports, busy : 0..MaxBusy]
    BY <2>3, BundleAssumption DEF BundleTyping
  <2>6. QED
    BY <2>3, <2>4, <2>5, RunStaysTyped DEF BundleTyping
<1>8. CASE UNCHANGED bundleVars
  BY <1>8 DEF bundleVars, BundleTyping
<1>9. QED
  BY <1>1, <1>2, <1>3, <1>4, <1>5, <1>6, <1>7, <1>8 DEF BundleNext

LEMMA BundleShape == BundleInv /\ BundleTyping => BundleTypeOK
<1> SUFFICES ASSUME BundleInv, BundleTyping PROVE BundleTypeOK
  OBVIOUS
<1>1. \A h \in Homes : shelf[h] \in Seq(Shelved)
  BY DEF BundleInv, ShelfOK
<1>2. bundle \in {NoBundle, TornBundle} \/ (DOMAIN bundle \subseteq Nat /\ \A i \in DOMAIN bundle : bundle[i] \in Carried)
  BY DEF BundleInv, BundleTyping, FileOK
<1>3. ASSUME NEW p \in Importers
      PROVE  /\ \A i \in DOMAIN importer[p].file : i \in Nat /\ importer[p].file[i] \in Carried
             /\ importer[p].todo \subseteq DOMAIN importer[p].file
  BY DEF BundleInv, BundleTyping, ImportOK, FileOK
<1>4. QED
  BY <1>1, <1>2, <1>3 DEF BundleTyping, BundleTypeOK

\* Shelves, files and imports keep their shape, whatever is exported, torn and imported.
THEOREM BundleTyped == BundleSpec => []BundleTypeOK
<1>1. QED
  BY BundleShape, BundleInvariant, BundleTypingInit, BundleTypingStep, PTL DEF BundleSpec

-----------------------------------------------------------------------------
(* What one machine keeps, side by side *)

StoreInv ==
  /\ OutboxInv /\ PlanInv /\ HooksInv /\ FolderInv /\ OkfTyping
  /\ FactsTypeOK /\ BundleInv /\ BundleTyping

\* Every step of the store is a step, or none, of each of its parts.
LEMMA PartsOfStore ==
  [StoreOpsNext]_storeVars =>
    /\ [OutboxNext]_outboxVars /\ [PlanNext]_planVars /\ [SetupNext]_setupVars
    /\ [OkfNext]_okfVars /\ [FactsNext]_factVars /\ [BundleNext]_bundleVars
<1> SUFFICES ASSUME [StoreOpsNext]_storeVars
             PROVE  /\ [OutboxNext]_outboxVars /\ [PlanNext]_planVars /\ [SetupNext]_setupVars
                    /\ [OkfNext]_okfVars /\ [FactsNext]_factVars /\ [BundleNext]_bundleVars
  OBVIOUS
<1>1. CASE UNCHANGED storeVars
  BY <1>1 DEF storeVars
<1>2. CASE StoreOpsNext
  BY <1>2 DEF StoreOpsNext, otherThanOutbox, otherThanPlan, otherThanSetup, otherThanOkf, otherThanFacts,
              otherThanBundle
<1>3. QED
  BY <1>1, <1>2

\* Outbox, policy plan, settings, folder, facts and bundles keep their shape, also side by
\* side in one store.
THEOREM StoreTyped == StoreSpec => []StoreTypeOK
<1>1. SetupAssumption /\ StoreInit => StoreInv
  BY OutboxInvInit, PlanInvInit, HooksInvInit, FolderInvInit, OkfTypingInit, BundleInvInit, BundleTypingInit
     DEF StoreInit, StoreInv, FactsInit, FactsTypeOK
<1>2. PlanAssumption /\ SetupAssumption /\ StoreInv /\ [StoreOpsNext]_storeVars => StoreInv'
  BY PartsOfStore, OutboxInvStep, PlanInvStep, HooksInvStep, FolderInvStep, OkfTypingStep, FactsStep, BundleInvStep,
     BundleTypingStep
     DEF StoreInv
<1>3. StoreInv => StoreTypeOK
  BY BundleShape DEF StoreInv, StoreTypeOK, OutboxInv, PlanInv, HooksInv, OkfTyping
<1>4. QED
  BY <1>1, <1>2, <1>3, PlanAssumption, SetupAssumption, PTL DEF StoreSpec
=============================================================================
