------------------------ MODULE AgenticRunner_proofs ------------------------
(***************************************************************************)
(* What the agentic runner guarantees for any number of captures, runners, *)
(* candidates and faults.                                                  *)
(*                                                                         *)
(* A run carries copies of what it read over many steps: claimed rows,     *)
(* candidates, proposals to materialise.  RecOK says what of them still    *)
(* holds whatever other runs, crashes and clocks did in between; the       *)
(* tables only grow, which is what keeps it.  The bill is a matter of its  *)
(* own: runs overwrite each other's additions to the day's spend, and what *)
(* bounds it is that no call Flash answered is anybody's twice.            *)
(***************************************************************************)
EXTENDS AgenticRunner, FiniteSetTheorems, SequenceTheorems, TLAPS

RowPcs == {"triage", "extract", "recent", "put", "insert", "requeue", "skip", "finish"}
MatPcs == {"dispose", "observe", "draft", "mark", "caught"}

\* A snapshot still says what the stored row of its proposal says.
Backed(s) == \E p \in proposals : p.id = s.id /\ p.gate = s.gate /\ (s.marked => p.marked)

\* A run may skip a capture: there is nothing to ask about it, or nothing was found.
SkipJustified(rec, c) ==
  c \in Unreadable \cup Unpackable \/ Text[c] # "strong" \/ <<>> \in Extracts(c, rec.net)

\* What a run relies on at each stage.
RecOK(rec) ==
  /\ rec.pc \in RowPcs \/ (rec.pc \in MatPcs /\ ~rec.draining) =>
       \E c \in Captures : rec.row = {c} /\ Cardinality(rec.rows) < rec.useful
  /\ rec.draining => rec.pc \in MatPcs \cup {"bill", "persist"}
  /\ rec.pc \notin {"put", "insert"} => rec.at = 1
  /\ rec.pc \in {"recent", "put", "insert"} => rec.at \in 1 .. Len(rec.cands)
  /\ rec.pc \in MatPcs => rec.todo # <<>>
  /\ rec.pc = "claim" => rec.todo = <<>>
  /\ \A i \in 1 .. Len(rec.todo) : Backed(rec.todo[i])
  /\ rec.pc \in {"draft", "mark"} /\ Observes(Head(rec.todo)) =>
       \E o \in obs : o.id = Head(rec.todo).id
  /\ rec.pc = "mark" /\ Drafts(Head(rec.todo)) => Head(rec.todo).id \in claims
  /\ rec.pc \in {"triage", "extract"} => rec.net
  /\ rec.pc = "skip" => \A c \in rec.row : SkipJustified(rec, c)

\* One row per proposal id, one Observation per proposal.
TablesOK ==
  /\ \A p, q \in proposals : p.id = q.id => p = q
  /\ IsFiniteSet(proposals)
  /\ ObservedAsGated

AgenticInv ==
  /\ AgenticTypeOK
  /\ TablesOK
  /\ \A r \in Runners : RecOK(run[r])

-----------------------------------------------------------------------------
(* How a run moves *)

\* The tables only grow: a row keeps its gate, and a mark stays.
Grows ==
  /\ \A p \in proposals : \E q \in proposals' :
       q.id = p.id /\ q.gate = p.gate /\ (p.marked => q.marked)
  /\ obs \subseteq obs' /\ claims \subseteq claims'

LEMMA RecStays ==
  ASSUME NEW rec, RecOK(rec), Grows
  PROVE  RecOK(rec)'
<1>1. \A i \in 1 .. Len(rec.todo) : Backed(rec.todo[i])'
  <2> SUFFICES ASSUME NEW i \in 1 .. Len(rec.todo) PROVE Backed(rec.todo[i])'
    OBVIOUS
  <2>1. PICK p \in proposals : p.id = rec.todo[i].id /\ p.gate = rec.todo[i].gate
                                 /\ (rec.todo[i].marked => p.marked)
    BY DEF RecOK, Backed
  <2>2. PICK q \in proposals' : q.id = p.id /\ q.gate = p.gate /\ (p.marked => q.marked)
    BY DEF Grows
  <2>3. QED
    BY <2>1, <2>2 DEF Backed
<1>2. QED
  BY <1>1 DEF RecOK, Grows, SkipJustified, Observes, Drafts

\* What a step of run r does to the bill: nothing, or its calls are forgotten; one more
\* call is answered; the day's spend is read; or the run's calls are added to what it read.
Bills(r, rec) ==
  \/ rec.calls \in {run[r].calls, 0} /\ rec.pc # "persist" /\ UNCHANGED spendVars
  \/ rec.calls = run[r].calls + 1 /\ rec.pc # "persist" /\ day' = day /\ billed' = billed + 1
  \/ rec.calls = run[r].calls /\ rec.prev = day /\ UNCHANGED spendVars
  \/ /\ run[r].pc = "persist" /\ rec.calls = 0 /\ rec.pc # "persist"
     /\ day' = run[r].prev + run[r].calls /\ billed' = billed

\* Run r moves on, and its new record is in order.
Moves(r) == \E rec \in RunType : Put(r, rec) /\ RecOK(rec)' /\ Bills(r, rec)

\* The tables stay in order.
TablesMove ==
  /\ Grows /\ TablesOK'
  /\ feed' \in [Captures -> FeedStates] /\ proposals' \subseteq Snapshot
  /\ disp' \in [Captures -> {"none"} \cup Gates]
  /\ obs' \subseteq [id : Ids, lifecycle : {"active", "draft"}] /\ claims' \subseteq Ids
  /\ day' \in Nat /\ billed' \in Nat /\ faults' \in 0 .. MaxFaults

\* A step of one run keeps the invariant if its new record and the tables are in order.
LEMMA RunKeeps ==
  ASSUME AgenticInv, NEW r \in Runners, Moves(r), TablesMove
  PROVE  AgenticInv'
<1>0. PICK rec \in RunType : Put(r, rec) /\ RecOK(rec)'
  BY DEF Moves
<1>1. run \in [Runners -> RunType]
  BY DEF AgenticInv, AgenticTypeOK
<1>2. /\ run' \in [Runners -> RunType] /\ run'[r] = rec
      /\ \A q \in Runners \ {r} : run'[q] = run[q]
  BY <1>0, <1>1 DEF Put
<1>3. AgenticTypeOK'
  BY <1>2 DEF AgenticTypeOK, TablesMove
<1>4. ASSUME NEW q \in Runners PROVE RecOK(run[q])'
  <2>1. CASE q = r
    BY <1>0, <1>2, <2>1
  <2>2. CASE q # r
    <3>1. PICK x : x = run[q]
      OBVIOUS
    <3>2. RecOK(x)'
      BY <3>1, RecStays DEF AgenticInv, TablesMove
    <3>3. QED
      BY <1>2, <2>2, <3>1, <3>2
  <2>3. QED
    BY <2>1, <2>2
<1>5. QED
  BY <1>3, <1>4 DEF AgenticInv, TablesMove

\* A step that changes no table but the feed and the dispositions.
LEMMA TablesStay ==
  ASSUME AgenticInv, UNCHANGED <<proposals, obs, claims>>,
         feed' \in [Captures -> FeedStates], disp' \in [Captures -> {"none"} \cup Gates],
         day' \in Nat, billed' \in Nat, faults' \in 0 .. MaxFaults
  PROVE  TablesMove
<1>1. Grows
  BY DEF Grows
<1>2. TablesOK'
  BY DEF AgenticInv, TablesOK, ObservedAsGated
<1>3. QED
  BY <1>1, <1>2 DEF TablesMove, AgenticInv, AgenticTypeOK

\* ... or not even these.
LEMMA NothingChanges ==
  ASSUME AgenticInv, UNCHANGED dbVars,
         day' \in Nat, billed' \in Nat, faults' \in 0 .. MaxFaults
  PROVE  TablesMove
BY TablesStay DEF dbVars, AgenticInv, AgenticTypeOK

LEMMA IdleOK == Idle \in RunType /\ RecOK(Idle)
<1>1. Idle \in RunType
  BY AgenticAssumption DEF Idle, RunType, Pcs
<1>2. RecOK(Idle)
  BY DEF Idle, RecOK, RowPcs, MatPcs
<1>3. QED
  BY <1>1, <1>2

LEMMA AgenticInvInit == AgenticInit => AgenticInv
<1> SUFFICES ASSUME AgenticInit PROVE AgenticInv
  OBVIOUS
<1>1. AgenticTypeOK
  BY IdleOK, AgenticAssumption DEF AgenticInit, AgenticTypeOK, FeedStates
<1>2. TablesOK
  BY FS_EmptySet DEF AgenticInit, TablesOK, ObservedAsGated
<1>3. \A r \in Runners : RecOK(run[r])
  BY IdleOK DEF AgenticInit
<1>4. QED
  BY <1>1, <1>2, <1>3 DEF AgenticInv

-----------------------------------------------------------------------------
(* From row to row *)

LEMMA RowIs == ASSUME NEW r \in Runners, NEW c, run[r].row = {c} PROVE Row(r) = c
BY DEF Row

\* The rows of a run are finitely many.
LEMMA RowsFinite == ASSUME NEW rec \in RunType PROVE IsFiniteSet(rec.rows)
BY FS_Subset, AgenticAssumption DEF RunType

\* A row is opened under a claim that leaves the run room for it.
LEMMA OpenedOK ==
  ASSUME NEW rec \in RunType, NEW c \in rec.rows, ~rec.draining, rec.at = 1, rec.todo = <<>>,
         Cardinality(rec.rows) <= rec.useful, NEW new, new = Opened(rec, c)
  PROVE  new \in RunType /\ RecOK(new) /\ new.calls = rec.calls /\ new.pc # "persist"
<1>1. c \in Captures /\ FoundLocally(c) \in Seq(Candidate)
  <2>1. c \in Captures
    BY DEF RunType
  <2>2. Local[c] \in Seq(Candidate)
    BY <2>1, AgenticAssumption
  <2>3. QED
    BY <2>1, <2>2, EmptySeq DEF FoundLocally
<1> DEFINE cands == IF Packed(c) /\ ~rec.net THEN FoundLocally(c) ELSE <<>>
           pc    == IF Packed(c) /\ rec.net THEN "triage" ELSE IF cands = <<>> THEN "skip" ELSE "recent"
<1>2. cands \in Seq(Candidate) /\ pc \in {"skip", "triage", "recent"} /\ pc \in Pcs
  BY <1>1, EmptySeq DEF Pcs
<1>3. pc = "recent" => cands # <<>>
  OBVIOUS
<1>4. /\ pc = "skip" => SkipJustified(rec, c)
      /\ pc = "triage" => rec.net
  BY DEF Packed, Admitted, Dropped, SkipJustified, Extracts
<1>5. new = [rec EXCEPT !.rows = @ \ {c}, !.seen = @ \cup {c}, !.row = {c}, !.cands = cands, !.pc = pc]
  BY DEF Opened
<1> HIDE DEF pc, cands
<1>6. /\ new \in RunType /\ new.rows = rec.rows \ {c} /\ new.row = {c} /\ new.cands = cands /\ new.pc = pc
      /\ new.useful = rec.useful /\ new.draining = rec.draining /\ new.at = rec.at
      /\ new.todo = rec.todo /\ new.calls = rec.calls /\ new.net = rec.net
  <2>1. PICK rows \in SUBSET Captures, seen \in SUBSET Captures, row \in SUBSET Captures :
          rows = rec.rows \ {c} /\ seen = rec.seen \cup {c} /\ row = {c}
    BY <1>1 DEF RunType
  <2>2. new = [rec EXCEPT !.rows = rows, !.seen = seen, !.row = row, !.cands = cands, !.pc = pc]
    BY <1>5, <2>1
  <2>3. new \in RunType
    BY <1>2, <2>2 DEF RunType
  <2>4. /\ new.rows = rows /\ new.row = row /\ new.cands = cands /\ new.pc = pc
        /\ new.useful = rec.useful /\ new.draining = rec.draining /\ new.at = rec.at
        /\ new.todo = rec.todo /\ new.calls = rec.calls /\ new.net = rec.net
    BY <2>2 DEF RunType
  <2>5. QED
    BY <2>1, <2>3, <2>4
<1>7. Cardinality(new.rows) < new.useful
  <2>1. IsFiniteSet(rec.rows) /\ Cardinality(rec.rows) \in Nat
    BY RowsFinite, FS_CardinalityType
  <2>2. Cardinality(new.rows) = Cardinality(rec.rows) - 1
    BY <1>6, <2>1, FS_RemoveElement
  <2>3. rec.useful \in Nat
    BY AgenticAssumption DEF RunType
  <2>4. QED
    BY <1>6, <2>1, <2>2, <2>3
<1>8. pc = "recent" => new.at \in 1 .. Len(new.cands)
  BY <1>2, <1>3, <1>6, LenProperties
<1>9. /\ new.pc = "skip" => \A d \in new.row : SkipJustified(new, d)
      /\ new.pc \in {"triage", "extract"} => new.net
  BY <1>2, <1>4, <1>6 DEF SkipJustified
<1>10. RecOK(new)
  BY <1>1, <1>2, <1>6, <1>7, <1>8, <1>9 DEF RecOK, RowPcs, MatPcs
<1>11. QED
  BY <1>2, <1>6, <1>10

LEMMA OnwardMoves ==
  ASSUME NEW r \in Runners, NEW rec \in RunType, ~rec.draining, rec.at = 1, rec.todo = <<>>,
         Cardinality(rec.rows) <= rec.useful, Onward(r, rec)
  PROVE  \E new \in RunType : Put(r, new) /\ RecOK(new) /\ new.calls = rec.calls /\ new.pc # "persist"
<1>1. CASE rec.rows = {}
  <2>1. PICK new : new = [rec EXCEPT !.pc = "claim"]
    OBVIOUS
  <2>2. /\ new \in RunType /\ new.pc = "claim" /\ new.draining = rec.draining /\ new.at = rec.at
        /\ new.todo = rec.todo /\ new.calls = rec.calls
    BY <2>1 DEF RunType, Pcs
  <2>3. RecOK(new)
    BY <2>2 DEF RecOK, RowPcs, MatPcs
  <2>4. QED
    BY <1>1, <2>1, <2>2, <2>3 DEF Onward
<1>2. CASE rec.rows # {}
  <2>1. PICK c \in rec.rows : Put(r, Opened(rec, c))
    BY <1>2 DEF Onward
  <2>2. PICK new : new = Opened(rec, c)
    OBVIOUS
  <2>3. QED
    BY <2>1, <2>2, OpenedOK
<1>3. QED
  BY <1>1, <1>2

\* Two records that agree in what a run relies on.
LEMMA SameReliance ==
  ASSUME NEW rec, NEW new, RecOK(rec), new.pc = rec.pc, new.row = rec.row, new.rows = rec.rows,
         new.useful = rec.useful, new.draining = rec.draining, new.at = rec.at,
         new.cands = rec.cands, new.todo = rec.todo, new.net = rec.net
  PROVE  RecOK(new)
BY DEF RecOK, SkipJustified

LEMMA FaultCounted ==
  ASSUME AgenticInv, Fault \/ UNCHANGED faults
  PROVE  faults' \in 0 .. MaxFaults
BY AgenticAssumption DEF AgenticInv, AgenticTypeOK, Fault

\* A step of one run that changes no table, nor the bill.
LEMMA QuietStep ==
  ASSUME AgenticInv, NEW r \in Runners, NEW rec \in RunType, Put(r, rec), RecOK(rec),
         rec.calls \in {run[r].calls, 0}, rec.pc # "persist",
         UNCHANGED <<dbVars, spendVars>>, Fault \/ UNCHANGED faults
  PROVE  Moves(r) /\ TablesMove
<1>1. TablesMove
  BY NothingChanges, FaultCounted DEF AgenticInv, AgenticTypeOK, spendVars
<1>2. RecOK(rec)'
  BY <1>1, RecStays DEF TablesMove
<1>3. QED
  BY <1>1, <1>2 DEF Moves, Bills

-----------------------------------------------------------------------------
(* Start, claim, calls *)

LEMMA StartStep ==
  ASSUME AgenticInv, NEW r \in Runners, Start(r)
  PROVE  Moves(r) /\ TablesMove
<1>1. PICK net \in BOOLEAN, mat \in BOOLEAN :
        Put(r, [Idle EXCEPT !.pc = "claim", !.net = net, !.mat = mat, !.useful = Limit])
  <2>1. PICK n \in Networks, mat \in Materialises :
          Put(r, [Idle EXCEPT !.pc = "claim", !.net = n /\ day < DayCalls, !.mat = mat, !.useful = Limit])
    BY DEF Start
  <2>2. PICK net \in BOOLEAN : net = (n /\ day < DayCalls)
    OBVIOUS
  <2>3. mat \in BOOLEAN
    BY <2>1, AgenticAssumption
  <2>4. QED
    BY <2>1, <2>2, <2>3
<1>2. PICK rec : rec = [Idle EXCEPT !.pc = "claim", !.net = net, !.mat = mat, !.useful = Limit]
  OBVIOUS
<1>3. rec \in RunType /\ rec.pc = "claim"
  <2>1. "claim" \in Pcs /\ Limit \in 0 .. Limit
    BY AgenticAssumption DEF Pcs
  <2>2. QED
    BY <1>2, <2>1, IdleOK DEF RunType
<1>4. /\ rec.draining = Idle.draining /\ rec.at = Idle.at /\ rec.todo = Idle.todo
      /\ rec.calls = Idle.calls
  BY <1>2, IdleOK DEF RunType
<1>5. RecOK(rec) /\ rec.calls = 0
  BY <1>3, <1>4 DEF RecOK, RowPcs, MatPcs, Idle
<1>6. QED
  BY <1>1, <1>2, <1>3, <1>5, QuietStep DEF Start

LEMMA ClaimStep ==
  ASSUME AgenticInv, NEW r \in Runners, Claim(r)
  PROVE  Moves(r) /\ TablesMove
<1>0. /\ run[r] \in RunType /\ run[r].pc = "claim" /\ RecOK(run[r])
      /\ feed \in [Captures -> FeedStates] /\ disp \in [Captures -> {"none"} \cup Gates]
      /\ day \in Nat /\ billed \in Nat /\ faults \in 0 .. MaxFaults
  BY DEF AgenticInv, AgenticTypeOK, Claim, At
<1>1. UNCHANGED <<proposals, disp, obs, claims, spendVars, faults>>
  BY DEF Claim
<1>2. CASE run[r].useful = 0 \/ Due = {}
  <2>1. PICK pc \in {"drain", "bill"} : Put(r, [Idle EXCEPT !.calls = run[r].calls, !.pc = pc])
    BY <1>2 DEF Claim
  <2>2. PICK rec : rec = [Idle EXCEPT !.calls = run[r].calls, !.pc = pc]
    OBVIOUS
  <2>3. rec \in RunType /\ rec.pc = pc /\ rec.calls = run[r].calls
    BY <1>0, <2>2, IdleOK DEF RunType, Pcs
  <2>4. rec.draining = Idle.draining /\ rec.at = Idle.at /\ rec.todo = Idle.todo
    BY <2>2, IdleOK DEF RunType
  <2>5. RecOK(rec)
    BY <2>3, <2>4 DEF RecOK, RowPcs, MatPcs, Idle
  <2>6. UNCHANGED <<dbVars, spendVars, faults>>
    BY <1>1, <1>2 DEF Claim, dbVars
  <2>7. QED
    BY <2>1, <2>2, <2>3, <2>5, <2>6, QuietStep
<1>3. CASE ~(run[r].useful = 0 \/ Due = {})
  <2>1. PICK cs \in Batches(run[r].useful) :
          /\ feed' = [c \in Captures |-> IF c \in cs THEN "leased" ELSE feed[c]]
          /\ Onward(r, [run[r] EXCEPT !.rows = cs \ run[r].seen])
    BY <1>3 DEF Claim
  <2>2. cs \in SUBSET Captures /\ IsFiniteSet(cs) /\ Cardinality(cs) <= run[r].useful
    <3>1. IsFiniteSet(Due) /\ Due \subseteq Captures /\ Cardinality(Due) \in Nat
      BY FS_Subset, FS_CardinalityType, AgenticAssumption DEF Due
    <3>2. cs \in SUBSET Due
          /\ Cardinality(cs) = IF Cardinality(Due) < run[r].useful THEN Cardinality(Due) ELSE run[r].useful
      BY DEF Batches, kSubset
    <3>3. run[r].useful \in Nat
      BY <1>0, AgenticAssumption DEF RunType
    <3>4. QED
      BY <3>1, <3>2, <3>3, FS_Subset
  <2>3. PICK rows \in SUBSET Captures : rows = cs \ run[r].seen
    BY <2>2
  <2>4. PICK rec : rec = [run[r] EXCEPT !.rows = rows]
    OBVIOUS
  <2>5. /\ rec \in RunType /\ rec.rows = rows /\ rec.useful = run[r].useful /\ rec.calls = run[r].calls
        /\ rec.draining = run[r].draining /\ rec.at = run[r].at /\ rec.todo = run[r].todo
    BY <1>0, <2>4 DEF RunType
  <2>6. Cardinality(rows) <= rec.useful
    <3>1. Cardinality(rows) <= Cardinality(cs) /\ Cardinality(rows) \in Nat /\ Cardinality(cs) \in Nat
      BY <2>2, <2>3, FS_Subset, FS_CardinalityType
    <3>2. rec.useful \in Nat
      BY <2>5, AgenticAssumption DEF RunType
    <3>3. QED
      BY <2>2, <2>5, <3>1, <3>2
  \* A run that claims has nothing left of an earlier row.
  <2>7. ~rec.draining /\ rec.at = 1 /\ rec.todo = <<>>
    BY <1>0, <2>5 DEF RecOK, MatPcs, RunType
  <2>8. PICK new \in RunType : Put(r, new) /\ RecOK(new) /\ new.calls = rec.calls /\ new.pc # "persist"
    <3>1. Onward(r, rec)
      BY <2>1, <2>3, <2>4
    <3>2. QED
      BY <2>3, <2>5, <2>6, <2>7, <3>1, OnwardMoves
  <2>9. TablesMove
    <3>1. feed' \in [Captures -> FeedStates]
      BY <1>0, <2>1 DEF FeedStates
    <3>2. QED
      BY <1>0, <1>1, <3>1, TablesStay DEF spendVars
  <2>10. RecOK(new)'
    BY <2>8, <2>9, RecStays DEF TablesMove
  <2>11. QED
    BY <1>1, <2>5, <2>8, <2>9, <2>10 DEF Moves, Bills
<1>4. QED
  BY <1>2, <1>3

\* A run that stays in its row before the candidates are proposed.
LEMMA StaysInRow ==
  ASSUME AgenticInv, NEW r \in Runners, run[r].pc \in {"triage", "extract"},
         NEW rec \in RunType, rec.pc \in {"extract", "skip", "requeue", "recent"},
         rec.row = run[r].row, rec.rows = run[r].rows, rec.useful = run[r].useful,
         rec.draining = run[r].draining, rec.at = run[r].at, rec.todo = run[r].todo,
         rec.net = run[r].net,
         rec.pc = "skip" => SkipJustified(rec, Row(r)), rec.pc = "recent" => rec.cands # <<>>
  PROVE  RecOK(rec)
<1>1. RecOK(run[r])
  BY DEF AgenticInv
<1>2. PICK c \in Captures : run[r].row = {c} /\ Cardinality(run[r].rows) < run[r].useful
  BY <1>1 DEF RecOK, RowPcs
<1>3. Row(r) = c
  BY <1>2, RowIs
<1>4. rec.pc = "recent" => rec.at \in 1 .. Len(rec.cands)
  <2>1. rec.cands \in Seq(Candidate) /\ rec.at = 1
    BY <1>1 DEF RunType, RecOK
  <2>2. QED
    BY <2>1, LenProperties
<1>5. QED
  BY <1>1, <1>2, <1>3, <1>4 DEF RecOK, RowPcs, MatPcs

LEMMA AnswerMoves ==
  ASSUME AgenticInv, NEW r \in Runners, NEW more \in RunType, RecOK(more), more.pc # "persist",
         Answer(r, more), UNCHANGED <<dbVars, day>>
  PROVE  Moves(r) /\ TablesMove
<1>1. day \in Nat /\ billed \in Nat /\ faults \in 0 .. MaxFaults /\ run[r] \in RunType
  BY DEF AgenticInv, AgenticTypeOK
<1>2. PICK calls : calls = run[r].calls + 1
  OBVIOUS
<1>3. calls \in 0 .. RunCalls
  <2>1. run[r].calls \in 0 .. RunCalls
    BY <1>1 DEF RunType
  <2>2. run[r].calls < RunCalls
    BY DEF Answer
  <2>3. QED
    BY <1>2, <2>1, <2>2, AgenticAssumption
<1>4. PICK rec : rec = [more EXCEPT !.calls = calls]
  OBVIOUS
<1>5. rec \in RunType /\ rec.calls = calls
  BY <1>3, <1>4 DEF RunType
<1>6. /\ rec.pc = more.pc /\ rec.row = more.row /\ rec.rows = more.rows
      /\ rec.useful = more.useful /\ rec.draining = more.draining /\ rec.at = more.at
      /\ rec.cands = more.cands /\ rec.todo = more.todo /\ rec.net = more.net
  BY <1>4 DEF RunType
<1>7. RecOK(rec)
  BY <1>6, SameReliance
<1>8. TablesMove
  BY <1>1, NothingChanges DEF Answer
<1>9. RecOK(rec)'
  BY <1>7, <1>8, RecStays DEF TablesMove
<1>10. Put(r, rec) /\ billed' = billed + 1
  BY <1>2, <1>4 DEF Answer
<1>11. QED
  BY <1>2, <1>5, <1>6, <1>8, <1>9, <1>10 DEF Moves, Bills

LEMMA NoAnswerMoves ==
  ASSUME AgenticInv, NEW r \in Runners, NEW more \in RunType, RecOK(more), more.pc # "persist",
         more.calls = run[r].calls, NoAnswer(r, more), UNCHANGED <<dbVars, day>>
  PROVE  Moves(r) /\ TablesMove
BY QuietStep DEF NoAnswer, Costs, spendVars

LEMMA TriageStep ==
  ASSUME AgenticInv, NEW r \in Runners, Triage(r)
  PROVE  Moves(r) /\ TablesMove
<1>0. run[r] \in RunType /\ run[r].pc = "triage" /\ UNCHANGED <<dbVars, day>>
  BY DEF AgenticInv, AgenticTypeOK, Triage, At
<1>1. ASSUME NEW triaged \in {"text", "transient", "refused"},
             NEW pc \in {"extract", "skip", "requeue"},
             pc = "skip" => Text[Row(r)] # "strong",
             NEW rec, rec = [run[r] EXCEPT !.triaged = triaged, !.pc = pc]
      PROVE  rec \in RunType /\ RecOK(rec) /\ rec.pc # "persist" /\ rec.calls = run[r].calls
  <2>1. rec \in RunType /\ rec.pc = pc /\ rec.calls = run[r].calls
    BY <1>0, <1>1 DEF RunType, Pcs
  <2>2. /\ rec.row = run[r].row /\ rec.rows = run[r].rows /\ rec.useful = run[r].useful
        /\ rec.draining = run[r].draining /\ rec.at = run[r].at /\ rec.todo = run[r].todo
        /\ rec.net = run[r].net
    BY <1>0, <1>1 DEF RunType
  <2>3. RecOK(rec)
    BY <1>0, <1>1, <2>1, <2>2, StaysInRow DEF SkipJustified
  <2>4. QED
    BY <2>1, <2>3
<1>2. CASE \E a \in {"keep", "drop", "need_context", "garbled"} :
             Answer(r, [run[r] EXCEPT !.triaged = "text",
                          !.pc = IF Kept(Row(r), a) THEN "extract" ELSE "skip"])
  <2>1. PICK pc \in {"extract", "skip"} :
          /\ pc = "skip" => Text[Row(r)] # "strong"
          /\ Answer(r, [run[r] EXCEPT !.triaged = "text", !.pc = pc])
    BY <1>2 DEF Kept
  <2>2. PICK rec : rec = [run[r] EXCEPT !.triaged = "text", !.pc = pc]
    OBVIOUS
  <2>3. rec \in RunType /\ RecOK(rec) /\ rec.pc # "persist"
    BY <1>1, <2>1, <2>2
  <2>4. QED
    BY <1>0, <2>1, <2>2, <2>3, AnswerMoves
<1>3. CASE \E f \in {"transient", "refused"} :
             NoAnswer(r, [run[r] EXCEPT !.triaged = f,
                            !.pc = IF Kept(Row(r), "missing") THEN "extract"
                                   ELSE IF f = "transient" THEN "requeue" ELSE "skip"])
  <2>1. PICK f \in {"transient", "refused"}, pc \in {"extract", "skip", "requeue"} :
          /\ pc = "skip" => Text[Row(r)] # "strong"
          /\ NoAnswer(r, [run[r] EXCEPT !.triaged = f, !.pc = pc])
    BY <1>3 DEF Kept
  <2>2. PICK rec : rec = [run[r] EXCEPT !.triaged = f, !.pc = pc]
    OBVIOUS
  <2>3. rec \in RunType /\ RecOK(rec) /\ rec.pc # "persist" /\ rec.calls = run[r].calls
    BY <1>1, <2>1, <2>2
  <2>4. QED
    BY <1>0, <2>1, <2>2, <2>3, NoAnswerMoves
<1>4. QED
  BY <1>2, <1>3 DEF Triage

LEMMA ExtractStep ==
  ASSUME AgenticInv, NEW r \in Runners, Extract(r)
  PROVE  Moves(r) /\ TablesMove
<1>0. run[r] \in RunType /\ run[r].pc = "extract" /\ UNCHANGED <<dbVars, day>>
  BY DEF AgenticInv, AgenticTypeOK, Extract, At
<1>1. Row(r) \in Captures
  <2>1. PICK c \in Captures : run[r].row = {c}
    BY <1>0 DEF AgenticInv, RecOK, RowPcs
  <2>2. QED
    BY <2>1, RowIs
<1>2. ASSUME NEW cands \in Extractions[Row(r)] \cup {Fallback(Row(r))}, NEW rec, rec = Extracted(r, cands)
      PROVE  rec \in RunType /\ RecOK(rec) /\ rec.pc # "persist" /\ rec.calls = run[r].calls
  <2>1. cands \in Seq(Candidate)
    <3>1. Local[Row(r)] \in Seq(Candidate) /\ Extractions[Row(r)] \subseteq Seq(Candidate)
      BY <1>1, AgenticAssumption
    <3>2. QED
      BY <1>2, <3>1, EmptySeq DEF Fallback
  <2>2. PICK pc \in {"skip", "recent"} :
          /\ pc = (IF cands = <<>> THEN "skip" ELSE "recent")
          /\ rec = [run[r] EXCEPT !.cands = cands, !.triaged = "none", !.pc = pc]
    BY <1>2 DEF Extracted
  <2>3. rec \in RunType /\ rec.pc = pc /\ rec.cands = cands /\ rec.calls = run[r].calls
    BY <1>0, <2>1, <2>2 DEF RunType, Pcs
  <2>4. /\ rec.row = run[r].row /\ rec.rows = run[r].rows /\ rec.useful = run[r].useful
        /\ rec.draining = run[r].draining /\ rec.at = run[r].at /\ rec.todo = run[r].todo
        /\ rec.net = run[r].net
    BY <1>0, <2>2 DEF RunType
  <2>5. rec.net = TRUE
    BY <1>0, <2>4 DEF AgenticInv, RecOK, RunType
  <2>6. rec.pc = "skip" => SkipJustified(rec, Row(r))
    BY <1>2, <2>2, <2>3, <2>5 DEF SkipJustified, Extracts
  <2>7. RecOK(rec)
    BY <1>0, <2>2, <2>3, <2>4, <2>6, StaysInRow
  <2>8. QED
    BY <2>3, <2>7
<1>3. CASE \E cands \in Extractions[Row(r)] \cup {Fallback(Row(r))} : Answer(r, Extracted(r, cands))
  <2>1. PICK cands \in Extractions[Row(r)] \cup {Fallback(Row(r))} : Answer(r, Extracted(r, cands))
    BY <1>3
  <2>2. PICK rec : rec = Extracted(r, cands)
    OBVIOUS
  <2>3. QED
    BY <1>0, <1>2, <2>1, <2>2, AnswerMoves
<1>4. CASE NoAnswer(r, Extracted(r, Fallback(Row(r))))
  <2>1. PICK rec : rec = Extracted(r, Fallback(Row(r)))
    OBVIOUS
  <2>2. QED
    BY <1>0, <1>2, <1>4, <2>1, NoAnswerMoves
<1>5. CASE NoAnswer(r, [run[r] EXCEPT !.pc = "requeue"])
  <2>1. PICK rec : rec = [run[r] EXCEPT !.pc = "requeue"]
    OBVIOUS
  <2>2. rec \in RunType /\ rec.pc = "requeue" /\ rec.calls = run[r].calls
    BY <1>0, <2>1 DEF RunType, Pcs
  <2>3. /\ rec.row = run[r].row /\ rec.rows = run[r].rows /\ rec.useful = run[r].useful
        /\ rec.draining = run[r].draining /\ rec.at = run[r].at /\ rec.todo = run[r].todo
        /\ rec.net = run[r].net
    BY <1>0, <2>1 DEF RunType
  <2>4. RecOK(rec)
    BY <1>0, <2>2, <2>3, StaysInRow
  <2>5. QED
    BY <1>0, <1>5, <2>1, <2>2, <2>4, NoAnswerMoves
<1>6. QED
  BY <1>3, <1>4, <1>5 DEF Extract

-----------------------------------------------------------------------------
(* The proposals *)

LEMMA ReadRecentStep ==
  ASSUME AgenticInv, NEW r \in Runners, ReadRecent(r)
  PROVE  Moves(r) /\ TablesMove
<1>0. /\ run[r] \in RunType /\ run[r].pc = "recent" /\ RecOK(run[r])
      /\ UNCHANGED <<dbVars, spendVars, faults>> /\ proposals \subseteq Snapshot
  BY DEF AgenticInv, AgenticTypeOK, ReadRecent, At
<1>1. PICK known :
        known = {p.id.cand.statement : p \in {q \in proposals : q.gate = "promote"}}
  OBVIOUS
<1>2. known \in SUBSET Statements
  BY <1>0, <1>1 DEF Snapshot, Ids, Candidate
<1>3. PICK rec : rec = [run[r] EXCEPT !.pc = "put", !.todo = <<>>, !.known = known]
  OBVIOUS
<1>4. rec \in RunType /\ rec.pc = "put" /\ rec.calls = run[r].calls /\ rec.todo = <<>>
  <2>1. <<>> \in Seq(Snapshot) /\ "put" \in Pcs
    BY EmptySeq DEF Pcs
  <2>2. QED
    BY <1>0, <1>2, <1>3, <2>1 DEF RunType
<1>5. /\ rec.row = run[r].row /\ rec.rows = run[r].rows /\ rec.useful = run[r].useful
      /\ rec.draining = run[r].draining /\ rec.at = run[r].at /\ rec.cands = run[r].cands
  BY <1>0, <1>3 DEF RunType
<1>6. Len(rec.todo) = 0
  BY <1>4, EmptySeq
<1>7. RecOK(rec)
  BY <1>0, <1>4, <1>5, <1>6 DEF RecOK, RowPcs, MatPcs
<1>8. Put(r, rec)
  BY <1>1, <1>3 DEF ReadRecent
<1>9. QED
  BY <1>0, <1>4, <1>7, <1>8, QuietStep

\* The run goes on with a snapshot the tables back.
LEMMA AdvancedOK ==
  ASSUME AgenticInv, NEW r \in Runners, run[r].pc \in {"put", "insert"},
         NEW snap \in Snapshot, TablesMove, Backed(snap)', NEW rec, rec = Advanced(r, snap)
  PROVE  rec \in RunType /\ RecOK(rec)' /\ rec.calls = run[r].calls /\ rec.pc # "persist"
<1>0. run[r] \in RunType /\ RecOK(run[r])
  BY DEF AgenticInv, AgenticTypeOK
<1>1. PICK old : old = run[r]
  OBVIOUS
<1>2. RecOK(old)' /\ RecOK(old)
  BY <1>0, <1>1, RecStays DEF TablesMove
<1>3. PICK c \in Captures : old.row = {c} /\ Cardinality(old.rows) < old.useful
  BY <1>1, <1>2 DEF RecOK, RowPcs
<1>4. ~old.draining /\ old.at \in 1 .. Len(old.cands)
  BY <1>1, <1>2 DEF RecOK, MatPcs
<1>5. PICK todo : todo = Append(old.todo, snap)
  OBVIOUS
<1>6. todo \in Seq(Snapshot) /\ todo # <<>> /\ \A i \in 1 .. Len(todo) : Backed(todo[i])'
  <2>1. old.todo \in Seq(Snapshot)
    BY <1>0, <1>1 DEF RunType
  <2>2. \A i \in 1 .. Len(old.todo) : Backed(old.todo[i])'
    BY <1>2 DEF RecOK
  <2>3. /\ todo \in Seq(Snapshot) /\ Len(todo) = Len(old.todo) + 1 /\ todo[Len(old.todo) + 1] = snap
        /\ \A i \in 1 .. Len(old.todo) : todo[i] = old.todo[i]
    BY <1>5, <2>1, AppendProperties
  <2>4. Len(old.todo) \in Nat
    BY <2>1, LenProperties
  <2>5. todo # <<>>
    BY <2>3, <2>4, EmptySeq
  <2>6. ASSUME NEW i \in 1 .. Len(todo) PROVE Backed(todo[i])'
    <3>1. i \in 1 .. Len(old.todo) \/ i = Len(old.todo) + 1
      BY <2>3, <2>4
    <3>2. QED
      BY <2>2, <2>3, <3>1
  <2>7. QED
    BY <2>3, <2>5, <2>6
<1>7. PICK more : more = [old EXCEPT !.todo = todo]
  OBVIOUS
<1>8. /\ more \in RunType /\ more.todo = todo /\ more.row = old.row /\ more.rows = old.rows
      /\ more.useful = old.useful /\ more.draining = old.draining /\ more.at = old.at
      /\ more.cands = old.cands /\ more.calls = old.calls /\ more.known = old.known
  BY <1>0, <1>1, <1>6, <1>7 DEF RunType
<1>9. CASE run[r].at < Len(run[r].cands)
  <2>1. PICK at, known :
          /\ at = old.at + 1
          /\ known = old.known \cup (IF GateHere(r) = "promote" THEN {Here(r).statement} ELSE {})
    OBVIOUS
  <2>2. rec = [more EXCEPT !.pc = "put", !.at = at, !.known = known]
    BY <1>1, <1>5, <1>7, <1>8, <1>9, <2>1 DEF Advanced
  <2>3. at \in Nat /\ at \in 1 .. Len(old.cands) /\ "put" \in Pcs
    <3>1. Len(old.cands) \in Nat
      BY <1>0, <1>1, LenProperties DEF RunType
    <3>2. QED
      BY <1>1, <1>4, <1>9, <2>1, <3>1 DEF Pcs
  <2>4. known \in SUBSET Statements
    <3>1. Here(r) \in Candidate
      BY <1>0, <1>1, <1>4, ElementOfSeq DEF Here, RunType
    <3>2. old.known \in SUBSET Statements
      BY <1>0, <1>1 DEF RunType
    <3>3. QED
      BY <2>1, <3>1, <3>2 DEF Candidate
  <2>5. rec \in RunType
    BY <1>8, <2>2, <2>3, <2>4 DEF RunType
  <2>6. /\ rec.pc = "put" /\ rec.at = at /\ rec.todo = more.todo /\ rec.row = more.row
        /\ rec.rows = more.rows /\ rec.useful = more.useful /\ rec.draining = more.draining
        /\ rec.cands = more.cands /\ rec.calls = more.calls
    BY <1>8, <2>2 DEF RunType
  <2>7. RecOK(rec)'
    BY <1>3, <1>4, <1>6, <1>8, <2>3, <2>6 DEF RecOK, RowPcs, MatPcs
  <2>8. QED
    BY <1>1, <1>8, <2>5, <2>6, <2>7
<1>10. CASE ~(run[r].at < Len(run[r].cands))
  <2>0. PICK at \in Nat, none \in Seq(Candidate), known \in SUBSET Statements :
          at = 1 /\ none = <<>> /\ known = {}
    BY EmptySeq
  <2>1. PICK pc \in {"dispose", "finish"} :
          rec = [more EXCEPT !.pc = pc, !.at = at, !.cands = none, !.known = known]
    BY <1>1, <1>5, <1>7, <1>10, <2>0 DEF Advanced
  <2>2. pc \in Pcs
    BY DEF Pcs
  <2>3. rec \in RunType
    BY <1>8, <2>1, <2>2 DEF RunType
  <2>4. /\ rec.pc = pc /\ rec.at = 1 /\ rec.todo = more.todo /\ rec.row = more.row
        /\ rec.rows = more.rows /\ rec.useful = more.useful /\ rec.draining = more.draining
        /\ rec.calls = more.calls
    BY <1>8, <2>0, <2>1 DEF RunType
  <2>5. RecOK(rec)'
    BY <1>3, <1>4, <1>6, <1>8, <2>4 DEF RecOK, RowPcs, MatPcs
  <2>6. QED
    BY <1>1, <1>8, <2>3, <2>4, <2>5
<1>11. QED
  BY <1>9, <1>10

LEMMA PutReadStep ==
  ASSUME AgenticInv, NEW r \in Runners, PutRead(r)
  PROVE  Moves(r) /\ TablesMove
<1>0. /\ run[r] \in RunType /\ run[r].pc = "put" /\ RecOK(run[r])
      /\ UNCHANGED <<dbVars, spendVars, faults>> /\ proposals \subseteq Snapshot
  BY DEF AgenticInv, AgenticTypeOK, PutRead, At
<1>1. TablesMove
  BY <1>0, NothingChanges, FaultCounted DEF AgenticInv, AgenticTypeOK, spendVars
<1>2. CASE Stored(IdHere(r))
  <2>1. PICK snap : snap = RowOf(IdHere(r))
    OBVIOUS
  <2>2. snap \in proposals
    BY <1>2, <2>1 DEF Stored, RowOf
  <2>3. snap \in Snapshot /\ Backed(snap)'
    BY <1>0, <2>2 DEF Backed, dbVars
  <2>4. PICK rec : rec = Advanced(r, snap)
    OBVIOUS
  <2>5. Put(r, rec)
    BY <1>2, <2>1, <2>4 DEF PutRead
  <2>6. QED
    BY <1>0, <1>1, <2>3, <2>4, <2>5, AdvancedOK DEF Moves, Bills
<1>3. CASE ~Stored(IdHere(r))
  <2>1. PICK rec : rec = [run[r] EXCEPT !.pc = "insert"]
    OBVIOUS
  <2>2. rec \in RunType /\ rec.pc = "insert" /\ rec.calls = run[r].calls
    BY <1>0, <2>1 DEF RunType, Pcs
  <2>3. /\ rec.row = run[r].row /\ rec.rows = run[r].rows /\ rec.useful = run[r].useful
        /\ rec.draining = run[r].draining /\ rec.at = run[r].at /\ rec.cands = run[r].cands
        /\ rec.todo = run[r].todo
    BY <1>0, <2>1 DEF RunType
  <2>4. RecOK(rec)
    BY <1>0, <2>2, <2>3 DEF RecOK, RowPcs, MatPcs
  <2>5. QED
    BY <1>0, <1>3, <2>1, <2>2, <2>4, QuietStep DEF PutRead, Goto
<1>4. QED
  BY <1>2, <1>3

LEMMA PutInsertStep ==
  ASSUME AgenticInv, NEW r \in Runners, PutInsert(r)
  PROVE  Moves(r) /\ TablesMove
<1>0. /\ run[r] \in RunType /\ run[r].pc = "insert" /\ RecOK(run[r])
      /\ UNCHANGED <<feed, disp, obs, claims, spendVars, faults>> /\ proposals \subseteq Snapshot
  BY DEF AgenticInv, AgenticTypeOK, PutInsert, At
<1>1. PICK new : new = [id |-> IdHere(r), gate |-> GateHere(r), marked |-> FALSE]
  OBVIOUS
<1>2. CASE Stored(new.id)
  <2>1. Put(r, Idle) /\ UNCHANGED proposals
    BY <1>1, <1>2 DEF PutInsert
  <2>2. Idle.calls = 0 /\ Idle.pc # "persist"
    BY DEF Idle
  <2>3. QED
    BY <1>0, <2>1, <2>2, IdleOK, QuietStep DEF dbVars
<1>3. CASE ~Stored(new.id)
  <2>1. Put(r, Advanced(r, new)) /\ proposals' = proposals \cup {new}
    BY <1>1, <1>3 DEF PutInsert
  <2>2. new \in Snapshot /\ ~new.marked
    <3>1. PICK c \in Captures : run[r].row = {c}
      BY <1>0 DEF RecOK, RowPcs
    <3>2. Row(r) \in Captures
      BY <3>1, RowIs
    <3>3. run[r].at \in 1 .. Len(run[r].cands) /\ run[r].cands \in Seq(Candidate) /\ run[r].at \in Nat
      BY <1>0 DEF RecOK, RunType
    <3>4. Here(r) \in Candidate
      BY <3>3, ElementOfSeq DEF Here
    <3>5. GateHere(r) \in Gates
      BY <3>4 DEF GateHere, Candidate, Gates
    <3>6. IdHere(r) \in Ids
      BY <3>2, <3>3, <3>4 DEF IdHere, Ids
    <3>7. QED
      BY <1>1, <3>5, <3>6 DEF Snapshot
  <2>3. TablesMove
    <3>1. Grows
      BY <1>0, <2>1 DEF Grows
    <3>2. \A p, q \in proposals' : p.id = q.id => p = q
      BY <1>3, <2>1 DEF AgenticInv, TablesOK, Stored
    <3>3. IsFiniteSet(proposals')
      BY <2>1, FS_AddElement DEF AgenticInv, TablesOK
    <3>4. ObservedAsGated'
      <4>1. ObservedAsGated
        BY DEF AgenticInv, TablesOK
      <4>2. QED
        BY <1>0, <2>1, <2>2, <4>1 DEF ObservedAsGated, Observes, Drafts
    <3>5. TablesOK'
      BY <1>0, <3>2, <3>3, <3>4 DEF AgenticInv, TablesOK
    <3>6. QED
      BY <1>0, <2>1, <2>2, <3>1, <3>5 DEF TablesMove, AgenticInv, AgenticTypeOK, spendVars
  <2>4. Backed(new)'
    BY <2>1 DEF Backed
  <2>5. PICK rec : rec = Advanced(r, new)
    OBVIOUS
  <2>6. QED
    BY <1>0, <2>1, <2>2, <2>3, <2>4, <2>5, AdvancedOK DEF Moves, Bills
<1>4. QED
  BY <1>2, <1>3

-----------------------------------------------------------------------------
(* The end of a row *)

\* The scan goes on after a row that counts as a useful one or not.
LEMMA RowDoneMoves ==
  ASSUME AgenticInv, NEW r \in Runners, run[r].pc \in {"requeue", "skip", "finish"},
         NEW useful, useful = run[r].useful \/ useful = run[r].useful - 1, RowDone(r, useful),
         UNCHANGED <<proposals, disp, obs, claims, spendVars, faults>>,
         feed' \in [Captures -> FeedStates]
  PROVE  Moves(r) /\ TablesMove
<1>1. run[r] \in RunType /\ RecOK(run[r])
  BY DEF AgenticInv, AgenticTypeOK
<1>2. PICK c \in Captures : run[r].row = {c} /\ Cardinality(run[r].rows) < run[r].useful
  BY <1>1 DEF RecOK, RowPcs
<1>3. Cardinality(run[r].rows) \in Nat /\ run[r].useful \in 0 .. Limit
  BY <1>1, RowsFinite, FS_CardinalityType DEF RunType
<1>4. useful \in 0 .. Limit /\ Cardinality(run[r].rows) <= useful
  BY <1>2, <1>3, AgenticAssumption
<1>5. ~run[r].draining /\ run[r].at = 1
  BY <1>1 DEF RecOK, MatPcs
<1>todo. PICK todo \in Seq(Snapshot) : todo = <<>>
  BY EmptySeq
<1>6. PICK rec :
        rec = [run[r] EXCEPT !.useful = useful, !.row = {}, !.todo = todo, !.triaged = "none"]
  OBVIOUS
<1>7. /\ rec \in RunType /\ rec.todo = <<>> /\ rec.useful = useful /\ rec.rows = run[r].rows
      /\ rec.draining = run[r].draining /\ rec.at = run[r].at /\ rec.calls = run[r].calls
  BY <1>1, <1>4, <1>todo, <1>6 DEF RunType
<1>8. PICK new \in RunType : Put(r, new) /\ RecOK(new) /\ new.calls = rec.calls /\ new.pc # "persist"
  <2>1. Onward(r, rec)
    BY <1>todo, <1>6 DEF RowDone
  <2>2. QED
    BY <1>4, <1>5, <1>7, <2>1, OnwardMoves
<1>9. TablesMove
  BY TablesStay DEF AgenticInv, AgenticTypeOK, spendVars
<1>10. RecOK(new)'
  BY <1>8, <1>9, RecStays DEF TablesMove
<1>11. QED
  BY <1>7, <1>8, <1>9, <1>10 DEF Moves, Bills

LEMMA RequeueStep ==
  ASSUME AgenticInv, NEW r \in Runners, Requeue(r)
  PROVE  Moves(r) /\ TablesMove
<1>1. feed \in [Captures -> FeedStates]
  BY DEF AgenticInv, AgenticTypeOK
<1>2. feed' \in [Captures -> FeedStates]
  BY <1>1 DEF Requeue, Requeued, FeedStates
<1>3. QED
  BY <1>2, RowDoneMoves DEF Requeue, At

LEMMA SkipStep ==
  ASSUME AgenticInv, NEW r \in Runners, Skip(r)
  PROVE  Moves(r) /\ TablesMove
<1>1. feed \in [Captures -> FeedStates]
  BY DEF AgenticInv, AgenticTypeOK
<1>2. feed' \in [Captures -> FeedStates]
  BY <1>1 DEF Skip, Finished, FeedStates
<1>3. PICK useful : /\ useful = run[r].useful \/ useful = run[r].useful - 1
                    /\ RowDone(r, useful)
  BY DEF Skip
<1>4. QED
  BY <1>2, <1>3, RowDoneMoves DEF Skip, At

LEMMA FinishStep ==
  ASSUME AgenticInv, NEW r \in Runners, Finish(r)
  PROVE  Moves(r) /\ TablesMove
<1>1. feed \in [Captures -> FeedStates]
  BY DEF AgenticInv, AgenticTypeOK
<1>2. feed' \in [Captures -> FeedStates]
  BY <1>1 DEF Finish, Finished, FeedStates
<1>3. QED
  BY <1>2, RowDoneMoves DEF Finish, At

-----------------------------------------------------------------------------
(* Materialising a proposal *)

\* What a run that materialises knows.
LEMMA MaterialisingFacts ==
  ASSUME AgenticInv, NEW r \in Runners, run[r].pc \in MatPcs
  PROVE  /\ run[r] \in RunType /\ RecOK(run[r]) /\ run[r].at = 1
         /\ run[r].todo \in Seq(Snapshot) /\ run[r].todo # <<>>
         /\ Now(r) \in Snapshot /\ Backed(Now(r))
<1>1. run[r] \in RunType /\ RecOK(run[r])
  BY DEF AgenticInv, AgenticTypeOK
<1>2. run[r].todo \in Seq(Snapshot) /\ run[r].todo # <<>> /\ run[r].at = 1
  BY <1>1 DEF RunType, RecOK, MatPcs
<1>3. Now(r) \in Snapshot /\ Now(r) = run[r].todo[1] /\ 1 \in 1 .. Len(run[r].todo)
  BY <1>2, HeadTailProperties, LenProperties, EmptySeq DEF Now
<1>4. QED
  BY <1>1, <1>2, <1>3 DEF RecOK

LEMMA PoppedOK ==
  ASSUME AgenticInv, NEW r \in Runners, run[r].pc \in MatPcs, NEW rec, rec = Popped(r)
  PROVE  rec \in RunType /\ RecOK(rec) /\ rec.calls = run[r].calls /\ rec.pc # "persist"
<1>0. /\ run[r] \in RunType /\ RecOK(run[r]) /\ run[r].at = 1
      /\ run[r].todo \in Seq(Snapshot) /\ run[r].todo # <<>>
  BY MaterialisingFacts
<1>1. PICK todo : todo = Tail(run[r].todo)
  OBVIOUS
<1>2. /\ todo \in Seq(Snapshot) /\ Len(todo) = Len(run[r].todo) - 1
      /\ \A i \in 1 .. Len(todo) : todo[i] = run[r].todo[i + 1]
  BY <1>0, <1>1, HeadTailProperties
<1>3. Len(run[r].todo) \in Nat /\ Len(todo) \in Nat
  BY <1>0, <1>2, LenProperties
<1>4. ASSUME NEW i \in 1 .. Len(todo) PROVE Backed(todo[i])
  <2>1. i + 1 \in 1 .. Len(run[r].todo)
    BY <1>2, <1>3
  <2>2. QED
    BY <1>0, <1>2, <2>1 DEF RecOK
<1>5. PICK pc \in {"dispose", "bill", "finish"} :
        /\ pc = "dispose" => Len(run[r].todo) > 1
        /\ pc = "bill" => run[r].draining
        /\ pc = "finish" => ~run[r].draining
        /\ rec = [run[r] EXCEPT !.todo = todo, !.why = "none", !.pc = pc]
  BY <1>1 DEF Popped
<1>6. /\ rec \in RunType /\ rec.pc = pc /\ rec.todo = todo /\ rec.row = run[r].row
      /\ rec.rows = run[r].rows /\ rec.useful = run[r].useful /\ rec.at = run[r].at
      /\ rec.draining = run[r].draining /\ rec.calls = run[r].calls
  <2>1. PICK old : old = run[r]
    OBVIOUS
  <2>2. old \in RunType /\ pc \in Pcs /\ todo \in Seq(Snapshot)
    BY <1>0, <1>2, <2>1 DEF Pcs
  <2>3. rec = [old EXCEPT !.todo = todo, !.why = "none", !.pc = pc]
    BY <1>5, <2>1
  <2>4. rec \in RunType
    <3>1. PICK why : why = "none" /\ why \in {"none", "conflict", "store"}
      OBVIOUS
    <3>2. PICK whys : whys = {"none", "conflict", "store"}
      OBVIOUS
    <3>3. rec = [old EXCEPT !.todo = todo, !.why = why, !.pc = pc]
      BY ONLY <2>3, <3>1
    <3>4. PICK todos : todos = Seq(Snapshot)
      OBVIOUS
    <3>5. PICK cands : cands = Seq(Candidate)
      OBVIOUS
    <3>6. PICK trs : trs = {"none", "text", "transient", "refused"}
      OBVIOUS
    <3>7. RunType = [pc : Pcs, net : BOOLEAN, mat : BOOLEAN, rows : SUBSET Captures,
                     seen : SUBSET Captures, useful : 0..Limit, calls : 0..RunCalls,
                     row : SUBSET Captures, triaged : trs, cands : cands, at : Nat,
                     known : SUBSET Statements, todo : todos, draining : BOOLEAN,
                     why : whys, prev : Nat]
      BY ONLY <3>2, <3>4, <3>5, <3>6 DEF RunType
    <3>8. todo \in todos /\ why \in whys
      BY ONLY <2>2, <3>1, <3>2, <3>4
    <3>9. QED
      BY ONLY <2>2, <3>3, <3>7, <3>8
  <2>5. /\ rec.pc = pc /\ rec.todo = todo /\ rec.row = old.row /\ rec.rows = old.rows
        /\ rec.useful = old.useful /\ rec.at = old.at /\ rec.draining = old.draining
        /\ rec.calls = old.calls
    BY ONLY <2>2, <2>3, SMTT(30) DEF RunType
  <2>6. QED
    BY ONLY <2>1, <2>4, <2>5
<1>7. pc = "dispose" => todo # <<>>
  BY <1>2, <1>3, <1>5, EmptySeq
<1>8. run[r].draining = FALSE => \E c \in Captures : run[r].row = {c} /\ Cardinality(run[r].rows) < run[r].useful
  BY <1>0 DEF RecOK
<1>9. RecOK(rec)
  BY <1>0, <1>4, <1>5, <1>6, <1>7, <1>8 DEF RecOK, RowPcs, MatPcs
<1>10. QED
  BY <1>5, <1>6, <1>9

\* The run goes on with the same proposal.
LEMMA SameProposal ==
  ASSUME AgenticInv, NEW r \in Runners, run[r].pc \in MatPcs, TablesMove,
         NEW rec \in RunType, rec.pc \in MatPcs, rec.row = run[r].row, rec.rows = run[r].rows,
         rec.useful = run[r].useful, rec.draining = run[r].draining, rec.at = run[r].at,
         rec.todo = run[r].todo,
         rec.pc \in {"draft", "mark"} /\ Observes(Now(r)) => \E o \in obs' : o.id = Now(r).id,
         rec.pc = "mark" /\ Drafts(Now(r)) => Now(r).id \in claims'
  PROVE  RecOK(rec)'
<1>1. /\ run[r].at = 1 /\ run[r].todo # <<>> /\ RecOK(run[r])
  BY MaterialisingFacts
<1>2. PICK old : old = run[r]
  OBVIOUS
<1>3. RecOK(old)'
  BY <1>1, <1>2, RecStays DEF TablesMove
<1>4. \A i \in 1 .. Len(rec.todo) : Backed(rec.todo[i])'
  BY <1>2, <1>3 DEF RecOK
<1>5. Head(rec.todo) = Now(r)
  BY DEF Now
<1>6. ~rec.draining => \E c \in Captures : rec.row = {c} /\ Cardinality(rec.rows) < rec.useful
  BY <1>1 DEF RecOK
<1>7. QED
  BY <1>1, <1>4, <1>5, <1>6 DEF RecOK, RowPcs, MatPcs, Observes, Drafts

\* A write of the store and the run's move with the same proposal.
LEMMA MaterialMoves ==
  ASSUME AgenticInv, NEW r \in Runners, run[r].pc \in MatPcs, TablesMove, UNCHANGED spendVars,
         NEW pc \in MatPcs, Goto(r, pc) \/ (pc = "caught" /\ \E why \in {"conflict", "store"} : Caught(r, why)),
         pc \in {"draft", "mark"} /\ Observes(Now(r)) => \E o \in obs' : o.id = Now(r).id,
         pc = "mark" /\ Drafts(Now(r)) => Now(r).id \in claims'
  PROVE  Moves(r)
<1>1. run[r] \in RunType /\ pc \in Pcs /\ pc # "persist"
  BY MaterialisingFacts DEF MatPcs, Pcs
<1>why. PICK why \in {"none", "conflict", "store"} :
        Put(r, [run[r] EXCEPT !.pc = pc]) \/ Put(r, [run[r] EXCEPT !.pc = pc, !.why = why])
  <2>1. CASE Goto(r, pc)
    BY <2>1 DEF Goto
  <2>2. CASE pc = "caught" /\ \E why \in {"conflict", "store"} : Caught(r, why)
    BY <2>2 DEF Caught
  <2>3. QED
    BY <2>1, <2>2
<1>2. PICK rec : /\ Put(r, rec)
                 /\ rec = [run[r] EXCEPT !.pc = pc] \/ rec = [run[r] EXCEPT !.pc = pc, !.why = why]
  BY <1>why
<1>3. /\ rec \in RunType /\ rec.pc = pc /\ rec.row = run[r].row /\ rec.rows = run[r].rows
      /\ rec.useful = run[r].useful /\ rec.draining = run[r].draining /\ rec.at = run[r].at
      /\ rec.todo = run[r].todo /\ rec.calls = run[r].calls
  <2>1. CASE rec = [run[r] EXCEPT !.pc = pc]
    BY <1>1, <2>1 DEF RunType
  <2>2. CASE rec = [run[r] EXCEPT !.pc = pc, !.why = why]
    BY <1>1, <2>2 DEF RunType
  <2>3. QED
    BY <1>2, <2>1, <2>2
<1>4. RecOK(rec)'
  BY <1>3, SameProposal
<1>5. QED
  BY <1>1, <1>2, <1>3, <1>4 DEF Moves, Bills

\* The next proposal, or the end of the row or of the drain.
LEMMA PoppedMoves ==
  ASSUME AgenticInv, NEW r \in Runners, run[r].pc \in MatPcs, TablesMove, UNCHANGED spendVars,
         Put(r, Popped(r))
  PROVE  Moves(r)
<1>1. PICK rec : rec = Popped(r)
  OBVIOUS
<1>2. rec \in RunType /\ RecOK(rec) /\ rec.calls = run[r].calls /\ rec.pc # "persist" /\ Put(r, rec)
  BY <1>1, PoppedOK
<1>3. RecOK(rec)'
  BY <1>2, RecStays DEF TablesMove
<1>4. QED
  BY <1>2, <1>3 DEF Moves, Bills

LEMMA DisposeStep ==
  ASSUME AgenticInv, NEW r \in Runners, Dispose(r)
  PROVE  Moves(r) /\ TablesMove
<1>0. run[r].pc = "dispose" /\ run[r].pc \in MatPcs /\ UNCHANGED <<feed, proposals, obs, claims, spendVars, faults>>
  BY DEF Dispose, At, MatPcs
<1>1. disp' \in [Captures -> {"none"} \cup Gates]
  <2>1. Now(r) \in Snapshot
    BY <1>0, MaterialisingFacts
  <2>2. QED
    BY <2>1 DEF Dispose, AgenticInv, AgenticTypeOK, Snapshot
<1>2. TablesMove
  BY <1>0, <1>1, TablesStay DEF AgenticInv, AgenticTypeOK, spendVars
<1>3. CASE Put(r, Popped(r))
  BY <1>0, <1>2, <1>3, PoppedMoves
<1>4. CASE Goto(r, IF Observes(Now(r)) THEN "observe" ELSE "draft")
  <2>1. PICK pc \in MatPcs : /\ pc \in {"observe", "draft"} /\ Goto(r, pc)
                             /\ pc = "draft" => ~Observes(Now(r))
    BY <1>4 DEF MatPcs
  <2>2. QED
    BY <1>0, <1>2, <2>1, MaterialMoves
<1>5. QED
  BY <1>2, <1>3, <1>4 DEF Dispose

LEMMA ObserveStep ==
  ASSUME AgenticInv, NEW r \in Runners, Observe(r)
  PROVE  Moves(r) /\ TablesMove
<1>0. run[r].pc = "observe" /\ run[r].pc \in MatPcs /\ UNCHANGED <<feed, proposals, disp, claims, spendVars, faults>>
  BY DEF Observe, At, MatPcs
<1>1. PICK next \in MatPcs : next = AfterObserve(Now(r)) /\ (next = "mark" => ~Drafts(Now(r)))
  BY DEF AfterObserve, MatPcs
<1>2. CASE \E o \in obs : o.id = Now(r).id
  <2>1. Again(r, next) /\ UNCHANGED obs
    BY <1>1, <1>2 DEF Observe
  <2>2. TablesMove
    BY <1>0, <2>1, TablesStay DEF AgenticInv, AgenticTypeOK, spendVars
  <2>3. PICK pc \in MatPcs : pc \in {next, "caught"} /\ (Goto(r, pc) \/ (pc = "caught" /\ Caught(r, "conflict")))
    BY <2>1 DEF Again, MatPcs
  <2>4. QED
    BY <1>0, <1>1, <1>2, <2>1, <2>2, <2>3, MaterialMoves
<1>3. CASE ~ \E o \in obs : o.id = Now(r).id
  <2>1. PICK o : o = [id |-> Now(r).id, lifecycle |-> IF Now(r).gate = "promote" THEN "active" ELSE "draft"]
    OBVIOUS
  <2>2. obs' = obs \cup {o} /\ Goto(r, next)
    BY <1>1, <1>3, <2>1 DEF Observe
  <2>3. Now(r) \in Snapshot /\ Backed(Now(r))
    BY <1>0, MaterialisingFacts
  <2>4. TablesMove
    <3>1. Grows
      BY <1>0, <2>2 DEF Grows
    <3>2. PICK p \in proposals : p.id = Now(r).id /\ p.gate = Now(r).gate
      BY <2>3 DEF Backed
    <3>3. ObservedAsGated
      BY DEF AgenticInv, TablesOK
    <3>4. ObservedAsGated'
      <4>1. \A o1 \in obs' : \E q \in proposals : q.id = o1.id /\ (o1.lifecycle = "active" <=> q.gate = "promote")
        BY <2>1, <2>2, <3>2, <3>3 DEF ObservedAsGated
      <4>2. \A o1, o2 \in obs' : o1.id = o2.id => o1 = o2
        BY <1>3, <2>1, <2>2, <3>3 DEF ObservedAsGated
      <4>3. QED
        BY <1>0, <2>2, <3>3, <4>1, <4>2 DEF ObservedAsGated, Observes, Drafts
    <3>5. TablesOK'
      BY <1>0, <3>4 DEF AgenticInv, TablesOK
    <3>6. o \in [id : Ids, lifecycle : {"active", "draft"}]
      BY <2>1, <2>3 DEF Snapshot
    <3>7. QED
      BY <1>0, <2>2, <3>1, <3>5, <3>6 DEF TablesMove, AgenticInv, AgenticTypeOK, spendVars
  <2>5. \E o1 \in obs' : o1.id = Now(r).id
    BY <2>1, <2>2
  <2>6. QED
    BY <1>0, <1>1, <2>2, <2>4, <2>5, MaterialMoves
<1>4. QED
  BY <1>2, <1>3

LEMMA DraftStep ==
  ASSUME AgenticInv, NEW r \in Runners, Draft(r)
  PROVE  Moves(r) /\ TablesMove
<1>0. run[r].pc = "draft" /\ run[r].pc \in MatPcs /\ UNCHANGED <<feed, proposals, disp, obs, spendVars, faults>>
  BY DEF Draft, At, MatPcs
<1>1. "mark" \in MatPcs /\ "caught" \in MatPcs
  BY DEF MatPcs
<1>2. Observes(Now(r)) => \E o \in obs : o.id = Now(r).id
  BY <1>0, MaterialisingFacts DEF RecOK, Now
<1>3. CASE Now(r).id \in claims
  <2>1. Again(r, "mark") /\ UNCHANGED claims
    BY <1>3 DEF Draft
  <2>2. TablesMove
    BY <1>0, <2>1, TablesStay DEF AgenticInv, AgenticTypeOK, spendVars
  <2>3. CASE Goto(r, "mark")
    BY <1>0, <1>1, <1>2, <1>3, <2>1, <2>2, <2>3, MaterialMoves
  <2>4. CASE Caught(r, "conflict")
    BY <1>0, <1>1, <2>2, <2>4, MaterialMoves
  <2>5. QED
    BY <2>1, <2>2, <2>3, <2>4 DEF Again
<1>4. CASE Now(r).id \notin claims
  <2>1. claims' = claims \cup {Now(r).id} /\ Goto(r, "mark")
    BY <1>4 DEF Draft
  <2>2. Now(r).id \in Ids
    BY <1>0, MaterialisingFacts DEF Snapshot
  <2>3. TablesMove
    <3>1. Grows
      BY <1>0, <2>1 DEF Grows
    <3>2. ObservedAsGated'
      <4>1. ObservedAsGated
        BY DEF AgenticInv, TablesOK
      <4>2. QED
        BY <1>0, <2>1, <4>1 DEF ObservedAsGated, Observes, Drafts
    <3>3. TablesOK'
      BY <1>0, <3>2 DEF AgenticInv, TablesOK
    <3>4. QED
      BY <1>0, <2>1, <2>2, <3>1, <3>3 DEF TablesMove, AgenticInv, AgenticTypeOK, spendVars
  <2>4. QED
    BY <1>0, <1>1, <1>2, <2>1, <2>3, MaterialMoves
<1>5. QED
  BY <1>3, <1>4

LEMMA GiveUpStep ==
  ASSUME AgenticInv, NEW r \in Runners, GiveUp(r)
  PROVE  Moves(r) /\ TablesMove
<1>1. TablesMove
  BY NothingChanges DEF GiveUp, AgenticInv, AgenticTypeOK, spendVars
<1>2. QED
  BY <1>1, PoppedMoves DEF GiveUp, At, MatPcs

LEMMA StoreThrowsStep ==
  ASSUME AgenticInv, NEW r \in Runners, StoreThrows(r)
  PROVE  Moves(r) /\ TablesMove
<1>1. TablesMove
  BY NothingChanges, FaultCounted DEF StoreThrows, AgenticInv, AgenticTypeOK, spendVars
<1>2. run[r].pc \in MatPcs /\ "caught" \in MatPcs
  BY DEF StoreThrows, MatPcs
<1>3. QED
  BY <1>1, <1>2, MaterialMoves DEF StoreThrows

LEMMA MarkStep ==
  ASSUME AgenticInv, NEW r \in Runners, Mark(r)
  PROVE  Moves(r) /\ TablesMove
<1>0. /\ run[r].pc = "mark" /\ run[r].pc \in MatPcs
      /\ UNCHANGED <<feed, disp, obs, claims, spendVars, faults>>
      /\ proposals \subseteq Snapshot /\ TablesOK
  BY DEF Mark, At, MatPcs, AgenticInv, AgenticTypeOK
<1>1. PICK id : id = Now(r).id
  OBVIOUS
\* mark[p] is what becomes of row p.
<1>2. PICK mark : mark = [p \in proposals |-> IF p.id = id THEN [p EXCEPT !.marked = TRUE] ELSE p]
  OBVIOUS
<1>3. proposals' = {mark[p] : p \in proposals}
  BY <1>1, <1>2 DEF Mark, Marked
<1>4. ASSUME NEW p \in proposals
      PROVE  /\ mark[p] \in Snapshot /\ mark[p].id = p.id /\ mark[p].gate = p.gate
             /\ p.marked => mark[p].marked
             /\ mark[p].marked => p.marked \/ p.id = id
  <2>1. p \in Snapshot
    BY <1>0
  <2>2. PICK q : q = [p EXCEPT !.marked = TRUE]
    OBVIOUS
  <2>3. q \in Snapshot /\ q.id = p.id /\ q.gate = p.gate /\ q.marked
    BY <2>1, <2>2 DEF Snapshot
  <2>4. mark[p] = IF p.id = id THEN q ELSE p
    BY <1>2, <2>2
  <2>5. QED
    BY <2>1, <2>3, <2>4
<1>5. TablesMove
  <2>1. Grows
    <3>1. \A p \in proposals : mark[p] \in proposals'
      BY <1>3
    <3>2. QED
      BY <1>0, <1>4, <3>1 DEF Grows
  <2>2. \A p, q \in proposals' : p.id = q.id => p = q
    <3>1. SUFFICES ASSUME NEW p \in proposals, NEW q \in proposals, mark[p].id = mark[q].id
                   PROVE  mark[p] = mark[q]
      BY <1>3
    <3>2. p.id = q.id
      BY <1>4, <3>1
    <3>3. p = q
      BY <1>0, <3>2 DEF TablesOK
    <3>4. QED
      BY <3>3
  <2>3. IsFiniteSet(proposals')
    <3>1. mark \in Surjection(proposals, proposals')
      BY <1>2, <1>3 DEF Surjection
    <3>2. QED
      BY <1>0, <3>1, FS_Surjection DEF TablesOK
  <2>4. ObservedAsGated'
    <3>1. ObservedAsGated
      BY <1>0 DEF TablesOK
    <3>2. ASSUME NEW o \in obs PROVE \E p \in proposals' : p.id = o.id /\ (o.lifecycle = "active" <=> p.gate = "promote")
      <4>1. PICK p \in proposals : p.id = o.id /\ (o.lifecycle = "active" <=> p.gate = "promote")
        BY <3>1 DEF ObservedAsGated
      <4>2. QED
        BY <1>3, <1>4, <4>1
    <3>3. /\ Observes(Now(r)) => \E o \in obs : o.id = id
          /\ Drafts(Now(r)) => id \in claims
      BY <1>0, <1>1, MaterialisingFacts DEF RecOK, Now
    <3>4. ASSUME NEW q \in proposals', q.marked
          PROVE  /\ Observes(q) => \E o \in obs : o.id = q.id
                 /\ Drafts(q) => q.id \in claims
      <4>1. PICK p \in proposals : q = mark[p]
        BY <1>3
      <4>2. q.id = p.id /\ (p.marked \/ p.id = id)
        BY <1>4, <3>4, <4>1
      <4>3. CASE p.marked
        BY <3>1, <4>2, <4>3 DEF ObservedAsGated, Observes, Drafts
      <4>4. CASE p.id = id
        BY <1>1, <3>3, <4>2, <4>4 DEF Observes, Drafts
      <4>5. QED
        BY <4>2, <4>3, <4>4
    <3>5. QED
      BY <1>0, <3>1, <3>2, <3>4 DEF ObservedAsGated, Observes, Drafts
  <2>5. TablesOK'
    BY <1>0, <2>2, <2>3, <2>4 DEF TablesOK
  <2>6. proposals' \subseteq Snapshot
    BY <1>3, <1>4
  <2>7. QED
    BY <1>0, <2>1, <2>5, <2>6 DEF TablesMove, AgenticInv, AgenticTypeOK, spendVars
<1>6. QED
  BY <1>0, <1>5, PoppedMoves DEF Mark

-----------------------------------------------------------------------------
(* The end of a run *)

\* A finite set, listed.
LEMMA SetToSeqOf ==
  ASSUME NEW S, IsFiniteSet(S), NEW T, S \subseteq T
  PROVE  /\ SetToSeq(S) \in Seq(T) /\ Len(SetToSeq(S)) = Cardinality(S)
         /\ \A i \in 1 .. Len(SetToSeq(S)) : SetToSeq(S)[i] \in S
         /\ SetToSeq(S) = <<>> <=> S = {}
<1>1. Cardinality(S) \in Nat /\ ExistsBijection(1 .. Cardinality(S), S)
  BY FS_CardinalityType
<1>2. \E f \in [1 .. Cardinality(S) -> S] : IsInjective(f)
  BY <1>1 DEF ExistsBijection, Bijection, Injection, IsInjective
<1>3. SetToSeq(S) \in [1 .. Cardinality(S) -> S]
  BY <1>2 DEF SetToSeq
<1>4. SetToSeq(S) \in Seq(T) /\ Len(SetToSeq(S)) = Cardinality(S)
  BY <1>1, <1>3
<1>5. SetToSeq(S) = <<>> <=> S = {}
  BY <1>1, <1>4, EmptySeq, FS_EmptySet
<1>6. QED
  BY <1>3, <1>4, <1>5

LEMMA DrainStep ==
  ASSUME AgenticInv, NEW r \in Runners, Drain(r)
  PROVE  Moves(r) /\ TablesMove
<1>0. /\ run[r] \in RunType /\ run[r].pc = "drain" /\ RecOK(run[r]) /\ run[r].at = 1
      /\ proposals \subseteq Snapshot /\ IsFiniteSet(proposals)
      /\ UNCHANGED <<dbVars, spendVars, faults>>
  BY DEF AgenticInv, AgenticTypeOK, TablesOK, Drain, At, RecOK
<1>1. IsFiniteSet(Backlog) /\ Backlog \subseteq Snapshot /\ Backlog \subseteq proposals
  BY <1>0, FS_Subset DEF Backlog
<1>2. PICK todo : todo = SetToSeq(Backlog)
  OBVIOUS
<1>3. /\ todo \in Seq(Snapshot) /\ (todo = <<>> <=> Backlog = {})
      /\ \A i \in 1 .. Len(todo) : todo[i] \in proposals
  BY <1>1, <1>2, SetToSeqOf
<1>4. PICK pc \in {"bill", "dispose"} :
        /\ pc = (IF Backlog = {} THEN "bill" ELSE "dispose")
        /\ Put(r, [run[r] EXCEPT !.todo = todo, !.draining = TRUE, !.pc = pc])
  BY <1>2 DEF Drain
<1>5. PICK draining \in BOOLEAN, rec \in {[run[r] EXCEPT !.todo = todo, !.draining = TRUE, !.pc = pc]} :
        draining = TRUE /\ rec = [run[r] EXCEPT !.todo = todo, !.draining = draining, !.pc = pc]
  OBVIOUS
<1>6. /\ rec \in RunType /\ rec.pc = pc /\ rec.todo = todo /\ rec.draining = TRUE
      /\ rec.at = run[r].at /\ rec.calls = run[r].calls
  BY <1>0, <1>3, <1>5 DEF RunType, Pcs
<1>7. \A i \in 1 .. Len(todo) : Backed(todo[i])
  BY <1>3 DEF Backed
<1>8. RecOK(rec)
  <2>1. rec.pc \in {"bill", "dispose"} /\ rec.at = 1 /\ (rec.pc = "dispose" => rec.todo # <<>>)
    BY <1>0, <1>3, <1>4, <1>6
  <2>2. \A i \in 1 .. Len(rec.todo) : Backed(rec.todo[i])
    BY <1>6, <1>7
  <2>3. QED
    BY <1>6, <2>1, <2>2 DEF RecOK, RowPcs, MatPcs
<1>9. QED
  BY <1>0, <1>4, <1>5, <1>6, <1>8, QuietStep

LEMMA BillStep ==
  ASSUME AgenticInv, NEW r \in Runners, Bill(r)
  PROVE  Moves(r) /\ TablesMove
<1>0. /\ run[r] \in RunType /\ run[r].pc = "bill" /\ RecOK(run[r]) /\ day \in Nat
      /\ UNCHANGED <<dbVars, spendVars, faults>>
  BY DEF AgenticInv, AgenticTypeOK, Bill, At
<1>1. CASE run[r].calls = 0
  <2>1. Put(r, Idle) /\ Idle.calls = 0 /\ Idle.pc # "persist"
    BY <1>1 DEF Bill, Idle
  <2>2. QED
    BY <1>0, <2>1, IdleOK, QuietStep
<1>2. CASE run[r].calls # 0
  <2>1. PICK rec : rec = [run[r] EXCEPT !.pc = "persist", !.prev = day]
    OBVIOUS
  <2>2. /\ rec \in RunType /\ rec.pc = "persist" /\ rec.prev = day /\ rec.calls = run[r].calls
        /\ rec.todo = run[r].todo /\ rec.at = run[r].at
    BY <1>0, <2>1 DEF RunType, Pcs
  <2>3. RecOK(rec)
    BY <1>0, <2>2 DEF RecOK, RowPcs, MatPcs
  <2>4. TablesMove
    BY <1>0, NothingChanges, FaultCounted DEF AgenticInv, AgenticTypeOK, spendVars
  <2>5. RecOK(rec)'
    BY <2>3, <2>4, RecStays DEF TablesMove
  <2>6. Put(r, rec)
    BY <1>2, <2>1 DEF Bill
  <2>7. QED
    BY <1>0, <2>2, <2>4, <2>5, <2>6 DEF Moves, Bills
<1>3. QED
  BY <1>1, <1>2

LEMMA PersistStep ==
  ASSUME AgenticInv, NEW r \in Runners, Persist(r)
  PROVE  Moves(r) /\ TablesMove
<1>0. /\ run[r] \in RunType /\ run[r].pc = "persist" /\ Put(r, Idle) /\ UNCHANGED <<dbVars, billed, faults>>
      /\ day' = run[r].prev + run[r].calls
  BY DEF AgenticInv, AgenticTypeOK, Persist, At, DayTotal
<1>1. day' \in Nat
  <2>1. run[r].prev \in Nat /\ run[r].calls \in 0 .. RunCalls
    BY <1>0 DEF RunType
  <2>2. QED
    BY <1>0, <2>1, AgenticAssumption
<1>2. TablesMove
  BY <1>0, <1>1, NothingChanges, FaultCounted DEF AgenticInv, AgenticTypeOK
<1>3. RecOK(Idle)'
  BY <1>2, IdleOK, RecStays DEF TablesMove
<1>4. Idle.calls = 0 /\ Idle.pc # "persist"
  BY DEF Idle
<1>5. QED
  BY <1>0, <1>2, <1>3, <1>4, IdleOK DEF Moves, Bills

LEMMA CrashStep ==
  ASSUME AgenticInv, NEW r \in Runners, Crash(r)
  PROVE  Moves(r) /\ TablesMove
<1>1. Idle.calls = 0 /\ Idle.pc # "persist"
  BY DEF Idle
<1>2. QED
  BY <1>1, IdleOK, QuietStep DEF Crash

-----------------------------------------------------------------------------
(* All steps *)

LEMMA RunMoves ==
  ASSUME AgenticInv, NEW r \in Runners, RunStep(r) \/ StoreThrows(r) \/ Crash(r)
  PROVE  Moves(r) /\ TablesMove
<1>1. CASE Start(r) \/ Claim(r) \/ CallFlash(r)
  BY <1>1, StartStep, ClaimStep, TriageStep, ExtractStep DEF CallFlash
<1>2. CASE Propose(r)
  BY <1>2, ReadRecentStep, PutReadStep, PutInsertStep DEF Propose
<1>3. CASE Materialise(r)
  BY <1>3, DisposeStep, ObserveStep, DraftStep, GiveUpStep, MarkStep DEF Materialise
<1>4. CASE EndRow(r)
  BY <1>4, RequeueStep, SkipStep, FinishStep DEF EndRow
<1>5. CASE EndRun(r)
  BY <1>5, DrainStep, BillStep, PersistStep DEF EndRun
<1>6. CASE StoreThrows(r) \/ Crash(r)
  BY <1>6, StoreThrowsStep, CrashStep
<1>7. QED
  BY <1>1, <1>2, <1>3, <1>4, <1>5, <1>6 DEF RunStep

\* Captures, clocks and backfills touch the feed alone.
LEMMA FeedKeeps ==
  ASSUME AgenticInv, (\E c \in Captures : FeedInsert(c) \/ LeaseRunsOut(c)) \/ SkipIneligible
  PROVE  AgenticInv' /\ UNCHANGED <<run, spendVars>>
<1>1. feed \in [Captures -> FeedStates]
  BY DEF AgenticInv, AgenticTypeOK
<1>2. UNCHANGED <<proposals, disp, obs, claims, spendVars, run, faults>>
  BY DEF FeedInsert, LeaseRunsOut, SkipIneligible
<1>3. feed' \in [Captures -> FeedStates]
  <2>1. CASE \E c \in Captures : FeedInsert(c)
    BY <1>1, <2>1 DEF FeedInsert, Dropped, FeedStates
  <2>2. CASE \E c \in Captures : LeaseRunsOut(c)
    BY <1>1, <2>2 DEF LeaseRunsOut, FeedStates
  <2>3. CASE SkipIneligible
    BY <1>1, <2>3 DEF SkipIneligible, FeedStates
  <2>4. QED
    BY <2>1, <2>2, <2>3
<1>4. TablesMove
  BY <1>2, <1>3, TablesStay DEF AgenticInv, AgenticTypeOK, spendVars
<1>5. AgenticTypeOK'
  BY <1>2, <1>4 DEF TablesMove, AgenticInv, AgenticTypeOK
<1>6. ASSUME NEW q \in Runners PROVE RecOK(run[q])'
  <2>1. PICK x : x = run[q]
    OBVIOUS
  <2>2. RecOK(x)'
    BY <1>4, <2>1, RecStays DEF AgenticInv, TablesMove
  <2>3. QED
    BY <1>2, <2>1, <2>2
<1>7. QED
  BY <1>2, <1>4, <1>5, <1>6 DEF AgenticInv, TablesMove

LEMMA AgenticInvStep ==
  ASSUME AgenticInv, [AgenticNext]_agenticVars
  PROVE  AgenticInv'
<1>1. CASE UNCHANGED agenticVars
  BY <1>1 DEF agenticVars, dbVars, spendVars, AgenticInv, AgenticTypeOK, TablesOK, ObservedAsGated,
     RecOK, Backed
<1>2. CASE (\E c \in Captures : FeedInsert(c) \/ LeaseRunsOut(c)) \/ SkipIneligible
  BY <1>2, FeedKeeps
<1>3. CASE \E r \in Runners : RunStep(r) \/ StoreThrows(r) \/ Crash(r)
  <2>1. PICK r \in Runners : RunStep(r) \/ StoreThrows(r) \/ Crash(r)
    BY <1>3
  <2>2. QED
    BY <2>1, RunMoves, RunKeeps
<1>4. QED
  BY <1>1, <1>2, <1>3 DEF AgenticNext

\* The inductive invariant of the runner.
THEOREM AgenticInvariant == AgenticSpec => []AgenticInv
<1>1. AgenticInit => AgenticInv
  BY AgenticInvInit
<1>2. AgenticInv /\ [AgenticNext]_agenticVars => AgenticInv'
  BY AgenticInvStep
<1>3. QED
  BY <1>1, <1>2, PTL DEF AgenticSpec

\* Every table and every run keeps its shape.
THEOREM AgenticTypeCorrect == AgenticSpec => []AgenticTypeOK
<1>1. AgenticInv => AgenticTypeOK
  BY DEF AgenticInv
<1>2. QED
  BY <1>1, AgenticInvariant, PTL

\* Whatever runs, crashes and throwing stores interleave: the store's Observations say what
\* the proposal table says, one per proposal, and no proposal is marked before the store
\* holds its Observation and its draft Claim (materializeAgenticProposal).
THEOREM AgenticObservesAsGated == AgenticSpec => []ObservedAsGated
<1>1. AgenticInv => ObservedAsGated
  BY DEF AgenticInv, TablesOK
<1>2. QED
  BY <1>1, AgenticInvariant, PTL

\* A capture with load-bearing text that can be packed and that the policy admits is given
\* up only by a run whose extraction may come up empty: one that asks Flash not for Flash's
\* triage verdict nor for calls that fail, one that does not ask only for what the local
\* rules find (runTriageStage, runExtractStage, runAgenticPipeline).
THEOREM AgenticKeepsStrong == AgenticSpec => StrongSkippedEmptyHanded
<1> DEFINE LostEmptyHanded(c) == Text[c] = "strong" /\ feed[c] # "skipped" /\ feed'[c] = "skipped" =>
             \E r \in Runners : At(r, "skip") /\ run[r].row = {c} /\ <<>> \in Extracts(c, run[r].net)
<1>1. AgenticInv /\ [AgenticNext]_agenticVars =>
        [\A c \in Captures \ (Ineligible \cup Unreadable \cup Unpackable) : LostEmptyHanded(c)]_agenticVars
  <2> SUFFICES ASSUME AgenticInv, AgenticNext,
                      NEW c \in Captures \ (Ineligible \cup Unreadable \cup Unpackable),
                      Text[c] = "strong", feed[c] # "skipped", feed'[c] = "skipped"
               PROVE  \E r \in Runners : At(r, "skip") /\ run[r].row = {c} /\ <<>> \in Extracts(c, run[r].net)
    OBVIOUS
  <2>1. feed \in [Captures -> FeedStates]
    BY DEF AgenticInv, AgenticTypeOK
  <2>2. CASE (\E d \in Captures : FeedInsert(d) \/ LeaseRunsOut(d)) \/ SkipIneligible
    BY <2>1, <2>2 DEF FeedInsert, LeaseRunsOut, SkipIneligible, Dropped
  <2>3. ASSUME NEW r \in Runners, Claim(r) PROVE FALSE
    BY <2>1, <2>3 DEF Claim
  <2>4. ASSUME NEW r \in Runners, Requeue(r) \/ Finish(r) PROVE FALSE
    BY <2>1, <2>4 DEF Requeue, Finish, Requeued, Finished
  <2>5. ASSUME NEW r \in Runners, Skip(r)
        PROVE  At(r, "skip") /\ run[r].row = {c} /\ <<>> \in Extracts(c, run[r].net)
    <3>1. At(r, "skip") /\ RecOK(run[r])
      BY <2>5 DEF Skip, AgenticInv
    <3>2. PICK d \in Captures : run[r].row = {d}
      BY <3>1 DEF RecOK, RowPcs, At
    <3>3. d = c
      BY <2>1, <2>5, <3>2, RowIs DEF Skip, Finished
    <3>4. SkipJustified(run[r], c)
      BY <3>1, <3>2, <3>3 DEF RecOK, At
    <3>5. QED
      BY <3>1, <3>2, <3>3, <3>4 DEF SkipJustified
  <2>6. ASSUME NEW r \in Runners,
               Start(r) \/ CallFlash(r) \/ Propose(r) \/ Materialise(r) \/ EndRun(r) \/ StoreThrows(r) \/ Crash(r)
        PROVE  FALSE
    BY <2>6 DEF Start, CallFlash, Triage, Extract, Propose, ReadRecent, PutRead, PutInsert, Materialise,
       Dispose, Observe, Draft, GiveUp, Mark, EndRun, Drain, Bill, Persist, StoreThrows, Crash, dbVars
  <2>7. QED
    BY <2>2, <2>3, <2>4, <2>5, <2>6 DEF AgenticNext, RunStep, EndRow
<1>2. QED
  BY <1>1, AgenticInvariant, PTL DEF AgenticSpec, StrongSkippedEmptyHanded

\* A feed row that is done or skipped stays that way, whoever else finishes or requeues it
\* (finishAgenticCaptureFeed, requeueAgenticCaptureFeed).
THEOREM AgenticFeedFinal == AgenticSpec => FeedOutcomeFinal
<1>1. AgenticInv /\ [AgenticNext]_agenticVars =>
        [\A c \in Captures : feed[c] \in {"done", "skipped"} => feed'[c] = feed[c]]_agenticVars
  <2> SUFFICES ASSUME AgenticInv, AgenticNext, NEW c \in Captures, feed[c] \in {"done", "skipped"}
               PROVE  feed'[c] = feed[c]
    OBVIOUS
  <2>1. feed \in [Captures -> FeedStates]
    BY DEF AgenticInv, AgenticTypeOK
  <2>2. CASE (\E d \in Captures : FeedInsert(d) \/ LeaseRunsOut(d)) \/ SkipIneligible
    BY <2>1, <2>2 DEF FeedInsert, LeaseRunsOut, SkipIneligible
  <2>3. ASSUME NEW r \in Runners, Claim(r) PROVE feed'[c] = feed[c]
    <3>1. \A n : \A cs \in Batches(n) : c \notin cs
      BY DEF Batches, kSubset, Due, Claimable
    <3>2. QED
      BY <2>3, <3>1 DEF Claim
  <2>4. ASSUME NEW r \in Runners, EndRow(r) PROVE feed'[c] = feed[c]
    BY <2>1, <2>4 DEF EndRow, Requeue, Skip, Finish, Requeued, Finished, Requeueable, Finishable
  <2>5. ASSUME NEW r \in Runners,
               Start(r) \/ CallFlash(r) \/ Propose(r) \/ Materialise(r) \/ EndRun(r) \/ StoreThrows(r) \/ Crash(r)
        PROVE  feed'[c] = feed[c]
    BY <2>5 DEF Start, CallFlash, Triage, Extract, Propose, ReadRecent, PutRead, PutInsert, Materialise,
       Dispose, Observe, Draft, GiveUp, Mark, EndRun, Drain, Bill, Persist, StoreThrows, Crash, dbVars
  <2>6. QED
    BY <2>2, <2>3, <2>4, <2>5 DEF AgenticNext, RunStep
<1>2. QED
  BY <1>1, AgenticInvariant, PTL DEF AgenticSpec, FeedOutcomeFinal

-----------------------------------------------------------------------------
(* The bill *)

\* own[r]: the answered calls run r has counted and not yet written; paid: those whose run
\* has written them.  A run that read the day's spend before another one wrote loses the
\* other one's calls, and a crash loses its own; none is ever added twice.
BillOK(own, paid) ==
  /\ own \in [Runners -> SUBSET (1 .. billed)] /\ paid \in SUBSET (1 .. billed)
  /\ \A r \in Runners : Cardinality(own[r]) = run[r].calls /\ own[r] \cap paid = {}
  /\ \A r, q \in Runners : r # q => own[r] \cap own[q] = {}
  /\ day <= Cardinality(paid)
  /\ \A r \in Runners : run[r].pc = "persist" => run[r].prev <= Cardinality(paid)

BillInv == \E own, paid : BillOK(own, paid)

LEMMA CallsFinite ==
  ASSUME billed \in Nat, NEW S \in SUBSET (1 .. billed)
  PROVE  IsFiniteSet(S) /\ Cardinality(S) \in Nat /\ Cardinality(S) <= billed
<1>1. IsFiniteSet(1 .. billed) /\ Cardinality(1 .. billed) = billed
  BY FS_Interval
<1>2. QED
  BY <1>1, FS_Subset, FS_CardinalityType

LEMMA BillKeeps ==
  ASSUME AgenticInv, BillInv, NEW r \in Runners, NEW rec \in RunType, Put(r, rec), Bills(r, rec)
  PROVE  BillInv'
<1>0. run \in [Runners -> RunType] /\ day \in Nat /\ billed \in Nat
  BY DEF AgenticInv, AgenticTypeOK
<1>1. PICK own, paid : BillOK(own, paid)
  BY DEF BillInv
<1>2. /\ own \in [Runners -> SUBSET (1 .. billed)] /\ paid \in SUBSET (1 .. billed)
      /\ own[r] \in SUBSET (1 .. billed)
  BY <1>1 DEF BillOK
<1>3. IsFiniteSet(own[r]) /\ IsFiniteSet(paid) /\ Cardinality(paid) \in Nat /\ Cardinality(own[r]) \in Nat
  BY <1>0, <1>2, CallsFinite
<1>4. run'[r] = rec /\ \A q \in Runners \ {r} : run'[q] = run[q]
  BY <1>0 DEF Put
<1>5. CASE /\ rec.calls = run[r].calls /\ UNCHANGED spendVars
           /\ rec.pc # "persist" \/ rec.prev = day
  <2>1. BillOK(own, paid)'
    BY <1>1, <1>4, <1>5 DEF BillOK, spendVars
  <2>2. QED
    BY <2>1 DEF BillInv
\* The run's calls are forgotten, written or not.
<1>6. ASSUME NEW written \in SUBSET (1 .. billed), rec.calls = 0, rec.pc # "persist", billed' = billed,
             paid \subseteq written, written \subseteq paid \cup own[r], day' <= Cardinality(written)
      PROVE  BillInv'
  <2>1. PICK left : left = [own EXCEPT ![r] = {}]
    OBVIOUS
  <2>2. /\ left \in [Runners -> SUBSET (1 .. billed)] /\ left[r] = {}
        /\ \A q \in Runners \ {r} : left[q] = own[q]
    BY <1>2, <2>1
  <2>3. IsFiniteSet(written) /\ Cardinality(written) \in Nat /\ Cardinality(paid) <= Cardinality(written)
    BY <1>0, <1>6, CallsFinite, FS_Subset
  <2>4. ASSUME NEW q \in Runners
        PROVE  /\ Cardinality(left[q]) = run'[q].calls /\ left[q] \cap written = {}
               /\ run'[q].pc = "persist" => run'[q].prev <= Cardinality(written)
    <3>1. CASE q = r
      BY <1>4, <1>6, <2>2, <3>1, FS_EmptySet
    <3>2. CASE q # r
      <4>1. own[q] \cap own[r] = {} /\ own[q] \cap paid = {} /\ Cardinality(own[q]) = run[q].calls
        BY <1>1, <3>2 DEF BillOK
      <4>2. run[q].pc = "persist" => run[q].prev <= Cardinality(paid)
        BY <1>1 DEF BillOK
      <4>3. run[q].prev \in Nat
        BY <1>0 DEF RunType
      <4>4. QED
        BY <1>3, <1>4, <1>6, <2>2, <2>3, <3>2, <4>1, <4>2, <4>3
    <3>3. QED
      BY <3>1, <3>2
  <2>5. \A q, s \in Runners : q # s => left[q] \cap left[s] = {}
    BY <1>1, <2>2 DEF BillOK
  <2>6. BillOK(left, written)'
    BY <1>6, <2>2, <2>4, <2>5 DEF BillOK
  <2>7. QED
    BY <2>6 DEF BillInv
<1>7. CASE rec.calls = 0 /\ rec.pc # "persist" /\ UNCHANGED spendVars
  BY <1>1, <1>2, <1>6, <1>7 DEF BillOK, spendVars
<1>8. CASE rec.calls = run[r].calls + 1 /\ rec.pc # "persist" /\ day' = day /\ billed' = billed + 1
  <2>1. PICK more, call : call = billed + 1 /\ more = [own EXCEPT ![r] = own[r] \cup {call}]
    OBVIOUS
  <2>2. /\ more \in [Runners -> SUBSET (1 .. billed')] /\ more[r] = own[r] \cup {call}
        /\ \A q \in Runners \ {r} : more[q] = own[q]
    <3>1. 1 .. billed \subseteq 1 .. billed' /\ call \in 1 .. billed'
      BY <1>0, <1>8, <2>1
    <3>2. QED
      BY <1>2, <2>1, <3>1
  <2>3. /\ call \notin paid /\ paid \in SUBSET (1 .. billed')
        /\ \A q \in Runners : call \notin own[q]
    BY <1>0, <1>2, <1>8, <2>1
  <2>4. Cardinality(more[r]) = run[r].calls + 1
    <3>1. Cardinality(own[r] \cup {call}) = Cardinality(own[r]) + 1
      BY <1>3, <2>3, FS_AddElement
    <3>2. QED
      BY <1>1, <2>2, <3>1 DEF BillOK
  <2>5. BillOK(more, paid)'
    <3>1. \A q \in Runners : Cardinality(more[q]) = run'[q].calls
      BY <1>1, <1>4, <1>8, <2>2, <2>4 DEF BillOK
    <3>2. \A q \in Runners : more[q] \cap paid = {}
      BY <1>1, <2>2, <2>3 DEF BillOK
    <3>3. \A q, s \in Runners : q # s => more[q] \cap more[s] = {}
      BY <1>1, <2>2, <2>3 DEF BillOK
    <3>4. \A q \in Runners : run'[q].pc = "persist" => run'[q].prev <= Cardinality(paid)
      BY <1>1, <1>4, <1>8 DEF BillOK
    <3>5. day' <= Cardinality(paid)
      BY <1>1, <1>8 DEF BillOK
    <3>6. QED
      BY <2>2, <2>3, <3>1, <3>2, <3>3, <3>4, <3>5 DEF BillOK
  <2>6. QED
    BY <2>5 DEF BillInv
<1>9. CASE /\ run[r].pc = "persist" /\ rec.calls = 0 /\ rec.pc # "persist"
           /\ day' = run[r].prev + run[r].calls /\ billed' = billed
  <2>1. own[r] \cap paid = {} /\ Cardinality(own[r]) = run[r].calls /\ run[r].prev <= Cardinality(paid)
    BY <1>1, <1>9 DEF BillOK
  <2>2. PICK written \in SUBSET (1 .. billed) : written = paid \cup own[r]
    BY <1>2
  <2>3. Cardinality(written) = Cardinality(paid) + Cardinality(own[r])
    <3>1. paid \cap own[r] = {}
      BY <2>1
    <3>2. Cardinality(written) = Cardinality(paid) + Cardinality(own[r]) - Cardinality({})
      BY <1>3, <2>2, <3>1, FS_Union
    <3>3. QED
      BY <1>3, <3>2, FS_EmptySet
  <2>4. run[r].prev \in Nat
    BY <1>0 DEF RunType
  <2>5. day' <= Cardinality(written)
    BY <1>3, <1>9, <2>1, <2>3, <2>4
  <2>6. QED
    BY <1>6, <1>9, <2>2, <2>5
<1>10. QED
  BY <1>5, <1>7, <1>8, <1>9 DEF Bills

\* The day's count never exceeds what Flash has billed, however many runs share the day and
\* crash in it: every call is added by its own run, once (addDaySpend).
THEOREM AgenticBillsOnce == AgenticSpec => []DayWithinBilled
<1>1. AgenticInit => BillInv
  <2> SUFFICES ASSUME AgenticInit PROVE BillInv
    OBVIOUS
  <2>1. PICK own, paid : own = [r \in Runners |-> {}] /\ paid = {}
    OBVIOUS
  <2>2. BillOK(own, paid)
    BY <2>1, FS_EmptySet DEF AgenticInit, Idle, BillOK
  <2>3. QED
    BY <2>2 DEF BillInv
<1>2. AgenticInv /\ BillInv /\ [AgenticNext]_agenticVars => BillInv'
  <2> SUFFICES ASSUME AgenticInv, BillInv, [AgenticNext]_agenticVars PROVE BillInv'
    OBVIOUS
  <2>1. CASE UNCHANGED <<run, spendVars>>
    BY <2>1 DEF BillInv, BillOK, spendVars
  <2>2. CASE (\E c \in Captures : FeedInsert(c) \/ LeaseRunsOut(c)) \/ SkipIneligible
    BY <2>1, <2>2, FeedKeeps
  <2>3. CASE \E r \in Runners : RunStep(r) \/ StoreThrows(r) \/ Crash(r)
    <3>1. PICK r \in Runners : RunStep(r) \/ StoreThrows(r) \/ Crash(r)
      BY <2>3
    <3>2. PICK rec \in RunType : Put(r, rec) /\ Bills(r, rec)
      BY <3>1, RunMoves DEF Moves
    <3>3. QED
      BY <3>2, BillKeeps
  <2>4. CASE UNCHANGED agenticVars
    BY <2>1, <2>4 DEF agenticVars
  <2>5. QED
    BY <2>2, <2>3, <2>4 DEF AgenticNext
<1>3. AgenticInv /\ BillInv => DayWithinBilled
  <2> SUFFICES ASSUME AgenticInv, BillInv PROVE DayWithinBilled
    OBVIOUS
  <2>1. day \in Nat /\ billed \in Nat
    BY DEF AgenticInv, AgenticTypeOK
  <2>2. PICK paid \in SUBSET (1 .. billed) : day <= Cardinality(paid)
    BY DEF BillInv, BillOK
  <2>3. QED
    BY <2>1, <2>2, CallsFinite DEF DayWithinBilled
<1>4. QED
  BY <1>1, <1>2, <1>3, AgenticInvariant, PTL DEF AgenticSpec
=============================================================================
