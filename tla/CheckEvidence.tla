--------------------------- MODULE CheckEvidence ---------------------------
(***************************************************************************)
(* What GitHub shows of a candidate.  A publisher creates one check run    *)
(* and completes it; either answer may be lost, and what it does then      *)
(* follows from a fresh read.  A reader collects the listing of the runs   *)
(* and that of their suites page by page, while the runs change, and gives *)
(* a receipt for a run that was the only one and was successful.           *)
(*                                                                         *)
(* All runs are of one commit and of the frozen check name, which is what  *)
(* the listing is asked for.  A run's id is its place in checks; a suite   *)
(* has the state its runs give it, and suites of other Apps are listed too.*)
(***************************************************************************)
EXTENDS Naturals, Sequences, FiniteSets, SequencesExt

CONSTANTS
  Suites,      \* check suites of the commit, numbers
  Foreign,     \* those of another App
  PageSize,    \* entries of a page; 100 in the code
  MaxChecks,   \* runs there may be
  MaxUpdates   \* changes others may make to runs

ASSUME EvidenceAssumption == PageSize \in Nat \ {0}

VARIABLES
  checks,      \* <<[suite, status, output]>>, oldest first
  updates,     \* changes others have made
  flight,      \* requests under way: [post, patch |-> how many]
  publisher,   \* [at, id, seen, retries]
  reader       \* [at, runPages, suitePages, verified]

evidenceVars == <<checks, updates, flight, publisher, reader>>

-----------------------------------------------------------------------------
(* GitHub. *)

Pending == {"queued", "in_progress"}
Completed == {"success", "failure"}  \* the conclusions that are told apart

\* The completion that is attempted, and the run it gives.
Attempted(check) == [check EXCEPT !.status = "success", !.output = "verdict"]

StatusOf(suite) ==
  LET status == {checks[i].status : i \in {j \in DOMAIN checks : checks[j].suite = suite}}
  IN CASE status \intersect Pending # {} -> "in_progress"
       [] status = {"success"} -> "success"
       [] OTHER -> "failure"

\* The listings, newest first: a run comes with its suite as it is.
RunListing ==
  Reverse([i \in DOMAIN checks |-> [id |-> i, status |-> checks[i].status,
             suite |-> [id |-> checks[i].suite, status |-> StatusOf(checks[i].suite)]]])
SuiteListing ==
  LET there == {checks[i].suite : i \in DOMAIN checks}
      sorted == SetToSortSeq(there, >)
  IN [n \in DOMAIN sorted |-> [id |-> sorted[n], status |-> StatusOf(sorted[n])]]

\* One page; the Link to the next may have been lost on the way.
PageOf(listing, n, linked) ==
  LET first == (n - 1) * PageSize + 1
      last == IF n * PageSize < Len(listing) THEN n * PageSize ELSE Len(listing)
  IN [items |-> SubSeq(listing, first, last), total |-> Len(listing),
      next |-> linked /\ last < Len(listing)]

\* A request arrives; whether its answer does, too, is what the publisher has to find out.
PostArrives(s, answered) ==
  /\ flight.post > 0 /\ Len(checks) < MaxChecks
  /\ flight' = [flight EXCEPT !.post = @ - 1]
  /\ checks' = Append(checks, [suite |-> s, status |-> "queued", output |-> "none"])
  /\ publisher' = IF answered /\ publisher.at = "posting"
                  THEN [publisher EXCEPT !.at = "created", !.id = Len(checks'), !.seen = checks'[Len(checks')]]
                  ELSE publisher
  /\ UNCHANGED <<updates, reader>>

PatchArrives(answered) ==
  /\ flight.patch > 0
  /\ flight' = [flight EXCEPT !.patch = @ - 1]
  /\ checks' = [checks EXCEPT ![publisher.id] = Attempted(@)]
  /\ publisher' = IF answered /\ publisher.at = "patching"
                  THEN [publisher EXCEPT !.at = "done", !.seen = checks'[publisher.id]] ELSE publisher
  /\ UNCHANGED <<updates, reader>>

\* A second publisher, another App's run of the same name; a re-request, or somebody else
\* writes to a run that it goes on, succeeds or fails.
OtherCreates(s) ==
  /\ Len(checks) < MaxChecks
  /\ checks' = Append(checks, [suite |-> s, status |-> "queued", output |-> "none"])
  /\ UNCHANGED <<updates, flight, publisher, reader>>

OtherUpdates(i, status) ==
  /\ updates < MaxUpdates
  /\ updates' = updates + 1
  /\ checks' = [checks EXCEPT ![i].status = status, ![i].output = IF status = "queued" THEN @ ELSE "other"]
  /\ UNCHANGED <<flight, publisher, reader>>

-----------------------------------------------------------------------------
(* The publisher. *)

EvidenceInit ==
  /\ checks = <<>> /\ updates = 0
  /\ flight = [post |-> 0, patch |-> 0]
  /\ publisher = [at |-> "idle", id |-> 0, seen |-> {}, retries |-> 0]
  /\ reader = [at |-> "runs", runPages |-> <<>>, suitePages |-> <<>>, verified |-> 0]

PublisherAt(stage) == publisher.at = stage
PublisherGoes(stage) == publisher' = [publisher EXCEPT !.at = stage]

SendPost ==
  /\ PublisherAt("idle")
  /\ PublisherGoes("posting") /\ flight' = [flight EXCEPT !.post = @ + 1]
  /\ UNCHANGED <<checks, updates, reader>>

SendPatch ==
  /\ PublisherAt("created")
  /\ PublisherGoes("patching") /\ flight' = [flight EXCEPT !.patch = @ + 1]
  /\ UNCHANGED <<checks, updates, reader>>

AnswerLost ==
  /\ \/ PublisherAt("posting") /\ PublisherGoes("lookup")
     \/ PublisherAt("patching") /\ PublisherGoes("fresh")
  /\ UNCHANGED <<checks, updates, flight, reader>>

FromForeign(item) == item.suite.id \in Foreign

\* reconcileLostPost: nothing found is not a reason to post again, the request may yet
\* arrive; two runs or another App's are refused.
ReconcileLostPost ==
  /\ PublisherAt("lookup")
  /\ LET matches == ToSet(RunListing)
     IN IF \E item \in matches : FromForeign(item) THEN PublisherGoes("refused")
        ELSE IF matches = {} THEN PublisherGoes("human")
        ELSE IF Cardinality(matches) > 1 THEN PublisherGoes("refused")
        ELSE publisher' = [publisher EXCEPT !.at = "created", !.id = 1, !.seen = checks[1]]
  /\ UNCHANGED <<checks, updates, flight, reader>>

\* The run is as it was when it was seen: nothing of the patch has arrived, or of another's.
StillAsSeen(check) == check.status \in Pending /\ check = publisher.seen

\* The run is what the patch makes of the one that was seen.
MatchesAttempted(check) == check = Attempted(publisher.seen)

\* reconcileLostPatch with the fresh read of the run, which may fail as well.
ReconcileLostPatch(answered) ==
  /\ PublisherAt("fresh")
  /\ LET check == checks[publisher.id]
     IN IF ~answered \/ publisher.seen.status \notin Pending
        THEN PublisherGoes("human") /\ UNCHANGED flight
        ELSE IF StillAsSeen(check) /\ publisher.retries = 0
        THEN /\ publisher' = [publisher EXCEPT !.at = "patching", !.retries = 1]
             /\ flight' = [flight EXCEPT !.patch = @ + 1]
        ELSE /\ publisher' = IF MatchesAttempted(check)
                             THEN [publisher EXCEPT !.at = "done", !.seen = check]
                             ELSE [publisher EXCEPT !.at = "human"]
             /\ UNCHANGED flight
  /\ UNCHANGED <<checks, updates, reader>>

-----------------------------------------------------------------------------
(* The reader. *)

Listed(pages) == UNION {{item.id : item \in ToSet(pages[n].items)} : n \in DOMAIN pages}

\* A bug: a listing ends where no next page is named.
EndsAnywhere(pages) == ~Last(pages).next

\* The listing ends, and as many entries came as every page said there were.
Enumerated(pages) == ~Last(pages).next /\ Cardinality(Listed(pages)) = Last(pages).total

\* recordPageAggregate: the number of entries stays, and no page makes it more.
Contiguous(pages) ==
  /\ \A n \in DOMAIN pages : pages[n].total = pages[1].total
  /\ Cardinality(Listed(pages)) <= pages[1].total

\* collectPaginatedPages for one page more.
Collect(pages, page, foreign, stage) ==
  LET now == Append(pages, page)
      fits == ~foreign /\ Contiguous(now) /\ (page.next \/ Enumerated(now))
  IN [pages |-> now, at |-> CASE ~fits -> "refused" [] page.next -> reader.at [] OTHER -> stage]

ReadRuns(linked) ==
  /\ reader.at = "runs"
  /\ LET page == PageOf(RunListing, Len(reader.runPages) + 1, linked)
         read == Collect(reader.runPages, page, \E item \in ToSet(page.items) : FromForeign(item), "suites")
     IN reader' = [reader EXCEPT !.runPages = read.pages, !.at = read.at]
  /\ UNCHANGED <<checks, updates, flight, publisher>>

ReadSuites(linked) ==
  /\ reader.at = "suites"
  /\ LET page == PageOf(SuiteListing, Len(reader.suitePages) + 1, linked)
         read == Collect(reader.suitePages, page, \E item \in ToSet(page.items) : item.id \in Foreign, "build")
     IN reader' = [reader EXCEPT !.suitePages = read.pages, !.at = read.at]
  /\ UNCHANGED <<checks, updates, flight, publisher>>

\* Where the entries of a listing stand, and the one at a place.
Places(pages) == UNION {{n} \X DOMAIN pages[n].items : n \in DOMAIN pages}
EntryAt(pages, place) == pages[place[1]].items[place[2]]

\* collectCheckRuns, collectIndependentSuites: one suite seen in two states is refused.
SuitesAgree(seen) == \A s, t \in seen : s.id = t.id => s = t

\* buildEvidenceReceipt: one run, successful, in a successful suite that the suites'
\* listing names.
BuildReceipt ==
  /\ reader.at = "build"
  /\ LET runs == Places(reader.runPages)
         first == CHOOSE place \in runs : TRUE
         run == EntryAt(reader.runPages, first)
         suites == {EntryAt(reader.suitePages, place) : place \in Places(reader.suitePages)}
         holds == /\ Enumerated(reader.runPages) /\ Enumerated(reader.suitePages)
                  /\ runs # {} /\ runs = {first}
                  /\ run.status = "success"
                  /\ SuitesAgree(suites \union {run.suite})
                  /\ \E s \in suites : s.id = run.suite.id /\ s.status = "success"
     IN reader' = [reader EXCEPT !.at = IF holds THEN "verified" ELSE "refused",
                                 !.verified = IF holds THEN run.id ELSE 0]
  /\ UNCHANGED <<checks, updates, flight, publisher>>

EvidenceNext ==
  \/ SendPost \/ SendPatch \/ AnswerLost \/ ReconcileLostPost \/ BuildReceipt
  \/ \E yes \in BOOLEAN :
       \/ ReconcileLostPatch(yes) \/ ReadRuns(yes) \/ ReadSuites(yes) \/ PatchArrives(yes)
       \/ \E s \in Suites \ Foreign : PostArrives(s, yes)
  \/ \E s \in Suites : OtherCreates(s)
  \/ \E i \in DOMAIN checks, status \in Pending \union Completed : OtherUpdates(i, status)

EvidenceSpec == EvidenceInit /\ [][EvidenceNext]_evidenceVars

-----------------------------------------------------------------------------
(* Properties *)

\* What is said of a run was so.  A receipt is only given for a run that was alone when it
\* was listed, also when a page's Link was lost or runs came in between the pages (runs are
\* never removed and their ids grow, so every other run there is now came after it).  And
\* a publisher that is done has seen the run with its verdict, however often it sent its
\* patch and whatever others have made of the run meanwhile.
EvidenceIsTrue ==
  /\ reader.verified # 0 => \A i \in DOMAIN checks : i >= reader.verified
  /\ publisher.at = "done" => publisher.seen.status = "success" /\ publisher.seen.output = "verdict"
=============================================================================
