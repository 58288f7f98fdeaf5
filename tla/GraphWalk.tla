----------------------------- MODULE GraphWalk -----------------------------
(***************************************************************************)
(* The bounded walk over the graph projection: from a root over incident   *)
(* edges, nearest nodes first, within a depth, a number of nodes and the   *)
(* visible trust zones, with a report of what was left out.  The database  *)
(* gives the edges of a node in any order.                                 *)
(***************************************************************************)
EXTENDS Naturals, FiniteSets, Sequences

CONSTANTS
  GraphNodes, \* node ids
  Root,       \* the node asked for
  Pairs,      \* the pairs of nodes that may have an edge
  Depths,     \* max_depth asked for
  Sizes       \* max_nodes asked for

ASSUME WalkAssumption ==
  /\ Root \in GraphNodes
  /\ \A p \in Pairs : \E m, n \in GraphNodes : m # n /\ p = {m, n}
  /\ Depths \subseteq Nat /\ Sizes \subseteq Nat \ {0}

VARIABLES
  graph,   \* the projection and the budgets of the walk asked for, if any
  walk     \* the loop's variables

walkVars == <<graph, walk>>

\* An edge is open, or closed by its zone or its kind; a node is seen, or in a zone
\* that is not visible, or missing from the table.
Graph == [edges : [Pairs -> {"none", "open", "closed"}],
          nodes : [GraphNodes \ {Root} -> {"seen", "foreign", "missing"}],
          depth : Depths, size : Sizes]

Unasked == [queue |-> <<>>, visited |-> {}, at |-> {}, left |-> {}, omitted |-> {}, over |-> FALSE]

WalkInit == graph = {} /\ walk = Unasked

Asked == CHOOSE g \in graph : TRUE
NodeState(n) == IF n = Root THEN "seen" ELSE Asked.nodes[n]
Incident(n) == {p \in Pairs : n \in p /\ Asked.edges[p] # "none"}
Across(n, p) == CHOOSE o \in p : o # n

Walks(rec) == walk' = rec /\ UNCHANGED graph

\* Mutant: the youngest entry is taken first.
QueuedFirst(entry) == <<entry>> \o walk.queue

Queued(entry) == Append(walk.queue, entry)
NextEntry == Head(walk.queue)
Rest == [walk EXCEPT !.queue = Tail(@)]

Ask ==
  /\ graph = {}
  /\ \E g \in Graph : graph' = {g}
  /\ walk' = [Unasked EXCEPT !.queue = <<[id |-> Root, depth |-> 0]>>]

\* One turn of the outer loop, with all its early continues.
Pop ==
  /\ walk.at = {} /\ walk.queue # <<>>
  /\ LET n == NextEntry.id IN
     IF n \in walk.visited THEN Walks(Rest)
     ELSE IF Cardinality(walk.visited) >= Asked.size
       THEN Walks([Rest EXCEPT !.omitted = @ \cup {"max_nodes"}])
     ELSE IF NodeState(n) = "missing" THEN Walks(Rest)
     ELSE IF NodeState(n) = "foreign"
       THEN Walks([Rest EXCEPT !.omitted = @ \cup {"trust_zone"}])
     ELSE IF NextEntry.depth >= Asked.depth
       THEN Walks([Rest EXCEPT !.visited = @ \cup {n},
              !.omitted = @ \cup (IF Incident(n) = {} THEN {} ELSE {"max_depth"})])
     ELSE Walks([Rest EXCEPT !.visited = @ \cup {n}, !.left = Incident(n),
              !.at = IF Incident(n) = {} THEN {} ELSE {NextEntry}])

\* One turn of the inner loop.
Follow(p) ==
  /\ p \in walk.left
  /\ LET here == CHOOSE e \in walk.at : TRUE
         next == Across(here.id, p)
         on == [walk EXCEPT !.left = @ \ {p}, !.at = IF walk.left = {p} THEN {} ELSE @] IN
     IF Asked.edges[p] = "closed" THEN Walks([on EXCEPT !.omitted = @ \cup {"closed"}])
     ELSE IF next \in walk.visited THEN Walks(on)
     ELSE IF Cardinality(walk.visited) + Len(walk.queue) >= Asked.size
       THEN Walks([on EXCEPT !.omitted = @ \cup {"max_nodes"}])
     ELSE Walks([on EXCEPT !.queue = Queued([id |-> next, depth |-> here.depth + 1])])

Return ==
  /\ graph # {} /\ walk.queue = <<>> /\ walk.at = {} /\ ~walk.over
  /\ Walks([walk EXCEPT !.over = TRUE])

WalkNext == Ask \/ Pop \/ (\E p \in Pairs : Follow(p)) \/ Return

WalkSpec == WalkInit /\ [][WalkNext]_walkVars

-----------------------------------------------------------------------------
(* Properties *)

WalkTypeOK ==
  /\ graph \subseteq Graph
  /\ walk.queue \in Seq([id : GraphNodes, depth : Nat])
  /\ walk.visited \subseteq GraphNodes /\ walk.left \subseteq Pairs
  /\ walk.omitted \subseteq {"max_nodes", "max_depth", "trust_zone", "closed"}
  /\ walk.over \in BOOLEAN

\* The nodes at most d open edges away over visible nodes: where a path of so many ends.
Within(g, d) ==
  UNION {{path[k] : path \in {p \in [0 .. k -> GraphNodes] :
            /\ p[0] = Root
            /\ \A i \in 1 .. k :
                 /\ p[i] = Root \/ g.nodes[p[i]] = "seen"
                 /\ {p[i - 1], p[i]} \in Pairs /\ g.edges[{p[i - 1], p[i]}] = "open"}} : k \in 0 .. d}

\* "Reports omissions when depth/node budgets cut the walk short" (graph-projection.ts:707):
\* the walk returns no node but those within the depth over visible nodes and open edges,
\* no more than asked for, and all of them unless it reports max_nodes; and where more
\* could be reached one step further, it reports max_depth.
WalkHonest ==
  walk.over =>
    LET reached == Within(Asked, Asked.depth) IN
    /\ walk.visited \subseteq reached
    /\ Cardinality(walk.visited) <= Asked.size
    /\ walk.visited # reached => "max_nodes" \in walk.omitted
    /\ Within(Asked, Asked.depth + 1) # walk.visited => walk.omitted \cap {"max_nodes", "max_depth"} # {}
=============================================================================
