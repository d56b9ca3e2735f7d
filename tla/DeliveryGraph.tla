----------------------------- MODULE DeliveryGraph -----------------------------
(***************************************************************************)
(* From candidate tickets to a running Release.  The planner drafts a      *)
(* graph, scripts/check-delivery-graph.mjs judges it, and it is published  *)
(* to the tracker.  Admission reads the tracker, one call per ticket, and  *)
(* scripts/check-admission-state.mjs compares what was read with the       *)
(* graph; scripts/check-frontier-order.mjs judges the order on its own.    *)
(* The executor, which is not part of this code, then takes the tickets    *)
(* one by one in the order of the tracker.  People may edit it any time.   *)
(***************************************************************************)
EXTENDS Integers, SequencesExt

CONSTANTS
    N,           \* tickets of the Release
    Scenario,    \* scenarios of the Spec
    Smallest,    \* those of its smallest loop
    Entry,       \* the scenario whose exit state each starts from, or External
    External,
    NoGraph,
    MaxEdits     \* bound on edits of the tracker

VARIABLES
    graph,       \* the candidate graph
    stage,       \* how far the Release has come
    tracker,     \* what the tracker says
    seen, todo,  \* what Admission has read of it, and the tickets still to read
    calm,        \* nobody edited the tracker since Admission began to read
    done,        \* tickets the executor has finished
    edits

graphVars == <<graph, stage, tracker, seen, todo, calm, done, edits>>

Child == 1..N

\* The native order of the tickets, what blocks each, whose body is the reviewed
\* one, and whether the parent is.  Ticket 0 is one of another Release.
Tracker == [order : UNION {[1..k -> Child] : k \in 0..N},
            blockedBy : [Child -> SUBSET (Child \cup {0})],
            same : SUBSET Child, parent : BOOLEAN]

\* A ticket covers scenarios directly, or enables the tickets it names.
Graph == [enabler : SUBSET Child, consumers : [Child -> SUBSET Child],
          blockedBy : [Child -> SUBSET Child],
          covers : [Child -> UNION {[1..k -> Scenario] : k \in 0..2}],
          skeleton : UNION {[1..k -> Child] : k \in 0..N}]

ASSUME GraphAssumption ==
    /\ N \in Nat \ {0} /\ MaxEdits \in Nat
    /\ NoGraph \notin Graph
    /\ Smallest \subseteq Scenario /\ Smallest # {}
    /\ External \notin Scenario /\ Entry \in [Scenario -> Scenario \cup {External}]

GraphTypeOK ==
    /\ graph \in Graph \cup {NoGraph}
    /\ stage \in {"drafting", "rejected", "frontier", "reviewed", "reading",
                  "refused", "admitted"}
    /\ tracker \in Tracker /\ seen \in Tracker
    /\ todo \subseteq Child /\ calm \in BOOLEAN /\ done \subseteq Child
    /\ edits \in 0..MaxEdits

Unread == [order |-> <<>>, blockedBy |-> [c \in Child |-> {}], same |-> {}, parent |-> FALSE]

Undrafted ==
    /\ graph = NoGraph /\ stage = "drafting"
    /\ tracker = Unread /\ seen = Unread /\ todo = {}
    /\ calm = TRUE /\ done = {} /\ edits = 0

-----------------------------------------------------------------------------
(* check-delivery-graph.mjs. *)

\* The search for a cycle: the tickets still to visit, those on the path, those
\* that were left, and whether a ticket on the path was met again.
Walk == [todo : SUBSET Child, visiting : SUBSET Child, visited : SUBSET Child,
           cycle : BOOLEAN]

Outset == [todo |-> Child, visiting |-> {}, visited |-> {}, cycle |-> FALSE]

\* A variant of findDependencyCycle: a ticket that was left is not remembered.
findDependencyCycleTwice(g) ==
    LET visit[st \in Walk] ==
          IF st.todo = {} \/ st.cycle THEN st
          ELSE LET c  == CHOOSE x \in st.todo : TRUE
                   on == IF c \in st.visited THEN [st EXCEPT !.cycle = TRUE]
                         ELSE visit[[st EXCEPT !.todo = g.blockedBy[c] \ {c},
                                               !.visited = @ \cup {c}]]
               IN  visit[[on EXCEPT !.todo = st.todo \ {c}]]
    IN  \E c \in Child : visit[[Outset EXCEPT !.todo = {c}]].cycle

\* Depth first, with the tickets on the path and those that were left.
findDependencyCycle(g) ==
    LET visit[st \in Walk] ==
          IF st.todo = {} \/ st.cycle THEN st
          ELSE LET c  == CHOOSE x \in st.todo : TRUE
                   in == visit[[st EXCEPT !.todo = g.blockedBy[c] \ {c},
                                          !.visiting = @ \cup {c}]]
                   on == IF c \in st.visiting THEN [st EXCEPT !.cycle = TRUE]
                         ELSE IF c \in st.visited THEN st
                         ELSE IF in.cycle THEN in
                         ELSE [in EXCEPT !.visiting = @ \ {c}, !.visited = @ \cup {c}]
               IN  visit[[on EXCEPT !.todo = st.todo \ {c}]]
    IN  visit[Outset].cycle

Inversions(order, blockedBy) ==
    {e \in Child \X Child :
        /\ e[1] \in blockedBy[e[2]]
        /\ \E i, j \in DOMAIN order : order[i] = e[1] /\ order[j] = e[2] /\ i >= j}

\* No dependency on itself, no inversion of the children's order, no cycle, and
\* every enabler names tickets that it blocks.
StrictFrontier(g) ==
    /\ \A c \in Child : c \notin g.blockedBy[c]
    /\ Inversions([i \in 1..N |-> i], g.blockedBy) = {}
    /\ ~findDependencyCycle(g)
    /\ \A c \in g.enabler :
          g.consumers[c] # {} /\ \A d \in g.consumers[c] : c \in g.blockedBy[d]

\* Every ticket names scenarios, once each, and every scenario has a direct ticket.
Coverage(g) ==
    /\ \A c \in Child : g.covers[c] # <<>> /\ IsInjective(g.covers[c])
    /\ \A s \in Scenario : \E c \in Child \ g.enabler : Contains(g.covers[c], s)

\* The scenarios as the tickets at these places of the skeleton name them, in
\* their order.
Met(g, places) == UNION {{i} \X DOMAIN g.covers[g.skeleton[i]] : i \in places}
Named(g, m)    == g.covers[g.skeleton[m[1]]][m[2]]
Earlier(m, n)  == m[1] < n[1] \/ (m[1] = n[1] /\ m[2] < n[2])

\* Each of the smallest loop starts, where it is met first, from outside or from
\* the exit of one met before.
Handoffs(g, places) == \A m \in Met(g, places) :
    \/ Named(g, m) \notin Smallest \/ Entry[Named(g, m)] = External
    \/ \E n \in Met(g, places) :
          /\ Earlier(n, m)
          /\ \/ Named(g, n) = Named(g, m)
             \/ Named(g, n) = Entry[Named(g, m)] /\ Named(g, n) \in Smallest

\* No ticket twice, and its blockers come first.
Ordered(g, places) ==
    /\ \A i, j \in places : g.skeleton[i] = g.skeleton[j] => i = j
    /\ \A i \in places : \A b \in g.blockedBy[g.skeleton[i]] :
          \E j \in places : j < i /\ g.skeleton[j] = b

\* A variant of validateWalkingSkeleton: an enabler of a scenario covers it.
validateWalkingSkeletonAny(g, places) ==
    /\ places # {} /\ Ordered(g, places) /\ Handoffs(g, places)
    /\ \A s \in Smallest : \E i \in places : Contains(g.covers[g.skeleton[i]], s)

\* The tickets at these places: blockers come first, the smallest loop is covered,
\* and its handoffs are in order.
validateWalkingSkeleton(g, places) ==
    /\ places # {} /\ Ordered(g, places) /\ Handoffs(g, places)
    /\ \A s \in Smallest : \E i \in places :
          g.skeleton[i] \notin g.enabler /\ Contains(g.covers[g.skeleton[i]], s)

\* A variant of Skeleton: only the first of the chain may turn out redundant.
SkeletonHead(g) ==
    /\ validateWalkingSkeleton(g, DOMAIN g.skeleton)
    /\ Len(g.skeleton) > 1 => ~validateWalkingSkeleton(g, DOMAIN g.skeleton \ {1})

\* It holds, and no longer does without any one of its tickets.
Skeleton(g) ==
    /\ validateWalkingSkeleton(g, DOMAIN g.skeleton)
    /\ Len(g.skeleton) > 1 => \A i \in DOMAIN g.skeleton :
          ~validateWalkingSkeleton(g, DOMAIN g.skeleton \ {i})

-----------------------------------------------------------------------------
(* Planning.  The frontier of a draft does not depend on its scenarios, which  *)
(* are drafted only when it passes.                                            *)

Chains == UNION {{s \in [1..k -> Child] : IsInjective(s)} : k \in 0..N}

DraftFrontier ==
    /\ stage = "drafting"
    /\ \E enabler \in SUBSET Child :
       \E consumers \in {f \in [Child -> SUBSET Child] : \A c \in Child \ enabler : f[c] = {}},
          blocked \in [Child -> SUBSET Child] :
          LET g == [enabler |-> enabler, consumers |-> consumers, blockedBy |-> blocked,
                    covers |-> [c \in Child |-> <<>>], skeleton |-> <<>>] IN
          /\ graph' = g
          /\ stage' = IF StrictFrontier(g) THEN "frontier" ELSE "rejected"
    /\ UNCHANGED <<tracker, seen, todo, calm, done, edits>>

\* A graph that passes is published to the tracker as it is.
Review ==
    /\ stage = "frontier"
    /\ \E covers \in [Child -> UNION {[1..k -> Scenario] : k \in 0..2}], chain \in Chains :
          LET g  == [graph EXCEPT !.covers = covers, !.skeleton = chain]
              ok == Coverage(g) /\ Skeleton(g)
          IN
          /\ graph' = IF ok THEN g ELSE NoGraph
          /\ stage' = IF ok THEN "reviewed" ELSE "rejected"
          /\ tracker' = IF ok THEN [order |-> [i \in 1..N |-> i], blockedBy |-> g.blockedBy,
                                    same |-> Child, parent |-> TRUE]
                        ELSE tracker
    /\ UNCHANGED <<seen, todo, calm, done, edits>>

-----------------------------------------------------------------------------
(* Admission. *)

\* The parent and the native order.
TakeOrder ==
    /\ seen' = [Unread EXCEPT !.order = tracker.order, !.parent = tracker.parent]
    /\ todo' = ToSet(tracker.order) /\ calm' = TRUE
    /\ UNCHANGED <<graph, tracker, done, edits>>

\* A ticket and what blocks it, in the order read before.
TakeChild(c) ==
    /\ c \in todo
    /\ \A d \in todo : \E i, j \in DOMAIN seen.order :
          seen.order[i] = c /\ seen.order[j] = d /\ i <= j
    /\ todo' = todo \ {c}
    /\ seen' = [seen EXCEPT !.blockedBy[c] = tracker.blockedBy[c],
                            !.same = IF c \in tracker.same THEN @ \cup {c} ELSE @]
    /\ UNCHANGED <<graph, stage, tracker, calm, done, edits>>

ReadOrder == stage \in {"reviewed", "refused"} /\ stage' = "reading" /\ TakeOrder

ReadChild(c) == stage = "reading" /\ TakeChild(c)

\* check-frontier-order.mjs: blockers of other Releases do not count.
validateFrontierOrder(t) == t.order # <<>> /\ Inversions(t.order, t.blockedBy) = {}

\* A variant of validateAdmissionState: a ticket that is blocked is not ready.
validateAdmissionUnblocked(t, g) ==
    /\ t.parent /\ t.order = [i \in 1..N |-> i]
    /\ \A c \in Child : c \in t.same /\ t.blockedBy[c] = {} /\ g.blockedBy[c] = {}

\* The parent is the accepted one; the tickets, their order, their bodies and
\* their blockers are those of the graph, and nothing else blocks them.
validateAdmissionState(t, g) ==
    /\ t.parent
    /\ t.order = [i \in 1..N |-> i]
    /\ \A c \in Child :
          /\ c \in t.same
          /\ t.blockedBy[c] \subseteq Child
          /\ t.blockedBy[c] = g.blockedBy[c]

Admit ==
    /\ stage = "reading" /\ todo = {}
    /\ stage' = IF validateAdmissionState(seen, graph) THEN "admitted" ELSE "refused"
    /\ UNCHANGED <<graph, tracker, seen, todo, calm, done, edits>>

-----------------------------------------------------------------------------
(* The environment: the executor, and people. *)

\* The executor takes the first ticket that is left; it waits for what blocks it.
Execute ==
    /\ stage = "admitted"
    /\ \E i \in DOMAIN tracker.order :
          LET c == tracker.order[i] IN
          /\ c \notin done /\ \A j \in 1..(i - 1) : tracker.order[j] \in done
          /\ tracker.blockedBy[c] \subseteq done
          /\ done' = done \cup {c}
    /\ UNCHANGED <<graph, stage, tracker, seen, todo, calm, edits>>

\* Whoever edits the tracker before or after Admission was done.
Edit ==
    /\ stage \in {"reviewed", "reading", "refused", "admitted"}
    /\ edits < MaxEdits /\ edits' = edits + 1 /\ calm' = FALSE
    /\ \/ \E c \in Child, b \in Child \cup {0} :
             tracker' = [tracker EXCEPT !.blockedBy[c] =
                            IF b \in @ THEN @ \ {b} ELSE @ \cup {b}]
       \/ \E c \in Child : tracker' = [tracker EXCEPT !.same = @ \ {c}]
       \/ \E i \in 1..(Len(tracker.order) - 1) :
             tracker' = [tracker EXCEPT !.order[i] = tracker.order[i + 1],
                                        !.order[i + 1] = tracker.order[i]]
       \/ \E i \in DOMAIN tracker.order :
             tracker' = [tracker EXCEPT !.order = RemoveAt(@, i)]
       \/ tracker' = [tracker EXCEPT !.parent = ~@]
    /\ UNCHANGED <<graph, stage, seen, todo, done>>

-----------------------------------------------------------------------------
(* Properties. *)

\* check-delivery-graph.mjs, findDependencyCycle: the search says that there is a
\* cycle exactly when some tickets are each blocked by another of them, for graphs
\* with shared blockers and for cycles away from where the search starts too.
CycleFound ==
    graph # NoGraph =>
        (findDependencyCycle(graph) <=>
           \E loop \in (SUBSET Child) \ {{}} : \A c \in loop :
              loop \cap (graph.blockedBy[c] \ {c}) # {})

\* check-delivery-graph.mjs: the checker takes away one ticket at a time; still no
\* smaller part of an accepted walking skeleton would do, whatever its size.
SkeletonMinimal ==
    stage \in {"reviewed", "admitted"} =>
        \A part \in SUBSET DOMAIN graph.skeleton :
           part # DOMAIN graph.skeleton => ~validateWalkingSkeleton(graph, part)

\* Scenarios among which is each that starts from outside or from another of them
\* and that a ticket that is done covers.
Builds(set) ==
    \A s \in Scenario :
       /\ Entry[s] \in set \cup {External}
       /\ \E c \in done \ graph.enabler : Contains(graph.covers[c], s)
       => s \in set

\* SKILL.md of to-tickets: the walking skeleton closes the smallest loop: once the
\* executor has done its tickets, each scenario of the loop has been built, on top
\* of built ones, whatever else is still open.
LoopCloses ==
    stage = "admitted" /\ ToSet(graph.skeleton) \subseteq done =>
        \A set \in SUBSET Scenario : Builds(set) => Smallest \subseteq set

\* The walking skeleton of an accepted graph is a smallest one, and closes the loop.
SkeletonTrue == SkeletonMinimal /\ LoopCloses

\* check-admission-state.mjs: a Release is admitted only as it was reviewed: unless
\* somebody edited the tracker meanwhile, it holds exactly the reviewed graph, and
\* the frontier checker, which is run on its own, agrees.
AdmittedAsReviewed ==
    stage = "admitted" =>
        /\ calm => tracker = [order |-> [i \in 1..N |-> i], blockedBy |-> graph.blockedBy,
                              same |-> Child, parent |-> TRUE]
        /\ validateFrontierOrder(seen)

\* The strict frontier: a reviewed Release is admitted, and an executor that never
\* skips a ticket gets through it, unless somebody edits the tracker.
ReleaseRuns == (stage = "reviewed" /\ edits = 0) ~> (done = Child \/ edits > 0)
=============================================================================
