-------------------------- MODULE AutomationChains --------------------------
(***************************************************************************)
(* Automations start one another: an action of a run queues an event, the  *)
(* event starts the automations it matches, and a run can start another    *)
(* workflow.  What one staff action set off is a chain.  Three limits keep *)
(* a chain finite: an automation whose trigger is a note, a task, an       *)
(* appointment or a service claims its place in the chain, in a row that   *)
(* is unique per chain and automation; the events of opportunities and     *)
(* contacts, which claim nothing, and the starts of workflows carry a      *)
(* depth; and a run fails at a node it already passed, also when it waited *)
(* in between.                                                             *)
(*                                                                         *)
(* Runs of one chain work side by side when they concern several contacts. *)
(* A run executes a segment of its nodes in one transaction: what it       *)
(* queues and claims is seen by the others when the segment commits, and   *)
(* is gone when it does not.                                               *)
(***************************************************************************)
EXTENDS Integers, Bags

CONSTANTS
  Autos,      \* the automations, in the order of their ids
  Open,       \* those whose trigger claims no place in the chain
  Nodes,      \* the nodes of an automation's graph
  Effect,     \* what each node of each automation does to the chain
  Yields,     \* those triggered by a service: their segments are cut short
  Sessions,   \* the database sessions that execute segments
  MaxDepth,   \* the deepest event of a chain that starts anything
  MaxStarts,  \* the workflows that may start one another in a row
  Retries,    \* how often a segment is repeated after a transient error
  MaxChains,  \* bound: the staff actions that set a chain off
  NoRun       \* what an idle session executes

ASSUME ChainsAssumption ==
  /\ Autos \subseteq Nat
  /\ Open \subseteq Autos /\ Yields \subseteq Autos \ Open
  /\ MaxDepth \in Nat /\ MaxStarts \in Nat /\ Retries \in Nat
  /\ MaxChains \in Nat
  /\ Effect \in [Autos -> [Nodes ->
       [kind: {"open", "claimed", "workflow", "wait"}, of: SUBSET Autos]]]
  /\ \A a \in Autos, n \in Nodes :
       Effect[a][n].kind = "claimed" => Effect[a][n].of \cap Open = {}

Claimed == Autos \ Open
Chains == 1..MaxChains

(* A run that has not ended: queued behind its dispatch, queued again or   *)
(* waiting.  "line" holds the workflows that started one another before it.*)
Runs == [auto: Autos, chain: Chains, depth: 0..MaxDepth, starts: 0..MaxStarts,
         line: SUBSET Autos, visited: SUBSET Nodes, tries: 0..Retries,
         via: {"dispatch", "run"}]

VARIABLES
  runs,     \* the bag of the runs that wait for a session
  claims,   \* the rows <<chain, automation>> of the claims
  started,  \* how many runs of an automation the events of a chain queued
  told,     \* the <<chain, automation>> whose skip says it already ran
  work,     \* the run each session executes
  tx,       \* what the open transaction of each session did so far
  chains    \* the chains set off

vars == <<runs, claims, started, told, work, tx, chains>>

(* Every variable has its declared type: the depth of a run, the workflows *)
(* in a row before it and its repetitions stay within their limits.        *)
TypeOK ==
  /\ BagToSet(runs) \subseteq Runs
  /\ claims \subseteq Chains \X Claimed
  /\ started \in [Chains \X Claimed -> Nat]
  /\ told \subseteq Chains \X Claimed
  /\ work \in [Sessions -> Runs \cup {NoRun}]
  /\ DOMAIN tx = Sessions
  /\ \A s \in Sessions :
       /\ tx[s] \in [visited: SUBSET Nodes, todo: SUBSET Claimed, told: SUBSET Claimed,
                     begun: [Claimed -> Nat], out: {tx[s].out}]
       /\ BagToSet(tx[s].out) \subseteq Runs
  /\ chains \in 0..MaxChains

Opened(visited) ==
  [visited |-> visited, todo |-> {}, begun |-> [a \in Claimed |-> 0],
   told |-> {}, out |-> EmptyBag]

Queued(a, chain, depth) ==
  [auto |-> a, chain |-> chain, depth |-> depth, starts |-> 0, line |-> {},
   visited |-> {}, tries |-> 0, via |-> "dispatch"]

Init ==
  /\ runs = EmptyBag
  /\ claims = {}
  /\ started = [k \in Chains \X Claimed |-> 0]
  /\ told = {}
  /\ work = [s \in Sessions |-> NoRun]
  /\ tx = [s \in Sessions |-> Opened({})]
  /\ chains = 0

-----------------------------------------------------------------------------
(* A staff action queues an event that is the first of its chain: nothing  *)
(* can have claimed a place in it.                                         *)
React(M) ==
  /\ M # {} /\ (M \subseteq Open \/ M \subseteq Claimed)
  /\ chains < MaxChains
  /\ chains' = chains + 1
  /\ runs' = runs (+) SetToBag({Queued(a, chains', 0) : a \in M})
  /\ claims' = claims \cup ({chains'} \X (M \cap Claimed))
  /\ started' = [k \in DOMAIN started |->
                   started[k] + IF k \in {chains'} \X M THEN 1 ELSE 0]
  /\ UNCHANGED <<told, work, tx>>

(* A worker opens the transaction of a segment, where the run left off.    *)
Begin(s) ==
  /\ work[s] = NoRun
  /\ \E r \in BagToSet(runs) :
       /\ runs' = runs (-) SetToBag({r})
       /\ work' = [work EXCEPT ![s] = r]
       /\ tx' = [tx EXCEPT ![s] = Opened(r.visited)]
  /\ UNCHANGED <<claims, started, told, chains>>

Walking(s) == work[s] # NoRun /\ tx[s].todo = {}

(* The next node of the segment: one the run has not passed yet.           *)
Pass(s, n, t) ==
  /\ n \notin tx[s].visited
  /\ tx' = [tx EXCEPT ![s] = [t EXCEPT !.visited = t.visited \cup {n}]]
  /\ UNCHANGED <<runs, claims, started, told, work, chains>>

(* A node changes or creates a contact or an opportunity, or nothing: every*)
(* automation the event matches is started, the run's own among them.      *)
QueueOpen(s, n, M) ==
  /\ M = {} \/ work[s].depth + 1 <= MaxDepth
  /\ Pass(s, n, [tx[s] EXCEPT !.out = tx[s].out (+)
       SetToBag({Queued(a, work[s].chain, work[s].depth + 1) : a \in M})])

(* A node adds a note, a task or an appointment or moves a service: the    *)
(* automations the event matches go on to claim their place, but never the *)
(* one that acts, and none beyond the depth.                               *)
QueueClaimed(s, n, M) ==
  Pass(s, n, [tx[s] EXCEPT !.todo =
    IF work[s].depth + 1 <= MaxDepth THEN M \ {work[s].auto} ELSE {}])

Held(s) == {a \in Claimed : tx[s].begun[a] > 0}

(* The insert of a row waits for the transaction that inserted the same    *)
(* row and has not ended.                                                  *)
WaitsFor(s, t) ==
  /\ s # t /\ work[s] # NoRun /\ work[t] # NoRun
  /\ work[s].chain = work[t].chain
  /\ \E a \in tx[s].todo \cap Held(t) : \A b \in tx[s].todo : a <= b

(* The next row in the order of the ids: an automation that has none yet   *)
(* is started, one that has is told it already ran.                        *)
Claim(s) ==
  /\ work[s] # NoRun
  /\ \A t \in Sessions : ~WaitsFor(s, t)
  /\ \E a \in tx[s].todo :
       /\ \A b \in tx[s].todo : a <= b
       /\ tx' = [tx EXCEPT ![s] =
            IF <<work[s].chain, a>> \in claims \/ a \in Held(s)
            THEN [tx[s] EXCEPT !.todo = tx[s].todo \ {a}, !.told = tx[s].told \cup {a}]
            ELSE [tx[s] EXCEPT !.todo = tx[s].todo \ {a},
                   !.begun = [tx[s].begun EXCEPT ![a] = tx[s].begun[a] + 1],
                   !.out = tx[s].out (+) SetToBag(
                     {Queued(a, work[s].chain, work[s].depth + 1)})]]
  /\ UNCHANGED <<runs, claims, started, told, work, chains>>

(* A node starts another workflow in the same chain and at the same depth: *)
(* one that did not start this run, directly or through others.            *)
StartWorkflow(s, n, target) ==
  LET r == work[s]
      line == r.line \cup {r.auto}
  IN /\ target \notin line
     /\ r.starts + 1 <= MaxStarts
     /\ Pass(s, n, [tx[s] EXCEPT !.out = tx[s].out (+)
          SetToBag({[Queued(target, r.chain, r.depth) EXCEPT
                       !.starts = r.starts + 1, !.line = line \cup {target},
                       !.via = "run"]})])

(* The run passes a node; the filters and the change decide what an event  *)
(* of it matches.                                                          *)
Walk(s) ==
  /\ Walking(s)
  /\ \E n \in Nodes : LET e == Effect[work[s].auto][n] IN
       \/ e.kind = "open" /\ \E M \in SUBSET e.of : QueueOpen(s, n, M)
       \/ e.kind = "claimed" /\ \E M \in SUBSET e.of : QueueClaimed(s, n, M)
       \/ e.kind = "workflow" /\ \E a \in e.of : StartWorkflow(s, n, a)

-----------------------------------------------------------------------------
(* The transaction ends: what it did counts, and "more" is what it leaves  *)
(* of its own run.                                                         *)
Commit(s, more) ==
  /\ Walking(s)
  /\ runs' = runs (+) tx[s].out (+) SetToBag(more)
  /\ claims' = claims \cup ({work[s].chain} \X Held(s))
  /\ started' = [k \in DOMAIN started |->
                   started[k] + IF k[1] = work[s].chain THEN tx[s].begun[k[2]] ELSE 0]
  /\ told' = told \cup ({work[s].chain} \X tx[s].told)
  /\ work' = [work EXCEPT ![s] = NoRun]
  /\ tx' = [tx EXCEPT ![s] = Opened({})]
  /\ UNCHANGED chains

(* Mutant of Saved: the nodes the run passed are not saved.                *)
SavedForgetful(s, visited) == [work[s] EXCEPT !.visited = {}, !.via = "run"]

(* The run as a segment leaves it.  From here on it counts its repetitions *)
(* itself, its first segment counted them in its dispatch.                 *)
Saved(s, visited) ==
  [work[s] EXCEPT !.visited = visited, !.via = "run",
     !.tries = IF work[s].via = "dispatch" THEN 0 ELSE work[s].tries]

(* A wait ends the segment.                                                *)
Park(s) ==
  \E n \in Nodes \ tx[s].visited :
    /\ work[s] # NoRun /\ Effect[work[s].auto][n].kind = "wait"
    /\ Commit(s, {Saved(s, tx[s].visited \cup {n})})

(* A segment of a service workflow that passed a node and took too long    *)
(* yields to other runs before the next node.                              *)
Yield(s) ==
  /\ work[s] # NoRun /\ work[s].auto \in Yields
  /\ tx[s].visited # work[s].visited /\ tx[s].visited # Nodes
  /\ Commit(s, {Saved(s, tx[s].visited)})

(* The path of the run is over, or the run was asked to exit.  The event of *)
(* a service step that a completion run ends with is one more claimed node. *)
Finish(s) == Commit(s, {})

(* Mutant of Rollback: the rows of the claims outlive the segment.         *)
RollbackKeepingClaims(s, more) ==
  /\ work[s] # NoRun
  /\ runs' = runs (+) SetToBag(more)
  /\ claims' = claims \cup ({work[s].chain} \X Held(s))
  /\ work' = [work EXCEPT ![s] = NoRun]
  /\ tx' = [tx EXCEPT ![s] = Opened({})]
  /\ UNCHANGED <<started, told, chains>>

(* Nothing the segment did remains; "more" is what is left of the run.     *)
Rollback(s, more) ==
  /\ work[s] # NoRun
  /\ runs' = runs (+) SetToBag(more)
  /\ work' = [work EXCEPT ![s] = NoRun]
  /\ tx' = [tx EXCEPT ![s] = Opened({})]
  /\ UNCHANGED <<claims, started, told, chains>>

(* An action failed: a loop, a depth that is used up, a bad setting.       *)
Fail(s) == Rollback(s, {})

(* A transient error: the segment is repeated, a limited number of times.  *)
Retry(s) ==
  Rollback(s, IF work[s] # NoRun /\ work[s].tries < Retries
              THEN {[work[s] EXCEPT !.tries = work[s].tries + 1]} ELSE {})

(* Transactions that wait for each other: the database ends one of them.   *)
BreakDeadlock(s) ==
  /\ \E D \in SUBSET Sessions :
       s \in D /\ \A t \in D : \E u \in D : WaitsFor(t, u)
  /\ Retry(s)

-----------------------------------------------------------------------------
Work(s) == Walk(s) \/ Claim(s) \/ Park(s) \/ Yield(s) \/ Finish(s) \/ BreakDeadlock(s)

Next ==
  \/ \E M \in SUBSET Autos : React(M)
  \/ \E s \in Sessions : Begin(s) \/ Work(s) \/ Fail(s) \/ Retry(s)

Spec == Init /\ [][Next]_vars

(* The workers keep taking runs, a transaction that can go on does, and    *)
(* the database resolves deadlocks.                                        *)
FairSpec == Spec /\ \A s \in Sessions : WF_vars(Begin(s)) /\ WF_vars(Work(s))

-----------------------------------------------------------------------------
(* Events start an automation that claims its place at most once in a      *)
(* chain, and an automation that was skipped because it already ran in the *)
(* chain was really started by it: neither two segments that claim the     *)
(* same place at the same time, nor one that is rolled back and repeated,  *)
(* start it twice or leave it unstarted.                                   *)
StartedOnce ==
  \A k \in Chains \X Claimed :
    started[k] <= 1 /\ (k \in told => started[k] = 1)

(* Whatever the automations react to and start, each chain ends: from some *)
(* moment on no run is left, whether its runs wait, fail, repeat or block  *)
(* each other.                                                             *)
ChainsEnd ==
  <>[](runs = EmptyBag /\ \A s \in Sessions : work[s] = NoRun)
=============================================================================
