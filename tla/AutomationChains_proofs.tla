----------------------- MODULE AutomationChains_proofs -----------------------
(***************************************************************************)
(* Proofs about AutomationChains, for any automations, graphs, sessions    *)
(* and limits: an automation whose trigger claims its place is started at  *)
(* most once by the events of a chain.                                     *)
(***************************************************************************)
EXTENDS AutomationChains, TLAPS

(* No run, no open transaction and no claim is of a chain yet to be set    *)
(* off, so that a staff action may take its places without asking.         *)
FreshChains ==
  /\ \A r \in BagToSet(runs) : r.chain <= chains
  /\ \A s \in Sessions : work[s] # NoRun =>
       /\ work[s].chain <= chains
       /\ \A r \in BagToSet(tx[s].out) : r.chain <= chains
  /\ \A k \in claims : k[1] <= chains

(* A claim stands for one started run, and a skip for a claim.             *)
Counted ==
  /\ \A k \in Chains \X Claimed : started[k] = IF k \in claims THEN 1 ELSE 0
  /\ told \subseteq claims

(* What an open transaction holds it started once, and nobody else has it. *)
Exclusive(s) ==
  work[s] # NoRun =>
    /\ \A a \in Held(s) : tx[s].begun[a] = 1 /\ <<work[s].chain, a>> \notin claims
    /\ \A a \in tx[s].told : a \in Held(s) \/ <<work[s].chain, a>> \in claims
    /\ \A t \in Sessions \ {s} :
         work[t] # NoRun /\ work[t].chain = work[s].chain => Held(s) \cap Held(t) = {}

(* An event beyond the depth leaves nothing to claim. *)
InDepth(s) ==
  work[s] # NoRun /\ tx[s].todo # {} => work[s].depth + 1 <= MaxDepth

IInv ==
  /\ TypeOK /\ FreshChains /\ Counted
  /\ \A s \in Sessions : Exclusive(s) /\ InDepth(s)

-----------------------------------------------------------------------------
(* What the bags of runs hold. *)
LEMMA SumHolds == \A B1, B2 : BagToSet(B1 (+) B2) = BagToSet(B1) \cup BagToSet(B2)
<1> TAKE B1, B2
<1>1. DOMAIN (B1 (+) B2) = DOMAIN B1 \cup DOMAIN B2
  BY DEF (+)
<1> QED
  BY <1>1 DEF BagToSet

LEMMA RestHolds == \A B1, B2 : BagToSet(B1 (-) B2) \subseteq BagToSet(B1)
<1> TAKE B1, B2
<1>1. DOMAIN (B1 (-) B2) \subseteq DOMAIN B1
  BY DEF (-)
<1> QED
  BY <1>1 DEF BagToSet

LEMMA OneOfEach == \A S : BagToSet(SetToBag(S)) = S
BY DEF BagToSet, SetToBag

LEMMA EmptyHolds == BagToSet(EmptyBag) = {}
BY DEF BagToSet, EmptyBag, SetToBag

(* A run that an event queued is a run of the event's chain. *)
LEMMA QueuedRun ==
  ASSUME NEW a \in Autos, NEW c \in Chains, NEW d \in 0..MaxDepth
  PROVE  Queued(a, c, d) \in Runs /\ Queued(a, c, d).chain = c
<1>1. 0 \in 0..MaxStarts /\ 0 \in 0..Retries
  BY ChainsAssumption
<1> QED
  BY <1>1 DEF Queued, Runs

(* A transaction that was just opened holds nothing. *)
LEMMA OpenedIsEmpty ==
  ASSUME NEW v \in SUBSET Nodes
  PROVE  /\ Opened(v) \in [visited: SUBSET Nodes, todo: SUBSET Claimed,
                          told: SUBSET Claimed, begun: [Claimed -> Nat],
                          out: {Opened(v).out}]
         /\ BagToSet(Opened(v).out) = {}
         /\ Opened(v).told = {} /\ Opened(v).todo = {}
         /\ \A a \in Claimed : Opened(v).begun[a] = 0
BY EmptyHolds DEF Opened

LEMMA InitHolds == Init => IInv
<1> SUFFICES ASSUME Init PROVE IInv
  OBVIOUS
<1>1. TypeOK
  <2>1. \A s \in Sessions : tx[s] = Opened({})
    BY DEF Init
  <2>2. started \in [Chains \X Claimed -> Nat] /\ work \in [Sessions -> Runs \cup {NoRun}]
    BY DEF Init
  <2>3. chains \in 0..MaxChains /\ BagToSet(runs) = {} /\ DOMAIN tx = Sessions
    BY EmptyHolds, ChainsAssumption DEF Init
  <2> QED
    BY <2>1, <2>2, <2>3, OpenedIsEmpty DEF Init, TypeOK
<1>2. FreshChains /\ Counted
  BY EmptyHolds DEF Init, FreshChains, Counted
<1>3. \A s \in Sessions : Exclusive(s) /\ InDepth(s)
  BY DEF Init, Exclusive, InDepth
<1> QED
  BY <1>1, <1>2, <1>3 DEF IInv

(* The places in a chain nobody has seen are free. *)
LEMMA ReactStep ==
  ASSUME IInv, NEW M \in SUBSET Autos, React(M)
  PROVE  IInv'
<1> DEFINE New == {Queued(a, chains', 0) : a \in M}
<1>1. chains \in Nat /\ chains' = chains + 1 /\ chains' \in Chains /\ chains' \in 0..MaxChains
  BY ChainsAssumption DEF IInv, TypeOK, React, Chains
<1>2. New \subseteq Runs /\ \A r \in New : r.chain = chains'
  BY <1>1, QueuedRun, ChainsAssumption
<1>3. BagToSet(runs') = BagToSet(runs) \cup New
  BY SumHolds, OneOfEach DEF React
<1>4. claims' = claims \cup ({chains'} \X (M \cap Claimed))
  BY DEF React
<1>5. TypeOK'
  <2>1. started' \in [Chains \X Claimed -> Nat]
    BY DEF IInv, TypeOK, React
  <2>2. claims' \subseteq Chains \X Claimed
    BY <1>1, <1>4 DEF IInv, TypeOK
  <2> QED
    BY <1>1, <1>2, <1>3, <2>1, <2>2 DEF IInv, TypeOK, React
<1>6. FreshChains'
  <2>1. \A r \in Runs : r.chain \in Int
    BY DEF Runs, Chains
  <2>2. \A r \in BagToSet(runs') : r.chain <= chains'
    BY <1>1, <1>2, <1>3, <2>1 DEF IInv, TypeOK, FreshChains
  <2>3. \A k \in claims' : k[1] <= chains'
    BY <1>1, <1>4 DEF IInv, TypeOK, FreshChains, Chains
  <2>4. ASSUME NEW s \in Sessions, work'[s] # NoRun
        PROVE  /\ work'[s].chain <= chains'
               /\ \A r \in BagToSet(tx'[s].out) : r.chain <= chains'
    <3>1. work' = work /\ tx' = tx
      BY DEF React
    <3>2. work[s] \in Runs /\ BagToSet(tx[s].out) \subseteq Runs
      BY <2>4, <3>1 DEF IInv, TypeOK
    <3> QED
      BY <1>1, <2>1, <2>4, <3>1, <3>2 DEF IInv, FreshChains
  <2> QED
    BY <2>2, <2>3, <2>4 DEF FreshChains
<1>7. \A k \in claims : k[1] # chains'
  BY <1>1 DEF IInv, TypeOK, FreshChains, Chains
<1>8. Counted'
  <2>1. ASSUME NEW k \in Chains \X Claimed
        PROVE  started'[k] = IF k \in claims' THEN 1 ELSE 0
    <3>1. started'[k] = started[k] + IF k \in {chains'} \X M THEN 1 ELSE 0
      BY DEF IInv, TypeOK, React
    <3>2. started[k] = IF k \in claims THEN 1 ELSE 0
      BY DEF IInv, Counted
    <3>3. k \in {chains'} \X M <=> k \in {chains'} \X (M \cap Claimed)
      OBVIOUS
    <3>4. k \in {chains'} \X M => k \notin claims
      BY <1>7
    <3> QED
      BY <1>4, <3>1, <3>2, <3>3, <3>4
  <2> QED
    BY <1>4, <2>1 DEF IInv, Counted, React
<1>9. ASSUME NEW s \in Sessions
      PROVE  Exclusive(s)' /\ InDepth(s)'
  <2>1. work' = work /\ tx' = tx
    BY DEF React
  <2>2. work[s] # NoRun => work[s].chain # chains'
    BY <1>1 DEF IInv, TypeOK, FreshChains, Runs, Chains
  <2> QED
    BY <1>4, <2>1, <2>2 DEF IInv, Exclusive, Held, InDepth
<1> QED
  BY <1>5, <1>6, <1>8, <1>9 DEF IInv

(* A new transaction holds nothing that another could hold. *)
LEMMA BeginStep ==
  ASSUME IInv, NEW s \in Sessions, Begin(s)
  PROVE  IInv'
<1>1. PICK r \in BagToSet(runs) :
        /\ runs' = runs (-) SetToBag({r})
        /\ work' = [work EXCEPT ![s] = r]
        /\ tx' = [tx EXCEPT ![s] = Opened(r.visited)]
  BY DEF Begin
<1>2. r \in Runs /\ r.visited \in SUBSET Nodes /\ r.chain <= chains
  BY DEF IInv, TypeOK, FreshChains, Runs
<1>3. BagToSet(runs') \subseteq BagToSet(runs)
  BY <1>1, RestHolds
<1>4. tx'[s] = Opened(r.visited) /\ work'[s] = r
  BY <1>1 DEF IInv, TypeOK
<1>5. \A t \in Sessions \ {s} : tx'[t] = tx[t] /\ work'[t] = work[t]
  BY <1>1 DEF IInv, TypeOK
<1>6. UNCHANGED <<claims, started, told, chains>>
  BY DEF Begin
<1>7. TypeOK'
  <2>1. \A t \in Sessions :
          /\ tx'[t] \in [visited: SUBSET Nodes, todo: SUBSET Claimed, told: SUBSET Claimed,
                         begun: [Claimed -> Nat], out: {tx'[t].out}]
          /\ BagToSet(tx'[t].out) \subseteq Runs
    <3>1. /\ Opened(r.visited) \in [visited: SUBSET Nodes, todo: SUBSET Claimed,
                                  told: SUBSET Claimed, begun: [Claimed -> Nat],
                                  out: {Opened(r.visited).out}]
          /\ BagToSet(Opened(r.visited).out) = {}
      BY <1>2, OpenedIsEmpty
    <3>2. \A t \in Sessions \ {s} :
            /\ tx'[t] \in [visited: SUBSET Nodes, todo: SUBSET Claimed,
                           told: SUBSET Claimed, begun: [Claimed -> Nat],
                           out: {tx'[t].out}]
            /\ BagToSet(tx'[t].out) \subseteq Runs
      BY <1>5 DEF IInv, TypeOK
    <3> QED
      BY <1>4, <3>1, <3>2
  <2>2. work' \in [Sessions -> Runs \cup {NoRun}] /\ DOMAIN tx' = Sessions
    BY <1>1, <1>2 DEF IInv, TypeOK
  <2> QED
    BY <1>3, <1>6, <2>1, <2>2 DEF IInv, TypeOK
<1>8. FreshChains'
  BY <1>2, <1>3, <1>4, <1>5, <1>6, OpenedIsEmpty DEF IInv, FreshChains
<1>9. Counted'
  BY <1>6 DEF IInv, Counted
<1>10. Held(s)' = {} /\ tx'[s].told = {} /\ tx'[s].todo = {}
  BY <1>2, <1>4, OpenedIsEmpty DEF Held
<1>11. \A t \in Sessions \ {s} : Held(t)' = Held(t)
  BY <1>5 DEF Held
<1>12. ASSUME NEW t \in Sessions
       PROVE  Exclusive(t)' /\ InDepth(t)'
  BY <1>5, <1>6, <1>10, <1>11 DEF IInv, Exclusive, InDepth
<1> QED
  BY <1>7, <1>8, <1>9, <1>12 DEF IInv

(* Passing a node claims nothing yet. *)
LEMMA PassStep ==
  ASSUME IInv, NEW s \in Sessions, NEW n \in Nodes, NEW t, work[s] # NoRun,
         t \in [visited: SUBSET Nodes, todo: SUBSET Claimed, told: SUBSET Claimed,
                begun: [Claimed -> Nat], out: {t.out}],
         t.begun = tx[s].begun, t.told = tx[s].told,
         t.todo # {} => work[s].depth + 1 <= MaxDepth,
         \A r \in BagToSet(t.out) : r \in Runs /\ r.chain <= chains,
         Pass(s, n, t)
  PROVE  IInv'
<1>1. tx' = [tx EXCEPT ![s] = [t EXCEPT !.visited = t.visited \cup {n}]]
  BY DEF Pass
<1>2. UNCHANGED <<runs, claims, started, told, work, chains>>
  BY DEF Pass
<1>3. /\ tx'[s] \in [visited: SUBSET Nodes, todo: SUBSET Claimed, told: SUBSET Claimed,
                    begun: [Claimed -> Nat], out: {tx'[s].out}]
      /\ tx'[s].begun = tx[s].begun /\ tx'[s].told = tx[s].told
      /\ tx'[s].out = t.out /\ tx'[s].todo = t.todo
  BY <1>1 DEF IInv, TypeOK
<1>4. \A u \in Sessions \ {s} : tx'[u] = tx[u]
  BY <1>1 DEF IInv, TypeOK
<1>5. DOMAIN tx' = Sessions
  BY <1>1 DEF IInv, TypeOK
<1>6. TypeOK'
  BY <1>2, <1>3, <1>4, <1>5 DEF IInv, TypeOK
<1>7. FreshChains' /\ Counted'
  BY <1>2, <1>3, <1>4 DEF IInv, FreshChains, Counted
<1>8. \A u \in Sessions : Held(u)' = Held(u) /\ tx'[u].told = tx[u].told
                        /\ tx'[u].begun = tx[u].begun
  BY <1>3, <1>4 DEF Held
<1>9. ASSUME NEW u \in Sessions
      PROVE  Exclusive(u)' /\ InDepth(u)'
  BY <1>2, <1>3, <1>4, <1>8 DEF IInv, Exclusive, InDepth
<1> QED
  BY <1>6, <1>7, <1>9 DEF IInv

LEMMA WalkStep ==
  ASSUME IInv, NEW s \in Sessions, Walk(s)
  PROVE  IInv'
<1>1. PICK n \in Nodes : LET e == Effect[work[s].auto][n] IN
        \/ e.kind = "open" /\ \E M \in SUBSET e.of : QueueOpen(s, n, M)
        \/ e.kind = "claimed" /\ \E M \in SUBSET e.of : QueueClaimed(s, n, M)
        \/ e.kind = "workflow" /\ \E a \in e.of : StartWorkflow(s, n, a)
  BY DEF Walk
<1> DEFINE e == Effect[work[s].auto][n]
<1>2. work[s] # NoRun
  BY DEF Walk, Walking
<1>3. work[s] \in Runs /\ work[s].chain \in Chains /\ work[s].chain <= chains
  BY <1>2 DEF IInv, TypeOK, FreshChains, Runs
<1>4. e.of \subseteq Autos /\ (e.kind = "claimed" => e.of \subseteq Claimed)
  <2>1. work[s].auto \in Autos
    BY <1>3 DEF Runs
  <2>2. e \in [kind: {"open", "claimed", "workflow", "wait"}, of: SUBSET Autos]
    BY <2>1, ChainsAssumption
  <2>3. e.kind = "claimed" => e.of \cap Open = {}
    BY <2>1, ChainsAssumption
  <2> QED
    BY <2>2, <2>3 DEF Claimed
<1>5. /\ tx[s] \in [visited: SUBSET Nodes, todo: SUBSET Claimed, told: SUBSET Claimed,
                   begun: [Claimed -> Nat], out: {tx[s].out}]
      /\ \A r \in BagToSet(tx[s].out) : r \in Runs /\ r.chain <= chains
  BY <1>2 DEF IInv, TypeOK, FreshChains
<1>10. MaxDepth \in Nat /\ MaxStarts \in Nat
  BY ChainsAssumption
<1>6. ASSUME NEW S, \A r \in S : r \in Runs /\ r.chain = work[s].chain,
             Pass(s, n, [tx[s] EXCEPT !.out = tx[s].out (+) SetToBag(S)])
      PROVE  IInv'
  <2> DEFINE t == [tx[s] EXCEPT !.out = tx[s].out (+) SetToBag(S)]
  <2>1. /\ t \in [visited: SUBSET Nodes, todo: SUBSET Claimed, told: SUBSET Claimed,
                 begun: [Claimed -> Nat], out: {t.out}]
        /\ t.begun = tx[s].begun /\ t.told = tx[s].told
        /\ t.out = tx[s].out (+) SetToBag(S) /\ t.todo = tx[s].todo
    BY <1>5
  <2>2. BagToSet(t.out) = BagToSet(tx[s].out) \cup S
    BY <2>1, SumHolds, OneOfEach
  <2>3. \A r \in BagToSet(t.out) : r \in Runs /\ r.chain <= chains
    BY <1>3, <1>5, <1>6, <2>2
  <2>4. t.todo # {} => work[s].depth + 1 <= MaxDepth
    BY <1>2, <2>1 DEF IInv, InDepth
  <2> QED
    BY <1>2, <1>6, <2>1, <2>3, <2>4, PassStep
<1>7. ASSUME e.kind = "open", NEW M \in SUBSET e.of, QueueOpen(s, n, M)
      PROVE  IInv'
  <2> DEFINE S == {Queued(a, work[s].chain, work[s].depth + 1) : a \in M}
  <2>1. M # {} => work[s].depth + 1 \in 0..MaxDepth
    <3>1. work[s].depth \in 0..MaxDepth
      BY <1>3 DEF Runs
    <3>2. M = {} \/ work[s].depth + 1 <= MaxDepth
      BY <1>7 DEF QueueOpen
    <3> QED
      BY <1>10, <3>1, <3>2
  <2>2. ASSUME NEW a \in M
        PROVE  /\ Queued(a, work[s].chain, work[s].depth + 1) \in Runs
               /\ Queued(a, work[s].chain, work[s].depth + 1).chain = work[s].chain
    <3>1. a \in Autos
      BY <1>4
    <3>2. work[s].depth + 1 \in 0..MaxDepth
      BY <2>1
    <3> QED
      BY <1>3, <3>1, <3>2, QueuedRun
  <2>3. \A r \in S : r \in Runs /\ r.chain = work[s].chain
    BY <2>2
  <2> QED
    BY <1>6, <1>7, <2>3 DEF QueueOpen
<1>8. ASSUME e.kind = "claimed", NEW M \in SUBSET e.of, QueueClaimed(s, n, M)
      PROVE  IInv'
  <2> DEFINE T == IF work[s].depth + 1 <= MaxDepth THEN M \ {work[s].auto} ELSE {}
             t == [tx[s] EXCEPT !.todo = T]
  <2>1. T \subseteq Claimed
    BY <1>4, <1>8
  <2>2. /\ t \in [visited: SUBSET Nodes, todo: SUBSET Claimed, told: SUBSET Claimed,
                 begun: [Claimed -> Nat], out: {t.out}]
        /\ t.begun = tx[s].begun /\ t.told = tx[s].told /\ t.out = tx[s].out
        /\ (t.todo # {} => work[s].depth + 1 <= MaxDepth)
    BY <1>5, <2>1
  <2>3. Pass(s, n, t)
    BY <1>8 DEF QueueClaimed
  <2> QED
    BY <1>2, <1>5, <2>2, <2>3, PassStep
<1>9. ASSUME e.kind = "workflow", NEW a \in e.of, StartWorkflow(s, n, a)
      PROVE  IInv'
  <2> DEFINE line == work[s].line \cup {work[s].auto}
             r == [Queued(a, work[s].chain, work[s].depth) EXCEPT
                     !.starts = work[s].starts + 1, !.line = line \cup {a}, !.via = "run"]
  <2>1. Queued(a, work[s].chain, work[s].depth) \in Runs
    BY <1>3, <1>4, QueuedRun DEF Runs
  <2>2. Queued(a, work[s].chain, work[s].depth).chain = work[s].chain
    BY DEF Queued
  <2>3. work[s].starts + 1 \in 0..MaxStarts
    <3>1. work[s].starts \in 0..MaxStarts
      BY <1>3 DEF Runs
    <3>2. work[s].starts + 1 <= MaxStarts
      BY <1>9 DEF StartWorkflow
    <3> QED
      BY <1>10, <3>1, <3>2
  <2>4. line \cup {a} \in SUBSET Autos
    BY <1>3, <1>4 DEF Runs
  <2>5. r \in Runs /\ r.chain = work[s].chain
    BY <2>1, <2>2, <2>3, <2>4 DEF Runs
  <2>6. Pass(s, n, [tx[s] EXCEPT !.out = tx[s].out (+) SetToBag({r})])
    BY <1>9 DEF StartWorkflow
  <2>7. \A x \in {r} : x \in Runs /\ x.chain = work[s].chain
    BY <2>5
  <2> HIDE DEF r
  <2> QED
    BY <1>6, <2>6, <2>7
<1> QED
  BY <1>1, <1>7, <1>8, <1>9

(* Either the place is taken, or the transaction is the only one to have it.*)
LEMMA ClaimStep ==
  ASSUME IInv, NEW s \in Sessions, Claim(s)
  PROVE  IInv'
<1> DEFINE chain == work[s].chain
           Now(a) == Queued(a, chain, work[s].depth + 1)
           Told(a) == [tx[s] EXCEPT !.todo = tx[s].todo \ {a},
                                    !.told = tx[s].told \cup {a}]
           Began(a) == [tx[s] EXCEPT !.todo = tx[s].todo \ {a},
                          !.begun = [tx[s].begun EXCEPT ![a] = tx[s].begun[a] + 1],
                          !.out = tx[s].out (+) SetToBag({Now(a)})]
<1>1. PICK a \in tx[s].todo :
        /\ \A b \in tx[s].todo : a <= b
        /\ tx' = [tx EXCEPT ![s] =
             IF <<chain, a>> \in claims \/ a \in Held(s) THEN Told(a) ELSE Began(a)]
  BY DEF Claim
<1>2. UNCHANGED <<runs, claims, started, told, work, chains>>
  BY DEF Claim
<1>3. /\ work[s] # NoRun /\ work[s] \in Runs /\ chain \in Chains
      /\ chain <= chains
  BY DEF Claim, IInv, TypeOK, FreshChains, Runs
<1>4. /\ tx[s] \in [visited: SUBSET Nodes, todo: SUBSET Claimed, told: SUBSET Claimed,
                   begun: [Claimed -> Nat], out: {tx[s].out}]
      /\ a \in Claimed
      /\ \A r \in BagToSet(tx[s].out) : r \in Runs /\ r.chain <= chains
  BY <1>3 DEF IInv, TypeOK, FreshChains
<1>5. \A t \in Sessions \ {s} : tx'[t] = tx[t] /\ Held(t)' = Held(t)
  BY <1>1 DEF IInv, TypeOK, Held
<1>6. DOMAIN tx' = Sessions
  BY <1>1 DEF IInv, TypeOK
<1>7. CASE <<chain, a>> \in claims \/ a \in Held(s)
  <2>1. tx'[s] = Told(a)
    BY <1>1, <1>7 DEF IInv, TypeOK
  <2>2. /\ tx'[s] \in [visited: SUBSET Nodes, todo: SUBSET Claimed, told: SUBSET Claimed,
                      begun: [Claimed -> Nat], out: {tx'[s].out}]
        /\ tx'[s].out = tx[s].out /\ tx'[s].begun = tx[s].begun
        /\ tx'[s].told = tx[s].told \cup {a}
    <3>1. tx[s].todo \ {a} \in SUBSET Claimed /\ tx[s].told \cup {a} \in SUBSET Claimed
      BY <1>4
    <3> QED
      BY <1>4, <2>1, <3>1
  <2>3. TypeOK' /\ FreshChains' /\ Counted'
    BY <1>2, <1>5, <1>6, <2>2 DEF IInv, TypeOK, FreshChains, Counted
  <2>4. Held(s)' = Held(s)
    BY <2>2 DEF Held
  <2>5. ASSUME NEW t \in Sessions
        PROVE  Exclusive(t)' /\ InDepth(t)'
    BY <1>2, <1>3, <1>5, <1>7, <2>2, <2>4 DEF IInv, Exclusive, InDepth
  <2> QED
    BY <2>3, <2>5 DEF IInv
<1>8. CASE ~(<<chain, a>> \in claims \/ a \in Held(s))
  <2>1. tx'[s] = Began(a)
    BY <1>1, <1>8 DEF IInv, TypeOK
  <2>2. /\ tx'[s] \in [visited: SUBSET Nodes, todo: SUBSET Claimed, told: SUBSET Claimed,
                      begun: [Claimed -> Nat], out: {tx'[s].out}]
        /\ tx'[s].out = tx[s].out (+) SetToBag({Now(a)})
        /\ tx'[s].begun = [tx[s].begun EXCEPT ![a] = tx[s].begun[a] + 1]
        /\ tx'[s].told = tx[s].told
    <3>1. tx[s].todo \ {a} \in SUBSET Claimed
      BY <1>4
    <3>2. tx[s].begun \in [Claimed -> Nat]
      BY <1>4
    <3>3. [tx[s].begun EXCEPT ![a] = tx[s].begun[a] + 1] \in [Claimed -> Nat]
      BY <1>4, <3>2
    <3> QED
      BY <1>4, <2>1, <3>1, <3>3
  <2>3. Now(a) \in Runs /\ Now(a).chain = chain
    <3>1. work[s].depth + 1 <= MaxDepth
      BY <1>3 DEF IInv, InDepth
    <3>2. work[s].depth \in Nat /\ MaxDepth \in Nat
      BY <1>3, ChainsAssumption DEF Runs
    <3>3. work[s].depth + 1 \in 0..MaxDepth
      BY <3>1, <3>2
    <3> QED
      BY <1>3, <1>4, <3>3, QueuedRun DEF Claimed
  <2> HIDE DEF Now
  <2>4. \A r \in BagToSet(tx'[s].out) : r \in Runs /\ r.chain <= chains
    <3>1. BagToSet(tx'[s].out) = BagToSet(tx[s].out) \cup {Now(a)}
      BY <2>2, SumHolds, OneOfEach
    <3> QED
      BY <1>3, <1>4, <2>3, <3>1
  <2>5. TypeOK' /\ FreshChains' /\ Counted'
    BY <1>2, <1>3, <1>5, <1>6, <2>2, <2>4 DEF IInv, TypeOK, FreshChains, Counted
  <2>6. /\ Held(s)' = Held(s) \cup {a}
        /\ tx'[s].begun[a] = 1
        /\ \A b \in Claimed \ {a} : tx'[s].begun[b] = tx[s].begun[b]
    <3>1. tx[s].begun \in [Claimed -> Nat] /\ tx[s].begun[a] = 0
      BY <1>4, <1>8 DEF Held
    <3> QED
      BY <1>4, <2>2, <3>1 DEF Held
  <2>7. \A t \in Sessions \ {s} :
          work[t] # NoRun /\ work[t].chain = chain => a \notin Held(t)
    BY <1>1, <1>3 DEF Claim, WaitsFor
  <2>8. Exclusive(s)'
    BY <1>2, <1>3, <1>5, <1>8, <2>2, <2>6, <2>7 DEF IInv, Exclusive
  <2>9. ASSUME NEW t \in Sessions \ {s}
        PROVE  Exclusive(t)'
    <3>1. Held(t)' = Held(t) /\ tx'[t] = tx[t]
      BY <1>5
    <3>2. \A u \in Sessions \ {t, s} : Held(u)' = Held(u)
      BY <1>5
    <3> QED
      BY <1>2, <2>6, <2>7, <2>9, <3>1, <3>2 DEF IInv, Exclusive
  <2>10. \A t \in Sessions : InDepth(t)'
    BY <1>2, <1>5, <1>3 DEF IInv, InDepth
  <2> QED
    BY <2>5, <2>8, <2>9, <2>10 DEF IInv
<1> QED
  BY <1>7, <1>8

(* A transaction that ends leaves nothing held, and no work. *)
LEMMA EndedSession ==
  ASSUME IInv, NEW s \in Sessions,
         work' = [work EXCEPT ![s] = NoRun],
         tx' = [tx EXCEPT ![s] = Opened({})]
  PROVE  /\ work'[s] = NoRun /\ tx'[s] = Opened({})
         /\ \A t \in Sessions \ {s} :
              work'[t] = work[t] /\ tx'[t] = tx[t] /\ Held(t)' = Held(t)
         /\ work' \in [Sessions -> Runs \cup {NoRun}] /\ DOMAIN tx' = Sessions
         /\ \A t \in Sessions :
              /\ tx'[t] \in [visited: SUBSET Nodes, todo: SUBSET Claimed,
                             told: SUBSET Claimed, begun: [Claimed -> Nat],
                             out: {tx'[t].out}]
              /\ BagToSet(tx'[t].out) \subseteq Runs
<1>1. work'[s] = NoRun /\ tx'[s] = Opened({})
  BY DEF IInv, TypeOK
<1>2. \A t \in Sessions \ {s} :
        work'[t] = work[t] /\ tx'[t] = tx[t] /\ Held(t)' = Held(t)
  BY DEF IInv, TypeOK, Held
<1>3. work' \in [Sessions -> Runs \cup {NoRun}] /\ DOMAIN tx' = Sessions
  BY DEF IInv, TypeOK
<1>4. \A t \in Sessions :
        /\ tx'[t] \in [visited: SUBSET Nodes, todo: SUBSET Claimed,
                       told: SUBSET Claimed, begun: [Claimed -> Nat],
                       out: {tx'[t].out}]
        /\ BagToSet(tx'[t].out) \subseteq Runs
  BY <1>1, <1>2, OpenedIsEmpty DEF IInv, TypeOK
<1> QED
  BY <1>1, <1>2, <1>3, <1>4

(* A commit turns what was held into claims, one per run it started. *)
LEMMA CommitStep ==
  ASSUME IInv, NEW s \in Sessions, NEW more \in SUBSET Runs, work[s] # NoRun,
         \A r \in more : r.chain <= chains, Commit(s, more)
  PROVE  IInv'
<1> DEFINE chain == work[s].chain
<1>1. /\ runs' = runs (+) tx[s].out (+) SetToBag(more)
      /\ claims' = claims \cup ({chain} \X Held(s))
      /\ started' = [k \in DOMAIN started |->
                       started[k] + IF k[1] = chain THEN tx[s].begun[k[2]] ELSE 0]
      /\ told' = told \cup ({chain} \X tx[s].told)
      /\ work' = [work EXCEPT ![s] = NoRun]
      /\ tx' = [tx EXCEPT ![s] = Opened({})]
      /\ UNCHANGED chains
  BY DEF Commit
<1>2. /\ chain \in Chains /\ chain <= chains
      /\ tx[s].begun \in [Claimed -> Nat] /\ tx[s].told \subseteq Claimed
      /\ Held(s) \subseteq Claimed
      /\ \A r \in BagToSet(tx[s].out) : r \in Runs /\ r.chain <= chains
  BY DEF IInv, TypeOK, FreshChains, Runs, Held
<1>3. /\ work'[s] = NoRun
      /\ \A t \in Sessions \ {s} :
           work'[t] = work[t] /\ tx'[t] = tx[t] /\ Held(t)' = Held(t)
      /\ work' \in [Sessions -> Runs \cup {NoRun}] /\ DOMAIN tx' = Sessions
      /\ \A t \in Sessions :
           /\ tx'[t] \in [visited: SUBSET Nodes, todo: SUBSET Claimed,
                          told: SUBSET Claimed, begun: [Claimed -> Nat],
                          out: {tx'[t].out}]
           /\ BagToSet(tx'[t].out) \subseteq Runs
  BY <1>1, EndedSession
<1>4. BagToSet(runs') = BagToSet(runs) \cup BagToSet(tx[s].out) \cup more
  <2>1. BagToSet(runs') = BagToSet(runs (+) tx[s].out) \cup BagToSet(SetToBag(more))
    BY <1>1, SumHolds
  <2> QED
    BY <2>1, SumHolds, OneOfEach
<1>5. TypeOK'
  <2>1. started' \in [Chains \X Claimed -> Nat]
    BY <1>1, <1>2 DEF IInv, TypeOK
  <2>2. claims' \subseteq Chains \X Claimed /\ told' \subseteq Chains \X Claimed
    BY <1>1, <1>2 DEF IInv, TypeOK
  <2>3. BagToSet(runs') \subseteq Runs
    BY <1>2, <1>4 DEF IInv, TypeOK
  <2> QED
    BY <1>1, <1>3, <2>1, <2>2, <2>3 DEF IInv, TypeOK
<1>6. FreshChains'
  <2>1. \A r \in BagToSet(runs') : r.chain <= chains
    BY <1>2, <1>4 DEF IInv, FreshChains
  <2>2. \A k \in claims' : k[1] <= chains
    BY <1>1, <1>2 DEF IInv, FreshChains
  <2> QED
    BY <1>1, <1>3, <2>1, <2>2 DEF IInv, FreshChains
<1>7. /\ \A a \in Held(s) : tx[s].begun[a] = 1 /\ <<chain, a>> \notin claims
      /\ \A a \in tx[s].told : a \in Held(s) \/ <<chain, a>> \in claims
      /\ \A a \in Claimed \ Held(s) : tx[s].begun[a] = 0
  BY <1>2 DEF IInv, Exclusive, Held
<1>8. Counted'
  <2>1. ASSUME NEW c \in Chains, NEW a \in Claimed
        PROVE  started'[<<c, a>>] = IF <<c, a>> \in claims' THEN 1 ELSE 0
    <3>1. started'[<<c, a>>] = started[<<c, a>>] + IF c = chain THEN tx[s].begun[a] ELSE 0
      BY <1>1 DEF IInv, TypeOK
    <3>2. started[<<c, a>>] = IF <<c, a>> \in claims THEN 1 ELSE 0
      BY DEF IInv, Counted
    <3>3. <<c, a>> \in claims' <=> <<c, a>> \in claims \/ (c = chain /\ a \in Held(s))
      BY <1>1
    <3> QED
      BY <1>7, <3>1, <3>2, <3>3
  <2>2. told' \subseteq claims'
    BY <1>1, <1>7 DEF IInv, Counted
  <2>3. \A k \in Chains \X Claimed : started'[k] = IF k \in claims' THEN 1 ELSE 0
    BY <2>1
  <2> QED
    BY <2>2, <2>3 DEF Counted
<1>9. ASSUME NEW t \in Sessions
      PROVE  Exclusive(t)' /\ InDepth(t)'
  <2>1. CASE t = s
    BY <1>3, <2>1 DEF Exclusive, InDepth
  <2>2. CASE t # s
    <3>1. Exclusive(t) /\ InDepth(t)
      BY DEF IInv
    <3>2. work'[t] # NoRun => \A a \in Held(t) : <<work[t].chain, a>> \notin claims'
      BY <1>1, <1>3, <2>2, <3>1 DEF Exclusive
    <3> QED
      BY <1>1, <1>3, <2>2, <3>1, <3>2 DEF Exclusive, InDepth
  <2> QED
    BY <2>1, <2>2
<1> QED
  BY <1>5, <1>6, <1>8, <1>9 DEF IInv

(* A transaction that is rolled back leaves at most its run. *)
LEMMA RollbackStep ==
  ASSUME IInv, NEW s \in Sessions, NEW more \in SUBSET Runs,
         \A r \in more : r.chain <= chains, Rollback(s, more)
  PROVE  IInv'
<1>1. /\ runs' = runs (+) SetToBag(more)
      /\ work' = [work EXCEPT ![s] = NoRun]
      /\ tx' = [tx EXCEPT ![s] = Opened({})]
      /\ UNCHANGED <<claims, started, told, chains>>
  BY DEF Rollback
<1>2. /\ work'[s] = NoRun
      /\ \A t \in Sessions \ {s} :
           work'[t] = work[t] /\ tx'[t] = tx[t] /\ Held(t)' = Held(t)
      /\ work' \in [Sessions -> Runs \cup {NoRun}] /\ DOMAIN tx' = Sessions
      /\ \A t \in Sessions :
           /\ tx'[t] \in [visited: SUBSET Nodes, todo: SUBSET Claimed,
                          told: SUBSET Claimed, begun: [Claimed -> Nat],
                          out: {tx'[t].out}]
           /\ BagToSet(tx'[t].out) \subseteq Runs
  BY <1>1, EndedSession
<1>3. BagToSet(runs') = BagToSet(runs) \cup more
  BY <1>1, SumHolds, OneOfEach
<1>4. TypeOK' /\ Counted'
  BY <1>1, <1>2, <1>3 DEF IInv, TypeOK, Counted
<1>5. FreshChains'
  BY <1>1, <1>2, <1>3 DEF IInv, FreshChains
<1>6. ASSUME NEW t \in Sessions
      PROVE  Exclusive(t)' /\ InDepth(t)'
  BY <1>1, <1>2 DEF IInv, Exclusive, InDepth
<1> QED
  BY <1>4, <1>5, <1>6 DEF IInv

LEMMA SavedStep ==
  ASSUME IInv, NEW s \in Sessions, work[s] # NoRun,
         NEW V \in SUBSET Nodes, Commit(s, {Saved(s, V)})
  PROVE  IInv'
<1> DEFINE T == IF work[s].via = "dispatch" THEN 0 ELSE work[s].tries
<1>1. work[s] \in Runs /\ work[s].chain <= chains
  BY DEF IInv, TypeOK, FreshChains
<1>2. T \in 0..Retries
  BY <1>1, ChainsAssumption DEF Runs
<1>3. Saved(s, V) \in Runs /\ Saved(s, V).chain = work[s].chain
  BY <1>1, <1>2 DEF Runs, Saved
<1> QED
  BY <1>1, <1>3, CommitStep

LEMMA ParkStep ==
  ASSUME IInv, NEW s \in Sessions, Park(s)
  PROVE  IInv'
<1>1. PICK n \in Nodes \ tx[s].visited :
        work[s] # NoRun /\ Commit(s, {Saved(s, tx[s].visited \cup {n})})
  BY DEF Park
<1>2. tx[s].visited \cup {n} \in SUBSET Nodes
  BY <1>1 DEF IInv, TypeOK
<1> QED
  BY <1>1, <1>2, SavedStep

LEMMA YieldStep ==
  ASSUME IInv, NEW s \in Sessions, Yield(s)
  PROVE  IInv'
<1>1. work[s] # NoRun /\ Commit(s, {Saved(s, tx[s].visited)})
  BY DEF Yield
<1>2. tx[s].visited \in SUBSET Nodes
  BY DEF IInv, TypeOK
<1> QED
  BY <1>1, <1>2, SavedStep

LEMMA RetryStep ==
  ASSUME IInv, NEW s \in Sessions, Retry(s)
  PROVE  IInv'
<1> DEFINE r == [work[s] EXCEPT !.tries = work[s].tries + 1]
           more == IF work[s] # NoRun /\ work[s].tries < Retries THEN {r} ELSE {}
<1>1. work[s] # NoRun /\ Rollback(s, more)
  BY DEF Retry, Rollback
<1>2. work[s] \in Runs /\ work[s].chain <= chains
  BY <1>1 DEF IInv, TypeOK, FreshChains
<1>3. work[s].tries < Retries => r \in Runs /\ r.chain = work[s].chain
  <2>1. work[s].tries \in 0..Retries /\ Retries \in Nat
    BY <1>2, ChainsAssumption DEF Runs
  <2>2. work[s].tries < Retries => work[s].tries + 1 \in 0..Retries
    BY <2>1
  <2> QED
    BY <1>2, <2>2 DEF Runs
<1>4. more \in SUBSET Runs /\ \A x \in more : x.chain <= chains
  BY <1>2, <1>3
<1> QED
  BY <1>1, <1>4, RollbackStep

LEMMA NextStep == IInv /\ [Next]_vars => IInv'
<1> SUFFICES ASSUME IInv, [Next]_vars PROVE IInv'
  OBVIOUS
<1>1. CASE UNCHANGED vars
  BY <1>1 DEF vars, IInv, TypeOK, FreshChains, Counted, Exclusive, Held, InDepth
<1>2. ASSUME NEW M \in SUBSET Autos, React(M) PROVE IInv'
  BY <1>2, ReactStep
<1>3. ASSUME NEW s \in Sessions, Begin(s) PROVE IInv'
  BY <1>3, BeginStep
<1>4. ASSUME NEW s \in Sessions, Walk(s) PROVE IInv'
  BY <1>4, WalkStep
<1>5. ASSUME NEW s \in Sessions, Claim(s) PROVE IInv'
  BY <1>5, ClaimStep
<1>6. ASSUME NEW s \in Sessions, Park(s) PROVE IInv'
  BY <1>6, ParkStep
<1>7. ASSUME NEW s \in Sessions, Finish(s) PROVE IInv'
  BY <1>7, CommitStep DEF Finish, Commit, Walking
<1>8. ASSUME NEW s \in Sessions, Fail(s) PROVE IInv'
  BY <1>8, RollbackStep DEF Fail
<1>9. ASSUME NEW s \in Sessions, Retry(s) PROVE IInv'
  BY <1>9, RetryStep
<1>10. ASSUME NEW s \in Sessions, BreakDeadlock(s) PROVE IInv'
  BY <1>10, RetryStep DEF BreakDeadlock
<1>11. ASSUME NEW s \in Sessions, Yield(s) PROVE IInv'
  BY <1>11, YieldStep
<1> QED
  BY <1>1, <1>2, <1>3, <1>4, <1>5, <1>6, <1>7, <1>8, <1>9, <1>10, <1>11 DEF Next, Work

LEMMA Invariant == Spec => []IInv
BY InitHolds, NextStep, PTL DEF Spec

-----------------------------------------------------------------------------
(* Every reachable state is well typed: the depth, the starts and the      *)
(* repetitions of every run stay within their limits.                      *)
THEOREM TypeCorrect == Spec => []TypeOK
<1>1. IInv => TypeOK
  BY DEF IInv
<1> QED
  BY <1>1, Invariant, PTL

(* The events of a chain start an automation that claims its place at most *)
(* once, and a skip that says it already ran is true, however segments     *)
(* interleave, block each other, fail and are repeated.                    *)
THEOREM StartedOnceHolds == Spec => []StartedOnce
<1>1. IInv => StartedOnce
  BY DEF IInv, Counted, StartedOnce
<1> QED
  BY <1>1, Invariant, PTL
=============================================================================
