---------------------- MODULE ConstraintHypergraph ----------------------
(***************************************************************************)
(* The composition of the compiler: the rules of all components of a       *)
(* connector are nodes of a hypergraph, which has one hyperedge for each   *)
(* component and each port that its rules can make active.  Distributing   *)
(* the hyperedges, port by port in the arbitrary order of a hash set,      *)
(* leaves the rules of the composed connector.  A rule is abstracted to    *)
(* the ports it makes active ("on") and those it keeps silent ("off").     *)
(***************************************************************************)
EXTENDS Naturals, Sequences, FiniteSets, Functions

CONSTANTS
    Connectors, \* the connectors: sequences of components, sets of rules
    Hidden      \* stands for the port of rules without active ports

VARIABLES
    components, \* the components being composed
    target,     \* the rule nodes in the target of each hyperedge <<component, port>>
    unvisited,  \* ports whose hyperedges have not been distributed
    at,         \* "visit" a port, "compose" its hyperedges, "poll" a leaf
    base, rest, \* the hyperedge composed with, and those still to compose
    other,      \* the hyperedge being composed ...
    queue,      \* ... its leaves still to poll ...
    list,       \* ... the leaves of base they are composed with ...
    same        \* ... and those of them that are leaves of both

loopVars == <<other, queue, list, same>>
vars == <<components, target, unvisited, at, base, rest, loopVars>>

Hyperedges == DOMAIN target

\* A node is the set of the pairs <<component, rule>> it has been composed of:
\* a composition never makes two nodes of the same pairs, so that they identify
\* it as the counter in the constructor does.
RulesOf(n) == {x[2] : x \in n}
On(T) == UNION {r.on : r \in T}
Off(T) == UNION {r.off : r \in T}
Adjacent(n) == {e \in Hyperedges : n \in target[e]}

\* What the compiler composes: a rule maps each port to active or silent, rules
\* of two components differ (in their formulas, when not in their ports), and a
\* port joins two components, as nodes are inserted where more coincide.
IsConnector(comps) ==
    /\ Len(comps) \in Nat /\ DOMAIN comps = 1 .. Len(comps)
    /\ \A c \in DOMAIN comps : \A r \in comps[c] : r.on \cap r.off = {} /\ Hidden \notin r.on
    /\ \A c, d \in DOMAIN comps : c # d => comps[c] \cap comps[d] = {}
    /\ \A b, c, d \in DOMAIN comps :
          b # c /\ c # d /\ b # d => On(comps[b]) \cap On(comps[c]) \cap On(comps[d]) = {}

ASSUME ConnectorAssumption == \A comps \in Connectors : IsConnector(comps)

\* The Reo node between coinciding channel ends: one input, all outputs.
GetNode(ins, outs) == {[on |-> {p} \cup outs, off |-> ins \ {p}] : p \in ins}

\* The constructor adds a rule to the hyperedges of all its active ports.
Roots(r) == IF r.on = {} THEN {Hidden} ELSE r.on
Edges(comps) == UNION {{c} \X UNION {Roots(r) : r \in comps[c]} : c \in DOMAIN comps}
Initial(comps) ==
    [e \in Edges(comps) |->
        {{<<e[1], r>>} : r \in {q \in comps[e[1]] : e[2] \in Roots(q)}}]

\* Distributing the only hyperedge of a port does nothing: the ports with more.
Shared(comps) == {p \in On(UNION Range(comps)) \cup {Hidden} :
    Cardinality({c \in DOMAIN comps : <<c, p>> \in DOMAIN Initial(comps)}) > 1}

\* Mutant: only ports of the first rule that are silent are compared.
CanSync_OneWay(n, m) ==
    /\ On(RulesOf(n)) \cap On(RulesOf(m)) # {}
    /\ Off(RulesOf(n)) \cap On(RulesOf(m)) = {}

CanSync(n, m) ==
    /\ On(RulesOf(n)) \cap On(RulesOf(m)) # {}
    /\ On(RulesOf(n)) \cap Off(RulesOf(m)) = {}
    /\ Off(RulesOf(n)) \cap On(RulesOf(m)) = {}

\* composeF makes a new node of two that can synchronise and differ.
Composes(n, m) == CanSync(n, m) /\ RulesOf(n) # RulesOf(m)

\* Mutant: the new node is added to the hyperedges of one of the two only.
Composed_OneSide(n, h, partners, gone) ==
    [e \in Hyperedges |->
        ((IF e = h THEN target[e] \ {n} ELSE target[e]) \ gone)
        \cup {r \cup n : r \in {q \in partners : e \in Adjacent(q)}}]

\* The hypergraph in which the nodes of gone are erased, n has left h and has
\* been composed with each node of partners.
Composed(n, h, partners, gone) ==
    [e \in Hyperedges |->
        ((IF e = h THEN target[e] \ {n} ELSE target[e]) \ gone)
        \cup {r \cup n : r \in {q \in partners :
                                    e \in Adjacent(q) \cup (Adjacent(n) \ {h})}}]

-----------------------------------------------------------------------------

Init ==
    /\ components \in Connectors
    /\ target = Initial(components)
    /\ unvisited = Shared(components)
    /\ at = "visit"
    /\ base = <<>> /\ rest = {} /\ other = <<>> /\ queue = {}
    /\ list = {} /\ same = {}

\* Mutant: the first hyperedge is not removed from the others.
Visit_GetFirst(p) ==
    LET edges == {e \in Hyperedges : e[2] = p /\ target[e] # {}}
    IN  /\ at = "visit" /\ p \in unvisited
        /\ unvisited' = unvisited \ {p}
        /\ IF edges = {} THEN UNCHANGED <<at, base, rest>>
           ELSE base' \in edges /\ rest' = edges /\ at' = "compose"
        /\ UNCHANGED <<components, target, loopVars>>

\* distribute takes the ports, and the nonempty hyperedges of a port, in any order.
Visit(p) ==
    LET edges == {e \in Hyperedges : e[2] = p /\ target[e] # {}}
    IN  /\ at = "visit" /\ p \in unvisited
        /\ unvisited' = unvisited \ {p}
        /\ IF edges = {} THEN UNCHANGED <<at, base, rest>>
           ELSE /\ base' \in edges
                /\ rest' = edges \ {base'}
                /\ at' = "compose"
        /\ UNCHANGED <<components, target, loopVars>>

\* Mutant: the last hyperedge of a port is left out.
Leave_OneShort ==
    /\ at = "compose" /\ Cardinality(rest) <= 1
    /\ at' = "visit" /\ rest' = {}
    /\ UNCHANGED <<components, target, unvisited, base, loopVars>>

\* All hyperedges of the port have been composed.
Leave ==
    /\ at = "compose" /\ rest = {}
    /\ at' = "visit"
    /\ UNCHANGED <<components, target, unvisited, base, rest, loopVars>>

\* The branch for a single leaf n: it is composed with all leaves of base.
\* Leaves equal to n stay, and keep n in its other hyperedges.
ComposeSingle(h) ==
    /\ at = "compose" /\ h \in rest
    /\ \E n \in target[h] :
          LET equal == {r \in target[base] : CanSync(r, n) /\ RulesOf(r) = RulesOf(n)}
          IN  /\ target[h] = {n}
              /\ target' = Composed(n, h, {r \in target[base] : Composes(r, n)},
                    (target[base] \ equal) \cup (IF equal = {} THEN {n} ELSE {}))
    /\ rest' = rest \ {h}
    /\ UNCHANGED <<components, unvisited, at, base, loopVars>>

\* The branch for several leaves: they are polled one by one.
ComposeSeveral(h) ==
    /\ at = "compose" /\ h \in rest /\ Cardinality(target[h]) > 1
    /\ rest' = rest \ {h}
    /\ at' = "poll"
    /\ other' = h /\ queue' = target[h] /\ same' = {}
    /\ list' = target[base]
    /\ UNCHANGED <<components, target, unvisited, base>>

Poll(n) ==
    /\ at = "poll" /\ n \in queue
    /\ queue' = queue \ {n}
    /\ LET equal == {r \in list : r = n /\ CanSync(r, n)}
       IN  /\ same' = same \cup equal
           /\ target' = Composed(n, other, {r \in list : Composes(n, r)},
                                 IF equal = {} THEN {n} ELSE {})
    /\ UNCHANGED <<components, unvisited, at, base, rest, other, list>>

\* Mutant: all former leaves of base are removed.
RemoveList_All ==
    /\ at = "poll" /\ queue = {}
    /\ target' = [e \in Hyperedges |-> target[e] \ list]
    /\ at' = "compose"
    /\ other' = <<>> /\ same' = {} /\ list' = {}
    /\ UNCHANGED <<components, unvisited, base, rest, queue>>

\* Leaves of base that are not leaves of both hyperedges are removed.
RemoveList ==
    /\ at = "poll" /\ queue = {}
    /\ target' = [e \in Hyperedges |-> target[e] \ (list \ same)]
    /\ at' = "compose"
    /\ other' = <<>> /\ same' = {} /\ list' = {}
    /\ UNCHANGED <<components, unvisited, base, rest, queue>>

Next ==
    \/ \E p \in unvisited : Visit(p)
    \/ \E h \in rest : ComposeSingle(h) \/ ComposeSeveral(h)
    \/ \E n \in queue : Poll(n)
    \/ Leave \/ RemoveList

Spec == Init /\ [][Next]_vars

-----------------------------------------------------------------------------
(* The synchronous product, the reference for the composition              *)

\* Rules T fire as one only if no part of them has no port in common with the
\* rest, ...
Connected(T) == \A S \in SUBSET T : S = {} \/ S = T \/ On(S) \cap On(T \ S) # {}

\* ... and if each component takes part with the rule that makes active exactly
\* those of its ports that are, or with none if none of its ports is active.
Agrees(T, c) == On(T) \cap (On(c) \cup Off(c)) \in {{}} \cup {r.on : r \in T \cap c}

Active(c) == {r \in c : r.on # {}}

Product(comps) ==
    {RulesOf(n) : n \in {m \in SUBSET UNION {{c} \X Active(comps[c]) : c \in DOMAIN comps} :
        /\ m # {} /\ \A x, y \in m : x[1] = y[1] => x = y
        /\ \A c \in DOMAIN comps : Agrees(RulesOf(m), comps[c])
        /\ Connected(RulesOf(m))}}

\* Evaluated once for each connector.
Linked == [comps \in Connectors |-> {T \in SUBSET UNION Range(comps) : Connected(T)}]
Reference == [comps \in Connectors |-> Product(comps)]

-----------------------------------------------------------------------------
(* Properties                                                              *)

Live == UNION Range(target)
Result == {RulesOf(n) : n \in {m \in Live : On(RulesOf(m)) # {}}}
Done == unvisited = {} /\ at = "visit"

\* The variables keep their types; no hyperedge is composed with itself, and
\* none becomes empty before it is composed, so that the test for it in
\* distribute always succeeds: a port joins two components, and rules without
\* active ports are composed with nothing.
HypergraphTypeOK ==
    /\ at \in {"visit", "compose", "poll"}
    /\ Hyperedges \subseteq (DOMAIN components) \X (On(UNION Range(components)) \cup {Hidden})
    /\ unvisited \subseteq {e[2] : e \in Hyperedges}
    /\ \A n \in Live : RulesOf(n) \subseteq UNION Range(components)
    /\ rest \subseteq {e \in Hyperedges \ {base} : target[e] # {}}
    /\ queue \subseteq Live \cup list

\* At every moment, whatever the order, each node is a set of rules that can
\* fire as one: connected, and no rule silences a port another makes active.
Synchronous == \A n \in Live :
    RulesOf(n) \in Linked[components] /\ On(RulesOf(n)) \cap Off(RulesOf(n)) = {}

\* Composing loses no behaviour: every rule of the synchronous product stays
\* the union of the rules of nodes in the hypergraph ...
Derivable == \A T \in Reference[components] :
    T = UNION {RulesOf(n) : n \in {m \in Live : RulesOf(m) \subseteq T}}

\* ... and in the end is the rule of a node, for every order of the hash sets.
Complete == Done => Reference[components] \subseteq Result

\* Composing adds no behaviour either when every rule of every component has a
\* part in the product: then all orders give the same rules, the product.
Exact ==
    Done /\ UNION Reference[components] = UNION {Active(components[k]) : k \in DOMAIN components}
        => Result \subseteq Reference[components]

-----------------------------------------------------------------------------
(* The inductive invariant                                                 *)

Parts == UNION {{c} \X components[c] : c \in DOMAIN components}

\* Node n has a part in component e[1] that makes port e[2] active.
ActiveIn(n, e) == \E r \in components[e[1]] : <<e[1], r>> \in n /\ e[2] \in r.on

\* The hyperedges still to compose: of ports not yet visited, and of the port
\* being distributed; those with all their leaves; those not yet in base.
Awaiting == {e \in Hyperedges : e[2] \in unvisited} \cup rest
Intact == Awaiting \cup (IF at = "visit" THEN {} ELSE {base})
Behind == Awaiting \cup (IF at = "poll" THEN {other} ELSE {})

EdgesOK ==
    /\ components \in Connectors /\ at \in {"visit", "compose", "poll"}
    /\ target \in [Edges(components) -> SUBSET SUBSET Parts]
    /\ unvisited \subseteq {e[2] : e \in Hyperedges}
    /\ IF at = "visit" THEN rest = {}
       ELSE /\ base \in Hyperedges /\ base[2] \notin unvisited
            /\ rest \subseteq {e \in Hyperedges \ {base} : e[2] = base[2]}
    /\ IF at # "poll" THEN queue = {} /\ list = {} /\ same = {}
       ELSE /\ other \in Hyperedges \ ({base} \cup rest) /\ other[2] = base[2]
            /\ queue \subseteq target[other] /\ same \subseteq list /\ list \subseteq target[base]

\* Rules without active ports are composed with nothing, and are alone in a node.
LeafOf(n, e) ==
    IF e[2] = Hidden THEN \E r \in components[e[1]] : n = {<<e[1], r>>} /\ r.on = {}
    ELSE ActiveIn(n, e)
LeavesOK == \A e \in Hyperedges : \A n \in target[e] : LeafOf(n, e)

\* A node hangs from all hyperedges of its active ports that are still intact.
HangsOK == \A n \in Live : \A e \in Intact : ActiveIn(n, e) => n \in target[e]

RestOK == \A e \in rest : target[e] # {}

\* While leaves are polled: which nodes have a part in the other component.
PollOK == at = "poll" =>
    /\ \A n \in list : ActiveIn(n, other) => n \in queue \cup same
    /\ \A n \in same : ActiveIn(n, other)
    /\ \A n \in target[base] \ list : ActiveIn(n, other)
    /\ \A n \in Live : ActiveIn(n, other) => n \in queue \/ ActiveIn(n, base)

\* The nodes that may become part of rule T of the product.
Within(T) == {n \in Live : RulesOf(n) \subseteq T}

\* No part of T is lost when the leaves of base are removed: one that is removed
\* is still to be composed with, or has been composed.
PolledOK == at = "poll" => \A T \in Reference[components] : other[2] \in On(T) =>
    /\ \E n \in list : RulesOf(n) \subseteq T
    /\ \A n \in list \ same : RulesOf(n) \subseteq T =>
          \/ queue \cap Within(T) # {}
          \/ \E m \in Within(T) \ (list \ same) : RulesOf(n) \subseteq RulesOf(m)

\* The hyperedges of a port that have been composed share their nodes, as far
\* as the product needs them.
MergedOK == \A T \in Reference[components] : \A n \in Within(T) :
    \A e, f \in Hyperedges \ Behind :
        e[2] = f[2] /\ ActiveIn(n, e) /\ (\E r \in T \cap components[f[1]] : f[2] \in r.on)
            => ActiveIn(n, f)

HypergraphInv == /\ EdgesOK /\ LeavesOK /\ HangsOK /\ RestOK /\ PollOK
                 /\ Synchronous /\ Derivable /\ PolledOK /\ MergedOK
=============================================================================
