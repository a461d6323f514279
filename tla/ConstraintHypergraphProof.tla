-------------------- MODULE ConstraintHypergraphProof --------------------
(***************************************************************************)
(* The composition of the compiler, for all connectors and all orders of   *)
(* the hash sets: each node that is made can fire as one, and no rule of   *)
(* the synchronous product is lost.                                        *)
(***************************************************************************)
EXTENDS ConstraintHypergraph, FiniteSetTheorems, TLAPS

-----------------------------------------------------------------------------
(* Rules, nodes and connectors                                             *)

\* The ports of a union of rules are the ports of its parts.
LEMMA OnUnion ==
    ASSUME NEW S, NEW T
    PROVE  On(S \cup T) = On(S) \cup On(T) /\ Off(S \cup T) = Off(S) \cup Off(T)
BY DEF On, Off

LEMMA OnSubset ==
    ASSUME NEW S, NEW T, S \subseteq T
    PROVE  On(S) \subseteq On(T) /\ Off(S) \subseteq Off(T)
BY DEF On, Off

LEMMA RulesUnion ==
    ASSUME NEW n, NEW m
    PROVE  RulesOf(n \cup m) = RulesOf(n) \cup RulesOf(m)
BY DEF RulesOf

\* Two connected sets of rules with a port in common are connected together.
LEMMA ConnectedUnion ==
    ASSUME NEW S, NEW T, Connected(S), Connected(T), On(S) \cap On(T) # {}
    PROVE  Connected(S \cup T)
<1> SUFFICES ASSUME NEW R \in SUBSET (S \cup T), R # {}, R # S \cup T
             PROVE  On(R) \cap On((S \cup T) \ R) # {}
    BY DEF Connected
<1>1. ASSUME NEW U, Connected(U), U \subseteq S \cup T, U \cap R # {}, U \cap R # U
      PROVE  On(R) \cap On((S \cup T) \ R) # {}
    <2>1. On(U \cap R) \cap On(U \ (U \cap R)) # {}
        BY <1>1 DEF Connected
    <2>2. On(U \cap R) \subseteq On(R)
        BY OnSubset, U \cap R \subseteq R
    <2>3. On(U \ (U \cap R)) \subseteq On((S \cup T) \ R)
        BY <1>1, OnSubset, U \ (U \cap R) \subseteq (S \cup T) \ R
    <2> QED
        BY <2>1, <2>2, <2>3
<1>2. CASE S \cap R # {} /\ S \cap R # S
    BY <1>1, <1>2
<1>3. CASE T \cap R # {} /\ T \cap R # T
    BY <1>1, <1>3
<1>4. CASE S \cap R = S /\ T \cap R = {}
    <2>1. R = S /\ (S \cup T) \ R = T
        BY <1>4
    <2> QED
        BY <2>1
<1>5. CASE S \cap R = {} /\ T \cap R = T
    <2>1. R = T /\ (S \cup T) \ R = S
        BY <1>5
    <2> QED
        BY <2>1
<1> QED
    BY <1>2, <1>3, <1>4, <1>5

\* A rule by itself is connected.
LEMMA ConnectedOne ==
    ASSUME NEW r
    PROVE  Connected({r})
BY DEF Connected

LEMMA SyncIsSymmetric ==
    ASSUME NEW n, NEW m
    PROVE  /\ CanSync(n, m) <=> CanSync(m, n)
           /\ Composes(n, m) <=> Composes(m, n)
BY DEF CanSync, Composes

\* Two nodes that are composed make a node that can fire as one.
LEMMA SyncUnion ==
    ASSUME NEW n, NEW m, CanSync(n, m), Connected(RulesOf(n)), Connected(RulesOf(m)),
           On(RulesOf(n)) \cap Off(RulesOf(n)) = {}, On(RulesOf(m)) \cap Off(RulesOf(m)) = {}
    PROVE  /\ Connected(RulesOf(n \cup m))
           /\ On(RulesOf(n \cup m)) \cap Off(RulesOf(n \cup m)) = {}
<1> DEFINE S == RulesOf(n)
           T == RulesOf(m)
<1>1. RulesOf(n \cup m) = S \cup T
    BY RulesUnion
<1>2. On(S \cup T) = On(S) \cup On(T) /\ Off(S \cup T) = Off(S) \cup Off(T)
    BY OnUnion
<1>3. On(S) \cap On(T) # {} /\ On(S) \cap Off(T) = {} /\ Off(S) \cap On(T) = {}
    BY DEF CanSync
<1>4. Connected(S \cup T)
    BY <1>3, ConnectedUnion
<1> QED
    BY <1>1, <1>2, <1>3, <1>4

\* A hyperedge is a component and a port that one of its rules makes active.
LEMMA EdgesAre ==
    ASSUME NEW comps
    PROVE  /\ \A e \in Edges(comps) : /\ e = <<e[1], e[2]>> /\ e[1] \in DOMAIN comps
                                      /\ \E r \in comps[e[1]] : e[2] \in Roots(r)
           /\ \A c \in DOMAIN comps : \A r \in comps[c] : \A p \in Roots(r) :
                 <<c, p>> \in Edges(comps)
BY DEF Edges

\* What is assumed of connectors, for the one that is composed.
LEMMA ConnectorFacts ==
    ASSUME components \in Connectors
    PROVE  /\ \A c \in DOMAIN components : \A r \in components[c] :
                 r.on \cap r.off = {} /\ Hidden \notin r.on
           /\ \A c, d \in DOMAIN components : \A r \in components[c] :
                 r \in components[d] => c = d
           /\ IsFiniteSet(DOMAIN components)
           /\ \A b, c, d \in DOMAIN components :
                 b # c /\ c # d /\ b # d =>
                     On(components[b]) \cap On(components[c]) \cap On(components[d]) = {}
<1>1. IsConnector(components)
    BY ConnectorAssumption
<1>2. IsFiniteSet(DOMAIN components)
    <2>1. Len(components) \in Nat /\ DOMAIN components = 1 .. Len(components)
        BY <1>1 DEF IsConnector
    <2> QED
        BY <2>1, FS_Interval
<1>3. \A c, d \in DOMAIN components : \A r \in components[c] : r \in components[d] => c = d
    BY <1>1 DEF IsConnector
<1> QED
    BY <1>1, <1>2, <1>3 DEF IsConnector

\* What a rule T of the synchronous product is: parts of different components,
\* with which all components agree.
LEMMA ProductFacts ==
    ASSUME components \in Connectors, NEW T \in Reference[components]
    PROVE  /\ T # {} /\ Connected(T)
           /\ \A r \in T : r.on # {} /\ \E c \in DOMAIN components : r \in components[c]
           /\ \A c \in DOMAIN components : \A r, q \in T \cap components[c] : r = q
           /\ \A c \in DOMAIN components : \A p \in On(T) \cap (On(components[c]) \cup Off(components[c])) :
                 \E r \in T \cap components[c] : p \in r.on
           /\ On(T) \cap Off(T) = {}
<1>1. T \in Product(components)
    BY DEF Reference
<1>2. PICK m : /\ T = RulesOf(m)
               /\ m \in SUBSET UNION {{c} \X Active(components[c]) : c \in DOMAIN components}
               /\ m # {} /\ \A x, y \in m : x[1] = y[1] => x = y
               /\ \A c \in DOMAIN components : Agrees(T, components[c])
               /\ Connected(T)
    BY <1>1 DEF Product
<1>3. \A x \in m : x[1] \in DOMAIN components /\ x[2] \in components[x[1]] /\ x[2].on # {}
    BY <1>2 DEF Active
<1>4. \A r \in T : \E x \in m : r = x[2]
    BY <1>2 DEF RulesOf
<1>5. T # {}
    BY <1>2 DEF RulesOf
<1>6. \A c \in DOMAIN components : \A r, q \in T \cap components[c] : r = q
    <2> SUFFICES ASSUME NEW c \in DOMAIN components, NEW r \in T \cap components[c],
                        NEW q \in T \cap components[c]
                 PROVE  r = q
        OBVIOUS
    <2>1. PICK x \in m : r = x[2]
        BY <1>4
    <2>2. PICK y \in m : q = y[2]
        BY <1>4
    <2>3. x[1] = c /\ y[1] = c
        BY <1>3, <2>1, <2>2, ConnectorFacts
    <2> QED
        BY <1>2, <2>1, <2>2, <2>3
<1>7. ASSUME NEW c \in DOMAIN components, NEW p \in On(T), p \in On(components[c]) \cup Off(components[c])
      PROVE  \E r \in T \cap components[c] : p \in r.on
    <2>1. Agrees(T, components[c])
        BY <1>2
    <2> QED
        BY <1>7, <2>1 DEF Agrees
<1>8. On(T) \cap Off(T) = {}
    <2> SUFFICES ASSUME NEW p \in On(T), NEW r \in T, p \in r.off
                 PROVE  FALSE
        BY DEF Off
    <2>1. PICK c \in DOMAIN components : r \in components[c]
        BY <1>3, <1>4
    <2>2. p \in Off(components[c])
        BY <2>1 DEF Off
    <2>3. PICK q \in T \cap components[c] : p \in q.on
        BY <1>7, <2>2
    <2>4. q = r
        BY <1>6, <2>1
    <2> QED
        BY <2>1, <2>3, <2>4, ConnectorFacts
<1> QED
    BY <1>2, <1>3, <1>4, <1>5, <1>6, <1>7, <1>8

-----------------------------------------------------------------------------
(* Nodes                                                                   *)

\* A node consists of rules of the components, and is known by them.
LEMMA NodeParts ==
    ASSUME components \in Connectors, NEW n \in SUBSET Parts
    PROVE  /\ \A x \in n : /\ x = <<x[1], x[2]>> /\ x[1] \in DOMAIN components
                           /\ x[2] \in components[x[1]]
           /\ RulesOf(n) \subseteq UNION Range(components)
           /\ \A r \in RulesOf(n) : \E c \in DOMAIN components : r \in components[c] /\ <<c, r>> \in n
           /\ \A c \in DOMAIN components : \A r \in components[c] :
                 r \in RulesOf(n) <=> <<c, r>> \in n
<1>1. \A x \in n : x = <<x[1], x[2]>> /\ x[1] \in DOMAIN components /\ x[2] \in components[x[1]]
    BY DEF Parts
<1>2. \A r \in RulesOf(n) : \E c \in DOMAIN components : r \in components[c] /\ <<c, r>> \in n
    BY <1>1 DEF RulesOf
<1>3. RulesOf(n) \subseteq UNION Range(components)
    BY <1>2 DEF Range
<1>4. \A c \in DOMAIN components : \A r \in components[c] : <<c, r>> \in n => r \in RulesOf(n)
    BY DEF RulesOf
<1>5. \A c \in DOMAIN components : \A r \in components[c] : r \in RulesOf(n) => <<c, r>> \in n
    BY <1>2, ConnectorFacts
<1> QED
    BY <1>1, <1>2, <1>3, <1>4, <1>5

LEMMA NodeIsItsRules ==
    ASSUME components \in Connectors, NEW n \in SUBSET Parts, NEW m \in SUBSET Parts,
           RulesOf(n) = RulesOf(m)
    PROVE  n = m
<1>1. \A x \in n : x \in m
    BY NodeParts
<1>2. \A x \in m : x \in n
    BY NodeParts
<1> QED
    BY <1>1, <1>2

\* An active part of a node is an active port of its rules, and the other way
\* around.
LEMMA ActivePorts ==
    ASSUME components \in Connectors, NEW n \in SUBSET Parts, NEW e \in Edges(components),
           ActiveIn(n, e)
    PROVE  e[2] \in On(RulesOf(n)) /\ e[2] # Hidden /\ e[2] \in On(components[e[1]])
<1>1. e[1] \in DOMAIN components
    BY EdgesAre
<1> QED
    BY <1>1, NodeParts, ConnectorFacts DEF ActiveIn, On

\* Two nodes with an active port in common that may become part of the same rule
\* of the product can synchronise.
LEMMA Meet ==
    ASSUME components \in Connectors, NEW T \in Reference[components],
           NEW n \in SUBSET Parts, NEW m \in SUBSET Parts,
           RulesOf(n) \subseteq T, RulesOf(m) \subseteq T,
           On(RulesOf(n)) \cap On(RulesOf(m)) # {}
    PROVE  CanSync(n, m) /\ (n # m => Composes(n, m)) /\ RulesOf(n \cup m) \subseteq T
<1>1. On(RulesOf(n)) \subseteq On(T) /\ Off(RulesOf(n)) \subseteq Off(T)
    BY OnSubset
<1>2. On(RulesOf(m)) \subseteq On(T) /\ Off(RulesOf(m)) \subseteq Off(T)
    BY OnSubset
<1>3. CanSync(n, m)
    BY <1>1, <1>2, ProductFacts DEF CanSync
<1> QED
    BY <1>3, NodeIsItsRules, RulesUnion DEF Composes

-----------------------------------------------------------------------------
(* The hypergraph                                                          *)

LEMMA LiveNodes ==
    ASSUME EdgesOK
    PROVE  /\ Hyperedges = Edges(components) /\ components \in Connectors
           /\ \A n : n \in Live <=> \E e \in Hyperedges : n \in target[e]
           /\ \A n \in Live : n \in SUBSET Parts
           /\ \A e \in Hyperedges : e = <<e[1], e[2]>> /\ e[1] \in DOMAIN components
           /\ Intact \subseteq Hyperedges /\ Behind \subseteq Hyperedges
           /\ Awaiting \subseteq Intact /\ Awaiting \subseteq Behind
<1>1. Hyperedges = Edges(components) /\ components \in Connectors
    BY DEF EdgesOK, Hyperedges
<1>2. \A n : n \in Live <=> \E e \in Hyperedges : n \in target[e]
    BY DEF Live, Range, Hyperedges
<1>3. \A n \in Live : n \in SUBSET Parts
    BY <1>1, <1>2 DEF EdgesOK
<1>4. \A e \in Hyperedges : e = <<e[1], e[2]>> /\ e[1] \in DOMAIN components
    BY <1>1, EdgesAre
<1>5. Awaiting \subseteq Hyperedges
    BY DEF EdgesOK, Awaiting
<1>6. Intact \subseteq Hyperedges /\ Behind \subseteq Hyperedges
    BY <1>5 DEF EdgesOK, Intact, Behind
<1>7. Awaiting \subseteq Intact /\ Awaiting \subseteq Behind
    BY DEF Intact, Behind
<1> QED
    BY <1>1, <1>2, <1>3, <1>4, <1>6, <1>7

\* What Derivable says of each part of a rule of the product.
LEMMA DerivedUnion ==
    ASSUME NEW T, NEW L
    PROVE  (\A r \in T : \E n \in L : r \in RulesOf(n) /\ RulesOf(n) \subseteq T)
               <=> T = UNION {RulesOf(n) : n \in {m \in L : RulesOf(m) \subseteq T}}
OBVIOUS

\* An active port of the product is a port of components only.
LEMMA NeverHidden ==
    ASSUME components \in Connectors, NEW T \in Reference[components]
    PROVE  Hidden \notin On(T)
BY ProductFacts, ConnectorFacts DEF On

\* A hyperedge that is intact has a leaf for each rule of the product that makes
\* its port active.
LEMMA HasLeaf ==
    ASSUME EdgesOK, HangsOK, Derivable, NEW T \in Reference[components],
           NEW e \in Intact, e[2] \in On(T)
    PROVE  \E n \in target[e] : RulesOf(n) \subseteq T /\ ActiveIn(n, e)
<1>1. components \in Connectors /\ e \in Hyperedges /\ e \in Edges(components)
    BY LiveNodes
<1>2. e[1] \in DOMAIN components /\ e[2] \in On(components[e[1]])
    <2>1. PICK r \in components[e[1]] : e[2] \in Roots(r)
        BY <1>1, EdgesAre
    <2>2. e[2] # Hidden
        BY <1>1, NeverHidden
    <2>3. e[2] \in r.on
        BY <2>1, <2>2 DEF Roots
    <2> QED
        BY <1>1, <2>1, <2>3, EdgesAre DEF On
<1>3. PICK r \in T \cap components[e[1]] : e[2] \in r.on
    BY <1>1, <1>2, ProductFacts
<1>4. PICK n \in Live : r \in RulesOf(n) /\ RulesOf(n) \subseteq T
    BY <1>3, DerivedUnion DEF Derivable
<1>5. n \in SUBSET Parts
    BY LiveNodes
<1>6. <<e[1], r>> \in n
    BY <1>1, <1>2, <1>3, <1>4, <1>5, NodeParts
<1>7. ActiveIn(n, e)
    BY <1>3, <1>6 DEF ActiveIn
<1> QED
    BY <1>4, <1>7 DEF HangsOK

-----------------------------------------------------------------------------
(* One leaf n of h composed with leaves P of base                          *)

Composing(n, h, P, gone) ==
    /\ EdgesOK /\ LeavesOK /\ HangsOK /\ Synchronous
    /\ base \in Hyperedges /\ h \in Hyperedges /\ base # h /\ base[2] = h[2]
    /\ n \in target[h] /\ P \subseteq target[base] /\ \A r \in P : Composes(r, n)
    /\ target' = Composed(n, h, P, gone) /\ components' = components

\* Where the nodes are after it.
LEMMA ComposedNodes ==
    ASSUME NEW n, NEW h, NEW P, NEW gone, Composing(n, h, P, gone)
    PROVE  /\ Hyperedges' = Hyperedges /\ target' \in [Edges(components) -> SUBSET SUBSET Parts]
           /\ \A e \in Hyperedges : \A m \in target'[e] :
                 \/ m \in target[e] \ gone /\ (e = h => m # n)
                 \/ \E r \in P : m = r \cup n /\ (r \in target[e] \/ (n \in target[e] /\ e # h))
           /\ \A e \in Hyperedges : \A m \in target[e] \ gone : m \in target'[e] \/ (e = h /\ m = n)
           /\ \A e \in Hyperedges : \A r \in P :
                 r \in target[e] \/ (n \in target[e] /\ e # h) => r \cup n \in target'[e]
           /\ \A m \in Live' : m \in Live \ gone \/ \E r \in P : m = r \cup n
           /\ \A r \in P : r \in Live /\ r \cup n \in Live' /\ r \cup n \in target'[base]
<1> USE DEF Composing
<1>1. /\ target' = [e \in Hyperedges |->
            ((IF e = h THEN target[e] \ {n} ELSE target[e]) \ gone)
                \cup {r \cup n : r \in {q \in P : e \in Adjacent(q) \cup (Adjacent(n) \ {h})}}]
      /\ Hyperedges' = Hyperedges
    BY DEF Composed, Hyperedges
<1>2. \A e \in Hyperedges : \A m :
          m \in target'[e] <=>
             \/ m \in target[e] \ gone /\ (e = h => m # n)
             \/ \E r \in P : m = r \cup n /\ (r \in target[e] \/ (n \in target[e] /\ e # h))
    BY <1>1 DEF Adjacent
<1>3. n \in SUBSET Parts /\ \A r \in P : r \in Live /\ r \in SUBSET Parts
    BY LiveNodes
<1>4. target' \in [Edges(components) -> SUBSET SUBSET Parts]
    <2>1. \A e \in Hyperedges : target'[e] \in SUBSET SUBSET Parts
        <3> SUFFICES ASSUME NEW e \in Hyperedges, NEW m \in target'[e]
                     PROVE  m \in SUBSET Parts
            OBVIOUS
        <3>1. CASE m \in target[e]
            BY <3>1, LiveNodes
        <3>2. CASE \E r \in P : m = r \cup n
            BY <1>3, <3>2
        <3> QED
            BY <1>2, <3>1, <3>2
    <2> QED
        BY <1>1, <2>1, LiveNodes
<1>5. \A m : m \in Live' <=> \E e \in Hyperedges : m \in target'[e]
    BY <1>1 DEF Live, Range, Hyperedges
<1>6. \A m \in Live' : m \in Live \ gone \/ \E r \in P : m = r \cup n
    BY <1>2, <1>5, LiveNodes
<1>7. \A r \in P : r \cup n \in Live' /\ r \cup n \in target'[base]
    BY <1>2, <1>5
<1> QED
    BY <1>1, <1>2, <1>3, <1>4, <1>6, <1>7

\* Rules without active ports synchronise with nothing.
LEMMA SilentAlone ==
    ASSUME EdgesOK, LeavesOK, NEW e \in Hyperedges, e[2] = Hidden, NEW n \in target[e], NEW m
    PROVE  ~CanSync(n, m) /\ ~CanSync(m, n)
<1>1. PICK r \in components[e[1]] : n = {<<e[1], r>>} /\ r.on = {}
    BY DEF LeavesOK, LeafOf
<1>2. On(RulesOf(n)) = {}
    BY <1>1 DEF On, RulesOf
<1> QED
    BY <1>2 DEF CanSync

LEMMA LinkedAre ==
    ASSUME components \in Connectors, NEW n \in SUBSET Parts
    PROVE  RulesOf(n) \in Linked[components] <=> Connected(RulesOf(n))
<1>1. RulesOf(n) \subseteq UNION Range(components)
    BY NodeParts
<1> QED
    BY <1>1 DEF Linked

LEMMA ComposedSync ==
    ASSUME NEW n, NEW h, NEW P, NEW gone, Composing(n, h, P, gone)
    PROVE  Synchronous'
<1> DEFINE Good(m) == Connected(RulesOf(m)) /\ On(RulesOf(m)) \cap Off(RulesOf(m)) = {}
<1>1. components \in Connectors /\ n \in Live /\ \A m \in Live : m \in SUBSET Parts
    BY LiveNodes DEF Composing
<1>2. \A m \in Live : Good(m)
    BY <1>1, LinkedAre DEF Composing, Synchronous
<1>3. \A m \in Live' : m \in SUBSET Parts /\ Good(m)
    <2> SUFFICES ASSUME NEW m \in Live'
                 PROVE  m \in SUBSET Parts /\ Good(m)
        OBVIOUS
    <2>1. CASE m \in Live
        BY <1>1, <1>2, <2>1
    <2>2. ASSUME NEW r \in P, m = r \cup n
          PROVE  m \in SUBSET Parts /\ Good(m)
        <3>1. r \in Live /\ CanSync(r, n)
            BY ComposedNodes DEF Composing, Composes
        <3>2. Good(r \cup n)
            BY <1>1, <1>2, <3>1, SyncUnion
        <3>3. r \cup n \in SUBSET Parts
            BY <1>1, <3>1
        <3> QED
            BY <2>2, <3>2, <3>3
    <2> QED
        BY <2>1, <2>2, ComposedNodes
<1>4. \A m \in Live' : RulesOf(m) \in Linked[components]
    BY <1>1, <1>3, LinkedAre
<1> QED
    BY <1>3, <1>4 DEF Composing, Synchronous

LEMMA ComposedLeaves ==
    ASSUME NEW n, NEW h, NEW P, NEW gone, Composing(n, h, P, gone)
    PROVE  LeavesOK'
<1>1. ASSUME NEW e \in Hyperedges, NEW m \in target[e]
      PROVE  LeafOf(m, e)
    BY DEF Composing, LeavesOK
<1>2. ASSUME NEW e \in Hyperedges, NEW r \in P, r \in target[e] \/ (n \in target[e] /\ e # h)
      PROVE  LeafOf(r \cup n, e)
    <2>1. PICK q \in {r, n} : q \in target[e]
        BY <1>2
    <2>2. CanSync(r, n)
        BY DEF Composing, Composes
    <2>3. e[2] # Hidden
        BY <2>1, <2>2, SilentAlone DEF Composing
    <2>4. ActiveIn(q, e)
        BY <1>1, <2>1, <2>3 DEF LeafOf
    <2> QED
        BY <2>3, <2>4 DEF ActiveIn, LeafOf
<1>3. \A e \in Hyperedges : \A m \in target'[e] : LeafOf(m, e)
    BY <1>1, <1>2, ComposedNodes
<1>4. Hyperedges' = Hyperedges /\ \A m, e : LeafOf(m, e)' <=> LeafOf(m, e)
    BY ComposedNodes DEF Composing, LeafOf, ActiveIn
<1> QED
    BY <1>3, <1>4 DEF LeavesOK

\* Nodes still hang from the hyperedges that are intact, other than h.
LEMMA ComposedHangs ==
    ASSUME NEW n, NEW h, NEW P, NEW gone, Composing(n, h, P, gone)
    PROVE  \A m \in Live' : \A e \in Intact \ {h} : ActiveIn(m, e) => m \in target'[e]
<1> SUFFICES ASSUME NEW m \in Live', NEW e \in Intact \ {h}, ActiveIn(m, e)
             PROVE  m \in target'[e]
    OBVIOUS
<1>1. e \in Hyperedges /\ n \in Live
    BY LiveNodes DEF Composing
<1>2. CASE m \in Live \ gone
    <2>1. m \in target[e]
        BY <1>2 DEF Composing, HangsOK
    <2> QED
        BY <1>1, <1>2, <2>1, ComposedNodes
<1>3. ASSUME NEW r \in P, m = r \cup n
      PROVE  m \in target'[e]
    <2>1. ActiveIn(r, e) \/ ActiveIn(n, e)
        BY <1>3 DEF ActiveIn
    <2>2. r \in Live
        BY ComposedNodes
    <2>3. r \in target[e] \/ n \in target[e]
        BY <1>1, <2>1, <2>2 DEF Composing, HangsOK
    <2> QED
        BY <1>1, <1>3, <2>3, ComposedNodes
<1> QED
    BY <1>2, <1>3, ComposedNodes

-----------------------------------------------------------------------------
(* Hyperedges that share their nodes                                       *)

\* The nodes L have the parts that rules of the product want of them at all
\* hyperedges but those of B.
Merged(L, B) == \A T \in Reference[components] : \A n \in L : RulesOf(n) \subseteq T =>
    \A e, f \in Hyperedges \ B :
        e[2] = f[2] /\ ActiveIn(n, e) /\ (\E r \in T \cap components[f[1]] : f[2] \in r.on)
            => ActiveIn(n, f)

LEMMA MergedMeans ==
    /\ MergedOK <=> Merged(Live, Behind)
    /\ components' = components /\ Hyperedges' = Hyperedges =>
           (MergedOK' <=> Merged(Live', Behind'))
<1>1. MergedOK <=> Merged(Live, Behind)
    BY DEF MergedOK, Merged, Within
<1>2. ASSUME components' = components, Hyperedges' = Hyperedges
      PROVE  MergedOK' <=> Merged(Live', Behind')
    BY <1>2 DEF MergedOK, Merged, Within, ActiveIn
<1> QED
    BY <1>1, <1>2

LEMMA ComposedMerged ==
    ASSUME NEW n, NEW h, NEW P, NEW gone, Composing(n, h, P, gone), MergedOK
    PROVE  Merged(Live', Behind)
<1> SUFFICES ASSUME NEW T \in Reference[components], NEW m \in Live', RulesOf(m) \subseteq T,
                    NEW e \in Hyperedges \ Behind, NEW f \in Hyperedges \ Behind,
                    e[2] = f[2], ActiveIn(m, e), \E r \in T \cap components[f[1]] : f[2] \in r.on
             PROVE  ActiveIn(m, f)
    BY DEF Merged
<1>1. Merged(Live, Behind) /\ n \in Live
    BY MergedMeans, LiveNodes DEF Composing
<1>2. CASE m \in Live
    BY <1>1, <1>2 DEF Merged
<1>3. ASSUME NEW r \in P, m = r \cup n
      PROVE  ActiveIn(m, f)
    <2>1. r \in Live /\ RulesOf(r) \subseteq T /\ RulesOf(n) \subseteq T
        BY <1>3, RulesUnion, ComposedNodes
    <2>2. PICK q \in {r, n} : ActiveIn(q, e)
        BY <1>3 DEF ActiveIn
    <2>3. ActiveIn(q, f)
        BY <1>1, <2>1, <2>2 DEF Merged
    <2> QED
        BY <1>3, <2>3 DEF ActiveIn
<1> QED
    BY <1>2, <1>3, ComposedNodes

\* A part of the product at each hyperedge of its active ports.
LEMMA HasPart ==
    ASSUME EdgesOK, NEW T \in Reference[components], NEW e \in Hyperedges, e[2] \in On(T)
    PROVE  \E r \in T \cap components[e[1]] : e[2] \in r.on
<1>1. components \in Connectors /\ e \in Edges(components)
    BY LiveNodes
<1>2. PICK r \in components[e[1]] : e[2] \in Roots(r)
    BY <1>1, EdgesAre
<1>3. e[2] # Hidden
    BY <1>1, NeverHidden
<1>4. e[2] \in r.on
    BY <1>2, <1>3 DEF Roots
<1>5. e[1] \in DOMAIN components /\ e[2] \in On(components[e[1]])
    BY <1>1, <1>2, <1>4, EdgesAre DEF On
<1> QED
    BY <1>1, <1>5, ProductFacts

\* When the nodes of base are those of h, h is no longer behind.
LEMMA NowMerged ==
    ASSUME EdgesOK, NEW h \in Hyperedges, base \in Hyperedges \ Behind, h[2] = base[2], NEW L,
           \A m \in L : m \in SUBSET Parts /\ (ActiveIn(m, base) <=> ActiveIn(m, h)),
           Merged(L, Behind)
    PROVE  Merged(L, Behind \ {h})
<1> SUFFICES ASSUME NEW T \in Reference[components], NEW m \in L, RulesOf(m) \subseteq T,
                    NEW e \in Hyperedges \ (Behind \ {h}), NEW f \in Hyperedges \ (Behind \ {h}),
                    e[2] = f[2], ActiveIn(m, e), \E r \in T \cap components[f[1]] : f[2] \in r.on
             PROVE  ActiveIn(m, f)
    BY DEF Merged
<1>1. components \in Connectors /\ Hyperedges = Edges(components)
    BY LiveNodes
<1>2. e[2] \in On(T)
    BY <1>1, ActivePorts, OnSubset
<1>3. CASE e # h /\ f # h
    BY <1>3 DEF Merged
<1>4. CASE e # h /\ f = h
    <2>1. \E r \in T \cap components[base[1]] : base[2] \in r.on
        BY <1>2, <1>4, HasPart
    <2>2. ActiveIn(m, base)
        BY <1>4, <2>1 DEF Merged
    <2> QED
        BY <1>4, <2>2
<1>5. CASE e = h /\ f # h
    <2>1. ActiveIn(m, base)
        BY <1>5
    <2> QED
        BY <1>5, <2>1 DEF Merged
<1> QED
    BY <1>3, <1>4, <1>5

-----------------------------------------------------------------------------
(* A single leaf is composed                                               *)

\* The leaves of two hyperedges of silent rules differ.
LEMMA SilentLeaf ==
    ASSUME EdgesOK, LeavesOK, NEW e \in Hyperedges, NEW f \in Hyperedges,
           e[2] = Hidden, f[2] = Hidden, NEW m \in target[e], m \in target[f]
    PROVE  e = f
<1>1. PICK r \in components[e[1]] : m = {<<e[1], r>>}
    BY DEF LeavesOK, LeafOf
<1>2. PICK s \in components[f[1]] : m = {<<f[1], s>>}
    BY DEF LeavesOK, LeafOf
<1>3. <<e[1], r>> = <<f[1], s>>
    BY <1>1, <1>2
<1>4. e[1] = f[1]
    BY <1>3
<1> QED
    BY <1>4, LiveNodes

\* A third hyperedge of a port has other leaves: only silent rules hang there.
LEMMA ThirdEdge ==
    ASSUME EdgesOK, LeavesOK, at # "visit", NEW h \in Hyperedges \ {base}, h[2] = base[2],
           NEW e \in rest, e # h, NEW m \in target[e]
    PROVE  m \notin target[base] /\ m \notin target[h]
<1>1. /\ base \in Hyperedges /\ e \in Hyperedges /\ e # base /\ e[2] = base[2]
      /\ components \in Connectors /\ Hyperedges = Edges(components)
    BY LiveNodes DEF EdgesOK
<1>2. e[1] # base[1] /\ e[1] # h[1] /\ h[1] # base[1]
    BY <1>1, LiveNodes
<1>3. base[2] = Hidden
    <2> SUFFICES ASSUME base[2] # Hidden
                 PROVE  FALSE
        OBVIOUS
    <2>1. ASSUME NEW g \in Hyperedges, g[2] # Hidden
          PROVE  g[1] \in DOMAIN components /\ g[2] \in On(components[g[1]])
        <3>1. PICK r \in components[g[1]] : g[2] \in Roots(r)
            BY <1>1, EdgesAre
        <3> QED
            BY <1>1, <2>1, <3>1, EdgesAre DEF Roots, On
    <2> QED
        BY <1>1, <1>2, <2>1, ConnectorFacts
<1> QED
    BY <1>1, <1>3, SilentLeaf

\* ComposeSingle, for leaf n of h.
Single(h, n) ==
    /\ at = "compose" /\ h \in rest /\ target[h] = {n}
    /\ LET equal == {r \in target[base] : CanSync(r, n) /\ RulesOf(r) = RulesOf(n)}
       IN  target' = Composed(n, h, {r \in target[base] : Composes(r, n)},
                              (target[base] \ equal) \cup (IF equal = {} THEN {n} ELSE {}))
    /\ rest' = rest \ {h}
    /\ UNCHANGED <<components, unvisited, at, base, loopVars>>

LEMMA SingleIs ==
    ASSUME NEW h, ComposeSingle(h)
    PROVE  \E n : Single(h, n)
BY DEF ComposeSingle, Single

\* What is composed, and what goes: n stays when it is a leaf of base.
LEMMA SingleComposes ==
    ASSUME HypergraphInv, NEW h, NEW n, Single(h, n)
    PROVE  \E P, gone :
              /\ Composing(n, h, P, gone)
              /\ P = {r \in target[base] : Composes(r, n)}
              /\ gone \subseteq target[base] \cup {n}
              /\ \A m \in gone : m = n => n \notin target[base]
              /\ \A m \in target[base] : m # n => m \in gone
              /\ n \notin target[base] => n \in gone
<1> DEFINE equal == {r \in target[base] : CanSync(r, n) /\ RulesOf(r) = RulesOf(n)}
           P == {r \in target[base] : Composes(r, n)}
           gone == (target[base] \ equal) \cup (IF equal = {} THEN {n} ELSE {})
<1>1. /\ h \in Hyperedges /\ base \in Hyperedges /\ base # h /\ base[2] = h[2] /\ n \in target[h]
      /\ components \in Connectors
    BY LiveNodes DEF Single, HypergraphInv, EdgesOK
<1>2. Composing(n, h, P, gone)
    BY <1>1 DEF Single, HypergraphInv, Composing
<1>3. n \in SUBSET Parts /\ \A r \in target[base] : r \in SUBSET Parts
    BY <1>1, LiveNodes DEF HypergraphInv
<1>4. equal \subseteq {n}
    BY <1>1, <1>3, NodeIsItsRules
<1>5. n \in target[base] => n \in equal \/ base[2] = Hidden
    <2> SUFFICES ASSUME n \in target[base], base[2] # Hidden
                 PROVE  n \in equal
        OBVIOUS
    <2>1. ActiveIn(n, base)
        BY <1>1 DEF HypergraphInv, LeavesOK, LeafOf
    <2>2. base[2] \in On(RulesOf(n))
        BY <1>1, <1>3, <2>1, ActivePorts, LiveNodes DEF HypergraphInv
    <2>3. On(RulesOf(n)) \cap Off(RulesOf(n)) = {}
        BY <1>1, LiveNodes DEF HypergraphInv, Synchronous
    <2> QED
        BY <2>2, <2>3 DEF CanSync
<1>6. base[2] = Hidden => n \notin target[base]
    <2> SUFFICES ASSUME base[2] = Hidden, n \in target[base]
                 PROVE  FALSE
        OBVIOUS
    <2> QED
        BY <1>1, SilentLeaf DEF HypergraphInv
<1> HIDE DEF equal
<1>7. /\ gone \subseteq target[base] \cup {n}
      /\ \A m \in gone : m = n => n \notin target[base]
      /\ \A m \in target[base] : m # n => m \in gone
      /\ n \notin target[base] => n \in gone
    <2>1. equal \subseteq target[base]
        BY DEF equal
    <2> QED
        BY <1>4, <1>5, <1>6, <2>1
<1> QED
    BY <1>2, <1>7

\* The leaves that the product needs are active.
LEMMA NotSilent ==
    ASSUME EdgesOK, LeavesOK, NEW T \in Reference[components],
           NEW e \in Hyperedges, NEW m \in target[e], RulesOf(m) \subseteq T
    PROVE  /\ ActiveIn(m, e) /\ e[2] \in On(RulesOf(m)) /\ e[2] \in On(T)
           /\ m \in SUBSET Parts
<1>1. components \in Connectors /\ e \in Edges(components) /\ m \in SUBSET Parts
    BY LiveNodes
<1>2. e[2] # Hidden
    <2> SUFFICES ASSUME e[2] = Hidden
                 PROVE  FALSE
        OBVIOUS
    <2>1. PICK r \in components[e[1]] : m = {<<e[1], r>>} /\ r.on = {}
        BY DEF LeavesOK, LeafOf
    <2>2. r \in T
        BY <2>1 DEF RulesOf
    <2> QED
        BY <1>1, <2>1, <2>2, ProductFacts
<1>3. ActiveIn(m, e)
    BY <1>2 DEF LeavesOK, LeafOf
<1> QED
    BY <1>1, <1>3, ActivePorts, OnSubset

\* Two leaves of a port that the product needs are composed.
LEMMA Joined ==
    ASSUME EdgesOK, LeavesOK, NEW T \in Reference[components],
           NEW e \in Hyperedges, NEW f \in Hyperedges, e[2] = f[2],
           NEW m \in target[e], NEW n \in target[f],
           RulesOf(m) \subseteq T, RulesOf(n) \subseteq T
    PROVE  /\ CanSync(m, n) /\ (m # n => Composes(m, n))
           /\ RulesOf(m \cup n) \subseteq T /\ RulesOf(m \cup n) = RulesOf(m) \cup RulesOf(n)
<1>1. m \in SUBSET Parts /\ n \in SUBSET Parts /\ components \in Connectors
    BY LiveNodes
<1>2. e[2] \in On(RulesOf(m)) /\ e[2] \in On(RulesOf(n))
    BY NotSilent
<1> QED
    BY <1>1, <1>2, Meet, RulesUnion

LEMMA DerivableNext ==
    ASSUME components' = components,
           \A T \in Reference[components] : \A r \in T :
               \E n \in Live' : r \in RulesOf(n) /\ RulesOf(n) \subseteq T
    PROVE  Derivable'
<1>1. \A T \in Reference[components] :
          T = UNION {RulesOf(n) : n \in {m \in Live' : RulesOf(m) \subseteq T}}
    BY DerivedUnion
<1> QED
    BY <1>1 DEF Derivable

\* The hyperedges that are left after h.
LEMMA SingleEdges ==
    ASSUME HypergraphInv, NEW h, NEW n, Single(h, n), Hyperedges' = Hyperedges
    PROVE  /\ at' = "compose" /\ Intact' = Intact \ {h} /\ Behind' = Behind \ {h} /\ h \in Behind
           /\ base' = base /\ base \in Hyperedges \ Behind /\ components' = components
           /\ h \in Hyperedges \ {base} /\ h[2] = base[2] /\ h \in Intact /\ base \in Intact
<1>1. /\ at = "compose" /\ at' = at /\ h \in rest /\ rest' = rest \ {h} /\ components' = components
      /\ base' = base /\ unvisited' = unvisited
    BY DEF Single
<1>2. /\ base \in Hyperedges /\ base[2] \notin unvisited
      /\ rest \subseteq {e \in Hyperedges \ {base} : e[2] = base[2]}
    BY <1>1 DEF HypergraphInv, EdgesOK
<1>3. Awaiting' = Awaiting \ {h} /\ h \in Awaiting /\ base \notin Awaiting
    BY <1>1, <1>2 DEF Awaiting
<1>4. Intact = Awaiting \cup {base} /\ Behind = Awaiting
    BY <1>1 DEF Intact, Behind
<1>5. Intact' = Awaiting' \cup {base} /\ Behind' = Awaiting'
    BY <1>1 DEF Intact, Behind
<1> QED
    BY <1>1, <1>2, <1>3, <1>4, <1>5

LEMMA SingleDerives ==
    ASSUME HypergraphInv, NEW h, NEW n, Single(h, n)
    PROVE  Derivable'
<1>1. PICK P, gone : /\ Composing(n, h, P, gone)
                     /\ P = {r \in target[base] : Composes(r, n)}
                     /\ gone \subseteq target[base] \cup {n}
                     /\ \A m \in gone : m = n => n \notin target[base]
                     /\ \A m \in target[base] : m # n => m \in gone
                     /\ n \notin target[base] => n \in gone
    BY SingleComposes
<1>2. /\ EdgesOK /\ LeavesOK /\ HangsOK /\ Derivable /\ n \in target[h] /\ base # h /\ h[2] = base[2]
      /\ h \in Hyperedges /\ base \in Hyperedges /\ components' = components
      /\ h \in Intact /\ base \in Intact /\ target[h] = {n}
    <2>1. Hyperedges' = Hyperedges
        BY <1>1, ComposedNodes
    <2> QED
        BY <1>1, <2>1, SingleEdges DEF HypergraphInv, Composing, Single
<1> SUFFICES ASSUME NEW T \in Reference[components], NEW t \in T
             PROVE  \E m \in Live' : t \in RulesOf(m) /\ RulesOf(m) \subseteq T
    BY <1>2, DerivableNext
<1>3. PICK m \in Live : t \in RulesOf(m) /\ RulesOf(m) \subseteq T
    BY <1>2, DerivedUnion DEF Derivable
<1>4. CASE m \notin gone
    <2>1. PICK e \in Hyperedges : m \in target[e]
        BY <1>2, <1>3, LiveNodes
    <2>2. m \in target'[e] \/ (m \in target[base] /\ m \in target'[base])
        BY <1>1, <1>2, <1>4, <2>1, ComposedNodes
    <2>3. m \in Live'
        BY <1>1, <1>2, <2>2, ComposedNodes DEF Live, Range, Hyperedges
    <2> QED
        BY <1>3, <2>3
<1>5. CASE m \in gone
    <2>1. base[2] \in On(T)
        BY <1>1, <1>2, <1>3, <1>5, NotSilent
    <2>2. RulesOf(n) \subseteq T
        BY <1>2, <2>1, HasLeaf
    <2>3. PICK b \in target[base] : RulesOf(b) \subseteq T /\ b # n /\ t \in RulesOf(b) \cup RulesOf(n)
        BY <1>1, <1>2, <1>3, <1>5, <2>1, HasLeaf
    <2>4. Composes(b, n) /\ RulesOf(b \cup n) \subseteq T /\ RulesOf(b \cup n) = RulesOf(b) \cup RulesOf(n)
        BY <1>2, <2>2, <2>3, Joined
    <2>5. b \cup n \in Live'
        BY <1>1, <2>3, <2>4, ComposedNodes
    <2> QED
        BY <2>3, <2>4, <2>5
<1> QED
    BY <1>4, <1>5

\* After it the nodes of base and h are the same.
LEMMA SingleShares ==
    ASSUME HypergraphInv, NEW h, NEW n, Single(h, n), NEW m \in Live'
    PROVE  m \in SUBSET Parts /\ (ActiveIn(m, base) <=> ActiveIn(m, h))
<1>1. PICK P, gone : /\ Composing(n, h, P, gone)
                     /\ P = {r \in target[base] : Composes(r, n)}
                     /\ gone \subseteq target[base] \cup {n}
                     /\ \A l \in gone : l = n => n \notin target[base]
                     /\ \A l \in target[base] : l # n => l \in gone
                     /\ n \notin target[base] => n \in gone
    BY SingleComposes
<1>2. /\ EdgesOK /\ LeavesOK /\ HangsOK /\ n \in target[h] /\ base # h /\ h[2] = base[2]
      /\ h \in Hyperedges /\ base \in Hyperedges /\ components \in Connectors
      /\ h \in Intact /\ base \in Intact /\ target[h] = {n} /\ Hyperedges = Edges(components)
      /\ \A l \in Live : l \in SUBSET Parts
    <2>1. Hyperedges' = Hyperedges
        BY <1>1, ComposedNodes
    <2> QED
        BY <1>1, <2>1, SingleEdges, LiveNodes DEF HypergraphInv, Composing, Single
<1>3. base[2] # Hidden => ActiveIn(n, h) /\ \A l \in target[base] : ActiveIn(l, base)
    BY <1>2 DEF LeavesOK, LeafOf
<1>4. CASE m \in Live \ gone
    <2>1. ActiveIn(m, base) => m \in target[base] /\ base[2] # Hidden
        BY <1>2, <1>4, ActivePorts DEF HangsOK
    <2>2. ActiveIn(m, h) => m = n /\ base[2] # Hidden
        BY <1>2, <1>4, ActivePorts DEF HangsOK
    <2> QED
        BY <1>1, <1>2, <1>3, <1>4, <2>1, <2>2
<1>5. ASSUME NEW r \in P, m = r \cup n
      PROVE  m \in SUBSET Parts /\ (ActiveIn(m, base) <=> ActiveIn(m, h))
    <2>1. r \in target[base] /\ n \in Live /\ r \in Live /\ m \in SUBSET Parts
        BY <1>1, <1>2, <1>5, LiveNodes
    <2>2. ActiveIn(m, base) \/ ActiveIn(m, h) => base[2] # Hidden
        BY <1>2, <2>1, ActivePorts
    <2>3. base[2] # Hidden => ActiveIn(m, base) /\ ActiveIn(m, h)
        BY <1>3, <1>5, <2>1 DEF ActiveIn
    <2> QED
        BY <2>1, <2>2, <2>3
<1> QED
    BY <1>1, <1>4, <1>5, ComposedNodes

LEMMA SingleStep ==
    ASSUME HypergraphInv, NEW h, ComposeSingle(h)
    PROVE  HypergraphInv'
<1>1. PICK n : Single(h, n)
    BY SingleIs
<1>2. PICK P, gone : /\ Composing(n, h, P, gone)
                     /\ gone \subseteq target[base] \cup {n}
    BY <1>1, SingleComposes
<1>3. Hyperedges' = Hyperedges /\ target' \in [Edges(components) -> SUBSET SUBSET Parts]
    BY <1>2, ComposedNodes
<1>4. /\ EdgesOK /\ LeavesOK /\ HangsOK /\ RestOK /\ MergedOK /\ h \in rest
      /\ at' = "compose" /\ at = "compose" /\ Intact' = Intact \ {h} /\ Behind' = Behind \ {h}
      /\ base' = base /\ base \in Hyperedges \ Behind /\ components' = components
      /\ h \in Hyperedges \ {base} /\ h[2] = base[2] /\ rest' = rest \ {h} /\ n \in target[h]
      /\ unvisited' = unvisited /\ loopVars' = loopVars
    BY <1>1, <1>2, <1>3, SingleEdges DEF HypergraphInv, Single, Composing
<1>5. EdgesOK'
    BY <1>3, <1>4 DEF EdgesOK, loopVars, Parts
<1>6. LeavesOK' /\ Synchronous'
    BY <1>2, ComposedLeaves, ComposedSync
<1>7. HangsOK'
    <2>1. \A m \in Live' : \A e \in Intact' : ActiveIn(m, e) => m \in target'[e]
        BY <1>2, <1>4, ComposedHangs
    <2> QED
        BY <1>4, <2>1 DEF HangsOK, ActiveIn
<1>8. RestOK'
    <2> SUFFICES ASSUME NEW e \in rest \ {h}
                 PROVE  target'[e] # {}
        BY <1>4 DEF RestOK
    <2>1. PICK m \in target[e] : TRUE
        BY <1>4 DEF RestOK
    <2>2. m \notin target[base] /\ m \notin target[h] /\ e \in Hyperedges
        BY <1>4, <2>1, ThirdEdge DEF EdgesOK
    <2>3. m \in target'[e]
        BY <1>2, <1>4, <2>1, <2>2, ComposedNodes
    <2> QED
        BY <2>3
<1>9. PollOK' /\ PolledOK'
    BY <1>4 DEF PollOK, PolledOK
<1>10. Derivable'
    BY <1>1, SingleDerives
<1>11. MergedOK'
    <2>1. Merged(Live', Behind)
        BY <1>2, <1>4, ComposedMerged
    <2>2. \A m \in Live' : m \in SUBSET Parts /\ (ActiveIn(m, base) <=> ActiveIn(m, h))
        BY <1>1, SingleShares
    <2>3. Merged(Live', Behind \ {h})
        BY <1>4, <2>1, <2>2, NowMerged
    <2> QED
        BY <1>3, <1>4, <2>3, MergedMeans
<1> QED
    BY <1>5, <1>6, <1>7, <1>8, <1>9, <1>10, <1>11 DEF HypergraphInv

-----------------------------------------------------------------------------
(* Several leaves are polled                                               *)

\* What stays when no hyperedge changes.
LEMMA SameTargets ==
    ASSUME LeavesOK, Synchronous, Derivable, components' = components, target' = target
    PROVE  /\ LeavesOK' /\ Synchronous' /\ Derivable'
           /\ Hyperedges' = Hyperedges /\ Live' = Live /\ \A n, e : ActiveIn(n, e)' <=> ActiveIn(n, e)
<1>1. /\ Hyperedges' = Hyperedges /\ Live' = Live
      /\ \A n, e : ActiveIn(n, e)' <=> ActiveIn(n, e)
    BY DEF Hyperedges, Live, ActiveIn
<1>2. \A n, e : LeafOf(n, e)' <=> LeafOf(n, e)
    BY <1>1 DEF LeafOf
<1> QED
    BY <1>1, <1>2 DEF LeavesOK, Synchronous, Derivable

LEMMA SeveralStep ==
    ASSUME HypergraphInv, NEW h, ComposeSeveral(h)
    PROVE  HypergraphInv'
<1>1. /\ EdgesOK /\ LeavesOK /\ HangsOK /\ RestOK /\ MergedOK /\ Synchronous /\ Derivable
      /\ at = "compose" /\ h \in rest /\ rest' = rest \ {h} /\ at' = "poll"
      /\ other' = h /\ queue' = target[h] /\ same' = {} /\ list' = target[base]
      /\ UNCHANGED <<components, target, unvisited, base>>
    BY DEF ComposeSeveral, HypergraphInv
<1>2. /\ h \in Hyperedges \ {base} /\ h[2] = base[2] /\ base \in Hyperedges /\ base[2] \notin unvisited
    BY <1>1 DEF EdgesOK
<1>3. Awaiting' = Awaiting \ {h} /\ h \in Awaiting
    BY <1>1, <1>2, SameTargets DEF Awaiting
<1>4. /\ Intact = Awaiting \cup {base} /\ Intact' = Intact \ {h} /\ Behind' = Behind
    BY <1>1, <1>2, <1>3 DEF Intact, Behind
<1>5. LeavesOK' /\ Synchronous' /\ Derivable'
    BY <1>1, SameTargets
<1>6. EdgesOK'
    <2>1. other' \in Hyperedges' \ ({base'} \cup rest') /\ other'[2] = base'[2]
        BY <1>1, <1>2, SameTargets
    <2>2. queue' \subseteq target'[other'] /\ same' \subseteq list' /\ list' \subseteq target'[base']
        BY <1>1
    <2> QED
        BY <1>1, <2>1, <2>2, SameTargets DEF EdgesOK, Parts
<1>7. HangsOK' /\ RestOK'
    BY <1>1, <1>4, SameTargets DEF HangsOK, RestOK
<1>8. \A n \in Live : ActiveIn(n, h) => n \in target[h]
    BY <1>3, <1>4 DEF HangsOK, HypergraphInv
<1>9. PollOK'
    <2>1. target[base] \subseteq Live
        BY <1>1, <1>2, LiveNodes
    <2> QED
        BY <1>1, <1>8, <2>1, SameTargets DEF PollOK
<1>10. PolledOK'
    <2> SUFFICES ASSUME NEW T \in Reference[components], h[2] \in On(T)
                 PROVE  /\ \E n \in list' : RulesOf(n) \subseteq T
                        /\ queue' \cap Within(T)' # {}
        BY <1>1 DEF PolledOK
    <2>1. \E n \in target[base] : RulesOf(n) \subseteq T
        BY <1>1, <1>2, <1>4, HasLeaf
    <2>2. \E n \in target[h] : RulesOf(n) \subseteq T
        BY <1>1, <1>3, <1>4, HasLeaf
    <2> QED
        BY <1>1, <1>2, <2>1, <2>2, LiveNodes, SameTargets DEF Within
<1>11. MergedOK'
    BY <1>1, <1>4, MergedMeans, SameTargets
<1> QED
    BY <1>5, <1>6, <1>7, <1>9, <1>10, <1>11 DEF HypergraphInv

\* What is composed when a leaf is polled, and what goes.
LEMMA PollComposes ==
    ASSUME HypergraphInv, NEW n, Poll(n)
    PROVE  \E P, gone :
              /\ Composing(n, other, P, gone)
              /\ P = {r \in list : Composes(r, n)}
              /\ gone = {n} \ list /\ same' = same \cup ({n} \cap list)
<1> DEFINE equal == {r \in list : r = n /\ CanSync(r, n)}
           P == {r \in list : Composes(r, n)}
           gone == IF equal = {} THEN {n} ELSE {}
<1>1. /\ at = "poll" /\ n \in queue /\ components' = components /\ same' = same \cup equal
      /\ target' = Composed(n, other, {r \in list : Composes(n, r)}, gone)
    BY DEF Poll
<1>2. /\ EdgesOK /\ LeavesOK /\ HangsOK /\ Synchronous
      /\ other \in Hyperedges /\ base \in Hyperedges /\ base # other /\ base[2] = other[2]
      /\ n \in target[other] /\ list \subseteq target[base] /\ components \in Connectors
    BY <1>1, LiveNodes DEF HypergraphInv, EdgesOK
<1>3. P = {r \in list : Composes(n, r)}
    BY SyncIsSymmetric
<1>4. Composing(n, other, P, gone)
    BY <1>1, <1>2, <1>3 DEF Composing
<1>5. n \in list => CanSync(n, n)
    <2> SUFFICES ASSUME n \in list
                 PROVE  CanSync(n, n)
        OBVIOUS
    <2>1. base[2] # Hidden
        BY <1>2, SilentLeaf
    <2>2. ActiveIn(n, base) /\ n \in Live /\ n \in SUBSET Parts
        BY <1>2, <2>1, LiveNodes DEF LeavesOK, LeafOf
    <2>3. base[2] \in On(RulesOf(n))
        BY <1>2, <2>2, ActivePorts, LiveNodes
    <2>4. On(RulesOf(n)) \cap Off(RulesOf(n)) = {}
        BY <1>2, <2>2 DEF Synchronous
    <2> QED
        BY <2>3, <2>4 DEF CanSync
<1>6. equal = {n} \cap list
    BY <1>5
<1> HIDE DEF equal
<1>7. gone = {n} \ list
    BY <1>6
<1> QED
    BY <1>1, <1>4, <1>6, <1>7

LEMMA PollEdges ==
    ASSUME HypergraphInv, NEW n, Poll(n), Hyperedges' = Hyperedges
    PROVE  /\ at = "poll" /\ at' = "poll" /\ Intact' = Intact /\ Behind' = Behind /\ other \notin Intact
           /\ n \in queue /\ queue' = queue \ {n}
           /\ UNCHANGED <<components, unvisited, base, rest, other, list>>
           /\ other \in Hyperedges \ {base} /\ base \in Hyperedges /\ base[2] = other[2]
           /\ n \in target[other] /\ list \subseteq target[base] /\ components \in Connectors
           /\ queue \subseteq target[other] /\ same \subseteq list
<1>1. /\ at = "poll" /\ at' = at /\ n \in queue /\ queue' = queue \ {n}
      /\ UNCHANGED <<components, unvisited, base, rest, other, list>>
    BY DEF Poll
<1>2. /\ other \in Hyperedges \ ({base} \cup rest) /\ base \in Hyperedges /\ base[2] = other[2]
      /\ n \in target[other] /\ list \subseteq target[base] /\ base[2] \notin unvisited
      /\ components \in Connectors /\ queue \subseteq target[other] /\ same \subseteq list
    BY <1>1 DEF HypergraphInv, EdgesOK
<1>3. Intact' = Intact /\ Behind' = Behind
    BY <1>1 DEF Intact, Behind, Awaiting
<1>4. other \notin Intact
    BY <1>1, <1>2 DEF Intact, Awaiting
<1> QED
    BY <1>1, <1>2, <1>3, <1>4

LEMMA PollDerives ==
    ASSUME HypergraphInv, NEW n, Poll(n)
    PROVE  Derivable'
<1>1. PICK P, gone : /\ Composing(n, other, P, gone)
                     /\ P = {r \in list : Composes(r, n)}
                     /\ gone = {n} \ list
    BY PollComposes
<1>2. /\ EdgesOK /\ LeavesOK /\ HangsOK /\ Derivable /\ PolledOK /\ at = "poll" /\ n \in target[other]
      /\ base # other /\ other[2] = base[2] /\ other \in Hyperedges /\ base \in Hyperedges
      /\ components' = components /\ list \subseteq target[base]
    BY <1>1, ComposedNodes, PollEdges DEF HypergraphInv
<1> SUFFICES ASSUME NEW T \in Reference[components], NEW t \in T
             PROVE  \E m \in Live' : t \in RulesOf(m) /\ RulesOf(m) \subseteq T
    BY <1>2, DerivableNext
<1>3. PICK m \in Live : t \in RulesOf(m) /\ RulesOf(m) \subseteq T
    BY <1>2, DerivedUnion DEF Derivable
<1>4. CASE m \notin gone
    <2>1. PICK e \in Hyperedges : m \in target[e]
        BY <1>2, <1>3, LiveNodes
    <2>2. m \in target'[e] \/ (m \in target[base] /\ m \in target'[base])
        BY <1>1, <1>2, <1>4, <2>1, ComposedNodes
    <2>3. m \in Live'
        BY <1>1, <1>2, <2>2, ComposedNodes DEF Live, Range, Hyperedges
    <2> QED
        BY <1>3, <2>3
<1>5. CASE m \in gone
    <2>1. m = n /\ n \notin list
        BY <1>1, <1>5
    <2>2. other[2] \in On(T)
        BY <1>2, <1>3, <2>1, NotSilent
    <2>3. PICK b \in list : RulesOf(b) \subseteq T
        BY <1>2, <2>2 DEF PolledOK
    <2>4. Composes(b, n) /\ RulesOf(b \cup n) \subseteq T /\ RulesOf(b \cup n) = RulesOf(b) \cup RulesOf(n)
        BY <1>2, <1>3, <2>1, <2>3, Joined
    <2>5. b \cup n \in Live'
        BY <1>1, <2>3, <2>4, ComposedNodes
    <2> QED
        BY <1>3, <2>1, <2>4, <2>5
<1> QED
    BY <1>4, <1>5

LEMMA PollKeeps ==
    ASSUME HypergraphInv, NEW n, Poll(n)
    PROVE  PollOK'
<1>1. PICK P, gone : /\ Composing(n, other, P, gone)
                     /\ P = {r \in list : Composes(r, n)}
                     /\ gone = {n} \ list /\ same' = same \cup ({n} \cap list)
    BY PollComposes
<1>2. Hyperedges' = Hyperedges
    BY <1>1, ComposedNodes
<1>3. /\ EdgesOK /\ LeavesOK /\ PollOK /\ at = "poll" /\ at' = "poll" /\ n \in queue /\ queue' = queue \ {n}
      /\ UNCHANGED <<components, base, other, list>> /\ n \in target[other] /\ base # other
      /\ other \in Hyperedges /\ base \in Hyperedges /\ base[2] = other[2] /\ list \subseteq target[base]
    BY <1>2, PollEdges DEF HypergraphInv
<1>4. \A m, e : ActiveIn(m, e)' <=> ActiveIn(m, e)
    BY <1>3 DEF ActiveIn
<1>5. n \in list \/ P # {} => ActiveIn(n, other) /\ other[2] # Hidden
    <2>1. n \in list => other[2] # Hidden
        BY <1>3, SilentLeaf
    <2>2. P # {} => other[2] # Hidden
        BY <1>1, <1>3, SilentAlone DEF Composes
    <2> QED
        BY <1>3, <2>1, <2>2 DEF LeavesOK, LeafOf
<1>6. other[2] # Hidden => \A m \in list : ActiveIn(m, base)
    BY <1>3 DEF LeavesOK, LeafOf
<1>7. \A m \in list : ActiveIn(m, other) => m \in queue' \cup same'
    BY <1>1, <1>3 DEF PollOK
<1>8. \A m \in same' : ActiveIn(m, other)
    BY <1>1, <1>3, <1>5 DEF PollOK
<1>9. \A m \in target'[base] \ list : ActiveIn(m, other)
    <2> SUFFICES ASSUME NEW m \in target'[base] \ list
                 PROVE  ActiveIn(m, other)
        OBVIOUS
    <2>1. CASE m \in target[base]
        BY <1>3, <2>1 DEF PollOK
    <2>2. ASSUME NEW r \in P, m = r \cup n
          PROVE  ActiveIn(m, other)
        BY <1>5, <2>2 DEF ActiveIn
    <2> QED
        BY <1>1, <1>3, <2>1, <2>2, ComposedNodes
<1>10. \A m \in Live' : ActiveIn(m, other) => m \in queue' \/ ActiveIn(m, base)
    <2> SUFFICES ASSUME NEW m \in Live', ActiveIn(m, other)
                 PROVE  m \in queue' \/ ActiveIn(m, base)
        OBVIOUS
    <2>1. CASE m \in Live \ gone
        BY <1>1, <1>3, <1>5, <1>6, <2>1 DEF PollOK
    <2>2. ASSUME NEW r \in P, m = r \cup n
          PROVE  ActiveIn(m, base)
        <3>1. ActiveIn(r, base)
            BY <1>1, <1>5, <1>6
        <3> QED
            BY <2>2, <3>1 DEF ActiveIn
    <2> QED
        BY <1>1, <2>1, <2>2, ComposedNodes
<1> QED
    BY <1>3, <1>4, <1>7, <1>8, <1>9, <1>10 DEF PollOK

LEMMA PollLoses ==
    ASSUME HypergraphInv, NEW n, Poll(n), PollOK'
    PROVE  PolledOK'
<1>1. PICK P, gone : /\ Composing(n, other, P, gone)
                     /\ P = {r \in list : Composes(r, n)}
                     /\ gone = {n} \ list /\ same' = same \cup ({n} \cap list)
    BY PollComposes
<1>2. Hyperedges' = Hyperedges
    BY <1>1, ComposedNodes
<1>3. /\ EdgesOK /\ LeavesOK /\ PolledOK /\ at = "poll" /\ at' = "poll" /\ n \in queue /\ queue' = queue \ {n}
      /\ UNCHANGED <<components, base, other, list>> /\ n \in target[other] /\ base # other
      /\ other \in Hyperedges /\ base \in Hyperedges /\ base[2] = other[2] /\ list \subseteq target[base]
      /\ queue \subseteq target[other]
    BY <1>2, PollEdges DEF HypergraphInv
<1>4. \A m \in list : ActiveIn(m, other) => m \in queue' \cup same'
    BY <1>3 DEF PollOK, ActiveIn
<1> SUFFICES ASSUME NEW T \in Reference[components], other[2] \in On(T)
             PROVE  /\ \E m \in list : RulesOf(m) \subseteq T
                    /\ \A l \in list \ same' : RulesOf(l) \subseteq T =>
                          \/ queue' \cap Within(T)' # {}
                          \/ \E m \in Within(T)' \ (list \ same') : RulesOf(l) \subseteq RulesOf(m)
    BY <1>3 DEF PolledOK
<1>5. \E m \in list : RulesOf(m) \subseteq T
    BY <1>3 DEF PolledOK
<1>6. \A m \in queue' : RulesOf(m) \subseteq T => m \in Within(T)'
    <2>1. \A m \in queue' : m \in target'[other]
        BY <1>1, <1>3, ComposedNodes
    <2> QED
        BY <1>2, <1>3, <2>1 DEF Within, Live, Range, Hyperedges
<1> SUFFICES ASSUME NEW l \in list \ same', RulesOf(l) \subseteq T
             PROVE  \/ queue' \cap Within(T)' # {}
                    \/ \E m \in Within(T)' \ (list \ same') : RulesOf(l) \subseteq RulesOf(m)
    BY <1>5
<1>7. CASE RulesOf(n) \subseteq T
    <2>1. l # n
        BY <1>1
    <2>2. Composes(l, n) /\ RulesOf(l \cup n) \subseteq T /\ RulesOf(l \cup n) = RulesOf(l) \cup RulesOf(n)
        BY <1>3, <1>7, <2>1, Joined
    <2>3. l \cup n \in Within(T)' /\ RulesOf(l) \subseteq RulesOf(l \cup n)
        <3>1. l \in P
            BY <1>1, <2>2
        <3>2. l \cup n \in Live'
            BY <1>1, <3>1, ComposedNodes
        <3> QED
            BY <2>2, <3>2 DEF Within
    <2>4. CASE l \cup n \notin list \ same'
        BY <2>3, <2>4
    <2>5. CASE l \cup n \in list \ same'
        <3>1. ActiveIn(n, other)
            BY <1>3, <1>7, NotSilent
        <3>2. ActiveIn(l \cup n, other)
            BY <3>1 DEF ActiveIn
        <3>3. l \cup n \in queue'
            BY <1>4, <2>5, <3>2
        <3> QED
            BY <2>3, <3>3
    <2> QED
        BY <2>4, <2>5
<1>8. CASE ~(RulesOf(n) \subseteq T)
    <2>1. \/ queue \cap Within(T) # {}
          \/ \E m \in Within(T) \ (list \ same) : RulesOf(l) \subseteq RulesOf(m)
        BY <1>1, <1>3 DEF PolledOK
    <2>2. CASE queue \cap Within(T) # {}
        <3>1. PICK m \in queue \cap Within(T) : TRUE
            BY <2>2
        <3>2. m \in queue' /\ RulesOf(m) \subseteq T
            BY <1>3, <1>8, <3>1 DEF Within
        <3> QED
            BY <1>6, <3>2
    <2>3. ASSUME NEW m \in Within(T) \ (list \ same), RulesOf(l) \subseteq RulesOf(m)
          PROVE  m \in Within(T)' \ (list \ same')
        <3>1. m \in Live /\ m # n /\ RulesOf(m) \subseteq T
            BY <1>8 DEF Within
        <3>2. PICK e \in Hyperedges : m \in target[e]
            BY <1>3, <3>1, LiveNodes
        <3>3. m \in target'[e]
            BY <1>1, <3>1, <3>2, ComposedNodes
        <3>4. m \in Live'
            BY <1>2, <3>2, <3>3 DEF Live, Range, Hyperedges
        <3> QED
            BY <1>1, <3>1, <3>4 DEF Within
    <2> QED
        BY <2>1, <2>2, <2>3
<1> QED
    BY <1>7, <1>8

LEMMA PollStep ==
    ASSUME HypergraphInv, NEW n, Poll(n)
    PROVE  HypergraphInv'
<1>1. PICK P, gone : /\ Composing(n, other, P, gone)
                     /\ gone = {n} \ list /\ same' = same \cup ({n} \cap list)
    BY PollComposes
<1>2. Hyperedges' = Hyperedges /\ target' \in [Edges(components) -> SUBSET SUBSET Parts]
    BY <1>1, ComposedNodes
<1>3. /\ EdgesOK /\ LeavesOK /\ HangsOK /\ RestOK /\ MergedOK /\ at' = "poll" /\ at = "poll"
      /\ Intact' = Intact /\ Behind' = Behind /\ other \notin Intact
      /\ n \in queue /\ queue' = queue \ {n}
      /\ UNCHANGED <<components, unvisited, base, rest, other, list>>
      /\ other \in Hyperedges \ {base} /\ base \in Hyperedges /\ base[2] = other[2]
      /\ n \in target[other] /\ list \subseteq target[base]
      /\ queue \subseteq target[other] /\ same \subseteq list
    BY <1>2, PollEdges DEF HypergraphInv
<1>4. EdgesOK'
    <2>1. queue' \subseteq target'[other] /\ list \subseteq target'[base] /\ same' \subseteq list
        BY <1>1, <1>3, ComposedNodes
    <2> QED
        BY <1>2, <1>3, <2>1 DEF EdgesOK, Parts
<1>5. LeavesOK' /\ Synchronous'
    BY <1>1, ComposedLeaves, ComposedSync
<1>6. HangsOK'
    <2>1. \A m \in Live' : \A e \in Intact' : ActiveIn(m, e) => m \in target'[e]
        BY <1>1, <1>3, ComposedHangs
    <2> QED
        BY <1>3, <2>1 DEF HangsOK, ActiveIn
<1>7. RestOK'
    <2> SUFFICES ASSUME NEW e \in rest
                 PROVE  target'[e] # {}
        BY <1>3 DEF RestOK
    <2>1. PICK m \in target[e] : TRUE
        BY <1>3 DEF RestOK
    <2>2. e # other /\ e \in Hyperedges
        BY <1>3 DEF EdgesOK
    <2>3. m \notin target[other]
        BY <1>3, <2>1, <2>2, ThirdEdge
    <2>4. m \in target'[e]
        BY <1>1, <1>3, <2>1, <2>2, <2>3, ComposedNodes
    <2> QED
        BY <2>4
<1>8. MergedOK'
    <2>1. Merged(Live', Behind)
        BY <1>1, <1>3, ComposedMerged
    <2> QED
        BY <1>2, <1>3, <2>1, MergedMeans
<1> QED
    BY <1>4, <1>5, <1>6, <1>7, <1>8, PollDerives, PollKeeps, PollLoses DEF HypergraphInv

\* After the last leaf the nodes of base and of the other hyperedge are the same.
LEMMA RemoveShares ==
    ASSUME HypergraphInv, RemoveList
    PROVE  /\ Live' \subseteq Live
           /\ \A m \in Live' : m \in SUBSET Parts /\ (ActiveIn(m, base) <=> ActiveIn(m, other))
           /\ Hyperedges' = Hyperedges /\ base \in Hyperedges \ Behind /\ Behind' = Behind \ {other}
           /\ other \in Hyperedges /\ other[2] = base[2]
<1>1. /\ EdgesOK /\ HangsOK /\ PollOK /\ at = "poll" /\ queue = {} /\ at' = "compose"
      /\ UNCHANGED <<components, unvisited, base, rest>>
      /\ target' = [e \in Hyperedges |-> target[e] \ (list \ same)]
    BY DEF RemoveList, HypergraphInv
<1>2. Hyperedges' = Hyperedges /\ \A e \in Hyperedges : target'[e] = target[e] \ (list \ same)
    BY <1>1 DEF Hyperedges
<1>3. \A m \in Live' : m \in Live \ (list \ same)
    <2>1. \A m \in Live' : \E e \in Hyperedges : m \in target'[e]
        BY <1>2 DEF Live, Range, Hyperedges
    <2> QED
        BY <1>1, <1>2, <2>1, LiveNodes
<1>4. \A m \in Live' : m \in SUBSET Parts /\ (ActiveIn(m, base) <=> ActiveIn(m, other))
    <2> SUFFICES ASSUME NEW m \in Live'
                 PROVE  m \in SUBSET Parts /\ (ActiveIn(m, base) <=> ActiveIn(m, other))
        OBVIOUS
    <2>1. m \in Live /\ m \notin list \ same /\ m \in SUBSET Parts
        BY <1>1, <1>3, LiveNodes
    <2>2. base \in Intact
        BY <1>1 DEF Intact
    <2>3. ActiveIn(m, base) => m \in target[base]
        BY <1>1, <2>1, <2>2 DEF HangsOK
    <2> QED
        BY <1>1, <2>1, <2>3 DEF PollOK
<1>5. /\ other \in Hyperedges \ ({base} \cup rest) /\ base \in Hyperedges /\ base[2] = other[2]
      /\ base[2] \notin unvisited /\ base \notin rest
    BY <1>1 DEF EdgesOK
<1>6. Awaiting' = Awaiting /\ base \notin Awaiting /\ other \notin Awaiting
    BY <1>1, <1>2, <1>5 DEF Awaiting
<1>7. Behind = Awaiting \cup {other} /\ Behind' = Awaiting'
    BY <1>1 DEF Behind
<1> QED
    BY <1>2, <1>3, <1>4, <1>5, <1>6, <1>7

\* The leaves of base that were composed with others go.
LEMMA RemoveStep ==
    ASSUME HypergraphInv, RemoveList
    PROVE  HypergraphInv'
<1>1. /\ EdgesOK /\ LeavesOK /\ HangsOK /\ RestOK /\ MergedOK /\ Synchronous /\ Derivable
      /\ PollOK /\ PolledOK
      /\ at = "poll" /\ queue = {} /\ at' = "compose" /\ list' = {} /\ same' = {} /\ queue' = {}
      /\ UNCHANGED <<components, unvisited, base, rest>>
      /\ target' = [e \in Hyperedges |-> target[e] \ (list \ same)]
    BY DEF RemoveList, HypergraphInv
<1>2. /\ other \in Hyperedges \ ({base} \cup rest) /\ base \in Hyperedges /\ base[2] = other[2]
      /\ base[2] \notin unvisited /\ list \subseteq target[base] /\ same \subseteq list
      /\ components \in Connectors /\ Hyperedges = Edges(components)
    BY <1>1, LiveNodes DEF EdgesOK
<1>3. Hyperedges' = Hyperedges /\ \A e \in Hyperedges : target'[e] = target[e] \ (list \ same)
    BY <1>1 DEF Hyperedges
<1>4. \A m : m \in Live' <=> m \in Live \ (list \ same)
    <2>1. \A m : m \in Live' <=> \E e \in Hyperedges : m \in target'[e]
        BY <1>3 DEF Live, Range, Hyperedges
    <2> QED
        BY <1>1, <1>3, <2>1, LiveNodes
<1>5. \A n, e : (ActiveIn(n, e)' <=> ActiveIn(n, e)) /\ (LeafOf(n, e)' <=> LeafOf(n, e))
    BY <1>1 DEF ActiveIn, LeafOf
<1>6. Intact' = Intact /\ base \notin Behind /\ Behind' = Behind \ {other}
    <2>1. Awaiting' = Awaiting
        BY <1>1, <1>3 DEF Awaiting
    <2>2. base \notin Awaiting /\ other \notin Awaiting /\ base # other
        <3>1. base \notin rest
            BY <1>1 DEF EdgesOK
        <3> QED
            BY <1>2, <3>1 DEF Awaiting
    <2>3. Intact = Awaiting \cup {base} /\ Behind = Awaiting \cup {other}
        BY <1>1 DEF Intact, Behind
    <2>4. Intact' = Awaiting' \cup {base} /\ Behind' = Awaiting'
        BY <1>1 DEF Intact, Behind
    <2> QED
        BY <2>1, <2>2, <2>3, <2>4
<1>7. EdgesOK'
    <2>1. target' \in [Edges(components) -> SUBSET SUBSET Parts]
        BY <1>1, <1>2 DEF EdgesOK
    <2> QED
        BY <1>1, <1>2, <1>3, <2>1 DEF EdgesOK, Parts
<1>8. LeavesOK' /\ Synchronous'
    BY <1>1, <1>3, <1>4, <1>5 DEF LeavesOK, Synchronous
<1>9. HangsOK'
    BY <1>1, <1>3, <1>4, <1>5, <1>6, LiveNodes DEF HangsOK
<1>10. RestOK'
    <2> SUFFICES ASSUME NEW e \in rest
                 PROVE  target'[e] # {}
        BY <1>1 DEF RestOK
    <2>1. PICK m \in target[e] : TRUE
        BY <1>1 DEF RestOK
    <2>2. e # other /\ e \in Hyperedges
        BY <1>1, <1>2 DEF EdgesOK
    <2>3. m \notin target[base]
        BY <1>1, <1>2, <2>1, <2>2, ThirdEdge
    <2> QED
        BY <1>2, <1>3, <2>1, <2>2, <2>3
<1>11. PollOK' /\ PolledOK'
    BY <1>1 DEF PollOK, PolledOK
<1>12. Derivable'
    <2> SUFFICES ASSUME NEW T \in Reference[components], NEW t \in T
                 PROVE  \E m \in Live' : t \in RulesOf(m) /\ RulesOf(m) \subseteq T
        BY <1>1, DerivableNext
    <2>1. PICK m \in Live : t \in RulesOf(m) /\ RulesOf(m) \subseteq T
        BY <1>1, DerivedUnion DEF Derivable
    <2>2. CASE m \in list \ same
        <3>1. other[2] \in On(T)
            BY <1>1, <1>2, <2>1, <2>2, NotSilent
        <3>2. PICK l \in Within(T) \ (list \ same) : RulesOf(m) \subseteq RulesOf(l)
            BY <1>1, <2>1, <2>2, <3>1 DEF PolledOK
        <3> QED
            BY <1>4, <2>1, <3>2 DEF Within
    <2> QED
        BY <1>4, <2>1, <2>2
<1>13. MergedOK'
    <2>1. Merged(Live', Behind)
        BY <1>1, <1>4, MergedMeans DEF Merged
    <2>2. \A m \in Live' : m \in SUBSET Parts /\ (ActiveIn(m, base) <=> ActiveIn(m, other))
        BY RemoveShares
    <2>3. Merged(Live', Behind \ {other})
        BY <1>1, <1>2, <1>6, <2>1, <2>2, NowMerged
    <2> QED
        BY <1>1, <1>3, <1>6, <2>3, MergedMeans
<1> QED
    BY <1>7, <1>8, <1>9, <1>10, <1>11, <1>12, <1>13 DEF HypergraphInv

-----------------------------------------------------------------------------
(* Ports                                                                   *)

LEMMA VisitStep ==
    ASSUME HypergraphInv, NEW p, Visit(p)
    PROVE  HypergraphInv'
<1> DEFINE edges == {e \in Hyperedges : e[2] = p /\ target[e] # {}}
<1>1. /\ EdgesOK /\ LeavesOK /\ HangsOK /\ MergedOK /\ Synchronous /\ Derivable
      /\ at = "visit" /\ p \in unvisited /\ unvisited' = unvisited \ {p}
      /\ UNCHANGED <<components, target, loopVars>>
      /\ \/ edges = {} /\ UNCHANGED <<at, base, rest>>
         \/ base' \in edges /\ rest' = edges \ {base'} /\ at' = "compose"
    BY DEF Visit, HypergraphInv
<1>2. rest = {} /\ queue = {} /\ list = {} /\ same = {}
    BY <1>1 DEF EdgesOK
<1>3. LeavesOK' /\ Synchronous' /\ Derivable'
    BY <1>1, SameTargets
<1>4. /\ Awaiting = {e \in Hyperedges : e[2] \in unvisited}
      /\ Awaiting' = {e \in Hyperedges : e[2] \in unvisited \ {p}} \cup rest'
      /\ Intact = Awaiting /\ Behind = Awaiting
    BY <1>1, <1>2, SameTargets DEF Awaiting, Intact, Behind
<1>5. Intact' \subseteq Intact /\ Behind' = Awaiting'
    <2>1. rest' \subseteq edges /\ (at' # "visit" => base' \in edges) /\ at' # "poll"
        BY <1>1, <1>2
    <2>2. edges \subseteq Intact
        BY <1>1, <1>4
    <2> QED
        BY <1>4, <2>1, <2>2 DEF Intact, Behind
<1>6. EdgesOK'
    BY <1>1, <1>2, SameTargets DEF EdgesOK, Parts, loopVars
<1>7. HangsOK'
    BY <1>1, <1>5, SameTargets DEF HangsOK
<1>8. RestOK' /\ PollOK' /\ PolledOK'
    BY <1>1, <1>2 DEF RestOK, PollOK, PolledOK
<1>9. MergedOK'
    <2> SUFFICES ASSUME NEW T \in Reference[components], NEW n \in Live, RulesOf(n) \subseteq T,
                        NEW e \in Hyperedges \ Behind', NEW f \in Hyperedges \ Behind',
                        e[2] = f[2], ActiveIn(n, e), \E r \in T \cap components[f[1]] : f[2] \in r.on
                 PROVE  ActiveIn(n, f)
        BY <1>1, MergedMeans, SameTargets DEF Merged
    <2>1. CASE e[2] # p
        <3>1. e \notin Behind /\ f \notin Behind
            BY <1>4, <1>5, <2>1
        <3> QED
            BY <1>1, <3>1, MergedMeans DEF Merged
    <2>2. CASE e[2] = p
        <3>1. p \in On(T)
            BY <1>1, <2>2, LiveNodes, ActivePorts, OnSubset
        <3>2. e \in Intact /\ f \in Intact
            BY <1>1, <1>4, <2>2
        <3>3. e \in edges /\ f \in edges
            BY <1>1, <2>2, <3>1, <3>2, HasLeaf
        <3>4. e \notin rest' /\ f \notin rest'
            BY <1>4, <1>5
        <3>5. e = f
            BY <1>1, <3>3, <3>4
        <3> QED
            BY <3>5
    <2> QED
        BY <2>1, <2>2
<1> QED
    BY <1>3, <1>6, <1>7, <1>8, <1>9 DEF HypergraphInv

LEMMA LeaveStep ==
    ASSUME HypergraphInv, Leave
    PROVE  HypergraphInv'
<1>1. /\ EdgesOK /\ LeavesOK /\ HangsOK /\ MergedOK /\ Synchronous /\ Derivable
      /\ at = "compose" /\ rest = {} /\ at' = "visit"
      /\ UNCHANGED <<components, target, unvisited, base, rest, loopVars>>
    BY DEF Leave, HypergraphInv
<1>2. LeavesOK' /\ Synchronous' /\ Derivable'
    BY <1>1, SameTargets
<1>3. Intact' \subseteq Intact /\ Behind' = Behind
    BY <1>1, SameTargets DEF Intact, Behind, Awaiting
<1>4. EdgesOK'
    BY <1>1, SameTargets DEF EdgesOK, Parts, loopVars
<1>5. HangsOK'
    BY <1>1, <1>3, SameTargets DEF HangsOK
<1>6. RestOK' /\ PollOK' /\ PolledOK'
    BY <1>1 DEF RestOK, PollOK, PolledOK
<1>7. MergedOK'
    BY <1>1, <1>3, MergedMeans, SameTargets
<1> QED
    BY <1>2, <1>4, <1>5, <1>6, <1>7 DEF HypergraphInv

LEMMA HypergraphStutter ==
    ASSUME HypergraphInv, UNCHANGED vars
    PROVE  HypergraphInv'
<1>1. /\ UNCHANGED <<components, target, unvisited, at, base, rest, other, queue, list, same>>
      /\ EdgesOK /\ LeavesOK /\ HangsOK /\ RestOK /\ PollOK
      /\ Synchronous /\ Derivable /\ PolledOK /\ MergedOK
    BY DEF vars, loopVars, HypergraphInv
<1>2. LeavesOK' /\ Synchronous' /\ Derivable'
    BY <1>1, SameTargets
<1>3. Intact' = Intact /\ Behind' = Behind
    BY <1>1 DEF Intact, Behind, Awaiting, Hyperedges
<1>4. EdgesOK' /\ RestOK'
    BY <1>1 DEF EdgesOK, RestOK, Parts, Hyperedges
<1>5. HangsOK' /\ PollOK'
    BY <1>1, <1>3, SameTargets DEF HangsOK, PollOK
<1>6. PolledOK'
    BY <1>1 DEF PolledOK, Within, Live
<1>7. MergedOK'
    BY <1>1, <1>3, MergedMeans, SameTargets
<1> QED
    BY <1>2, <1>4, <1>5, <1>6, <1>7 DEF HypergraphInv

-----------------------------------------------------------------------------
(* The theorems                                                            *)

\* Two hyperedges of a port that will not be distributed are one.
LEMMA AloneAtFirst ==
    ASSUME Init, EdgesOK, NEW n \in Live, NEW e \in Hyperedges \ Behind, NEW f \in Hyperedges \ Behind,
           e[2] = f[2], ActiveIn(n, e)
    PROVE  e = f
<1>0. /\ components \in Connectors /\ target = Initial(components) /\ unvisited = Shared(components)
      /\ Hyperedges = Edges(components) /\ n \in SUBSET Parts
      /\ \A g \in Hyperedges : g = <<g[1], g[2]>> /\ g[1] \in DOMAIN components
    BY LiveNodes DEF Init
<1> DEFINE C == {c \in DOMAIN components : <<c, e[2]>> \in Hyperedges}
<1>1. e[2] \in On(UNION Range(components))
    <2>1. e[2] \in On(components[e[1]])
        BY <1>0, ActivePorts
    <2>2. components[e[1]] \subseteq UNION Range(components)
        BY <1>0 DEF Range
    <2> QED
        BY <2>1, <2>2, OnSubset
<1>2. e[2] \notin unvisited
    BY DEF Behind, Awaiting
<1>3. ~(Cardinality(C) > 1)
    BY <1>0, <1>1, <1>2 DEF Shared, Initial
<1>4. IsFiniteSet(C)
    BY <1>0, ConnectorFacts, FS_Subset
<1>5. e[1] \in C /\ f[1] \in C
    BY <1>0
<1>6. e[1] = f[1]
    <2> SUFFICES ASSUME e[1] # f[1]
                 PROVE  FALSE
        OBVIOUS
    <2>1. {e[1], f[1]} \subseteq C
        BY <1>5
    <2>2. Cardinality({e[1], f[1]}) = 2
        <3>1. IsFiniteSet({e[1]}) /\ Cardinality({e[1]}) = 1
            BY FS_Singleton
        <3>2. Cardinality({e[1]} \cup {f[1]}) = Cardinality({e[1]}) + 1
            BY <3>1, FS_AddElement
        <3>3. {e[1]} \cup {f[1]} = {e[1], f[1]}
            OBVIOUS
        <3> QED
            BY <3>1, <3>2, <3>3
    <2>3. Cardinality({e[1], f[1]}) <= Cardinality(C)
        BY <1>4, <2>1, FS_Subset
    <2>4. Cardinality(C) \in Nat
        BY <1>4, FS_CardinalityType
    <2> QED
        BY <1>3, <2>2, <2>3, <2>4
<1> QED
    BY <1>0, <1>6

LEMMA HypergraphInit ==
    ASSUME Init
    PROVE  HypergraphInv
<1>1. /\ components \in Connectors /\ target = Initial(components)
      /\ unvisited = Shared(components) /\ at = "visit" /\ rest = {} /\ queue = {}
      /\ list = {} /\ same = {}
    BY DEF Init
<1>2. /\ Hyperedges = Edges(components)
      /\ \A e \in Hyperedges : \A n : n \in target[e] <=>
             \E r \in components[e[1]] : n = {<<e[1], r>>} /\ e[2] \in Roots(r)
    BY <1>1 DEF Initial, Hyperedges
<1>3. \A e \in Hyperedges : e = <<e[1], e[2]>> /\ e[1] \in DOMAIN components
    BY <1>2, EdgesAre
<1>4. \A n : n \in Live <=> \E e \in Hyperedges : n \in target[e]
    BY DEF Live, Range, Hyperedges
<1>5. \A n \in Live : \E c \in DOMAIN components : \E r \in components[c] : n = {<<c, r>>}
    BY <1>2, <1>3, <1>4
<1>6. \A n \in Live : n \in SUBSET Parts
    BY <1>5 DEF Parts
<1>7. unvisited \subseteq {e[2] : e \in Hyperedges}
    <2> SUFFICES ASSUME NEW p \in unvisited
                 PROVE  \E e \in Hyperedges : p = e[2]
        OBVIOUS
    <2> DEFINE C == {c \in DOMAIN components : <<c, p>> \in Hyperedges}
    <2>1. Cardinality(C) > 1
        BY <1>1, <1>2 DEF Shared, Initial
    <2>2. C # {}
        <3> HIDE DEF C
        <3> SUFFICES ASSUME C = {}
                     PROVE  FALSE
            OBVIOUS
        <3>1. Cardinality(C) = 0
            BY FS_EmptySet
        <3> QED
            BY <2>1, <3>1
    <2>3. PICK c \in C : TRUE
        BY <2>2
    <2> QED
        BY <2>3
<1>8. EdgesOK
    <2>1. target \in [Edges(components) -> SUBSET SUBSET Parts]
        BY <1>1, <1>2, <1>4, <1>6 DEF Initial
    <2> QED
        BY <1>1, <1>7, <2>1 DEF EdgesOK
<1>9. LeavesOK
    <2> SUFFICES ASSUME NEW e \in Hyperedges, NEW n \in target[e]
                 PROVE  LeafOf(n, e)
        BY DEF LeavesOK
    <2>1. PICK r \in components[e[1]] : n = {<<e[1], r>>} /\ e[2] \in Roots(r)
        BY <1>2
    <2>2. Hidden \notin r.on
        BY <1>1, <1>3, ConnectorFacts
    <2>3. CASE e[2] = Hidden
        BY <2>1, <2>2, <2>3 DEF LeafOf, Roots
    <2>4. CASE e[2] # Hidden
        <3>1. e[2] \in r.on
            BY <2>1, <2>4 DEF Roots
        <3> QED
            BY <2>1, <2>4, <3>1 DEF LeafOf, ActiveIn
    <2> QED
        BY <2>3, <2>4
<1>10. HangsOK
    <2> SUFFICES ASSUME NEW n \in Live, NEW e \in Hyperedges, ActiveIn(n, e)
                 PROVE  n \in target[e]
        BY <1>8, LiveNodes DEF HangsOK
    <2>1. PICK r \in components[e[1]] : <<e[1], r>> \in n /\ e[2] \in r.on
        BY DEF ActiveIn
    <2>2. n = {<<e[1], r>>}
        BY <1>5, <2>1
    <2>3. e[2] \in Roots(r)
        BY <2>1 DEF Roots
    <2> QED
        BY <1>2, <2>2, <2>3
<1>11. RestOK /\ PollOK /\ PolledOK
    BY <1>1 DEF RestOK, PollOK, PolledOK
<1>12. Synchronous
    <2> SUFFICES ASSUME NEW n \in Live
                 PROVE  RulesOf(n) \in Linked[components] /\ On(RulesOf(n)) \cap Off(RulesOf(n)) = {}
        BY DEF Synchronous
    <2>1. PICK c \in DOMAIN components : \E r \in components[c] : n = {<<c, r>>}
        BY <1>5
    <2>2. PICK r \in components[c] : n = {<<c, r>>}
        BY <2>1
    <2>3. RulesOf(n) = {r}
        BY <2>2 DEF RulesOf
    <2>4. On({r}) = r.on /\ Off({r}) = r.off
        BY DEF On, Off
    <2> QED
        BY <1>1, <1>6, <2>3, <2>4, LinkedAre, ConnectedOne, ConnectorFacts
<1>13. Derivable
    <2> SUFFICES ASSUME NEW T \in Reference[components], NEW t \in T
                 PROVE  \E n \in Live : t \in RulesOf(n) /\ RulesOf(n) \subseteq T
        BY DerivedUnion DEF Derivable
    <2>1. t.on # {} /\ \E c \in DOMAIN components : t \in components[c]
        BY <1>1, ProductFacts
    <2>2. PICK c \in DOMAIN components : t \in components[c]
        BY <2>1
    <2>3. PICK p : p \in t.on
        BY <2>1
    <2>4. p \in Roots(t)
        BY <2>3 DEF Roots
    <2>5. <<c, p>> \in Hyperedges
        BY <1>2, <2>2, <2>4, EdgesAre
    <2>6. {<<c, t>>} \in target[<<c, p>>]
        BY <1>2, <2>2, <2>4, <2>5
    <2>7. RulesOf({<<c, t>>}) = {t}
        BY DEF RulesOf
    <2> QED
        BY <1>4, <2>5, <2>6, <2>7
<1>14. MergedOK
    BY <1>8, AloneAtFirst DEF MergedOK, Within
<1> QED
    BY <1>8, <1>9, <1>10, <1>11, <1>12, <1>13, <1>14 DEF HypergraphInv

\* Whatever the connector and the order of its hash sets, the hypergraph keeps
\* its structure: the compositions of HyperEdge.compose neither lose a rule of
\* the product nor leave nodes on the wrong hyperedges.
THEOREM HypergraphInvariance == Spec => []HypergraphInv
<1>1. Init => HypergraphInv
    BY HypergraphInit
<1>2. HypergraphInv /\ [Next]_vars => HypergraphInv'
    <2> SUFFICES ASSUME HypergraphInv, [Next]_vars
                 PROVE  HypergraphInv'
        OBVIOUS
    <2>1. ASSUME NEW p \in unvisited, Visit(p)
          PROVE  HypergraphInv'
        BY <2>1, VisitStep
    <2>2. ASSUME NEW h \in rest, ComposeSingle(h) \/ ComposeSeveral(h)
          PROVE  HypergraphInv'
        BY <2>2, SingleStep, SeveralStep
    <2>3. ASSUME NEW n \in queue, Poll(n)
          PROVE  HypergraphInv'
        BY <2>3, PollStep
    <2>4. CASE Leave \/ RemoveList
        BY <2>4, LeaveStep, RemoveStep
    <2>5. CASE UNCHANGED vars
        BY <2>5, HypergraphStutter
    <2> QED
        BY <2>1, <2>2, <2>3, <2>4, <2>5 DEF Next
<1> QED
    BY <1>1, <1>2, PTL DEF Spec

\* The variables keep their types, and no hyperedge is empty when it is to be
\* composed: the test of distribute for an empty target always succeeds.
THEOREM HypergraphTyped == Spec => []HypergraphTypeOK
<1>1. HypergraphInv => HypergraphTypeOK
    <2> SUFFICES ASSUME HypergraphInv
                 PROVE  HypergraphTypeOK
        OBVIOUS
    <2>1. EdgesOK /\ RestOK /\ components \in Connectors
        BY LiveNodes DEF HypergraphInv
    <2>2. \A n \in Live : RulesOf(n) \subseteq UNION Range(components)
        BY <2>1, LiveNodes, NodeParts
    <2>3. rest \subseteq {e \in Hyperedges \ {base} : target[e] # {}}
        BY <2>1 DEF EdgesOK, RestOK
    <2>4. queue \subseteq Live \cup list
        BY <2>1, LiveNodes DEF EdgesOK
    <2>5. Hyperedges \subseteq (DOMAIN components) \X (On(UNION Range(components)) \cup {Hidden})
        <3> SUFFICES ASSUME NEW e \in Hyperedges
                     PROVE  e \in (DOMAIN components) \X (On(UNION Range(components)) \cup {Hidden})
            OBVIOUS
        <3>1. /\ e = <<e[1], e[2]>> /\ e[1] \in DOMAIN components
              /\ \E r \in components[e[1]] : e[2] \in Roots(r)
            BY <2>1, LiveNodes, EdgesAre
        <3>2. PICK r \in components[e[1]] : e[2] \in Roots(r)
            BY <3>1
        <3>3. r \in UNION Range(components)
            BY <3>1, <3>2 DEF Range
        <3>4. e[2] \in On(UNION Range(components)) \cup {Hidden}
            BY <3>2, <3>3 DEF Roots, On
        <3> QED
            BY <3>1, <3>4
    <2> QED
        BY <2>1, <2>2, <2>3, <2>4, <2>5 DEF HypergraphTypeOK, EdgesOK
<1> QED
    BY <1>1, HypergraphInvariance, PTL

\* Every node that RuleNode.composeF makes is a set of rules that can fire as
\* one: they are connected by ports, and none silences an active port.
THEOREM NodesFire == Spec => []Synchronous
<1>1. HypergraphInv => Synchronous
    BY DEF HypergraphInv
<1> QED
    BY <1>1, HypergraphInvariance, PTL

\* At every moment of ConstraintHypergraph.distribute, each rule of the
\* synchronous product is the union of the rules of nodes in the hypergraph.
THEOREM NothingIsLost == Spec => []Derivable
<1>1. HypergraphInv => Derivable
    BY DEF HypergraphInv
<1> QED
    BY <1>1, HypergraphInvariance, PTL

\* When distribute ends, each rule of the product is that of a node: the order
\* in which it meets ports, hyperedges and leaves takes no behaviour away.
THEOREM ProductComposed == Spec => []Complete
<1>1. HypergraphInv => Complete
    <2> SUFFICES ASSUME HypergraphInv, Done, NEW T \in Reference[components]
                 PROVE  T \in Result
        BY DEF Complete
    <2>1. /\ EdgesOK /\ Derivable /\ MergedOK /\ at = "visit" /\ unvisited = {} /\ rest = {}
          /\ components \in Connectors /\ Hyperedges = Edges(components)
        BY LiveNodes DEF HypergraphInv, Done, EdgesOK
    <2>2. Behind = {}
        BY <2>1 DEF Behind, Awaiting
    <2>3. T # {} /\ Connected(T)
        BY <2>1, ProductFacts
    <2>4. PICK t \in T : TRUE
        BY <2>3
    <2>5. PICK n \in Live : t \in RulesOf(n) /\ RulesOf(n) \subseteq T
        BY <2>1, <2>4, DerivedUnion DEF Derivable
    <2>6. n \in SUBSET Parts
        BY <2>1, LiveNodes
    <2>7. RulesOf(n) = T
        <3> SUFFICES ASSUME RulesOf(n) # T
                     PROVE  FALSE
            OBVIOUS
        <3>1. PICK p : p \in On(RulesOf(n)) /\ p \in On(T \ RulesOf(n))
            BY <2>3, <2>5 DEF Connected
        <3>2. PICK r \in RulesOf(n) : p \in r.on
            BY <3>1 DEF On
        <3>3. PICK q \in T \ RulesOf(n) : p \in q.on
            BY <3>1 DEF On
        <3>4. PICK c \in DOMAIN components : r \in components[c] /\ <<c, r>> \in n
            BY <2>1, <2>6, <3>2, NodeParts
        <3>5. PICK d \in DOMAIN components : q \in components[d]
            BY <2>1, <3>3, ProductFacts
        <3>6. <<c, p>> \in Hyperedges /\ <<d, p>> \in Hyperedges
            BY <2>1, <3>2, <3>3, <3>4, <3>5, EdgesAre DEF Roots
        <3>7. ActiveIn(n, <<c, p>>)
            BY <3>2, <3>4 DEF ActiveIn
        <3>8. ActiveIn(n, <<d, p>>)
            BY <2>1, <2>2, <2>5, <3>3, <3>5, <3>6, <3>7 DEF MergedOK, Within
        <3>9. PICK s \in components[d] : <<d, s>> \in n /\ p \in s.on
            BY <3>8 DEF ActiveIn
        <3>10. s \in RulesOf(n)
            BY <2>1, <2>6, <3>5, <3>9, NodeParts
        <3>11. s = q
            BY <2>1, <2>5, <3>3, <3>5, <3>9, <3>10, ProductFacts
        <3> QED
            BY <3>3, <3>10, <3>11
    <2>8. On(RulesOf(n)) # {}
        BY <2>1, <2>4, <2>7, ProductFacts DEF On
    <2> QED
        BY <2>5, <2>7, <2>8 DEF Result
<1> QED
    BY <1>1, HypergraphInvariance, PTL

-----------------------------------------------------------------------------
(* Composing adds nothing                                                  *)

\* Every rule of every component has a part in the product.
AllTakePart ==
    UNION Reference[components] = UNION {Active(components[k]) : k \in DOMAIN components}

\* Two rules of a component exclude each other: one silences a port that the
\* other makes active.
Exclusive == \A comps \in Connectors : \A c \in DOMAIN comps : \A r, q \in Active(comps[c]) :
    r # q => r.on \cap q.off # {} \/ r.off \cap q.on # {}

\* The nodes L are active in all hyperedges of a port or in none, but for the
\* hyperedges B.
Paired(L, B) == \A n \in L : \A e, f \in Hyperedges \ B :
    e[2] = f[2] /\ ActiveIn(n, e) => ActiveIn(n, f)

\* The hyperedges of a port that have been composed share all their nodes.
PairedOK == AllTakePart => Paired(Live, Behind)

LEMMA PairedMeans ==
    ASSUME components' = components, Hyperedges' = Hyperedges,
           AllTakePart => Paired(Live', Behind')
    PROVE  PairedOK'
<1>1. AllTakePart' <=> AllTakePart
    BY DEF AllTakePart
<1>2. \A n, e : ActiveIn(n, e)' <=> ActiveIn(n, e)
    BY DEF ActiveIn
<1>3. Paired(Live', Behind') => Paired(Live, Behind)'
    BY <1>2 DEF Paired
<1> QED
    BY <1>1, <1>3 DEF PairedOK

LEMMA ComposedPaired ==
    ASSUME NEW n, NEW h, NEW P, NEW gone, Composing(n, h, P, gone), Paired(Live, Behind)
    PROVE  Paired(Live', Behind)
<1> SUFFICES ASSUME NEW m \in Live', NEW e \in Hyperedges \ Behind, NEW f \in Hyperedges \ Behind,
                    e[2] = f[2], ActiveIn(m, e)
             PROVE  ActiveIn(m, f)
    BY DEF Paired
<1>1. n \in Live
    BY LiveNodes DEF Composing
<1>2. CASE m \in Live
    BY <1>2 DEF Paired
<1>3. ASSUME NEW r \in P, m = r \cup n
      PROVE  ActiveIn(m, f)
    <2>1. r \in Live
        BY ComposedNodes
    <2>2. PICK q \in {r, n} : ActiveIn(q, e)
        BY <1>3 DEF ActiveIn
    <2>3. ActiveIn(q, f)
        BY <1>1, <2>1, <2>2 DEF Paired
    <2> QED
        BY <1>3, <2>3 DEF ActiveIn
<1> QED
    BY <1>2, <1>3, ComposedNodes

\* When the nodes of base are those of h, h is no longer behind.
LEMMA NowPaired ==
    ASSUME NEW h \in Hyperedges, base \in Hyperedges \ Behind, h[2] = base[2], NEW L,
           \A m \in L : ActiveIn(m, base) <=> ActiveIn(m, h), Paired(L, Behind)
    PROVE  Paired(L, Behind \ {h})
<1> SUFFICES ASSUME NEW m \in L, NEW e \in Hyperedges \ (Behind \ {h}),
                    NEW f \in Hyperedges \ (Behind \ {h}), e[2] = f[2], ActiveIn(m, e)
             PROVE  ActiveIn(m, f)
    BY DEF Paired
<1>1. PICK g \in Hyperedges \ Behind : g[2] = e[2] /\ ActiveIn(m, g)
    BY DEF Paired
<1> QED
    BY <1>1 DEF Paired

\* A port that is made active by a rule is made active by a rule of the product.
LEMMA TakesPart ==
    ASSUME EdgesOK, AllTakePart, NEW c \in DOMAIN components, NEW r \in components[c], r.on # {}
    PROVE  \E T \in Reference[components] : r \in T
BY DEF AllTakePart, Active

\* The hyperedges of the port that is visited are composed, for none is empty.
LEMMA VisitPairs ==
    ASSUME HypergraphInv, PairedOK, NEW p, Visit(p)
    PROVE  PairedOK'
<1> DEFINE edges == {e \in Hyperedges : e[2] = p /\ target[e] # {}}
<1>1. /\ EdgesOK /\ LeavesOK /\ HangsOK /\ Synchronous /\ Derivable
      /\ at = "visit" /\ p \in unvisited /\ unvisited' = unvisited \ {p}
      /\ components' = components /\ target' = target
      /\ \/ edges = {} /\ UNCHANGED <<at, base, rest>>
         \/ base' \in edges /\ rest' = edges \ {base'} /\ at' = "compose"
    BY DEF Visit, HypergraphInv
<1>2. rest = {} /\ Hyperedges' = Hyperedges /\ Live' = Live
    BY <1>1, SameTargets DEF EdgesOK
<1>3. /\ Behind = {e \in Hyperedges : e[2] \in unvisited} /\ Intact = Behind
      /\ Behind' = {e \in Hyperedges : e[2] \in unvisited \ {p}} \cup rest'
    BY <1>1, <1>2 DEF Awaiting, Intact, Behind
<1> SUFFICES ASSUME AllTakePart, NEW n \in Live, NEW e \in Hyperedges \ Behind',
                    NEW f \in Hyperedges \ Behind', e[2] = f[2], ActiveIn(n, e)
             PROVE  ActiveIn(n, f)
    BY <1>1, <1>2, PairedMeans DEF Paired
<1>4. CASE e[2] # p
    BY <1>3, <1>4 DEF PairedOK, Paired
<1>5. CASE e[2] = p
    <2>1. PICK r \in components[e[1]] : p \in r.on
        BY <1>5 DEF ActiveIn
    <2>2. e[1] \in DOMAIN components
        BY <1>1, LiveNodes
    <2>3. PICK T \in Reference[components] : r \in T
        BY <1>1, <2>1, <2>2, TakesPart
    <2>4. p \in On(T)
        BY <2>1, <2>3 DEF On
    <2>5. e \in Intact /\ f \in Intact
        BY <1>1, <1>3, <1>5
    <2>6. e \in edges /\ f \in edges
        BY <1>1, <1>5, <2>4, <2>5, HasLeaf
    <2>7. e = f
        BY <1>1, <1>3, <2>6
    <2> QED
        BY <2>7
<1> QED
    BY <1>4, <1>5

LEMMA PairedStep ==
    ASSUME HypergraphInv, PairedOK, [Next]_vars
    PROVE  PairedOK'
<1>1. ASSUME NEW h, ComposeSingle(h)
      PROVE  PairedOK'
    <2>1. PICK n : Single(h, n)
        BY <1>1, SingleIs
    <2>2. PICK P, gone : Composing(n, h, P, gone)
        BY <2>1, SingleComposes
    <2>3. Hyperedges' = Hyperedges
        BY <2>2, ComposedNodes
    <2>4. /\ Behind' = Behind \ {h} /\ base \in Hyperedges \ Behind /\ components' = components
          /\ h \in Hyperedges /\ h[2] = base[2]
        BY <2>1, <2>3, SingleEdges
    <2>5. ASSUME AllTakePart
          PROVE  Paired(Live', Behind \ {h})
        <3>1. Paired(Live', Behind)
            BY <2>2, <2>5, ComposedPaired DEF PairedOK
        <3>2. \A m \in Live' : ActiveIn(m, base) <=> ActiveIn(m, h)
            BY <2>1, SingleShares
        <3> QED
            BY <2>4, <3>1, <3>2, NowPaired
    <2> QED
        BY <2>3, <2>4, <2>5, PairedMeans
<1>2. ASSUME NEW n, Poll(n)
      PROVE  PairedOK'
    <2>1. PICK P, gone : Composing(n, other, P, gone)
        BY <1>2, PollComposes
    <2>2. Hyperedges' = Hyperedges
        BY <2>1, ComposedNodes
    <2>3. Behind' = Behind /\ components' = components
        BY <1>2, <2>2, PollEdges
    <2> QED
        BY <2>1, <2>2, <2>3, ComposedPaired, PairedMeans DEF PairedOK
<1>3. CASE RemoveList
    <2>1. /\ Live' \subseteq Live /\ Hyperedges' = Hyperedges /\ base \in Hyperedges \ Behind
          /\ Behind' = Behind \ {other} /\ other \in Hyperedges /\ other[2] = base[2]
          /\ \A m \in Live' : ActiveIn(m, base) <=> ActiveIn(m, other)
        BY <1>3, RemoveShares
    <2>2. components' = components
        BY <1>3 DEF RemoveList
    <2>3. AllTakePart => Paired(Live', Behind)
        BY <2>1 DEF PairedOK, Paired
    <2> QED
        BY <2>1, <2>2, <2>3, NowPaired, PairedMeans
<1>4. ASSUME UNCHANGED <<components, target>>, Behind' = Behind
      PROVE  PairedOK'
    <2>1. Hyperedges' = Hyperedges /\ Live' = Live
        BY <1>4 DEF Hyperedges, Live
    <2> QED
        BY <1>4, <2>1, PairedMeans DEF PairedOK
<1>5. ASSUME NEW h, ComposeSeveral(h)
      PROVE  Behind' = Behind /\ UNCHANGED <<components, target>>
    BY <1>5 DEF ComposeSeveral, Behind, Awaiting, Hyperedges
<1>6. CASE Leave
    BY <1>4, <1>6 DEF Leave, Behind, Awaiting, Hyperedges
<1>7. CASE UNCHANGED vars
    BY <1>4, <1>7 DEF vars, loopVars, Behind, Awaiting, Hyperedges
<1> QED
    BY <1>1, <1>2, <1>3, <1>4, <1>5, <1>6, <1>7, VisitPairs DEF Next

\* The rules of a node that has a part in every hyperedge of its ports are a
\* rule of the product.
LEMMA NodeInProduct ==
    ASSUME Exclusive, EdgesOK, Synchronous, AllTakePart, Paired(Live, {}),
           NEW n \in Live, On(RulesOf(n)) # {}
    PROVE  RulesOf(n) \in Product(components)
<1> DEFINE T == RulesOf(n)
<1>1. /\ components \in Connectors /\ Hyperedges = Edges(components) /\ n \in SUBSET Parts
    BY LiveNodes
<1>2. Connected(T) /\ On(T) \cap Off(T) = {}
    BY <1>1, LinkedAre DEF Synchronous
<1>3. \A x \in n : x = <<x[1], x[2]>> /\ x[1] \in DOMAIN components /\ x[2] \in components[x[1]] /\ x[2] \in T
    BY <1>1, NodeParts DEF RulesOf
<1>4. \A r \in T : r.on # {}
    <2> SUFFICES ASSUME NEW r \in T, r.on = {}
                 PROVE  FALSE
        OBVIOUS
    <2>1. On({r}) = {}
        BY DEF On
    <2>2. {r} # T
        BY <2>1
    <2> QED
        BY <1>2, <2>1, <2>2 DEF Connected
<1>5. \A x \in n : x[2] \in Active(components[x[1]])
    BY <1>3, <1>4 DEF Active
<1>6. \A x, y \in n : x[1] = y[1] => x = y
    <2> SUFFICES ASSUME NEW x \in n, NEW y \in n, x[1] = y[1], x[2] # y[2]
                 PROVE  FALSE
        BY <1>3
    <2>1. x[2].on \cap y[2].off # {} \/ x[2].off \cap y[2].on # {}
        BY <1>1, <1>3, <1>5 DEF Exclusive
    <2>2. /\ x[2].on \subseteq On(T) /\ y[2].on \subseteq On(T)
          /\ x[2].off \subseteq Off(T) /\ y[2].off \subseteq Off(T)
        BY <1>3 DEF On, Off
    <2> QED
        BY <1>2, <2>1, <2>2
<1>7. ASSUME NEW c \in DOMAIN components, NEW p \in On(T), p \in On(components[c]) \cup Off(components[c])
      PROVE  \E r \in T \cap components[c] : p \in r.on
    <2>1. PICK x \in n : p \in x[2].on
        BY <1>3 DEF On, RulesOf
    <2>2. PICK U \in Reference[components] : x[2] \in U
        BY <1>3, <2>1, TakesPart
    <2>3. p \in On(U)
        BY <2>1, <2>2 DEF On
    <2>4. PICK q \in U \cap components[c] : p \in q.on
        BY <1>1, <1>7, <2>3, ProductFacts
    <2>5. <<c, p>> \in Hyperedges /\ <<x[1], p>> \in Hyperedges
        BY <1>1, <1>3, <2>1, <2>4, EdgesAre DEF Roots
    <2>6. ActiveIn(n, <<x[1], p>>)
        BY <1>3, <2>1 DEF ActiveIn
    <2>7. ActiveIn(n, <<c, p>>)
        BY <2>5, <2>6 DEF Paired
    <2>8. PICK r \in components[c] : <<c, r>> \in n /\ p \in r.on
        BY <2>7 DEF ActiveIn
    <2> QED
        BY <1>3, <2>8
<1>8. ASSUME NEW c \in DOMAIN components
      PROVE  Agrees(T, components[c])
    <2> DEFINE A == On(T) \cap (On(components[c]) \cup Off(components[c]))
    <2> SUFFICES ASSUME NEW p \in A
                 PROVE  A \in {r.on : r \in T \cap components[c]}
        BY DEF Agrees
    <2>1. PICK r \in T \cap components[c] : p \in r.on
        BY <1>7
    <2>2. \A q \in T \cap components[c] : q = r
        <3>1. <<c, r>> \in n /\ \A q \in T \cap components[c] : <<c, q>> \in n
            BY <1>1, NodeParts
        <3> QED
            BY <1>6, <3>1
    <2>3. r.on \subseteq A
        BY DEF On
    <2>4. A \subseteq r.on
        BY <1>7, <2>2
    <2>5. A = r.on
        BY <2>3, <2>4
    <2> QED
        BY <2>5
<1>9. n \in SUBSET UNION {{c} \X Active(components[c]) : c \in DOMAIN components}
    BY <1>3, <1>5
<1>10. n # {}
    BY DEF On, RulesOf
<1> QED
    BY <1>2, <1>6, <1>8, <1>9, <1>10 DEF Product

\* When no component has two rules that could fire together, and all rules have
\* a part in the product, distribute ends with the rules of the product and no
\* others, for every order in which it meets ports, hyperedges and leaves.
THEOREM NothingIsAdded ==
    ASSUME Exclusive
    PROVE  Spec => []Exact
<1>1. Init => HypergraphInv /\ PairedOK
    <2> SUFFICES ASSUME Init
                 PROVE  HypergraphInv /\ PairedOK
        OBVIOUS
    <2>1. HypergraphInv
        BY HypergraphInit
    <2>2. PairedOK
        BY <2>1, AloneAtFirst DEF HypergraphInv, PairedOK, Paired
    <2> QED
        BY <2>1, <2>2
<1>2. HypergraphInv /\ PairedOK /\ [Next]_vars => PairedOK'
    BY PairedStep
<1>3. HypergraphInv /\ PairedOK => Exact
    <2> SUFFICES ASSUME HypergraphInv, PairedOK, Done, AllTakePart, NEW T \in Result
                 PROVE  T \in Reference[components]
        BY DEF Exact, AllTakePart
    <2>1. /\ EdgesOK /\ Synchronous /\ components \in Connectors
          /\ at = "visit" /\ unvisited = {} /\ rest = {}
        BY LiveNodes DEF HypergraphInv, Done, EdgesOK
    <2>2. Behind = {}
        BY <2>1 DEF Behind, Awaiting
    <2>3. PICK n \in Live : T = RulesOf(n) /\ On(RulesOf(n)) # {}
        BY DEF Result
    <2> QED
        BY <2>1, <2>2, <2>3, NodeInProduct DEF PairedOK, Reference
<1> QED
    BY <1>1, <1>2, <1>3, HypergraphInvariance, PTL DEF Spec
=============================================================================
