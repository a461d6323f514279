---------------------------- MODULE LykosProof ----------------------------
(***************************************************************************)
(* Proofs about the protocols that the Lykos back end generates: types,    *)
(* the queues, and the slaves that masters move without a lock.  They hold *)
(* for every circuit that the compiler may generate (LykosAssumption).     *)
(***************************************************************************)
EXTENDS LykosProtocol, SequenceTheorems, FiniteSetTheorems, TLAPS

-----------------------------------------------------------------------------
(* Sequences                                                               *)

LEMMA InRange ==
    ASSUME NEW S, NEW s \in Seq(S), NEW e
    PROVE  e \in Range(s) <=> \E k \in 1 .. Len(s) : s[k] = e
BY DEF Range

LEMMA OnceOrNever ==
    ASSUME NEW s, NEW e, e \notin Range(s)
    PROVE  Once(s, e)
BY DEF Once, Range

LEMMA OnceBefore ==
    ASSUME NEW S, NEW s \in Seq(S), NEW t \in Seq(S), NEW e,
           Once(s, e), e \notin Range(t)
    PROVE  Once(s \o t, e)
<1> SUFFICES ASSUME NEW k \in 1 .. Len(s) + Len(t), NEW l \in 1 .. Len(s) + Len(t),
                    (s \o t)[k] = e, (s \o t)[l] = e
             PROVE  k = l
    BY ConcatProperties DEF Once
<1>1. \A j \in 1 .. Len(t) : t[j] # e
    BY InRange
<1>2. k <= Len(s) /\ l <= Len(s)
    BY <1>1, ConcatProperties
<1> QED
    BY <1>2, ConcatProperties DEF Once

LEMMA OnceAfter ==
    ASSUME NEW S, NEW s \in Seq(S), NEW t \in Seq(S), NEW e,
           Once(t, e), e \notin Range(s)
    PROVE  Once(s \o t, e)
<1> SUFFICES ASSUME NEW k \in 1 .. Len(s) + Len(t), NEW l \in 1 .. Len(s) + Len(t),
                    (s \o t)[k] = e, (s \o t)[l] = e
             PROVE  k = l
    BY ConcatProperties DEF Once
<1>1. \A j \in 1 .. Len(s) : s[j] # e
    BY InRange
<1>2. k > Len(s) /\ l > Len(s)
    BY <1>1, ConcatProperties
<1>3. t[k - Len(s)] = e /\ t[l - Len(s)] = e
    BY <1>2, ConcatProperties
<1>4. k - Len(s) \in DOMAIN t /\ l - Len(s) \in DOMAIN t
    BY <1>2
<1>5. k - Len(s) = l - Len(s)
    BY <1>3, <1>4 DEF Once
<1> QED
    BY <1>5

LEMMA FollowedBefore ==
    ASSUME NEW S, NEW s \in Seq(S), NEW t \in Seq(S), NEW e, NEW f,
           FollowedBy(s, e, f), e \notin Range(t)
    PROVE  FollowedBy(s \o t, e, f)
<1> SUFFICES ASSUME NEW k \in 1 .. Len(s) + Len(t), (s \o t)[k] = e
             PROVE  k + 1 \in 1 .. Len(s) + Len(t) /\ (s \o t)[k + 1] = f
    BY ConcatProperties DEF FollowedBy
<1>1. \A j \in 1 .. Len(t) : t[j] # e
    BY InRange
<1>2. k \in 1 .. Len(s) /\ s[k] = e
    BY <1>1, ConcatProperties
<1>3. k + 1 \in 1 .. Len(s) /\ s[k + 1] = f
    BY <1>2 DEF FollowedBy
<1> QED
    BY <1>3, ConcatProperties

LEMMA FollowedAfter ==
    ASSUME NEW S, NEW s \in Seq(S), NEW t \in Seq(S), NEW e, NEW f,
           FollowedBy(t, e, f), e \notin Range(s)
    PROVE  FollowedBy(s \o t, e, f)
<1> SUFFICES ASSUME NEW k \in 1 .. Len(s) + Len(t), (s \o t)[k] = e
             PROVE  k + 1 \in 1 .. Len(s) + Len(t) /\ (s \o t)[k + 1] = f
    BY ConcatProperties DEF FollowedBy
<1>1. \A j \in 1 .. Len(s) : s[j] # e
    BY InRange
<1>2. k - Len(s) \in 1 .. Len(t) /\ t[k - Len(s)] = e
    BY <1>1, ConcatProperties
<1>3. (k - Len(s)) + 1 \in 1 .. Len(t) /\ t[(k - Len(s)) + 1] = f
    <2>1. \A j \in 1 .. Len(t) : t[j] = e => j + 1 \in 1 .. Len(t) /\ t[j + 1] = f
        <3>1. DOMAIN t = 1 .. Len(t)
            OBVIOUS
        <3> QED
            BY <3>1, Zenon DEF FollowedBy
    <2> DEFINE j == k - Len(s)
    <2>2. j \in 1 .. Len(t) /\ t[j] = e
        BY <1>2
    <2> HIDE DEF j
    <2>3. j + 1 \in 1 .. Len(t) /\ t[j + 1] = f
        BY <2>1, <2>2
    <2> QED
        BY <2>3 DEF j
<1>4. /\ k + 1 \in 1 .. Len(s) + Len(t) /\ ~(k + 1 <= Len(s))
      /\ (k + 1) - Len(s) = (k - Len(s)) + 1
    BY <1>2, <1>3
<1>5. (s \o t)[k + 1] = t[(k + 1) - Len(s)]
    BY <1>4, ConcatProperties
<1> QED
    BY <1>3, <1>4, <1>5

\* The first element goes: the others stay, and stay once.
LEMMA TailFacts ==
    ASSUME NEW S, NEW s \in Seq(S), s # <<>>
    PROVE  /\ Tail(s) \in Seq(S) /\ Head(s) = s[1] /\ Head(s) \in S
           /\ \A k \in DOMAIN Tail(s) : k + 1 \in DOMAIN s /\ Tail(s)[k] = s[k + 1]
           /\ Range(s) = {Head(s)} \cup Range(Tail(s))
           /\ \A e : Once(s, e) => Once(Tail(s), e)
           /\ \A e, f : FollowedBy(s, e, f) =>
                 FollowedBy(Tail(s), e, f) /\ (Head(s) = e => f \in Range(Tail(s)))
           /\ Once(s, Head(s)) => Head(s) \notin Range(Tail(s))
           /\ IsInjective(s) => IsInjective(Tail(s)) /\ Head(s) \notin Range(Tail(s))
<1>1. /\ Tail(s) \in Seq(S) /\ Len(Tail(s)) = Len(s) - 1 /\ Head(s) = s[1] /\ Head(s) \in S
      /\ \A k \in 1 .. Len(Tail(s)) : Tail(s)[k] = s[k + 1]
    BY HeadTailProperties
<1>2. Len(s) \in Nat \ {0} /\ DOMAIN s = 1 .. Len(s) /\ DOMAIN Tail(s) = 1 .. Len(s) - 1
    BY <1>1, EmptySeq
<1>3. \A k \in DOMAIN Tail(s) : k + 1 \in DOMAIN s /\ Tail(s)[k] = s[k + 1]
    BY <1>1, <1>2
<1>4. Range(s) = {Head(s)} \cup Range(Tail(s))
    <2>1. ASSUME NEW e \in Range(s)
          PROVE  e = Head(s) \/ e \in Range(Tail(s))
        <3>1. PICK k \in 1 .. Len(s) : s[k] = e
            BY <2>1, InRange
        <3>2. CASE k = 1
            BY <1>1, <3>1, <3>2
        <3>3. CASE k # 1
            <4>1. k - 1 \in 1 .. Len(Tail(s)) /\ Tail(s)[k - 1] = e
                BY <1>1, <1>2, <3>1, <3>3
            <4> QED
                BY <1>1, <4>1, InRange
        <3> QED
            BY <3>2, <3>3
    <2>2. Head(s) \in Range(s)
        BY <1>1, <1>2 DEF Range
    <2>3. Range(Tail(s)) \subseteq Range(s)
        BY <1>3 DEF Range
    <2> QED
        BY <2>1, <2>2, <2>3
<1>5. ASSUME NEW e, Once(s, e)
      PROVE  Once(Tail(s), e)
    <2> SUFFICES ASSUME NEW k \in DOMAIN Tail(s), NEW l \in DOMAIN Tail(s),
                        Tail(s)[k] = e, Tail(s)[l] = e
                 PROVE  k = l
        BY DEF Once
    <2>1. k + 1 = l + 1
        BY <1>3, <1>5 DEF Once
    <2> QED
        BY <1>2, <2>1
<1>6. ASSUME NEW k \in DOMAIN Tail(s)
      PROVE  k + 1 # 1
    BY <1>2
<1>9. ASSUME NEW e, NEW f, FollowedBy(s, e, f)
      PROVE  FollowedBy(Tail(s), e, f) /\ (Head(s) = e => f \in Range(Tail(s)))
    <2>1. ASSUME NEW k \in DOMAIN Tail(s), Tail(s)[k] = e
          PROVE  k + 1 \in DOMAIN Tail(s) /\ Tail(s)[k + 1] = f
        <3>1. k + 1 \in DOMAIN s /\ s[k + 1] = e
            BY <1>3, <2>1
        <3>2. (k + 1) + 1 \in DOMAIN s /\ s[(k + 1) + 1] = f
            BY <1>9, <3>1 DEF FollowedBy
        <3>3. k + 1 \in DOMAIN Tail(s)
            BY <1>2, <2>1, <3>2
        <3> QED
            BY <1>3, <3>2, <3>3
    <2>2. ASSUME Head(s) = e
          PROVE  f \in Range(Tail(s))
        <3>1. 1 \in DOMAIN s /\ s[1] = e
            BY <1>1, <1>2, <2>2
        <3>2. 1 + 1 \in DOMAIN s /\ s[1 + 1] = f
            BY <1>9, <3>1 DEF FollowedBy
        <3>3. 1 \in DOMAIN Tail(s)
            BY <1>2, <3>2
        <3>4. Tail(s)[1] = f
            BY <1>3, <3>2, <3>3
        <3> QED
            BY <3>3, <3>4 DEF Range
    <2> QED
        BY <2>1, <2>2 DEF FollowedBy
<1>7. Once(s, Head(s)) => Head(s) \notin Range(Tail(s))
    <2>1. 1 \in DOMAIN s
        BY <1>2
    <2> QED
        BY <1>1, <1>3, <1>6, <2>1 DEF Once, Range
<1>8. IsInjective(s) => IsInjective(Tail(s)) /\ Head(s) \notin Range(Tail(s))
    <2> SUFFICES ASSUME IsInjective(s)
                 PROVE  IsInjective(Tail(s)) /\ Head(s) \notin Range(Tail(s))
        OBVIOUS
    <2>1. Once(s, Head(s))
        BY DEF Once, IsInjective
    <2>2. ASSUME NEW k \in DOMAIN Tail(s), NEW l \in DOMAIN Tail(s), Tail(s)[k] = Tail(s)[l]
          PROVE  k = l
        <3>1. k + 1 = l + 1
            BY <1>3, <2>2 DEF IsInjective
        <3> QED
            BY <1>2, <3>1
    <2> QED
        BY <1>7, <2>1, <2>2 DEF IsInjective
<1> QED
    BY <1>1, <1>3, <1>4, <1>5, <1>7, <1>8, <1>9

LEMMA AppendFacts ==
    ASSUME NEW S, NEW s \in Seq(S), NEW e \in S
    PROVE  /\ Append(s, e) \in Seq(S) /\ Len(Append(s, e)) = Len(s) + 1
           /\ Range(Append(s, e)) = Range(s) \cup {e}
           /\ s # <<>> => Head(Append(s, e)) = Head(s)
           /\ IsInjective(s) /\ e \notin Range(s) => IsInjective(Append(s, e))
<1> DEFINE t == Append(s, e)
<1>1. /\ t \in Seq(S) /\ Len(t) = Len(s) + 1
      /\ \A k \in 1 .. Len(s) : t[k] = s[k]
      /\ t[Len(s) + 1] = e
    BY AppendProperties
<1>2. DOMAIN t = 1 .. Len(s) + 1 /\ DOMAIN s = 1 .. Len(s) /\ Len(s) \in Nat
    BY <1>1
<1> HIDE DEF t
<1>3. Range(t) = Range(s) \cup {e}
    <2>1. \A k \in DOMAIN t : k \in DOMAIN s \/ k = Len(s) + 1
        BY <1>2
    <2>2. Range(t) \subseteq Range(s) \cup {e}
        BY <1>1, <1>2, <2>1 DEF Range
    <2>3. Len(s) + 1 \in DOMAIN t /\ DOMAIN s \subseteq DOMAIN t
        BY <1>2
    <2>4. Range(s) \cup {e} \subseteq Range(t)
        BY <1>1, <1>2, <2>3 DEF Range
    <2> QED
        BY <2>2, <2>4
<1>4. IsInjective(s) /\ e \notin Range(s) => IsInjective(t)
    BY <1>1, <1>2 DEF IsInjective, Range
<1>5. s # <<>> => Head(t) = Head(s)
    BY HeadTailAppend DEF t
<1> QED
    BY <1>1, <1>3, <1>4, <1>5 DEF t
-----------------------------------------------------------------------------
(* The statements of a transition                                          *)

LEMMA EachOne ==
    ASSUME NEW a, NEW X, NEW xs \in Seq(X)
    PROVE  /\ Each(<<a>>, xs) \in Seq({a} \X X)
           /\ Range(Each(<<a>>, xs)) = {a} \X Range(xs)
<1>1. Len(xs) \in Nat /\ DOMAIN xs = 1 .. Len(xs) /\ \A k \in 1 .. Len(xs) : xs[k] \in X
    OBVIOUS
<1> DEFINE n == Len(xs)
<1>2. Each(<<a>>, xs) = [k \in 1 .. n |-> <<a, xs[k]>>]
    <2>1. 1 * Len(xs) = Len(xs)
        <3> HIDE DEF n
        <3>1. n \in Nat
            BY <1>1 DEF n
        <3>2. 1 * n = n
            BY <3>1
        <3> QED
            BY <3>2 DEF n
    <2>2. \A k \in 1 .. Len(xs) : (k - 1) % 1 = 0 /\ (k - 1) \div 1 = k - 1
        BY <1>1
    <2>3. Len(<<a>>) = 1 /\ <<a>>[1] = a
        OBVIOUS
    <2>4. Each(<<a>>, xs) = [k \in 1 .. n |-> <<<<a>>[((k - 1) % 1) + 1], xs[((k - 1) \div 1) + 1]>>]
        BY <2>1, <2>3 DEF Each
    <2>5. \A k \in 1 .. n : <<<<a>>[((k - 1) % 1) + 1], xs[((k - 1) \div 1) + 1]>> = <<a, xs[k]>>
        BY <1>1, <2>2, <2>3
    <2> QED
        BY <2>4, <2>5
<1>3. Each(<<a>>, xs) \in Seq({a} \X X)
    BY <1>1, <1>2
<1>4. ASSUME NEW e
      PROVE  e \in Range(Each(<<a>>, xs)) <=> \E x \in Range(xs) : e = <<a, x>>
    BY <1>1, <1>2 DEF Range
<1>5. Range(Each(<<a>>, xs)) = {a} \X Range(xs)
    BY <1>4
<1> QED
    BY <1>3, <1>5

LEMMA EachTwoRange ==
    ASSUME NEW a, NEW b, NEW X, NEW xs \in Seq(X)
    PROVE  Range(Each(<<a, b>>, xs)) = {a, b} \X Range(xs)
<1>1. Len(xs) \in Nat /\ DOMAIN xs = 1 .. Len(xs) /\ \A k \in 1 .. Len(xs) : xs[k] \in X
    OBVIOUS
<1> DEFINE n == Len(xs)
           s == Each(<<a, b>>, xs)
<1>2. /\ DOMAIN s = 1 .. 2 * n
      /\ \A k \in 1 .. 2 * n : s[k] = <<<<a, b>>[((k - 1) % 2) + 1], xs[((k - 1) \div 2) + 1]>>
    BY DEF Each
<1>3. \A k \in 1 .. 2 * n : /\ ((k - 1) \div 2) + 1 \in 1 .. n
                            /\ (k - 1) % 2 = 0 \/ (k - 1) % 2 = 1
    BY <1>1
<1>4. s = [k \in 1 .. 2 * n |-> s[k]]
    BY <1>2 DEF Each
<1> HIDE DEF s
<1>5. \A k \in 1 .. 2 * n : s[k] = <<a, xs[((k - 1) \div 2) + 1]>> \/ s[k] = <<b, xs[((k - 1) \div 2) + 1]>>
    BY <1>2, <1>3
<1>6. ASSUME NEW e
      PROVE  e \in Range(s) <=> \E x \in Range(xs) : e = <<a, x>> \/ e = <<b, x>>
    <2>1. ASSUME e \in Range(s)
          PROVE  \E x \in Range(xs) : e = <<a, x>> \/ e = <<b, x>>
        <3>1. PICK k \in 1 .. 2 * n : e = s[k]
            BY <1>2, <2>1 DEF Range
        <3>2. xs[((k - 1) \div 2) + 1] \in Range(xs)
            BY <1>1, <1>3 DEF Range
        <3> QED
            BY <1>5, <3>1, <3>2
    <2>2. ASSUME NEW x \in Range(xs), e = <<a, x>> \/ e = <<b, x>>
          PROVE  e \in Range(s)
        <3>1. PICK j \in 1 .. n : x = xs[j]
            BY <1>1 DEF Range
        <3>2. /\ 2 * j - 1 \in 1 .. 2 * n /\ ((2 * j - 1) - 1) % 2 = 0
              /\ (((2 * j - 1) - 1) \div 2) + 1 = j
              /\ 2 * j \in 1 .. 2 * n /\ (2 * j - 1) % 2 = 1 /\ ((2 * j - 1) \div 2) + 1 = j
            BY <1>1
        <3>3. s[2 * j - 1] = <<a, x>>
            <4> DEFINE k == 2 * j - 1
            <4>1. k \in 1 .. 2 * n /\ (k - 1) % 2 = 0 /\ ((k - 1) \div 2) + 1 = j
                BY <3>2
            <4> HIDE DEF k
            <4>2. s[k] = <<<<a, b>>[((k - 1) % 2) + 1], xs[((k - 1) \div 2) + 1]>>
                BY <1>2, <4>1
            <4>3. s[k] = <<<<a, b>>[0 + 1], xs[j]>>
                BY <4>1, <4>2
            <4> QED
                BY <3>1, <4>3 DEF k
        <3>4. s[2 * j] = <<b, x>>
            <4> DEFINE k == 2 * j
            <4>1. k \in 1 .. 2 * n /\ (k - 1) % 2 = 1 /\ ((k - 1) \div 2) + 1 = j
                BY <3>2
            <4> HIDE DEF k
            <4>2. s[k] = <<<<a, b>>[((k - 1) % 2) + 1], xs[((k - 1) \div 2) + 1]>>
                BY <1>2, <4>1
            <4>3. s[k] = <<<<a, b>>[1 + 1], xs[j]>>
                BY <4>1, <4>2
            <4> QED
                BY <3>1, <4>3 DEF k
        <3> QED
            BY <1>2, <2>2, <3>2, <3>3, <3>4 DEF Range
    <2> QED
        BY <2>1, <2>2
<1>7. Range(s) = {a, b} \X Range(xs)
    BY <1>6
<1> QED
    BY <1>7 DEF s

LEMMA EachTwo ==
    ASSUME NEW a, NEW b, NEW X, NEW xs \in Seq(X)
    PROVE  /\ Each(<<a, b>>, xs) \in Seq({a, b} \X X)
           /\ a # b /\ IsInjective(xs) => \A x : Once(Each(<<a, b>>, xs), <<a, x>>)
           /\ a # b => \A x : FollowedBy(Each(<<a, b>>, xs), <<a, x>>, <<b, x>>)
<1>1. Len(xs) \in Nat /\ DOMAIN xs = 1 .. Len(xs) /\ \A k \in 1 .. Len(xs) : xs[k] \in X
    OBVIOUS
<1> DEFINE n == Len(xs)
           s == Each(<<a, b>>, xs)
<1>2. /\ DOMAIN s = 1 .. 2 * n
      /\ \A k \in 1 .. 2 * n : s[k] = <<<<a, b>>[((k - 1) % 2) + 1], xs[((k - 1) \div 2) + 1]>>
    BY DEF Each
<1>3. \A k \in 1 .. 2 * n : /\ ((k - 1) \div 2) + 1 \in 1 .. n
                            /\ (k - 1) % 2 = 0 \/ (k - 1) % 2 = 1
    BY <1>1
<1>4. s = [k \in 1 .. 2 * n |-> s[k]]
    BY <1>2 DEF Each
<1> HIDE DEF s
<1>5. \A k \in 1 .. 2 * n : s[k] = <<a, xs[((k - 1) \div 2) + 1]>> \/ s[k] = <<b, xs[((k - 1) \div 2) + 1]>>
    BY <1>2, <1>3
<1>6. s \in Seq({a, b} \X X)
    <2>1. ASSUME NEW k \in 1 .. 2 * n
          PROVE  s[k] \in {a, b} \X X
        <3> DEFINE j == ((k - 1) \div 2) + 1
        <3>1. j \in 1 .. n
            BY <1>3
        <3>2. s[k] = <<a, xs[j]>> \/ s[k] = <<b, xs[j]>>
            BY <1>5
        <3> HIDE DEF j
        <3>3. xs[j] \in X
            BY <3>1
        <3>4. <<a, xs[j]>> \in {a, b} \X X /\ <<b, xs[j]>> \in {a, b} \X X
            BY <3>3
        <3> QED
            BY <3>2, <3>4
    <2>2. 2 * n \in Nat
        BY <1>1
    <2> QED
        BY <1>4, <2>1, <2>2
<1>7. ASSUME a # b, IsInjective(xs), NEW x
      PROVE  Once(s, <<a, x>>)
    <2> SUFFICES ASSUME NEW k \in 1 .. 2 * n, NEW l \in 1 .. 2 * n, s[k] = <<a, x>>, s[l] = <<a, x>>
                 PROVE  k = l
        BY <1>2 DEF Once
    <2>1. \A j \in 1 .. 2 * n : s[j] = <<a, x>> => (j - 1) % 2 = 0 /\ xs[((j - 1) \div 2) + 1] = x
        BY <1>2, <1>3, <1>7
    <2>2. ((k - 1) \div 2) + 1 = ((l - 1) \div 2) + 1
        BY <1>1, <1>3, <1>7, <2>1 DEF IsInjective
    <2>3. k - 1 = 2 * ((k - 1) \div 2) /\ l - 1 = 2 * ((l - 1) \div 2)
        BY <1>1, <2>1
    <2> QED
        BY <1>1, <2>2, <2>3
<1>8. ASSUME a # b, NEW x
      PROVE  FollowedBy(s, <<a, x>>, <<b, x>>)
    <2> SUFFICES ASSUME NEW k \in 1 .. 2 * n, s[k] = <<a, x>>
                 PROVE  k + 1 \in 1 .. 2 * n /\ s[k + 1] = <<b, x>>
        BY <1>2 DEF FollowedBy
    <2>1. (k - 1) % 2 = 0 /\ xs[((k - 1) \div 2) + 1] = x
        BY <1>2, <1>3, <1>8
    <2>2. k + 1 \in 1 .. 2 * n /\ ((k + 1) - 1) % 2 = 1 /\ ((k + 1) - 1) \div 2 = (k - 1) \div 2
        BY <1>1, <2>1
    <2> DEFINE l == k + 1
    <2>3. l \in 1 .. 2 * n /\ (l - 1) % 2 = 1 /\ (l - 1) \div 2 = (k - 1) \div 2
        BY <2>2
    <2> HIDE DEF l
    <2>4. s[l] = <<<<a, b>>[1 + 1], x>>
        BY <1>2, <2>1, <2>3
    <2> QED
        BY <2>3, <2>4 DEF l
<1> QED
    BY <1>6, <1>7, <1>8 DEF s
-----------------------------------------------------------------------------
(* Circuits                                                                *)

\* The ports of each master.
LEMMA MasterFacts ==
    ASSUME circuit \in Circuits
    PROVE  /\ Automata \subseteq Masters
           /\ \A m \in Automata :
                 /\ Alone(m) \in Seq(Ports) /\ IsInjective(Alone(m))
                 /\ Private(m) \in Seq(PrivatePorts) /\ IsInjective(Private(m))
                 /\ Grouped(m) \subseteq OutPorts \/ Grouped(m) \subseteq InPorts
                 /\ Grouped(m) \cap Range(Alone(m)) = {}
                 /\ \/ Source(m) \in Public(m) \cap OutPorts
                    \/ Source(m) \in Slaves /\ <<"out", Source(m)>> \in Range(Private(m))
                 /\ \A x \in Range(Private(m)) : \E n \in Automata : Opposite(x) \in Range(Private(n))
                 /\ Public(m) \subseteq Ports /\ Range(Private(m)) \subseteq PrivatePorts
<1>1. IsCircuit(circuit)
    BY LykosAssumption
<1>2. Automata \subseteq Masters
    BY <1>1 DEF IsCircuit, Automata
<1>3. ASSUME NEW m \in Automata
      PROVE  /\ Alone(m) \in Seq(Ports) /\ IsInjective(Alone(m))
             /\ Private(m) \in Seq(PrivatePorts) /\ IsInjective(Private(m))
             /\ Grouped(m) \subseteq OutPorts \/ Grouped(m) \subseteq InPorts
             /\ Grouped(m) \cap Range(Alone(m)) = {}
             /\ \/ Source(m) \in Public(m) \cap OutPorts
                \/ Source(m) \in Slaves /\ <<"out", Source(m)>> \in Range(Private(m))
             /\ \A x \in Range(Private(m)) : \E n \in Automata : Opposite(x) \in Range(Private(n))
    BY <1>1 DEF IsCircuit, Automata, Alone, Private, Grouped, Source, Public
<1>4. ASSUME NEW m \in Automata
      PROVE  Public(m) \subseteq Ports /\ Range(Private(m)) \subseteq PrivatePorts
    <2>1. Range(Alone(m)) \subseteq Ports
        BY <1>3, RangeOfSeq
    <2>2. Grouped(m) \subseteq Ports
        BY <1>3 DEF Ports
    <2>3. Range(Private(m)) \subseteq PrivatePorts
        BY <1>3, RangeOfSeq
    <2> QED
        BY <2>1, <2>2, <2>3 DEF Public
<1> QED
    BY <1>2, <1>3, <1>4

\* A port belongs to one master only, and to its queue or not.
LEMMA OwnerFacts ==
    ASSUME circuit \in Circuits
    PROVE  /\ \A m, n \in Automata : \A p \in Public(m) : p \in Public(n) => m = n
           /\ \A m, n \in Automata : \A x \in Range(Private(m)) : x \in Range(Private(n)) => m = n
           /\ \A m \in Automata : \A p \in Public(m) : Master(p) = m
           /\ \A m \in Automata : \A x \in Range(Private(m)) : Master(x) = m
           /\ \A m \in Automata : \A p \in Public(m) : p \in group <=> p \in Grouped(m)
           /\ group \subseteq Ports
<1>1. IsCircuit(circuit)
    BY LykosAssumption
<1>2. \A m, n \in Automata : \A p \in Public(m) : p \in Public(n) => m = n
    BY <1>1 DEF IsCircuit, Automata, Public, Alone, Grouped
<1>3. \A m, n \in Automata : \A x \in Range(Private(m)) : x \in Range(Private(n)) => m = n
    BY <1>1 DEF IsCircuit, Automata, Private
<1>4. \A m \in Automata : Public(m) \subseteq Ports /\ Range(Private(m)) \subseteq PrivatePorts
    BY MasterFacts
<1>5. Ports \cap PrivatePorts = {}
    BY LykosAssumption
<1>6. \A m \in Automata : \A p \in Public(m) : Master(p) = m
    BY <1>2, <1>4, <1>5 DEF Master
<1>7. \A m \in Automata : \A x \in Range(Private(m)) : Master(x) = m
    BY <1>3, <1>4, <1>5 DEF Master
<1>8. \A m \in Automata : \A p \in Public(m) : p \in group <=> p \in Grouped(m)
    BY <1>2 DEF Public, group
<1>9. group \subseteq Ports
    BY <1>4 DEF Public, group
<1> QED
    BY <1>2, <1>3, <1>6, <1>7, <1>8, <1>9

LEMMA OppositeFacts ==
    ASSUME NEW x \in PrivatePorts
    PROVE  /\ Opposite(x) \in PrivatePorts /\ Opposite(Opposite(x)) = x
           /\ Usable(Opposite(x)) <=> ~Usable(x)
           /\ x = <<x[1], x[2]>> /\ x[2] \in Slaves
           /\ \A y \in PrivatePorts : y # x /\ y # Opposite(x) => y[2] # x[2]
BY DEF PrivatePorts, Opposite, Usable

\* The ports that a transition serves: those with masks of their own, and the
\* one that is next in the queue.
LEMMA ServedFacts ==
    ASSUME circuit \in Circuits, NEW m \in Automata, items[m] \in Seq(Grouped(m)),
           Grouped(m) # {} => items[m] # <<>>
    PROVE  /\ Served(m) \in Seq(Ports) /\ IsInjective(Served(m))
           /\ Range(Served(m)) \subseteq Public(m)
           /\ Range(Alone(m)) \subseteq Range(Served(m))
           /\ \A p \in Range(Served(m)) :
                 p \in Range(Alone(m)) \/ (Grouped(m) # {} /\ p = Head(items[m]))
           /\ Grouped(m) # {} => Head(items[m]) \in Range(Served(m)) \cap Grouped(m)
<1>1. /\ Alone(m) \in Seq(Ports) /\ IsInjective(Alone(m))
      /\ Grouped(m) \cap Range(Alone(m)) = {} /\ Grouped(m) \subseteq Ports
    BY MasterFacts DEF Public
<1>2. CASE Grouped(m) = {}
    <2>1. Served(m) = Alone(m)
        BY <1>1, <1>2, ConcatEmptySeq DEF Served
    <2> QED
        BY <1>1, <1>2, <2>1 DEF Public
<1>3. CASE Grouped(m) # {}
    <2> DEFINE q == Head(items[m])
    <2>1. q \in Grouped(m)
        BY <1>3, TailFacts
    <2>2. Served(m) = Alone(m) \o <<q>>
        BY <1>3 DEF Served
    <2>3. q \in Ports /\ q \notin Range(Alone(m))
        BY <1>1, <2>1
    <2> HIDE DEF q
    <2>4. Served(m) = Append(Alone(m), q)
        BY <1>1, <2>2, <2>3, AppendIsConcat
    <2>5. /\ Served(m) \in Seq(Ports) /\ IsInjective(Served(m))
          /\ Range(Served(m)) = Range(Alone(m)) \cup {q}
        BY <1>1, <2>3, <2>4, AppendFacts
    <2> QED
        BY <1>3, <2>1, <2>5 DEF Public, q
<1> QED
    BY <1>2, <1>3

\* What the statements of a transition are.
LEMMA StatementsFacts ==
    ASSUME circuit \in Circuits, NEW m \in Automata, items[m] \in Seq(Grouped(m)),
           Grouped(m) # {} => items[m] # <<>>
    PROVE  /\ Statements(m) \in Seq(Steps) /\ Statements(m) # <<>>
           /\ Statements(m)[1] = <<"take", m>>
           /\ \A k \in DOMAIN Statements(m) :
                 Statements(m)[k][1] = "take" => k = 1 /\ Statements(m)[k][2] = m
           /\ \A p : /\ <<"complete", p>> \in Range(Statements(m)) <=> p \in Range(Served(m))
                     /\ Once(Statements(m), <<"complete", p>>)
                     /\ FollowedBy(Statements(m), <<"complete", p>>, <<"release", p>>)
           /\ \A x \in PrivatePorts :
                 /\ <<"reach", x>> \in Range(Statements(m)) <=> Opposite(x) \in Range(Private(m))
                 /\ Once(Statements(m), <<"reach", x>>)
                 /\ <<"kick", x>> \in Range(Statements(m)) =>
                       x \in Range(Private(m)) \/ Opposite(x) \in Range(Private(m))
<1> DEFINE opposites == [k \in DOMAIN Private(m) |-> Opposite(Private(m)[k])]
           a == <<<<"take", m>>>>
           b == Each(<<"complete", "release">>, Served(m))
           c == Each(<<"release">>, Alone(m))
           d == Each(<<"kick">>, Private(m))
           f == Each(<<"reach", "kick">>, opposites)
           ab == a \o b
           abc == ab \o c
           abcd == abc \o d
<1>1. m \in Masters /\ Alone(m) \in Seq(Ports) /\ Private(m) \in Seq(PrivatePorts) /\ IsInjective(Private(m))
    BY MasterFacts
<1>2. Served(m) \in Seq(Ports) /\ IsInjective(Served(m))
    BY ServedFacts
<1>3. opposites \in Seq(PrivatePorts) /\ IsInjective(opposites)
    <2>1. DOMAIN Private(m) = 1 .. Len(Private(m)) /\ Len(Private(m)) \in Nat
        BY <1>1
    <2>2. \A k \in DOMAIN Private(m) : Private(m)[k] \in PrivatePorts
        BY <1>1
    <2>3. \A k \in DOMAIN Private(m) : Opposite(Private(m)[k]) \in PrivatePorts
        BY <2>2, OppositeFacts
    <2>4. opposites \in Seq(PrivatePorts)
        BY <2>1, <2>3
    <2>5. \A k, l \in DOMAIN Private(m) : Opposite(Private(m)[k]) = Opposite(Private(m)[l]) => k = l
        BY <1>1, <2>2, OppositeFacts DEF IsInjective
    <2> QED
        BY <2>4, <2>5 DEF IsInjective
<1>4. \A x \in PrivatePorts : x \in Range(opposites) <=> Opposite(x) \in Range(Private(m))
    <2>1. \A k \in DOMAIN Private(m) : Private(m)[k] \in PrivatePorts
        BY <1>1
    <2> QED
        BY <2>1, OppositeFacts DEF Range
<1> HIDE DEF opposites
<1>a. a \in Seq({"take"} \X {m}) /\ a \in Seq(Steps) /\ Range(a) = {<<"take", m>>}
    <2>1. <<"take", m>> \in {"take"} \X {m} /\ <<"take", m>> \in Steps
        BY <1>1 DEF Steps
    <2> QED
        BY <2>1 DEF Range
<1>b. /\ b \in Seq(Steps)
      /\ \A e : e \in Range(b) <=> \E x \in Range(Served(m)) : e = <<"complete", x>> \/ e = <<"release", x>>
      /\ \A x : Once(b, <<"complete", x>>)
    <2>1. b \in Seq({"complete", "release"} \X Ports)
        BY <1>2, EachTwo
    <2>2. b \in Seq(Steps)
        BY <2>1, SeqMonotonic DEF Steps
    <2>4. Range(b) = {"complete", "release"} \X Range(Served(m))
        BY <1>2, EachTwoRange
    <2>5. \A x : Once(b, <<"complete", x>>)
        BY <1>2, EachTwo
    <2> QED
        BY <2>2, <2>4, <2>5
<1>e. \A x : FollowedBy(b, <<"complete", x>>, <<"release", x>>)
    BY <1>2, EachTwo
<1>c. /\ c \in Seq(Steps)
      /\ \A e : e \in Range(c) <=> \E x \in Range(Alone(m)) : e = <<"release", x>>
    <2>1. c \in Seq({"release"} \X Ports)
        BY <1>1, EachOne
    <2>2. {"release"} \X Ports \subseteq Steps
        BY DEF Steps
    <2>3. c \in Seq(Steps)
        BY <2>1, <2>2, SeqMonotonic
    <2>4. Range(c) = {"release"} \X Range(Alone(m))
        BY <1>1, EachOne
    <2> QED
        BY <2>3, <2>4
<1>d. /\ d \in Seq(Steps)
      /\ \A e : e \in Range(d) <=> \E x \in Range(Private(m)) : e = <<"kick", x>>
    <2>1. d \in Seq({"kick"} \X PrivatePorts)
        BY <1>1, EachOne
    <2>2. {"kick"} \X PrivatePorts \subseteq Steps
        BY DEF Steps
    <2>3. d \in Seq(Steps)
        BY <2>1, <2>2, SeqMonotonic
    <2>4. Range(d) = {"kick"} \X Range(Private(m))
        BY <1>1, EachOne
    <2> QED
        BY <2>3, <2>4
<1>f. /\ f \in Seq(Steps)
      /\ \A e : e \in Range(f) <=> \E x \in Range(opposites) : e = <<"reach", x>> \/ e = <<"kick", x>>
      /\ \A x : Once(f, <<"reach", x>>)
    <2>1. f \in Seq({"reach", "kick"} \X PrivatePorts)
        BY <1>3, EachTwo
    <2>2. f \in Seq(Steps)
        BY <2>1, SeqMonotonic DEF Steps
    <2>4. Range(f) = {"reach", "kick"} \X Range(opposites)
        BY <1>3, EachTwoRange
    <2>5. \A x : Once(f, <<"reach", x>>)
        BY <1>3, EachTwo
    <2> QED
        BY <2>2, <2>4, <2>5
<1>5. Statements(m) = abcd \o f
    BY DEF Statements, opposites
<1>6. a[1] = <<"take", m>> /\ Len(a) = 1
    OBVIOUS
<1> HIDE DEF a, b, c, d, f
<1>7. ab \in Seq(Steps) /\ Range(ab) = Range(a) \cup Range(b) /\ ab[1] = <<"take", m>> /\ Len(ab) >= 1
    BY <1>6, <1>a, <1>b, ConcatProperties, RangeConcatenation
<1> HIDE DEF ab
<1>8. abc \in Seq(Steps) /\ Range(abc) = Range(ab) \cup Range(c) /\ abc[1] = <<"take", m>> /\ Len(abc) >= 1
    BY <1>7, <1>c, ConcatProperties, RangeConcatenation
<1> HIDE DEF abc
<1>9. abcd \in Seq(Steps) /\ Range(abcd) = Range(abc) \cup Range(d) /\ abcd[1] = <<"take", m>> /\ Len(abcd) >= 1
    BY <1>8, <1>d, ConcatProperties, RangeConcatenation
<1> HIDE DEF abcd
<1>10. /\ Statements(m) \in Seq(Steps) /\ Range(Statements(m)) = Range(abcd) \cup Range(f)
       /\ Statements(m)[1] = <<"take", m>> /\ Len(Statements(m)) >= 1
    BY <1>5, <1>9, <1>f, ConcatProperties, RangeConcatenation
<1>11. \A e \in Range(Statements(m)) :
          \/ e = <<"take", m>>
          \/ \E x \in Range(Served(m)) : e = <<"complete", x>> \/ e = <<"release", x>>
          \/ \E x \in Range(Alone(m)) : e = <<"release", x>>
          \/ \E x \in Range(Private(m)) : e = <<"kick", x>>
          \/ \E x \in Range(opposites) : e = <<"reach", x>> \/ e = <<"kick", x>>
    BY <1>7, <1>8, <1>9, <1>10, <1>a, <1>b, <1>c, <1>d, <1>f
<1>12. ASSUME NEW k \in DOMAIN Statements(m), Statements(m)[k][1] = "take"
       PROVE  k = 1 /\ Statements(m)[k][2] = m
    <2>1. Statements(m)[k] \in Range(Statements(m))
        BY DEF Range
    <2>2. Statements(m)[k] = <<"take", m>>
        BY <1>11, <1>12, <2>1
    <2>3. <<"take", m>> \notin Range(b) \cup Range(c) \cup Range(d) \cup Range(f)
        BY <1>b, <1>c, <1>d, <1>f
    <2>4. Once(a, <<"take", m>>)
        BY <1>6, <1>a DEF Once
    <2>5. Once(ab, <<"take", m>>)
        BY <2>3, <2>4, <1>a, <1>b, OnceBefore DEF ab
    <2>6. Once(abc, <<"take", m>>)
        BY <2>3, <2>5, <1>7, <1>c, OnceBefore DEF abc
    <2>7. Once(abcd, <<"take", m>>)
        BY <2>3, <2>6, <1>8, <1>d, OnceBefore DEF abcd
    <2>8. Once(Statements(m), <<"take", m>>)
        BY <2>3, <2>7, <1>9, <1>f, <1>5, OnceBefore
    <2>9. 1 \in DOMAIN Statements(m)
        BY <1>10
    <2> QED
        BY <1>10, <2>2, <2>8, <2>9 DEF Once
<1>13. ASSUME NEW p
       PROVE  /\ <<"complete", p>> \in Range(Statements(m)) <=> p \in Range(Served(m))
              /\ Once(Statements(m), <<"complete", p>>)
              /\ FollowedBy(Statements(m), <<"complete", p>>, <<"release", p>>)
    <2> DEFINE fol(s) == FollowedBy(s, <<"complete", p>>, <<"release", p>>)
    <2>1. <<"complete", p>> \notin Range(a) \cup Range(c) \cup Range(d) \cup Range(f)
        BY <1>a, <1>c, <1>d, <1>f
    <2>2. <<"complete", p>> \in Range(b) <=> p \in Range(Served(m))
        BY <1>b
    <2>3. Once(ab, <<"complete", p>>)
        BY <2>1, <1>a, <1>b, OnceAfter DEF ab
    <2>4. Once(abc, <<"complete", p>>)
        BY <2>1, <2>3, <1>7, <1>c, OnceBefore DEF abc
    <2>5. Once(abcd, <<"complete", p>>)
        BY <2>1, <2>4, <1>8, <1>d, OnceBefore DEF abcd
    <2>6. Once(Statements(m), <<"complete", p>>)
        BY <2>1, <2>5, <1>9, <1>f, <1>5, OnceBefore
    <2>7. fol(ab)
        BY <2>1, <1>a, <1>b, <1>e, FollowedAfter DEF ab
    <2>8. fol(abc)
        BY <2>1, <2>7, <1>7, <1>c, FollowedBefore DEF abc
    <2>9. fol(abcd)
        BY <2>1, <2>8, <1>8, <1>d, FollowedBefore DEF abcd
    <2>10. fol(Statements(m))
        BY <2>1, <2>9, <1>9, <1>f, <1>5, FollowedBefore
    <2> QED
        BY <1>7, <1>8, <1>9, <1>10, <2>1, <2>2, <2>6, <2>10
<1>14. ASSUME NEW x \in PrivatePorts
       PROVE  /\ <<"reach", x>> \in Range(Statements(m)) <=> Opposite(x) \in Range(Private(m))
              /\ Once(Statements(m), <<"reach", x>>)
              /\ <<"kick", x>> \in Range(Statements(m)) =>
                    x \in Range(Private(m)) \/ Opposite(x) \in Range(Private(m))
    <2>1. <<"reach", x>> \notin Range(abcd)
        BY <1>7, <1>8, <1>9, <1>a, <1>b, <1>c, <1>d
    <2>2. <<"reach", x>> \in Range(f) <=> Opposite(x) \in Range(Private(m))
        BY <1>4, <1>f
    <2>3. Once(Statements(m), <<"reach", x>>)
        BY <2>1, <1>9, <1>f, <1>5, OnceAfter
    <2>4. <<"kick", x>> \in Range(Statements(m)) =>
              x \in Range(Private(m)) \/ Opposite(x) \in Range(Private(m))
        BY <1>4, <1>11
    <2> QED
        BY <1>10, <2>1, <2>2, <2>3, <2>4
<1>15. Statements(m) # <<>>
    BY <1>10, EmptySeq
<1> QED
    BY <1>10, <1>12, <1>13, <1>14, <1>15
-----------------------------------------------------------------------------
(* What a step leaves alone                                                *)

LEMMA Same ==
    ASSUME circuit' = circuit
    PROVE  /\ Automata' = Automata /\ group' = group
           /\ \A m : /\ Alone(m)' = Alone(m) /\ Grouped(m)' = Grouped(m)
                     /\ Public(m)' = Public(m) /\ Private(m)' = Private(m)
                     /\ Source(m)' = Source(m) /\ Master(m)' = Master(m)
BY DEF Automata, group, Alone, Grouped, Public, Private, Source, Master

LEMMA TodoFrame ==
    ASSUME TodoOK, UNCHANGED <<circuit, todo, full>>,
           \A m \in Masters : todo[m] # <<>> => lock'[m] # None
    PROVE  TodoOK'
BY Same DEF TodoOK, Does, Once, Usable

LEMMA LockFrame ==
    ASSUME LockOK, UNCHANGED <<circuit, lock, todo, thread>>,
           \A p \in Ports : At(p, "firing")' <=> At(p, "firing")
    PROVE  LockOK'
<1>1. \A p \in Ports : op'[p].at = "firing" <=> op[p].at = "firing"
    BY DEF At
<1>2. \A p \in Ports : Master(p)' = Master(p)
    BY Same
<1>3. \A p \in Ports : At(p, "firing")' => lock'[Master(p)'] = p
    BY <1>1, <1>2 DEF LockOK, At
<1>4. ASSUME NEW m \in Masters, lock'[m] \in Ports
      PROVE  op'[lock'[m]].at = "firing" /\ m = Master(lock[m])
    BY <1>1, <1>4 DEF LockOK, At
<1>5. \A m \in Masters : lock'[m] \in Ports => op'[lock'[m]].at = "firing" /\ m = Master(lock[m])
    BY <1>4
<1>6. \A m : Master(lock[m])' = Master(lock[m])
    BY DEF Master, Automata, Public, Alone, Grouped, Private
<1> QED
    BY <1>3, <1>5, <1>6 DEF LockOK, At

LEMMA RequestsFrame ==
    ASSUME RequestsOK, UNCHANGED <<circuit, bits, items, todo>>,
           \A p \in Ports : Open(p) => Open(p)'
    PROVE  RequestsOK'
BY Same DEF RequestsOK, Flagged, Pending, Does

LEMMA ItemsFrame ==
    ASSUME ItemsOK, circuit \in Circuits, UNCHANGED <<circuit, items, published, todo>>,
           \A p \in Ports : At(p, "publish")' <=> At(p, "publish")
    PROVE  ItemsOK'
<1>1. \A m \in Automata : Grouped(m) \subseteq Ports
    BY MasterFacts DEF Public
<1>2. \A m \in Automata :
         {p \in Grouped(m) : At(p, "publish")'} = {p \in Grouped(m) : At(p, "publish")}
    BY <1>1
<1> QED
    BY <1>2, Same DEF ItemsOK, Does, At

LEMMA WorkFrame ==
    ASSUME WorkOK, UNCHANGED <<circuit, work>>
    PROVE  WorkOK'
BY Same DEF WorkOK

LEMMA DataFrame ==
    ASSUME DataOK, UNCHANGED <<buffer, cell, full, todo>>,
           \A p \in OutPorts : At(p, "idle") => At(p, "idle")'
    PROVE  DataOK'
BY DEF DataOK, Holds, Pending, Does

LEMMA UpTo ==
    ASSUME NEW n \in Nat
    PROVE  IsFiniteSet(1 .. n) /\ Cardinality(1 .. n) = n
<1>1. 1 \in Int /\ n \in Int
    OBVIOUS
<1> QED
    BY <1>1, FS_Interval

\* The types that follow from the rest: an injective queue of private ports is
\* no longer than the sequence of those ports.
Fits == \A m \in Automata : IsInjective(work[m]) /\ Len(work[m]) <= Len(Private(m))

LEMMA WorkFits == circuit \in Circuits /\ WorkOK => Fits
<1> SUFFICES ASSUME circuit \in Circuits, WorkOK, NEW m \in Automata
             PROVE  IsInjective(work[m]) /\ Len(work[m]) <= Len(Private(m))
    BY DEF Fits
<1>1. work[m] \in Seq(Range(Private(m))) /\ IsInjective(work[m])
    BY DEF WorkOK
<1>2. Private(m) \in Seq(PrivatePorts) /\ IsInjective(Private(m))
    BY MasterFacts
<1> DEFINE l == Len(work[m])
           n == Len(Private(m))
<1>3. l \in Nat /\ n \in Nat /\ DOMAIN work[m] = 1 .. l /\ DOMAIN Private(m) = 1 .. n
    BY <1>1, <1>2
<1>4. \A k \in 1 .. l : \E j \in 1 .. n : work[m][k] = Private(m)[j]
    BY <1>1, <1>3 DEF Range
<1> DEFINE place == [k \in 1 .. l |-> CHOOSE j \in 1 .. n : work[m][k] = Private(m)[j]]
<1>5. \A k \in 1 .. l : place[k] \in 1 .. n /\ work[m][k] = Private(m)[place[k]]
    BY <1>4
<1>6. place \in [1 .. l -> 1 .. n]
    BY <1>5
<1> HIDE DEF place
<1>7. ASSUME NEW k \in 1 .. l, NEW j \in 1 .. l, place[k] = place[j]
      PROVE  k = j
    <2>1. work[m][k] = work[m][j]
        BY <1>5, <1>7
    <2> QED
        BY <1>1, <1>3, <2>1 DEF IsInjective
<1>8. place \in Injection(1 .. l, 1 .. n)
    BY <1>6, <1>7 DEF Injection, IsInjective
<1>9. IsFiniteSet(1 .. l) /\ IsFiniteSet(1 .. n) /\ Cardinality(1 .. l) = l /\ Cardinality(1 .. n) = n
    BY <1>3, UpTo
<1>10. Cardinality(1 .. l) <= Cardinality(1 .. n)
    BY <1>8, <1>9, FS_Injection
<1> QED
    BY <1>1, <1>9, <1>10

LEMMA WorkFitsNext ==
    ASSUME circuit \in Circuits, circuit' = circuit, WorkOK'
    PROVE  \A m \in Automata : IsInjective(work'[m]) /\ Len(work'[m]) <= Len(Private(m))
<1>1. (circuit \in Circuits /\ WorkOK => Fits)'
    BY WorkFits, PTL
<1> QED
    BY <1>1, Same DEF Fits

\* The items that head counts are written.
LEMMA ItemsCounted ==
    ASSUME circuit \in Circuits, LykosTypeOK, ItemsOK, NEW m \in Automata
    PROVE  /\ IsFiniteSet(Grouped(m))
           /\ Cardinality({p \in Grouped(m) : At(p, "publish")}) \in Nat
           /\ published[m] <= Len(items[m])
<1> DEFINE offered == {p \in Grouped(m) : At(p, "publish")}
<1>1. IsFiniteSet(Ports) /\ Grouped(m) \in SUBSET Ports /\ m \in Masters
    BY MasterFacts, LykosAssumption DEF Public
<1>2. IsFiniteSet(Grouped(m))
    BY <1>1, FS_Subset
<1>3. offered \in SUBSET Grouped(m)
    OBVIOUS
<1>4. IsFiniteSet(offered) /\ Cardinality(offered) \in Nat
    BY <1>2, <1>3, FS_Subset, FS_CardinalityType
<1>5. published[m] \in Nat /\ Len(items[m]) = published[m] + Cardinality(offered)
    BY <1>1 DEF LykosTypeOK, ItemsOK
<1> QED
    BY <1>2, <1>4, <1>5
-----------------------------------------------------------------------------
(* The thread of a port between its calls                                  *)

OpType == [at : Labels, timed : BOOLEAN, interrupts : Nat]

LEMMA GotoFacts ==
    ASSUME LykosTypeOK, NEW p \in Ports, NEW l \in Labels, Goto(p, l)
    PROVE  /\ op' \in [Ports -> OpType]
           /\ op'[p].at = l
           /\ op'[p].timed => op[p].timed
           /\ l # "idle" => op'[p].timed = op[p].timed
           /\ \A q \in Ports : q # p => op'[q] = op[q]
<1>1. op \in [Ports -> OpType] /\ op[p] \in OpType
    BY DEF LykosTypeOK, OpType
<1>2. CASE l = "idle"
    <2>1. Idle \in OpType /\ Idle.at = "idle" /\ Idle.timed = FALSE
        BY DEF Idle, OpType, Labels
    <2>2. op' = [op EXCEPT ![p] = Idle]
        BY <1>2 DEF Goto
    <2> QED
        BY <1>1, <1>2, <2>1, <2>2
<1>3. CASE l # "idle"
    <2> DEFINE new == [op[p] EXCEPT !.at = l]
    <2>1. new \in OpType /\ new.at = l /\ new.timed = op[p].timed
        BY <1>1 DEF OpType
    <2>2. op' = [op EXCEPT ![p] = new]
        BY <1>3 DEF Goto
    <2> HIDE DEF new
    <2> QED
        BY <1>1, <1>3, <2>1, <2>2
<1> QED
    BY <1>2, <1>3

\* A thread that has flagged its operation and is not in the queue's offer goes
\* on, or ends when the operation is not pending any more.
LEMMA MoveStep ==
    ASSUME LykosInv, NEW p \in Ports,
           UNCHANGED <<circuit, status, buffer, bits, queueVars, slaveVars, todo, runVars>>,
           op' \in [Ports -> OpType], \A q \in Ports : q # p => op'[q] = op[q],
           permits' \in [Ports -> 0 .. MaxPermits],
           op[p].at \notin {"idle", "flag", "publish"},
           op'[p].at \notin {"flag", "publish", "firing", "throw"},
           op'[p].timed => op[p].timed,
           op'[p].at = "cancel" => op'[p].timed,
           op'[p].at = "idle" => status[p] # "pending",
           lock' \in [Masters -> Ports \cup Masters \cup {None}],
           \A m \in Masters : todo[m] # <<>> => lock'[m] # None,
           LockOK'
    PROVE  LykosInv'
<1> USE DEF queueVars, slaveVars, runVars, LykosInv
<1>1. circuit' \in Circuits
    OBVIOUS
<1>2. LykosTypeOK'
    BY Same DEF LykosTypeOK, OpType
<1>3. TodoOK'
    BY TodoFrame
<1>4. OpsOK'
    <2>1. ASSUME NEW q \in Ports, q # p
          PROVE  /\ At(q, "idle")' \/ \E m \in Automata' : q \in Public(m)'
                 /\ op'[q].timed => q \notin group'
                 /\ At(q, "cancel")' => op'[q].timed
                 /\ At(q, "publish")' => q \in group'
                 /\ At(q, "flag")' => status'[q] = "pending"
                 /\ At(q, "throw")' => status'[q] = None
                 /\ At(q, "firing")' /\ op'[q].timed => status'[q] = "completed" \/ Pending("complete", q)'
        <3>1. op'[q] = op[q] /\ status'[q] = status[q] /\ (Pending("complete", q)' <=> Pending("complete", q))
            BY <2>1 DEF Pending, Does
        <3> QED
            BY <3>1, Same DEF OpsOK, At
    <2>2. /\ At(p, "idle")' \/ \E m \in Automata' : p \in Public(m)'
          /\ op'[p].timed => p \notin group'
          /\ At(p, "cancel")' => op'[p].timed
          /\ At(p, "publish")' => p \in group'
          /\ At(p, "flag")' => status'[p] = "pending"
          /\ At(p, "throw")' => status'[p] = None
          /\ At(p, "firing")' /\ op'[p].timed => status'[p] = "completed" \/ Pending("complete", p)'
        BY Same DEF OpsOK, At
    <2> QED
        BY <2>1, <2>2 DEF OpsOK
<1>5. RequestsOK'
    <2>1. \A q \in Ports : Open(q) => Open(q)'
        BY DEF Open, At
    <2> QED
        BY <2>1, RequestsFrame
<1>6. ItemsOK'
    <2>1. \A q \in Ports : At(q, "publish")' <=> At(q, "publish")
        BY DEF At
    <2> QED
        BY <2>1, ItemsFrame
<1>7. WorkOK'
    BY WorkFrame
<1>8. DataOK'
    <2>1. \A q \in OutPorts : At(q, "idle") => At(q, "idle")'
        BY DEF At, Ports
    <2> QED
        BY <2>1, DataFrame
<1> QED
    BY <1>1, <1>2, <1>3, <1>4, <1>5, <1>6, <1>7, <1>8

\* Check, Wake, Interrupt, Resume, Expire and Throw only move the thread.
LEMMA ThreadMoves ==
    ASSUME LykosInv, NEW p \in Ports, Check(p) \/ Wake(p) \/ Interrupt(p) \/ Resume(p) \/ Expire(p) \/ Throw(p)
    PROVE  LykosInv'
<1>1. /\ op \in [Ports -> OpType] /\ op[p] \in OpType
      /\ permits \in [Ports -> 0 .. MaxPermits]
      /\ lock \in [Masters -> Ports \cup Masters \cup {None}]
    BY DEF LykosInv, LykosTypeOK, OpType
<1>2. UNCHANGED <<circuit, status, buffer, bits, queueVars, slaveVars, lock, todo, runVars>>
    BY DEF Check, Wake, Interrupt, Resume, Expire, Throw, portVars
<1>3. /\ op' \in [Ports -> OpType] /\ \A q \in Ports : q # p => op'[q] = op[q]
      /\ op[p].at \in {"call", "check", "wait", "interrupted", "throw"}
      /\ op'[p].at \in {"call", "check", "wait", "interrupted", "cancel", "idle"}
      /\ op'[p].timed => op[p].timed
      /\ op'[p].at = "cancel" => op'[p].timed
      /\ op'[p].at = "idle" => status[p] # "pending"
    <2>1. CASE Check(p)
        <3> DEFINE l == IF status[p] = "completed" THEN "idle" ELSE IF op[p].timed THEN "call" ELSE "wait"
        <3>1. l \in Labels /\ Goto(p, l) /\ op[p].at = "check"
            BY <2>1 DEF Check, Labels, At
        <3>2. l \in {"idle", "call", "wait"} /\ (l = "idle" => status[p] = "completed")
            OBVIOUS
        <3> HIDE DEF l
        <3> QED
            BY <3>1, <3>2, GotoFacts DEF LykosInv
    <2>2. CASE Wake(p) \/ Resume(p)
        <3>1. PICK l \in {"check", "call"} : Goto(p, l) /\ op[p].at \in {"wait", "interrupted"}
            BY <2>2 DEF Wake, Resume, Retry, At
        <3>2. l \in Labels
            BY DEF Labels
        <3> QED
            BY <3>1, <3>2, GotoFacts DEF LykosInv
    <2>3. CASE Expire(p)
        <3>1. Goto(p, "cancel") /\ op[p].at = "wait" /\ op[p].timed /\ "cancel" \in Labels
            BY <2>3 DEF Expire, At, Labels
        <3> QED
            BY <3>1, GotoFacts DEF LykosInv
    <2>4. CASE Interrupt(p)
        <3> DEFINE l == IF op[p].timed THEN "check" ELSE "interrupted"
                   i == op[p].interrupts - 1
                   new == [at |-> l, timed |-> op[p].timed, interrupts |-> i]
        <3>1. op[p].at \in {"call", "wait"} /\ op[p].interrupts > 0
            BY <2>4 DEF Interrupt
        <3>2. new \in OpType
            BY <1>1, <3>1 DEF OpType, Labels
        <3>3. op' = [op EXCEPT ![p] = new]
            BY <1>1, <2>4 DEF Interrupt, OpType
        <3>4. op'[p] = new /\ new.at = l /\ new.timed = op[p].timed
            BY <1>1, <3>3
        <3>5. l \in {"check", "interrupted"}
            OBVIOUS
        <3> HIDE DEF new, l, i
        <3> QED
            BY <1>1, <3>1, <3>2, <3>3, <3>4, <3>5
    <2>5. CASE Throw(p)
        <3>1. Goto(p, "idle") /\ op[p].at = "throw" /\ "idle" \in Labels /\ status[p] = None
            BY <2>5 DEF Throw, At, Labels, LykosInv, OpsOK
        <3>2. status[p] # "pending"
            BY <3>1, LykosAssumption
        <3> QED
            BY <3>1, <3>2, GotoFacts DEF LykosInv
    <2> QED
        BY <2>1, <2>2, <2>3, <2>4, <2>5
<1>4. permits' \in [Ports -> 0 .. MaxPermits]
    <2>1. CASE Wake(p)
        <3>1. permits[p] - 1 \in 0 .. MaxPermits /\ permits' = [permits EXCEPT ![p] = permits[p] - 1]
            BY <1>1, <2>1, LykosAssumption DEF Wake
        <3> QED
            BY <1>1, <3>1
    <2>2. CASE Check(p) \/ Interrupt(p) \/ Resume(p) \/ Expire(p) \/ Throw(p)
        BY <1>1, <2>2 DEF Check, Interrupt, Resume, Expire, Throw, portVars
    <2> QED
        BY <2>1, <2>2
<1>5. \A m \in Masters : todo[m] # <<>> => lock'[m] # None
    BY <1>2 DEF LykosInv, TodoOK
<1>6. LockOK'
    <2>1. \A q \in Ports : At(q, "firing")' <=> At(q, "firing")
        BY <1>3 DEF At
    <2> QED
        BY <1>2, <2>1, LockFrame DEF LykosInv, runVars
<1>7. lock' \in [Masters -> Ports \cup Masters \cup {None}]
    BY <1>1, <1>2
<1> QED
    BY <1>2, <1>3, <1>4, <1>5, <1>6, <1>7, MoveStep

\* callSync without a transition: the operation has been completed, or nothing
\* can fire and the permits are drained.
LEMMA CallSyncMoves ==
    ASSUME LykosInv, NEW p \in Ports, CallSync(p), ~At(p, "firing")'
    PROVE  LykosInv'
<1>1. /\ op \in [Ports -> OpType] /\ op[p] \in OpType
      /\ permits \in [Ports -> 0 .. MaxPermits]
      /\ lock \in [Masters -> Ports \cup Masters \cup {None}]
    BY DEF LykosInv, LykosTypeOK, OpType
<1>2. PICK l \in {"check", "idle", "wait"} :
         /\ Goto(p, l) /\ (l = "idle" => status[p] = "completed")
         /\ permits' = permits \/ permits' = [permits EXCEPT ![p] = 0]
         /\ UNCHANGED <<buffer, cell, lock, todo>>
    <2>1. "firing" \in Labels
        BY DEF Labels
    <2>2. ~Goto(p, "firing")
        BY <2>1, GotoFacts DEF LykosInv, At
    <2>3. CASE status[p] = "completed"
        BY <2>3 DEF CallSync, AfterCall
    <2>4. CASE status[p] # "completed"
        BY <2>2, <2>4 DEF CallSync, AfterCall
    <2> QED
        BY <2>3, <2>4
<1>3. At(p, "call") /\ UNCHANGED <<circuit, status, bits, queueVars, full, runVars>>
    BY DEF CallSync
<1>5. l \in Labels
    BY DEF Labels
<1>6. /\ op' \in [Ports -> OpType] /\ \A q \in Ports : q # p => op'[q] = op[q]
      /\ op'[p].at = l
      /\ op'[p].timed => op[p].timed
    BY <1>2, <1>5, GotoFacts DEF LykosInv
<1>7. permits' \in [Ports -> 0 .. MaxPermits]
    BY <1>1, <1>2, LykosAssumption
<1>8. \A m \in Masters : todo[m] # <<>> => lock'[m] # None
    BY <1>2 DEF LykosInv, TodoOK
<1>9. LockOK'
    <2>1. \A q \in Ports : At(q, "firing")' <=> At(q, "firing")
        BY <1>3, <1>6 DEF At
    <2> QED
        BY <1>2, <1>3, <2>1, LockFrame DEF LykosInv, runVars
<1>10. /\ op[p].at = "call" /\ op'[p].at \in {"check", "idle", "wait"}
       /\ op'[p].at = "idle" => status[p] = "completed"
    BY <1>2, <1>3, <1>6 DEF At
<1>11. UNCHANGED <<circuit, status, buffer, bits, queueVars, slaveVars, todo, runVars>>
    BY <1>2, <1>3 DEF slaveVars
<1>12. lock' \in [Masters -> Ports \cup Masters \cup {None}]
    BY <1>1, <1>2
<1> QED
    BY <1>6, <1>7, <1>8, <1>9, <1>10, <1>11, <1>12, MoveStep

\* A port is used by one master, in whose transitions it occurs.
LEMMA UserFacts ==
    ASSUME LykosInv, NEW p \in Ports, ~At(p, "idle")
    PROVE  Master(p) \in Automata /\ Master(p) \in Masters /\ p \in Public(Master(p))
<1>1. PICK m \in Automata : p \in Public(m)
    BY DEF LykosInv, OpsOK
<1>2. Master(p) = m
    BY <1>1, OwnerFacts DEF LykosInv
<1> QED
    BY <1>1, <1>2, MasterFacts DEF LykosInv

\* A master that has nothing to do completes none of its ports.
LEMMA NotPending ==
    ASSUME LykosInv, NEW p \in Ports, ~At(p, "idle"), todo[Master(p)] = <<>>
    PROVE  ~Pending("complete", p)
<1> SUFFICES ASSUME NEW n \in Masters, Does(n, "complete", p)
             PROVE  FALSE
    BY DEF Pending
<1>1. todo[n] # <<>>
    BY EmptySeq DEF Does
<1>3. n \in Automata /\ p \in Public(n)
    BY <1>1 DEF LykosInv, TodoOK
<1>2. n = Master(p)
    BY <1>3, OwnerFacts DEF LykosInv
<1> QED
    BY <1>1, <1>2

LEMMA FiredStep ==
    ASSUME LykosInv, NEW p \in Ports, Fired(p)
    PROVE  LykosInv'
<1> DEFINE m == Master(p)
           l == AfterCall(p, TRUE)
<1>1. /\ op \in [Ports -> OpType] /\ permits \in [Ports -> 0 .. MaxPermits]
      /\ lock \in [Masters -> Ports \cup Masters \cup {None}]
    BY DEF LykosInv, LykosTypeOK, OpType
<1>2. /\ op[p].at = "firing" /\ todo[m] = <<>> /\ lock' = [lock EXCEPT ![m] = None] /\ Goto(p, l)
      /\ UNCHANGED <<circuit, portVars, bits, queueVars, slaveVars, todo, runVars>>
    BY DEF Fired, At
<1>3. m \in Automata /\ m \in Masters /\ lock[m] = p
    BY <1>2, UserFacts DEF At, LykosInv, LockOK
<1>4. l \in {"check", "idle"} /\ l \in Labels /\ (l = "idle" => op[p].timed)
    BY DEF AfterCall, Labels
<1> HIDE DEF l
<1>5. /\ op' \in [Ports -> OpType] /\ \A q \in Ports : q # p => op'[q] = op[q]
      /\ op'[p].at = l
      /\ op'[p].timed => op[p].timed
    BY <1>2, <1>4, GotoFacts DEF LykosInv
<1>6. ~Pending("complete", p)
    BY <1>2, NotPending DEF At
<1>7. op'[p].at = "idle" => status[p] = "completed"
    BY <1>2, <1>4, <1>5, <1>6 DEF LykosInv, OpsOK, At
<1>8. lock' \in [Masters -> Ports \cup Masters \cup {None}]
    BY <1>1, <1>2
<1>9. \A n \in Masters : todo[n] # <<>> => lock'[n] # None
    BY <1>1, <1>2 DEF LykosInv, TodoOK
<1>10. LockOK'
    <2>1. \A n \in Masters : Master(lock[n])' = Master(lock[n])' /\ thread'[n] = thread[n] /\ todo'[n] = todo[n]
        BY <1>2 DEF runVars
    <2>2. p \notin Masters /\ None \notin Ports \cup Masters
        BY LykosAssumption
    <2>3. \A q \in Ports : Master(q)' = Master(q)
        BY <1>2, Same
    <2>4. \A q \in Ports : op'[q].at = "firing" <=> op[q].at = "firing" /\ q # p
        BY <1>2, <1>4, <1>5
    <2>5. ASSUME NEW q \in Ports, op'[q].at = "firing"
          PROVE  lock'[Master(q)] = q
        <3>1. q # p /\ At(q, "firing") /\ lock[Master(q)] = q
            BY <2>4, <2>5 DEF LykosInv, LockOK, At
        <3>2. Master(q) # m
            BY <1>3, <3>1
        <3>3. Master(q) \in Masters
            BY <3>1, UserFacts DEF At
        <3> QED
            BY <1>1, <1>2, <3>1, <3>2, <3>3
    <2>6. ASSUME NEW n \in Masters
          PROVE  /\ lock'[n] \in Masters => lock'[n] = n /\ thread[n] # "idle"
                 /\ lock'[n] \in Ports => op'[lock'[n]].at = "firing" /\ n = Master(lock'[n])
                 /\ thread[n] = "next" => lock'[n] = n
                 /\ thread[n] = "call" /\ lock'[n] = n => todo[n] = <<>>
        <3>1. CASE n = m
            BY <1>1, <1>2, <1>3, <2>2, <3>1 DEF LykosInv, LockOK
        <3>2. CASE n # m
            <4>1. lock'[n] = lock[n]
                BY <1>1, <1>2, <3>2
            <4>2. lock[n] \in Ports => op[lock[n]].at = "firing" /\ n = Master(lock[n])
                BY DEF LykosInv, LockOK, At
            <4>3. lock[n] \in Ports => lock[n] # p
                BY <3>2, <4>2
            <4> QED
                BY <2>4, <4>1, <4>2, <4>3 DEF LykosInv, LockOK
        <3> QED
            BY <3>1, <3>2
    <2>7. \A n \in Masters : Master(lock[n])' = Master(lock'[n])
        BY <1>2 DEF Master, Automata, Public, Alone, Grouped, Private
    <2> QED
        BY <2>1, <2>3, <2>5, <2>6, <2>7 DEF LockOK, At
<1>11. permits' \in [Ports -> 0 .. MaxPermits] /\ status' = status /\ buffer' = buffer
    BY <1>1, <1>2 DEF portVars
<1>12. op'[p].at \in {"check", "idle"}
    BY <1>4, <1>5
<1> QED
    BY <1>2, <1>5, <1>7, <1>8, <1>9, <1>10, <1>11, <1>12, MoveStep
-----------------------------------------------------------------------------
(* A new operation                                                         *)

LEMMA StartStep ==
    ASSUME LykosInv, NEW p \in Ports, Start(p)
    PROVE  LykosInv'
<1> USE DEF LykosInv
<1>1. /\ op \in [Ports -> OpType] /\ buffer \in [Ports -> (UNION Range(Data)) \cup {None}]
      /\ status \in [Ports -> {None, "pending", "completed"}]
    BY DEF LykosTypeOK, OpType
<1>2. /\ op[p].at = "idle" /\ \E m \in Automata : p \in Public(m)
      /\ status' = [status EXCEPT ![p] = "pending"]
      /\ UNCHANGED <<circuit, permits, bits, queueVars, slaveVars, lock, todo, runVars>>
    BY DEF Start, At
<1>3. PICK t \in BOOLEAN : /\ t => p \in Timed \ group
                           /\ op' = [op EXCEPT ![p] = [at |-> "flag", timed |-> t,
                                                       interrupts |-> MaxInterrupts[p]]]
    BY DEF Start
<1>4. PICK d \in IF p \in OutPorts THEN Data[p] ELSE {None} : buffer' = [buffer EXCEPT ![p] = d]
    BY DEF Start
<1>5. [at |-> "flag", timed |-> t, interrupts |-> MaxInterrupts[p]] \in OpType
    BY LykosAssumption DEF OpType, Labels
<1>6. /\ op' \in [Ports -> OpType] /\ \A q \in Ports : q # p => op'[q] = op[q]
      /\ op'[p].at = "flag"
      /\ op'[p].timed => p \notin group
    <2> DEFINE new == [at |-> "flag", timed |-> t, interrupts |-> MaxInterrupts[p]]
    <2>1. new.at = "flag" /\ (new.timed => p \notin group) /\ new \in OpType
        BY <1>3, <1>5
    <2>2. op' = [op EXCEPT ![p] = new]
        BY <1>3
    <2> HIDE DEF new
    <2>3. op'[p] = new
        BY <1>1, <2>2
    <2>4. \A q \in Ports : q # p => op'[q] = op[q]
        BY <1>1, <2>2
    <2>5. op' \in [Ports -> OpType]
        BY <1>1, <2>1, <2>2
    <2>6. op'[p].at = "flag"
        BY <2>1, <2>3
    <2>7. op'[p].timed => p \notin group
        BY <2>1, <2>3
    <2> QED
        BY <2>4, <2>5, <2>6, <2>7
<1>7. d \in (UNION Range(Data)) \cup {None} /\ (p \in OutPorts => d # None)
    BY LykosAssumption DEF Range
<1>8. /\ buffer' \in [Ports -> (UNION Range(Data)) \cup {None}] /\ buffer'[p] = d
      /\ \A q \in Ports : q # p => buffer'[q] = buffer[q]
    BY <1>1, <1>4, <1>7
<1>9. /\ status' \in [Ports -> {None, "pending", "completed"}] /\ status'[p] = "pending"
      /\ \A q \in Ports : q # p => status'[q] = status[q]
    BY <1>1, <1>2
<1>10. LykosTypeOK'
    BY <1>2, <1>6, <1>8, <1>9, Same DEF LykosTypeOK, OpType, queueVars, slaveVars, runVars
<1>11. TodoOK'
    <2>1. \A m \in Masters : todo[m] # <<>> => lock'[m] # None
        BY <1>2 DEF TodoOK
    <2> QED
        BY <1>2, <2>1, TodoFrame DEF slaveVars
<1>12. LockOK'
    <2>1. \A q \in Ports : At(q, "firing")' <=> At(q, "firing")
        BY <1>2, <1>6 DEF At
    <2> QED
        BY <1>2, <2>1, LockFrame DEF runVars
<1>13. OpsOK'
    <2>1. ASSUME NEW q \in Ports
          PROVE  /\ At(q, "idle")' \/ \E m \in Automata' : q \in Public(m)'
                 /\ op'[q].timed => q \notin group'
                 /\ At(q, "cancel")' => op'[q].timed
                 /\ At(q, "publish")' => q \in group'
                 /\ At(q, "flag")' => status'[q] = "pending"
                 /\ At(q, "throw")' => status'[q] = None
                 /\ At(q, "firing")' /\ op'[q].timed => status'[q] = "completed" \/ Pending("complete", q)'
        <3>1. CASE q # p
            <4>1. op'[q] = op[q] /\ status'[q] = status[q] /\ todo' = todo /\ circuit' = circuit
                BY <1>2, <1>6, <1>9, <3>1
            <4> QED
                BY <4>1, Same DEF OpsOK, At, Pending, Does
        <3>2. CASE q = p
            BY <1>2, <1>3, <1>6, <1>9, <3>2, Same DEF At
        <3> QED
            BY <3>1, <3>2
    <2> QED
        BY <2>1 DEF OpsOK
<1>14. RequestsOK'
    <2>1. \A q \in Ports : Open(q) => Open(q)'
        BY <1>2, <1>6, <1>9 DEF Open, At
    <2> QED
        BY <1>2, <2>1, RequestsFrame DEF queueVars
<1>15. ItemsOK'
    <2>1. \A q \in Ports : At(q, "publish")' <=> At(q, "publish")
        BY <1>2, <1>6 DEF At
    <2> QED
        BY <1>2, <2>1, ItemsFrame DEF queueVars
<1>16. WorkOK'
    BY <1>2, WorkFrame DEF runVars
<1>17. DataOK'
    <2>1. \A q \in OutPorts : ~At(q, "idle")' => buffer'[q] # None
        BY <1>6, <1>7, <1>8 DEF DataOK, At, Ports
    <2>2. \A s \in Slaves : Holds(s)' => cell'[s] # None
        BY <1>2 DEF DataOK, Holds, Pending, Does, slaveVars
    <2> QED
        BY <2>1, <2>2 DEF DataOK
<1> QED
    BY <1>2, <1>10, <1>11, <1>12, <1>13, <1>14, <1>15, <1>16, <1>17

LEMMA FlagStep ==
    ASSUME LykosInv, NEW p \in Ports, Flag(p)
    PROVE  LykosInv'
<1> USE DEF LykosInv
<1> DEFINE l == IF op[p].timed THEN "check" ELSE "call"
<1>1. op \in [Ports -> OpType]
    BY DEF LykosTypeOK, OpType
<1>2. /\ op[p].at = "flag" /\ p \notin group /\ bits' = bits \cup {p} /\ Goto(p, l)
      /\ UNCHANGED <<circuit, portVars, queueVars, slaveVars, lock, todo, runVars>>
    BY DEF Flag, At
<1>3. l \in Labels /\ l \in {"check", "call"}
    BY DEF Labels
<1> HIDE DEF l
<1>4. /\ op' \in [Ports -> OpType] /\ \A q \in Ports : q # p => op'[q] = op[q]
      /\ op'[p].at = l /\ op'[p].timed = op[p].timed
    BY <1>2, <1>3, GotoFacts
<1>5. LykosTypeOK'
    BY <1>2, <1>4, Same DEF LykosTypeOK, OpType, portVars, queueVars, slaveVars, runVars
<1>6. TodoOK'
    <2>1. \A m \in Masters : todo[m] # <<>> => lock'[m] # None
        BY <1>2 DEF TodoOK
    <2> QED
        BY <1>2, <2>1, TodoFrame DEF slaveVars
<1>7. LockOK'
    <2>1. \A q \in Ports : At(q, "firing")' <=> At(q, "firing")
        BY <1>2, <1>3, <1>4 DEF At
    <2> QED
        BY <1>2, <2>1, LockFrame DEF runVars
<1>8. OpsOK'
    <2>1. ASSUME NEW q \in Ports
          PROVE  /\ At(q, "idle")' \/ \E m \in Automata' : q \in Public(m)'
                 /\ op'[q].timed => q \notin group'
                 /\ At(q, "cancel")' => op'[q].timed
                 /\ At(q, "publish")' => q \in group'
                 /\ At(q, "flag")' => status'[q] = "pending"
                 /\ At(q, "throw")' => status'[q] = None
                 /\ At(q, "firing")' /\ op'[q].timed => status'[q] = "completed" \/ Pending("complete", q)'
        <3>1. CASE q # p
            BY <1>2, <1>4, <3>1, Same DEF OpsOK, At, Pending, Does, portVars
        <3>2. CASE q = p
            BY <1>2, <1>3, <1>4, <3>2, Same DEF OpsOK, At
        <3> QED
            BY <3>1, <3>2
    <2> QED
        BY <2>1 DEF OpsOK
<1>9. RequestsOK'
    <2>1. status'[p] = "pending" /\ status' = status
        BY <1>2 DEF OpsOK, At, portVars
    <2>2. Open(p)' /\ ~Open(p)
        BY <1>2, <1>3, <1>4, <2>1 DEF Open
    <2>3. \A q \in Ports : Open(q) => Open(q)'
        BY <1>4, <2>1, <2>2 DEF Open
    <2>4. \A q \in Ports : q # p => (Flagged(q)' <=> Flagged(q))
        BY <1>2, Same DEF Flagged, queueVars
    <2>5. \A m : \A do : \A q : Does(m, do, q)' <=> Does(m, do, q)
        BY <1>2 DEF Does
    <2>6. \A m \in Masters : ~Does(m, "complete", p)
        BY <2>2 DEF RequestsOK, Pending
    <2>7. \A q \in Ports : Flagged(q)' \/ Pending("complete", q)' => Open(q)'
        BY <2>2, <2>3, <2>4, <2>5 DEF RequestsOK, Pending
    <2>8. bits' \cap group' = {}
        BY <1>2, Same DEF RequestsOK
    <2>9. ASSUME NEW m \in Automata, NEW q \in Ports, Does(m, "complete", q)
          PROVE  IF Does(m, "take", m) THEN q \in group => q = Head(items[m]) ELSE ~Flagged(q)'
        BY <2>4, <2>6, <2>9, MasterFacts DEF RequestsOK
    <2> QED
        BY <1>2, <2>5, <2>7, <2>8, <2>9, Same DEF RequestsOK, queueVars
<1>10. ItemsOK'
    <2>1. \A q \in Ports : At(q, "publish")' <=> At(q, "publish")
        BY <1>2, <1>3, <1>4 DEF At
    <2> QED
        BY <1>2, <2>1, ItemsFrame DEF queueVars
<1>11. WorkOK'
    BY <1>2, WorkFrame DEF runVars
<1>12. DataOK'
    <2>1. \A q \in OutPorts : At(q, "idle") => At(q, "idle")'
        BY <1>2, <1>4 DEF At, Ports
    <2> QED
        BY <1>2, <2>1, DataFrame DEF portVars, slaveVars
<1> QED
    BY <1>2, <1>5, <1>6, <1>7, <1>8, <1>9, <1>10, <1>11, <1>12

\* The item is written: the port is not in the queue yet, and none of its items
\* is being dequeued.
LEMMA OfferStep ==
    ASSUME LykosInv, NEW p \in Ports, Offer(p)
    PROVE  LykosInv'
<1> USE DEF LykosInv
<1> DEFINE m == Master(p)
<1>1. op \in [Ports -> OpType] /\ DOMAIN items = Masters
    BY DEF LykosTypeOK, OpType
<1>2. /\ op[p].at = "flag" /\ p \in group /\ Goto(p, "publish")
      /\ items' = [items EXCEPT ![m] = Append(@, p)]
      /\ UNCHANGED <<circuit, portVars, bits, published, slaveVars, lock, todo, runVars>>
    BY DEF Offer, At
<1>3. m \in Automata /\ m \in Masters /\ p \in Public(m) /\ p \in Grouped(m)
    BY <1>2, UserFacts, OwnerFacts DEF At
<1> HIDE DEF m
<1>4. /\ op' \in [Ports -> OpType] /\ \A q \in Ports : q # p => op'[q] = op[q]
      /\ op'[p].at = "publish" /\ op'[p].timed = op[p].timed
    BY <1>2, GotoFacts DEF Labels
<1>5. ~Flagged(p) /\ ~Pending("complete", p) /\ status[p] = "pending"
    BY <1>2 DEF RequestsOK, Open, OpsOK, At
<1>6. /\ items[m] \in Seq(Grouped(m)) /\ p \notin Range(items[m])
      /\ items'[m] = Append(items[m], p) /\ DOMAIN items' = Masters
      /\ \A n \in Masters : n # m => items'[n] = items[n]
    BY <1>1, <1>2, <1>3, <1>5 DEF LykosTypeOK, Flagged
<1>7. /\ items'[m] \in Seq(Grouped(m)) /\ Len(items'[m]) = Len(items[m]) + 1
      /\ Range(items'[m]) = Range(items[m]) \cup {p}
      /\ items[m] # <<>> => Head(items'[m]) = Head(items[m])
      /\ IsInjective(items[m]) => IsInjective(items'[m])
    BY <1>3, <1>6, AppendFacts
<1>8. Automata \subseteq Masters
    BY MasterFacts
<1>9. LykosTypeOK'
    <2>1. \A n \in Automata : published[n] <= Len(items'[n]) /\ items'[n] \in Seq(Grouped(n))
        <3>1. published[m] \in Nat /\ Len(items[m]) \in Nat /\ published[m] <= Len(items[m])
            BY <1>3, <1>6 DEF LykosTypeOK
        <3>2. published[m] <= Len(items[m]) + 1
            BY <3>1
        <3> QED
            BY <1>6, <1>7, <1>8, <3>2 DEF LykosTypeOK
    <2> QED
        BY <1>2, <1>4, <1>6, <2>1, Same DEF LykosTypeOK, OpType, portVars, slaveVars, runVars
<1>10. TodoOK'
    <2>1. \A n \in Masters : todo[n] # <<>> => lock'[n] # None
        BY <1>2 DEF TodoOK
    <2> QED
        BY <1>2, <2>1, TodoFrame DEF slaveVars
<1>11. LockOK'
    <2>1. \A q \in Ports : At(q, "firing")' <=> At(q, "firing")
        BY <1>2, <1>4 DEF At
    <2> QED
        BY <1>2, <2>1, LockFrame DEF runVars
<1>12. OpsOK'
    <2>1. ASSUME NEW q \in Ports
          PROVE  /\ At(q, "idle")' \/ \E n \in Automata' : q \in Public(n)'
                 /\ op'[q].timed => q \notin group'
                 /\ At(q, "cancel")' => op'[q].timed
                 /\ At(q, "publish")' => q \in group'
                 /\ At(q, "flag")' => status'[q] = "pending"
                 /\ At(q, "throw")' => status'[q] = None
                 /\ At(q, "firing")' /\ op'[q].timed => status'[q] = "completed" \/ Pending("complete", q)'
        <3>1. CASE q # p
            BY <1>2, <1>4, <3>1, Same DEF OpsOK, At, Pending, Does, portVars
        <3>2. CASE q = p
            BY <1>2, <1>3, <1>4, <3>2, Same DEF OpsOK, At
        <3> QED
            BY <3>1, <3>2
    <2> QED
        BY <2>1 DEF OpsOK
<1>13. RequestsOK'
    <2>1. Open(p)' /\ \A q \in Ports : Open(q) => Open(q)'
        BY <1>2, <1>4, <1>5 DEF Open, portVars
    <2>2. \A q \in Ports : q # p => (Flagged(q)' <=> Flagged(q))
        BY <1>2, <1>6, <1>7, <1>8, Same DEF Flagged
    <2>3. \A n : \A do : \A q : Does(n, do, q)' <=> Does(n, do, q)
        BY <1>2 DEF Does
    <2>4. \A q \in Ports : Flagged(q)' \/ Pending("complete", q)' => Open(q)'
        BY <2>1, <2>2, <2>3 DEF RequestsOK, Pending
    <2>5. bits' \cap group' = {}
        BY <1>2, Same DEF RequestsOK
    <2>6. ASSUME NEW n \in Automata, NEW q \in Ports, Does(n, "complete", q)
          PROVE  IF Does(n, "take", n) THEN q \in group => q = Head(items'[n]) ELSE ~Flagged(q)'
        <3>1. q # p
            BY <1>5, <1>8, <2>6 DEF Pending
        <3>2. CASE Does(n, "take", n) /\ q \in group
            <4>1. q \in Public(n) /\ q \in Grouped(n)
                BY <1>8, <2>6, <3>2, OwnerFacts DEF TodoOK
            <4>2. Len(items[n]) > 0
                <5>1. published[n] \in Nat /\ published[n] > 0 /\ published[n] <= Len(items[n])
                      /\ items[n] \in Seq(Grouped(n))
                    BY <1>8, <3>2, <4>1 DEF LykosTypeOK, ItemsOK
                <5> QED
                    BY <5>1
            <4>3. items[n] # <<>>
                BY <4>2, EmptySeq
            <4>4. Head(items'[n]) = Head(items[n])
                BY <1>6, <1>7, <1>8, <4>3
            <4> QED
                BY <2>6, <3>2, <4>4 DEF RequestsOK
        <3>3. CASE ~(Does(n, "take", n) /\ q \in group)
            BY <2>2, <2>6, <3>1, <3>3 DEF RequestsOK
        <3> QED
            BY <3>2, <3>3
    <2> QED
        BY <1>2, <2>3, <2>4, <2>5, <2>6, Same DEF RequestsOK
<1>14. ItemsOK'
    <2>1. ASSUME NEW n \in Automata
          PROVE  /\ IsInjective(items'[n])
                 /\ Len(items'[n]) = published'[n] + Cardinality({q \in Grouped(n) : At(q, "publish")'})
                 /\ Does(n, "take", n)' /\ Grouped(n) # {} => published'[n] > 0
        <3> DEFINE before == {q \in Grouped(n) : At(q, "publish")}
                   after == {q \in Grouped(n) : At(q, "publish")'}
        <3>1. Grouped(n) \subseteq Ports /\ n \in Masters
            BY MasterFacts DEF Public
        <3>2. IsInjective(items[n]) /\ Len(items[n]) = published[n] + Cardinality(before)
            BY DEF ItemsOK
        <3>3. Does(n, "take", n)' /\ Grouped(n) # {} => published'[n] > 0
            BY <1>2 DEF ItemsOK, Does
        <3>4. CASE n = m
            <4>1. after = before \cup {p} /\ p \notin before
                BY <1>2, <1>3, <1>4, <3>1, <3>4 DEF At
            <4>2. IsFiniteSet(before) /\ Cardinality(before) \in Nat
                <5>1. IsFiniteSet(Grouped(n)) /\ Cardinality(before) \in Nat
                    BY ItemsCounted
                <5>2. before \in SUBSET Grouped(n)
                    OBVIOUS
                <5> QED
                    BY <5>1, <5>2, FS_Subset
            <4> HIDE DEF before, after
            <4>3. Cardinality(after) = Cardinality(before) + 1
                BY <4>1, <4>2, FS_AddElement
            <4>4. published[n] \in Nat
                BY <3>1 DEF LykosTypeOK
            <4>5. Len(items'[n]) = published'[n] + Cardinality(after)
                BY <1>2, <1>7, <3>2, <3>4, <4>2, <4>3, <4>4
            <4> QED
                BY <1>7, <3>2, <3>3, <3>4, <4>5 DEF after
        <3>5. CASE n # m
            <4>1. p \notin Grouped(n)
                BY <1>3, <3>5, OwnerFacts DEF Public
            <4>2. after = before
                BY <1>4, <3>1, <4>1 DEF At
            <4> QED
                BY <1>2, <1>6, <3>1, <3>2, <3>3, <3>5, <4>2
        <3> QED
            BY <3>4, <3>5
    <2> QED
        BY <1>2, <2>1, Same DEF ItemsOK, Does, At
<1>15. WorkOK'
    BY <1>2, WorkFrame DEF runVars
<1>16. DataOK'
    <2>1. \A q \in OutPorts : At(q, "idle") => At(q, "idle")'
        BY <1>2, <1>4 DEF At, Ports
    <2> QED
        BY <1>2, <2>1, DataFrame DEF portVars, slaveVars
<1> QED
    BY <1>2, <1>9, <1>10, <1>11, <1>12, <1>13, <1>14, <1>15, <1>16

\* head counts the item.
LEMMA PublishStep ==
    ASSUME LykosInv, NEW p \in Ports, Publish(p)
    PROVE  LykosInv'
<1> USE DEF LykosInv
<1> DEFINE m == Master(p)
<1>1. op \in [Ports -> OpType] /\ published \in [Masters -> Nat]
    BY DEF LykosTypeOK, OpType
<1>2. /\ op[p].at = "publish" /\ Goto(p, "call")
      /\ published' = [published EXCEPT ![m] = @ + 1]
      /\ UNCHANGED <<circuit, portVars, bits, items, slaveVars, lock, todo, runVars>>
    BY DEF Publish, At
<1>3. m \in Automata /\ m \in Masters /\ p \in Public(m) /\ p \in Grouped(m)
    BY <1>2, UserFacts, OwnerFacts DEF At, OpsOK
<1> HIDE DEF m
<1>4. /\ op' \in [Ports -> OpType] /\ \A q \in Ports : q # p => op'[q] = op[q]
      /\ op'[p].at = "call" /\ op'[p].timed = op[p].timed
    BY <1>2, GotoFacts DEF Labels
<1>5. /\ published' \in [Masters -> Nat] /\ published'[m] = published[m] + 1
      /\ \A n \in Masters : n # m => published'[n] = published[n]
    BY <1>1, <1>2, <1>3
<1>6. Automata \subseteq Masters
    BY MasterFacts
<1>7. ItemsOK'
    <2>1. ASSUME NEW n \in Automata
          PROVE  /\ IsInjective(items[n])
                 /\ Len(items[n]) = published'[n] + Cardinality({q \in Grouped(n) : At(q, "publish")'})
                 /\ Does(n, "take", n)' /\ Grouped(n) # {} => published'[n] > 0
        <3> DEFINE before == {q \in Grouped(n) : At(q, "publish")}
                   after == {q \in Grouped(n) : At(q, "publish")'}
        <3>1. Grouped(n) \subseteq Ports /\ n \in Masters /\ published[n] \in Nat
            BY MasterFacts DEF Public, LykosTypeOK
        <3>2. /\ IsInjective(items[n]) /\ Len(items[n]) = published[n] + Cardinality(before)
              /\ Does(n, "take", n) /\ Grouped(n) # {} => published[n] > 0
            BY DEF ItemsOK
        <3>3. Does(n, "take", n)' <=> Does(n, "take", n)
            BY <1>2 DEF Does
        <3>4. CASE n = m
            <4>1. after = before \ {p} /\ p \in before
                BY <1>2, <1>3, <1>4, <3>1, <3>4 DEF At
            <4>2. IsFiniteSet(before) /\ Cardinality(before) \in Nat
                <5>1. IsFiniteSet(Grouped(n)) /\ Cardinality(before) \in Nat
                    BY ItemsCounted
                <5>2. before \in SUBSET Grouped(n)
                    OBVIOUS
                <5> QED
                    BY <5>1, <5>2, FS_Subset
            <4> HIDE DEF before, after
            <4>3. Cardinality(after) = Cardinality(before) - 1
                BY <4>1, <4>2, FS_RemoveElement
            <4>4. Len(items[n]) = published'[n] + Cardinality(after) /\ published'[n] > 0
                BY <1>5, <3>1, <3>2, <3>4, <4>2, <4>3
            <4> QED
                BY <3>2, <4>4 DEF after
        <3>5. CASE n # m
            <4>1. p \notin Grouped(n)
                BY <1>3, <3>5, OwnerFacts DEF Public
            <4>2. after = before
                BY <1>4, <3>1, <4>1 DEF At
            <4> QED
                BY <1>5, <3>1, <3>2, <3>3, <3>5, <4>2
        <3> QED
            BY <3>4, <3>5
    <2> QED
        BY <1>2, <2>1, Same DEF ItemsOK, Does, At
<1>8. LykosTypeOK'
    <2>1. \A n \in Automata : published'[n] <= Len(items[n])
        <3>1. ASSUME NEW n \in Automata, n = m
              PROVE  published[n] + 1 <= Len(items[n])
            <4> DEFINE before == {q \in Grouped(n) : At(q, "publish")}
            <4>1. p \in before
                BY <1>2, <1>3, <3>1 DEF At
            <4>2. IsFiniteSet(before) /\ Cardinality(before) \in Nat
                <5>1. IsFiniteSet(Grouped(n)) /\ Cardinality(before) \in Nat
                    BY ItemsCounted
                <5>2. before \in SUBSET Grouped(n)
                    OBVIOUS
                <5> QED
                    BY <5>1, <5>2, FS_Subset
            <4>3. Len(items[n]) = published[n] + Cardinality(before) /\ published[n] \in Nat
                BY <1>6 DEF ItemsOK, LykosTypeOK
            <4> HIDE DEF before
            <4>4. Cardinality(before) # 0
                BY <4>1, <4>2, FS_EmptySet
            <4> QED
                BY <4>2, <4>3, <4>4
        <3> QED
            BY <1>5, <1>6, <3>1 DEF LykosTypeOK
    <2> QED
        BY <1>2, <1>4, <1>5, <2>1, Same DEF LykosTypeOK, OpType, portVars, slaveVars, runVars
<1>9. TodoOK'
    <2>1. \A n \in Masters : todo[n] # <<>> => lock'[n] # None
        BY <1>2 DEF TodoOK
    <2> QED
        BY <1>2, <2>1, TodoFrame DEF slaveVars
<1>10. LockOK'
    <2>1. \A q \in Ports : At(q, "firing")' <=> At(q, "firing")
        BY <1>2, <1>4 DEF At
    <2> QED
        BY <1>2, <2>1, LockFrame DEF runVars
<1>11. OpsOK'
    <2>1. ASSUME NEW q \in Ports
          PROVE  /\ At(q, "idle")' \/ \E n \in Automata' : q \in Public(n)'
                 /\ op'[q].timed => q \notin group'
                 /\ At(q, "cancel")' => op'[q].timed
                 /\ At(q, "publish")' => q \in group'
                 /\ At(q, "flag")' => status'[q] = "pending"
                 /\ At(q, "throw")' => status'[q] = None
                 /\ At(q, "firing")' /\ op'[q].timed => status'[q] = "completed" \/ Pending("complete", q)'
        <3>1. CASE q # p
            BY <1>2, <1>4, <3>1, Same DEF OpsOK, At, Pending, Does, portVars
        <3>2. CASE q = p
            BY <1>2, <1>3, <1>4, <3>2, Same DEF OpsOK, At
        <3> QED
            BY <3>1, <3>2
    <2> QED
        BY <2>1 DEF OpsOK
<1>12. RequestsOK'
    <2>1. \A q \in Ports : Open(q) => Open(q)'
        BY <1>2, <1>4 DEF Open, portVars
    <2> QED
        BY <1>2, <2>1, RequestsFrame
<1>13. WorkOK'
    BY <1>2, WorkFrame DEF runVars
<1>14. DataOK'
    <2>1. \A q \in OutPorts : At(q, "idle") => At(q, "idle")'
        BY <1>2, <1>4 DEF At, Ports
    <2> QED
        BY <1>2, <2>1, DataFrame DEF portVars, slaveVars
<1> QED
    BY <1>2, <1>7, <1>8, <1>9, <1>10, <1>11, <1>12, <1>13, <1>14

\* A time-out withdraws the operation: its port is not taken, nor in a queue.
LEMMA CancelStep ==
    ASSUME LykosInv, NEW p \in Ports, CancelSync(p)
    PROVE  LykosInv'
<1> USE DEF LykosInv
<1> DEFINE m == Master(p)
<1>1. /\ op \in [Ports -> OpType] /\ status \in [Ports -> {None, "pending", "completed"}]
      /\ lock \in [Masters -> Ports \cup Masters \cup {None}]
    BY DEF LykosTypeOK, OpType
<1>2. /\ op[p].at = "cancel" /\ lock[m] = None
      /\ \E l \in {"idle", "throw"} : Goto(p, l)
      /\ bits' = bits \ {p} /\ status' = [status EXCEPT ![p] = None]
      /\ UNCHANGED <<circuit, buffer, permits, queueVars, slaveVars, lock, todo, runVars>>
    BY DEF CancelSync, At
<1>3. m \in Automata /\ m \in Masters /\ p \in Public(m) /\ p \notin group
    BY <1>2, UserFacts DEF At, OpsOK
<1> HIDE DEF m
<1>4. /\ op' \in [Ports -> OpType] /\ \A q \in Ports : q # p => op'[q] = op[q]
      /\ op'[p].at \in {"idle", "throw"}
      /\ op'[p].timed => op[p].timed
    <2>1. PICK l \in {"idle", "throw"} : Goto(p, l)
        BY <1>2
    <2>2. l \in Labels
        BY DEF Labels
    <2> QED
        BY <2>1, <2>2, GotoFacts
<1>5. /\ status' \in [Ports -> {None, "pending", "completed"}]
      /\ status'[p] = None /\ \A q \in Ports : q # p => status'[q] = status[q]
    BY <1>1, <1>2
<1>6. todo[m] = <<>>
    BY <1>2, <1>3 DEF TodoOK
<1>7. ~Pending("complete", p)
    BY <1>2, <1>6, NotPending DEF At, m
<1>8. ~Flagged(p)'
    <2>1. ASSUME NEW n \in Automata
          PROVE  p \notin Range(items[n])
        <3>1. items[n] \in Seq(Grouped(n))
            BY DEF LykosTypeOK
        <3>2. Range(items[n]) \subseteq Grouped(n)
            BY <3>1, RangeOfSeq
        <3> QED
            BY <1>3, <3>2 DEF group
    <2> QED
        BY <1>2, <2>1, Same DEF Flagged, queueVars
<1>9. LykosTypeOK'
    BY <1>2, <1>4, <1>5, Same DEF LykosTypeOK, OpType, queueVars, slaveVars, runVars
<1>10. TodoOK'
    <2>1. \A n \in Masters : todo[n] # <<>> => lock'[n] # None
        BY <1>2 DEF TodoOK
    <2> QED
        BY <1>2, <2>1, TodoFrame DEF slaveVars
<1>11. LockOK'
    <2>1. \A q \in Ports : At(q, "firing")' <=> At(q, "firing")
        BY <1>2, <1>4 DEF At
    <2> QED
        BY <1>2, <2>1, LockFrame DEF runVars
<1>12. OpsOK'
    <2>1. ASSUME NEW q \in Ports
          PROVE  /\ At(q, "idle")' \/ \E n \in Automata' : q \in Public(n)'
                 /\ op'[q].timed => q \notin group'
                 /\ At(q, "cancel")' => op'[q].timed
                 /\ At(q, "publish")' => q \in group'
                 /\ At(q, "flag")' => status'[q] = "pending"
                 /\ At(q, "throw")' => status'[q] = None
                 /\ At(q, "firing")' /\ op'[q].timed => status'[q] = "completed" \/ Pending("complete", q)'
        <3>1. CASE q # p
            <4>1. op'[q] = op[q] /\ status'[q] = status[q] /\ (Pending("complete", q)' <=> Pending("complete", q))
                BY <1>2, <1>4, <1>5, <3>1 DEF Pending, Does
            <4> QED
                BY <1>2, <4>1, Same DEF OpsOK, At
        <3>2. CASE q = p
            BY <1>2, <1>3, <1>4, <1>5, <3>2, Same DEF OpsOK, At
        <3> QED
            BY <3>1, <3>2
    <2> QED
        BY <2>1 DEF OpsOK
<1>13. RequestsOK'
    <2>1. \A q \in Ports : q # p => (Open(q) => Open(q)')
        BY <1>2, <1>4, <1>5 DEF Open
    <2>2. \A q \in Ports : Flagged(q)' => Flagged(q)
        BY <1>2, Same DEF Flagged, queueVars
    <2>3. \A n : \A do : \A q : Does(n, do, q)' <=> Does(n, do, q)
        BY <1>2 DEF Does
    <2>4. \A q \in Ports : Flagged(q)' \/ Pending("complete", q)' => Open(q)'
        BY <1>7, <1>8, <2>1, <2>2, <2>3 DEF RequestsOK, Pending
    <2>5. bits' \cap group' = {}
        BY <1>2, Same DEF RequestsOK
    <2>6. \A n \in Automata : \A q \in Ports : Does(n, "complete", q) =>
             IF Does(n, "take", n) THEN q \in group => q = Head(items[n]) ELSE ~Flagged(q)'
        BY <2>2 DEF RequestsOK
    <2> QED
        BY <1>2, <2>3, <2>4, <2>5, <2>6, Same DEF RequestsOK, queueVars
<1>14. ItemsOK'
    <2>1. \A q \in Ports : At(q, "publish")' <=> At(q, "publish")
        BY <1>2, <1>4 DEF At
    <2> QED
        BY <1>2, <2>1, ItemsFrame DEF queueVars
<1>15. WorkOK'
    BY <1>2, WorkFrame DEF runVars
<1>16. DataOK'
    <2>1. \A q \in OutPorts : At(q, "idle") => At(q, "idle")'
        BY <1>2, <1>4 DEF At, Ports
    <2> QED
        BY <1>2, <2>1, DataFrame DEF slaveVars
<1> QED
    BY <1>2, <1>9, <1>10, <1>11, <1>12, <1>13, <1>14, <1>15, <1>16
-----------------------------------------------------------------------------
(* A transition is started                                                 *)

\* What is to be done once the test has succeeded.
LEMMA FireFacts ==
    ASSUME LykosInv, NEW m \in Automata, NEW holder, Fire(m, holder), todo[m] = <<>>
    PROVE  /\ todo' \in [Masters -> Seq(Steps)] /\ todo'[m] = Statements(m)
           /\ \A n \in Masters : n # m => todo'[n] = todo[n]
           /\ \A n \in Masters : n # m => \A do : \A x : Does(n, do, x)' <=> Does(n, do, x)
           /\ \A do : \A x : ~Does(m, do, x) /\ (Does(m, do, x)' <=> <<do, x>> \in Range(Statements(m)))
           /\ Does(m, "take", m)'
           /\ items[m] \in Seq(Grouped(m))
           /\ Grouped(m) # {} => items[m] # <<>> /\ published[m] > 0
           /\ Range(Served(m)) \subseteq Public(m)
           /\ \A p \in Range(Served(m)) : Open(p)
           /\ \A x \in Range(Private(m)) : Usable(x)
<1> USE DEF LykosInv
<1>1. /\ m \in Masters /\ todo \in [Masters -> Seq(Steps)] /\ items[m] \in Seq(Grouped(m))
      /\ published[m] \in Nat /\ published[m] <= Len(items[m])
    BY MasterFacts DEF LykosTypeOK
<1>2. /\ CanFire(m) /\ todo' = [todo EXCEPT ![m] = Statements(m)]
    BY DEF Fire
<1>3. Grouped(m) # {} => published[m] > 0 /\ items[m] # <<>>
    BY <1>1, <1>2, EmptySeq DEF CanFire
<1>4. Statements(m) \in Seq(Steps) /\ Statements(m) # <<>> /\ Statements(m)[1] = <<"take", m>>
    BY <1>1, <1>3, StatementsFacts
<1>5. /\ todo' \in [Masters -> Seq(Steps)] /\ todo'[m] = Statements(m)
      /\ \A n \in Masters : n # m => todo'[n] = todo[n]
    BY <1>1, <1>2, <1>4
<1>6. \A n \in Masters : n # m => \A do : \A x : Does(n, do, x)' <=> Does(n, do, x)
    BY <1>5 DEF Does
<1>7. \A do : \A x : ~Does(m, do, x)
    BY EmptySeq DEF Does
<1>8. \A do : \A x : Does(m, do, x)' <=> <<do, x>> \in Range(Statements(m))
    BY <1>5 DEF Does, Range
<1>9. Does(m, "take", m)'
    <2>1. Len(Statements(m)) \in Nat \ {0} /\ DOMAIN Statements(m) = 1 .. Len(Statements(m))
        BY <1>4, EmptySeq
    <2>2. 1 \in DOMAIN Statements(m)
        BY <2>1
    <2> QED
        BY <1>4, <1>5, <2>2 DEF Does
<1>10. /\ Range(Served(m)) \subseteq Public(m)
       /\ \A p \in Range(Served(m)) :
             p \in Range(Alone(m)) \/ (Grouped(m) # {} /\ p = Head(items[m]))
    BY <1>1, <1>3, ServedFacts
<1>11. ASSUME NEW p \in Range(Served(m))
       PROVE  Open(p)
    <2>1. p \in Ports
        BY <1>10, MasterFacts
    <2>2. CASE p \in Range(Alone(m))
        BY <1>2, <2>1, <2>2 DEF CanFire, RequestsOK, Flagged
    <2>3. CASE Grouped(m) # {} /\ p = Head(items[m])
        <3>1. p \in Range(items[m])
            BY <1>1, <1>3, <2>3, TailFacts
        <3> QED
            BY <2>1, <3>1 DEF RequestsOK, Flagged
    <2> QED
        BY <1>10, <2>2, <2>3
<1>12. \A x \in Range(Private(m)) : Usable(x)
    BY <1>2 DEF CanFire
<1> QED
    BY <1>1, <1>3, <1>5, <1>6, <1>7, <1>8, <1>9, <1>10, <1>11, <1>12

\* The datum of a transition is there: at its port, or in the slave it empties.
LEMMA DatumIsThere ==
    ASSUME LykosInv, NEW m \in Automata, NEW holder, Fire(m, holder), todo[m] = <<>>
    PROVE  Datum(m) \in UNION Range(Data)
<1> USE DEF LykosInv
<1>1. /\ buffer \in [Ports -> (UNION Range(Data)) \cup {None}]
      /\ cell \in [Slaves -> (UNION Range(Data)) \cup {None}] /\ m \in Masters
    BY MasterFacts DEF LykosTypeOK
<1>2. CASE Source(m) \in Slaves
    <2> DEFINE s == Source(m)
    <2>1. s \notin Ports
        BY <1>2, LykosAssumption
    <2>2. <<"out", s>> \in Range(Private(m)) /\ <<"out", s>> \in PrivatePorts /\ <<"in", s>> \in PrivatePorts
        BY <1>2, <2>1, MasterFacts DEF PrivatePorts, Ports
    <2>3. s \in full
        BY <2>2, FireFacts DEF Usable
    <2>4. ~Pending("reach", <<"in", s>>)
        <3> SUFFICES ASSUME NEW n \in Masters, Does(n, "reach", <<"in", s>>)
                     PROVE  FALSE
            BY DEF Pending
        <3>1. todo[n] # <<>>
            BY EmptySeq DEF Does
        <3>2. n \in Automata /\ Opposite(<<"in", s>>) \in Range(Private(n))
            BY <2>2, <3>1 DEF TodoOK
        <3>3. <<"out", s>> \in Range(Private(n))
            BY <3>2 DEF Opposite
        <3>4. n = m
            BY <2>2, <3>2, <3>3, OwnerFacts
        <3> QED
            BY <3>1, <3>4
    <2>5. cell[s] # None /\ cell[s] \in (UNION Range(Data)) \cup {None}
        BY <1>1, <1>2, <2>3, <2>4 DEF DataOK, Holds
    <2>6. s \notin group
        BY <2>1, OwnerFacts
    <2>7. Datum(m) = cell[s]
        BY <1>2, <2>6 DEF Datum
    <2> QED
        BY <2>5, <2>7
<1>3. CASE Source(m) \notin Slaves
    <2> DEFINE q == IF Source(m) \in group THEN Head(items[m]) ELSE Source(m)
    <2>1. Source(m) \in Public(m) \cap OutPorts
        BY <1>3, MasterFacts
    <2>2. Datum(m) = buffer[q]
        BY <1>3 DEF Datum
    <2>3. q \in Range(Served(m)) /\ q \in OutPorts
        <3>1. /\ items[m] \in Seq(Grouped(m)) /\ (Grouped(m) # {} => items[m] # <<>>)
            BY FireFacts
        <3>2. /\ Range(Alone(m)) \subseteq Range(Served(m))
              /\ Grouped(m) # {} => Head(items[m]) \in Range(Served(m)) \cap Grouped(m)
            BY <3>1, ServedFacts
        <3>3. CASE Source(m) \in group
            <4>1. Source(m) \in Grouped(m)
                BY <2>1, <3>3, OwnerFacts
            <4>2. Grouped(m) \subseteq OutPorts
                BY <2>1, <4>1, MasterFacts, LykosAssumption
            <4> QED
                BY <3>2, <3>3, <4>1, <4>2
        <3>4. CASE Source(m) \notin group
            <4>1. Source(m) \in Range(Alone(m))
                BY <2>1, <3>4 DEF Public, group
            <4> QED
                BY <2>1, <3>2, <3>4, <4>1
        <3> QED
            BY <3>3, <3>4
    <2> HIDE DEF q
    <2>4. ~At(q, "idle")
        BY <2>3, FireFacts DEF Open, At
    <2>5. buffer[q] # None /\ buffer[q] \in (UNION Range(Data)) \cup {None}
        BY <1>1, <2>3, <2>4 DEF DataOK, Ports
    <2> QED
        BY <2>2, <2>5
<1> QED
    BY <1>2, <1>3

\* The parts of the invariant that do not depend on who fires.
LEMMA FireStep ==
    ASSUME LykosInv, NEW m \in Automata, NEW holder, Fire(m, holder), todo[m] = <<>>,
           holder \in Ports \cup Masters,
           UNCHANGED <<circuit, status, permits, bits, queueVars, full, work>>,
           \A p \in Ports : op'[p].at = op[p].at \/ (op[p].at = "call" /\ op'[p].at = "firing")
    PROVE  /\ circuit' \in Circuits
           /\ TodoOK' /\ RequestsOK' /\ ItemsOK' /\ WorkOK' /\ DataOK'
           /\ buffer' \in [Ports -> (UNION Range(Data)) \cup {None}]
           /\ cell' \in [Slaves -> (UNION Range(Data)) \cup {None}]
           /\ todo' \in [Masters -> Seq(Steps)]
           /\ lock' \in [Masters -> Ports \cup Masters \cup {None}]
           /\ lock'[m] = holder /\ \A n \in Masters : n # m => lock'[n] = lock[n]
           /\ \A p \in Ports : Pending("complete", p) => Pending("complete", p)'
           /\ \A p \in Ports \cap Range(Served(m)) : Pending("complete", p)'
<1> USE DEF LykosInv
<1>1. m \in Masters /\ Automata \subseteq Masters
    BY MasterFacts
<1> DEFINE s == Statements(m)
<1>2. /\ items[m] \in Seq(Grouped(m)) /\ (Grouped(m) # {} => items[m] # <<>>)
    BY FireFacts
<1>3. /\ s \in Seq(Steps) /\ s # <<>>
      /\ \A k \in DOMAIN s : s[k][1] = "take" => k = 1 /\ s[k][2] = m
      /\ \A p : /\ <<"complete", p>> \in Range(s) <=> p \in Range(Served(m))
                /\ Once(s, <<"complete", p>>)
      /\ \A x \in PrivatePorts :
            /\ <<"reach", x>> \in Range(s) <=> Opposite(x) \in Range(Private(m))
            /\ Once(s, <<"reach", x>>)
            /\ <<"kick", x>> \in Range(s) => x \in Range(Private(m)) \/ Opposite(x) \in Range(Private(m))
    BY <1>2, StatementsFacts
<1> HIDE DEF s
<1>4. /\ todo' \in [Masters -> Seq(Steps)] /\ todo'[m] = s
      /\ \A n \in Masters : n # m => todo'[n] = todo[n]
      /\ \A n \in Masters : n # m => \A do : \A x : Does(n, do, x)' <=> Does(n, do, x)
      /\ \A do : \A x : ~Does(m, do, x) /\ (Does(m, do, x)' <=> <<do, x>> \in Range(s))
      /\ Does(m, "take", m)'
    BY FireFacts DEF s
<1>5. /\ lock' = [lock EXCEPT ![m] = holder] /\ lock \in [Masters -> Ports \cup Masters \cup {None}]
    BY DEF Fire, LykosTypeOK
<1>6. /\ lock' \in [Masters -> Ports \cup Masters \cup {None}] /\ lock'[m] = holder
      /\ \A n \in Masters : n # m => lock'[n] = lock[n]
    BY <1>1, <1>5
<1>7. /\ buffer \in [Ports -> (UNION Range(Data)) \cup {None}]
      /\ cell \in [Slaves -> (UNION Range(Data)) \cup {None}]
    BY DEF LykosTypeOK
<1>8. Datum(m) \in UNION Range(Data) /\ Datum(m) # None
    BY DatumIsThere, LykosAssumption
<1>9. /\ buffer' = [p \in Ports |-> IF p \in InPorts \cap Range(Served(m)) THEN Datum(m) ELSE buffer[p]]
      /\ cell' = [x \in Slaves |-> IF <<"in", x>> \in Range(Private(m)) THEN Datum(m) ELSE cell[x]]
    BY DEF Fire, Solve
<1>10. /\ buffer' \in [Ports -> (UNION Range(Data)) \cup {None}]
       /\ cell' \in [Slaves -> (UNION Range(Data)) \cup {None}]
    BY <1>7, <1>8, <1>9
<1>11. TodoOK'
    <2>1. ASSUME NEW n \in Masters
          PROVE  /\ todo'[n] # <<>> => n \in Automata /\ lock'[n] # None
                 /\ \A k \in DOMAIN todo'[n] : todo'[n][k][1] = "take" => k = 1 /\ todo'[n][k][2] = n
                 /\ \A p \in Ports : Does(n, "complete", p)' =>
                       p \in Public(n) /\ Once(todo'[n], <<"complete", p>>)
                 /\ \A x \in PrivatePorts : Does(n, "kick", x)' => \E o \in Automata : x \in Range(Private(o))
                 /\ \A x \in PrivatePorts : Does(n, "reach", x)' =>
                       /\ Opposite(x) \in Range(Private(n)) /\ ~Usable(x)
                       /\ Once(todo'[n], <<"reach", x>>)
        <3>1. CASE n # m
            BY <1>4, <1>6, <3>1 DEF TodoOK
        <3>2. CASE n = m
            <4>1. holder # None
                BY LykosAssumption
            <4>2. \A p \in Ports : Does(m, "complete", p)' => p \in Public(m)
                BY <1>3, <1>4, FireFacts
            <4>3. \A x \in PrivatePorts : Does(m, "kick", x)' => \E o \in Automata : x \in Range(Private(o))
                <5> SUFFICES ASSUME NEW x \in PrivatePorts, Does(m, "kick", x)'
                             PROVE  \E o \in Automata : x \in Range(Private(o))
                    OBVIOUS
                <5>1. CASE x \in Range(Private(m))
                    BY <5>1
                <5>2. CASE Opposite(x) \in Range(Private(m))
                    <6>1. \E o \in Automata : Opposite(Opposite(x)) \in Range(Private(o))
                        BY <5>2, MasterFacts
                    <6> QED
                        BY <6>1, OppositeFacts
                <5> QED
                    BY <1>3, <1>4, <5>1, <5>2
            <4>4. \A x \in PrivatePorts : Does(m, "reach", x)' => Opposite(x) \in Range(Private(m)) /\ ~Usable(x)
                BY <1>3, <1>4, FireFacts, OppositeFacts
            <4> QED
                BY <1>3, <1>4, <1>6, <3>2, <4>1, <4>2, <4>3, <4>4
        <3> QED
            BY <3>1, <3>2
    <2>2. \A x : Usable(x)' <=> Usable(x)
        BY DEF Usable
    <2>3. \A n \in Masters : \A e : Once(todo'[n], e) <=> Once(todo[n], e)'
        BY DEF Once
    <2> QED
        BY <2>1, <2>2, Same DEF TodoOK, Once
<1>12. ASSUME NEW p \in Ports, Pending("complete", p)
       PROVE  Pending("complete", p)'
    BY <1>4, <1>12 DEF Pending
<1>13. ASSUME NEW p \in Range(Served(m))
       PROVE  Pending("complete", p)'
    BY <1>1, <1>3, <1>4 DEF Pending
<1>14. RequestsOK'
    <2>1. \A p \in Ports : Open(p) => Open(p)'
        BY DEF Open
    <2>2. \A p : Flagged(p)' <=> Flagged(p)
        BY Same DEF Flagged, queueVars
    <2>3. \A p \in Ports : Pending("complete", p)' => Open(p)
        <3> SUFFICES ASSUME NEW p \in Ports, NEW n \in Masters, Does(n, "complete", p)'
                     PROVE  Open(p)
            BY DEF Pending
        <3>1. CASE n = m
            BY <1>3, <1>4, <3>1, FireFacts
        <3>2. CASE n # m
            BY <1>4, <3>2 DEF RequestsOK, Pending
        <3> QED
            BY <3>1, <3>2
    <2>4. \A p \in Ports : Flagged(p)' \/ Pending("complete", p)' => Open(p)'
        BY <2>1, <2>2, <2>3 DEF RequestsOK
    <2>5. ASSUME NEW n \in Automata, NEW p \in Ports, Does(n, "complete", p)'
          PROVE  IF Does(n, "take", n)' THEN p \in group => p = Head(items[n]) ELSE ~Flagged(p)'
        <3>1. CASE n = m
            <4>1. p \in Range(Served(m))
                BY <1>3, <1>4, <2>5, <3>1
            <4>2. p \in Range(Alone(m)) \/ (Grouped(m) # {} /\ p = Head(items[m]))
                BY <1>2, <4>1, ServedFacts
            <4>3. p \in Range(Alone(m)) => p \notin group
                BY OwnerFacts, MasterFacts DEF Public
            <4> QED
                BY <1>4, <3>1, <4>2, <4>3
        <3>2. CASE n # m
            BY <1>1, <1>4, <2>2, <2>5, <3>2 DEF RequestsOK
        <3> QED
            BY <3>1, <3>2
    <2>6. bits' \cap group' = {}
        BY Same DEF RequestsOK
    <2> QED
        BY <2>4, <2>5, <2>6, Same DEF RequestsOK, queueVars
<1>15. ItemsOK'
    <2>1. ASSUME NEW n \in Automata
          PROVE  /\ IsInjective(items[n])
                 /\ Len(items[n]) = published[n] + Cardinality({q \in Grouped(n) : At(q, "publish")'})
                 /\ Does(n, "take", n)' /\ Grouped(n) # {} => published[n] > 0
        <3>1. Grouped(n) \subseteq Ports /\ n \in Masters
            BY MasterFacts DEF Public
        <3>2. {q \in Grouped(n) : At(q, "publish")'} = {q \in Grouped(n) : At(q, "publish")}
            BY <3>1 DEF At
        <3>3. Does(n, "take", n)' /\ Grouped(n) # {} => published[n] > 0
            <4>1. CASE n = m
                BY <4>1, FireFacts
            <4>2. CASE n # m
                BY <1>4, <3>1, <4>2 DEF ItemsOK
            <4> QED
                BY <4>1, <4>2
        <3> QED
            BY <3>2, <3>3 DEF ItemsOK
    <2> QED
        BY <2>1, Same DEF ItemsOK, queueVars, At, Does
<1>16. WorkOK'
    BY WorkFrame
<1>17. DataOK'
    <2>1. \A p \in OutPorts : ~At(p, "idle")' => buffer'[p] # None
        <3> SUFFICES ASSUME NEW p \in OutPorts, ~At(p, "idle")'
                     PROVE  buffer'[p] # None
            OBVIOUS
        <3>1. p \in Ports /\ p \notin InPorts
            BY LykosAssumption DEF Ports
        <3>2. ~At(p, "idle")
            BY <3>1 DEF At
        <3> QED
            BY <1>9, <3>1, <3>2 DEF DataOK
    <2>2. ASSUME NEW x \in Slaves, Holds(x)'
          PROVE  cell'[x] # None
        <3>1. CASE <<"in", x>> \in Range(Private(m))
            BY <1>8, <1>9, <3>1
        <3>2. CASE <<"in", x>> \notin Range(Private(m))
            <4>1. cell'[x] = cell[x]
                BY <1>9, <3>2
            <4>2. <<"out", x>> \in PrivatePorts /\ Opposite(<<"out", x>>) = <<"in", x>>
                BY DEF PrivatePorts, Opposite
            <4>3. Pending("reach", <<"out", x>>)' => Pending("reach", <<"out", x>>)
                BY <1>3, <1>4, <3>2, <4>2 DEF Pending
            <4>4. Pending("reach", <<"in", x>>) => Pending("reach", <<"in", x>>)'
                BY <1>4 DEF Pending
            <4>5. Holds(x)
                BY <2>2, <4>3, <4>4 DEF Holds
            <4> QED
                BY <4>1, <4>5 DEF DataOK
        <3> QED
            BY <3>1, <3>2
    <2> QED
        BY <2>1, <2>2 DEF DataOK
<1> QED
    BY <1>4, <1>6, <1>10, <1>11, <1>12, <1>13, <1>14, <1>15, <1>16, <1>17

\* The thread of a component fires.
LEMMA CallSyncFires ==
    ASSUME LykosInv, NEW p \in Ports, CallSync(p), At(p, "firing")'
    PROVE  LykosInv'
<1> USE DEF LykosInv
<1> DEFINE m == Master(p)
<1>1. op \in [Ports -> OpType]
    BY DEF LykosTypeOK, OpType
<1>2. /\ op[p].at = "call" /\ lock[m] = None
      /\ UNCHANGED <<circuit, status, bits, queueVars, full, runVars>>
    BY DEF CallSync, At
<1>3. Fire(m, p) /\ Goto(p, "firing") /\ UNCHANGED permits
    <2>1. ASSUME NEW result \in BOOLEAN, Goto(p, AfterCall(p, result))
          PROVE  FALSE
        <3>1. AfterCall(p, result) \in {"check", "idle", "wait"}
            BY DEF AfterCall
        <3>2. AfterCall(p, result) \in Labels /\ AfterCall(p, result) # "firing"
            BY <3>1 DEF Labels
        <3> QED
            BY <2>1, <3>2, GotoFacts DEF At
    <2>2. ~Goto(p, AfterCall(p, TRUE)) /\ ~Goto(p, AfterCall(p, FALSE))
        BY <2>1
    <2> QED
        BY <2>2 DEF CallSync
<1>4. m \in Automata /\ m \in Masters /\ p \in Public(m) /\ m # p
    BY <1>2, UserFacts, LykosAssumption DEF At
<1> HIDE DEF m
<1>5. /\ op' \in [Ports -> OpType] /\ \A q \in Ports : q # p => op'[q] = op[q]
      /\ op'[p].at = "firing" /\ op'[p].timed = op[p].timed
    BY <1>3, GotoFacts DEF Labels
<1>6. todo[m] = <<>>
    BY <1>2, <1>4 DEF TodoOK
<1>7. \A q \in Ports : op'[q].at = op[q].at \/ (op[q].at = "call" /\ op'[q].at = "firing")
    BY <1>2, <1>5
<1>8. /\ circuit' \in Circuits
      /\ TodoOK' /\ RequestsOK' /\ ItemsOK' /\ WorkOK' /\ DataOK'
      /\ buffer' \in [Ports -> (UNION Range(Data)) \cup {None}]
      /\ cell' \in [Slaves -> (UNION Range(Data)) \cup {None}]
      /\ todo' \in [Masters -> Seq(Steps)]
      /\ lock' \in [Masters -> Ports \cup Masters \cup {None}]
      /\ lock'[m] = p /\ \A n \in Masters : n # m => lock'[n] = lock[n]
      /\ \A q \in Ports : Pending("complete", q) => Pending("complete", q)'
      /\ \A q \in Ports \cap Range(Served(m)) : Pending("complete", q)'
    <2>1. UNCHANGED <<circuit, status, permits, bits, queueVars, full, work>>
        BY <1>2, <1>3 DEF runVars
    <2>2. p \in Ports \cup Masters
        OBVIOUS
    <2> QED
        BY <1>3, <1>4, <1>6, <1>7, <2>1, <2>2, FireStep
<1>9. LykosTypeOK'
    BY <1>2, <1>3, <1>5, <1>8, Same DEF LykosTypeOK, OpType, queueVars, runVars
<1>10. OpsOK'
    <2>1. ASSUME NEW q \in Ports
          PROVE  /\ At(q, "idle")' \/ \E n \in Automata' : q \in Public(n)'
                 /\ op'[q].timed => q \notin group'
                 /\ At(q, "cancel")' => op'[q].timed
                 /\ At(q, "publish")' => q \in group'
                 /\ At(q, "flag")' => status'[q] = "pending"
                 /\ At(q, "throw")' => status'[q] = None
                 /\ At(q, "firing")' /\ op'[q].timed => status'[q] = "completed" \/ Pending("complete", q)'
        <3>1. CASE q # p
            BY <1>2, <1>5, <1>8, <3>1, Same DEF OpsOK, At
        <3>2. CASE q = p
            <4>1. op[p].timed => p \in Range(Alone(m))
                BY <1>4, OwnerFacts DEF OpsOK, Public
            <4>2. Range(Alone(m)) \subseteq Range(Served(m))
                <5>1. items[m] \in Seq(Grouped(m)) /\ (Grouped(m) # {} => items[m] # <<>>)
                    BY <1>3, <1>4, <1>6, FireFacts
                <5> QED
                    BY <1>4, <5>1, ServedFacts
            <4>3. op[p].timed => Pending("complete", p)'
                BY <1>8, <4>1, <4>2
            <4> QED
                BY <1>2, <1>4, <1>5, <3>2, <4>3, Same DEF OpsOK, At
        <3> QED
            BY <3>1, <3>2
    <2> QED
        BY <2>1 DEF OpsOK
<1>11. LockOK'
    <2>1. thread' = thread /\ \A n \in Masters : n # m => todo'[n] = todo[n]
        BY <1>2, <1>3, <1>4, <1>6, FireFacts DEF runVars
    <2>2. p \notin Masters /\ None \notin Ports \cup Masters
        BY LykosAssumption
    <2>3. \A q \in Ports : op'[q].at = "firing" <=> op[q].at = "firing" \/ q = p
        BY <1>5
    <2>4. ASSUME NEW q \in Ports, op'[q].at = "firing"
          PROVE  lock'[Master(q)] = q
        <3>1. CASE q = p
            BY <1>8, <3>1 DEF m
        <3>2. CASE q # p
            <4>1. op[q].at = "firing" /\ lock[Master(q)] = q
                BY <2>3, <2>4, <3>2 DEF LockOK, At
            <4>2. Master(q) \in Masters /\ Master(q) # m
                BY <1>2, <2>2, <4>1, UserFacts DEF At
            <4> QED
                BY <1>8, <4>1, <4>2
        <3> QED
            BY <3>1, <3>2
    <2>5. ASSUME NEW n \in Masters
          PROVE  /\ lock'[n] \in Masters => lock'[n] = n /\ thread[n] # "idle"
                 /\ lock'[n] \in Ports => op'[lock'[n]].at = "firing" /\ n = Master(lock'[n])
                 /\ thread[n] = "next" => lock'[n] = n
                 /\ thread[n] = "call" /\ lock'[n] = n => todo'[n] = <<>>
        <3>1. CASE n = m
            <4>1. thread[m] # "next"
                BY <1>2, <1>4, <2>2 DEF LockOK
            <4> QED
                BY <1>4, <1>5, <1>8, <2>2, <3>1, <4>1 DEF m
        <3>2. CASE n # m
            <4>1. lock'[n] = lock[n]
                BY <1>8, <3>2
            <4>2. lock[n] \in Ports => op[lock[n]].at = "firing" /\ n = Master(lock[n])
                BY DEF LockOK, At
            <4> QED
                BY <2>1, <2>3, <3>2, <4>1, <4>2 DEF LockOK
        <3> QED
            BY <3>1, <3>2
    <2>6. \A n \in Masters : Master(lock[n])' = Master(lock'[n])
        BY <1>2 DEF Master, Automata, Public, Alone, Grouped, Private
    <2>7. \A q \in Ports : Master(q)' = Master(q)
        BY <1>2, Same
    <2> QED
        BY <2>1, <2>4, <2>5, <2>6, <2>7 DEF LockOK, At
<1> QED
    BY <1>8, <1>9, <1>10, <1>11
-----------------------------------------------------------------------------
(* The thread of a master                                                  *)

\* The semaphore of m goes to its thread, or is left by it, or stays.
LEMMA LockMoves ==
    ASSUME LykosInv, NEW m \in Automata, UNCHANGED <<circuit, op>>,
           lock[m] \in {None, m}, lock'[m] \in {None, m},
           lock'[m] = m => thread'[m] # "idle",
           thread'[m] = "next" => lock'[m] = m,
           thread'[m] = "call" /\ lock'[m] = m => todo'[m] = <<>>,
           \A n \in Masters : n # m => lock'[n] = lock[n] /\ thread'[n] = thread[n] /\ todo'[n] = todo[n]
    PROVE  LockOK'
<1> USE DEF LykosInv
<1>1. m \in Masters /\ m \notin Ports /\ None \notin Ports \cup Masters
    BY MasterFacts, LykosAssumption
<1>2. ASSUME NEW q \in Ports, At(q, "firing")
      PROVE  lock'[Master(q)] = q
    <2>1. lock[Master(q)] = q /\ Master(q) \in Masters
        BY <1>2, UserFacts DEF LockOK, At
    <2>2. Master(q) # m
        BY <1>1, <2>1
    <2> QED
        BY <2>1, <2>2
<1>3. ASSUME NEW n \in Masters
      PROVE  /\ lock'[n] \in Masters => lock'[n] = n /\ thread'[n] # "idle"
             /\ lock'[n] \in Ports => op[lock'[n]].at = "firing" /\ n = Master(lock'[n])
             /\ thread'[n] = "next" => lock'[n] = n
             /\ thread'[n] = "call" /\ lock'[n] = n => todo'[n] = <<>>
    <2>1. CASE n = m
        BY <1>1, <2>1
    <2>2. CASE n # m
        BY <2>2 DEF LockOK, At
    <2> QED
        BY <2>1, <2>2
<1>4. \A n \in Masters : Master(lock[n])' = Master(lock'[n])
    BY DEF Master, Automata, Public, Alone, Grouped, Private
<1>5. \A q \in Ports : Master(q)' = Master(q)
    BY Same
<1> QED
    BY <1>2, <1>3, <1>4, <1>5 DEF LockOK, At

\* The thread of a master takes work, or the semaphore, or leaves them.
LEMMA WorkMoves ==
    ASSUME LykosInv, NEW m \in Automata,
           UNCHANGED <<circuit, op, portVars, bits, queueVars, slaveVars, todo>>,
           thread' \in [Masters -> {"idle", "call", "next"}],
           lock' \in [Masters -> Ports \cup Masters \cup {None}],
           \A n \in Masters : todo[n] # <<>> => lock'[n] # None,
           LockOK', DOMAIN work' = Masters,
           work'[m] = work[m] \/ (work[m] # <<>> /\ work'[m] = Tail(work[m])),
           \A n \in Masters : n # m => work'[n] = work[n]
    PROVE  LykosInv'
<1> USE DEF LykosInv, portVars, queueVars, slaveVars
<1>1. m \in Masters /\ Automata \subseteq Masters
    BY MasterFacts
<1>0. UNCHANGED <<circuit, op, status, buffer, permits, bits, items, published, full, cell, todo>>
    OBVIOUS
<1>2. TodoOK'
    BY TodoFrame
<1>3. OpsOK'
    <2>1. \A q \in Ports : Pending("complete", q)' <=> Pending("complete", q)
        BY <1>0 DEF Pending, Does
    <2>2. \A q \in Ports : (\E n \in Automata' : q \in Public(n)') <=> \E n \in Automata : q \in Public(n)
        BY <1>0, Same
    <2> QED
        BY <1>0, <2>1, <2>2, Same DEF OpsOK, At
<1>4. RequestsOK'
    <2>1. \A q \in Ports : Open(q) => Open(q)'
        BY DEF Open
    <2> QED
        BY <2>1, RequestsFrame
<1>5. ItemsOK'
    <2>1. \A q \in Ports : At(q, "publish")' <=> At(q, "publish")
        BY DEF At
    <2> QED
        BY <2>1, ItemsFrame
<1>6. DataOK'
    <2>1. \A q \in OutPorts : At(q, "idle") => At(q, "idle")'
        BY DEF At
    <2> QED
        BY <2>1, DataFrame
<1>7. WorkOK'
    <2>1. work'[m] \in Seq(Range(Private(m))) /\ IsInjective(work'[m])
        <3>1. work[m] \in Seq(Range(Private(m))) /\ IsInjective(work[m])
            BY DEF WorkOK
        <3>2. work[m] # <<>> => Tail(work[m]) \in Seq(Range(Private(m))) /\ IsInjective(Tail(work[m]))
            BY <3>1, TailFacts
        <3> QED
            BY <3>1, <3>2
    <2> QED
        BY <1>1, <2>1, Same DEF WorkOK
<1>8. \A n \in Automata : IsInjective(work'[n]) /\ Len(work'[n]) <= Len(Private(n))
    BY <1>7, WorkFitsNext
<1>9. LykosTypeOK'
    BY <1>0, <1>8, Same DEF LykosTypeOK
<1> QED
    BY <1>2, <1>3, <1>4, <1>5, <1>6, <1>7, <1>9

LEMMA DequeueStep ==
    ASSUME LykosInv, NEW m \in Automata, Dequeue(m)
    PROVE  LykosInv'
<1>1. /\ m \in Masters /\ m # None /\ DOMAIN work = Masters
      /\ thread \in [Masters -> {"idle", "call", "next"}]
      /\ lock \in [Masters -> Ports \cup Masters \cup {None}]
    BY MasterFacts, LykosAssumption DEF LykosInv, LykosTypeOK
<1>2. /\ thread[m] = "idle" /\ work[m] # <<>> /\ work' = [work EXCEPT ![m] = Tail(@)]
      /\ thread' = [thread EXCEPT ![m] = "call"]
      /\ UNCHANGED <<circuit, op, portVars, bits, queueVars, slaveVars, lock, todo>>
    BY DEF Dequeue
<1>3. /\ thread' \in [Masters -> {"idle", "call", "next"}] /\ thread'[m] = "call"
      /\ \A n \in Masters : n # m => thread'[n] = thread[n]
      /\ DOMAIN work' = Masters /\ work'[m] = Tail(work[m])
      /\ \A n \in Masters : n # m => work'[n] = work[n]
    BY <1>1, <1>2
<1>4. \A n \in Masters : todo[n] # <<>> => lock'[n] # None
    BY <1>2 DEF LykosInv, TodoOK
<1>5. LockOK'
    <2>1. lock[m] # m
        BY <1>1, <1>2 DEF LykosInv, LockOK
    <2>2. \A n \in Masters : Master(lock[n])' = Master(lock'[n])
        BY <1>2 DEF Master, Automata, Public, Alone, Grouped, Private
    <2>3. \A q \in Ports : Master(q)' = Master(q)
        BY <1>2, Same
    <2>4. \A n \in Masters : lock'[n] = lock[n] /\ todo'[n] = todo[n] /\ op' = op
        BY <1>2
    <2> QED
        BY <1>1, <1>2, <1>3, <2>1, <2>2, <2>3, <2>4 DEF LykosInv, LockOK, At
<1> QED
    BY <1>1, <1>2, <1>3, <1>4, <1>5, WorkMoves

LEMMA NextStep ==
    ASSUME LykosInv, NEW m \in Automata, NextHandler(m)
    PROVE  LykosInv'
<1>1. /\ m \in Masters /\ m # None /\ DOMAIN work = Masters
      /\ thread \in [Masters -> {"idle", "call", "next"}]
      /\ lock \in [Masters -> Ports \cup Masters \cup {None}]
    BY MasterFacts, LykosAssumption DEF LykosInv, LykosTypeOK
<1>2. /\ thread[m] = "next" /\ todo[m] = <<>>
      /\ UNCHANGED <<circuit, op, portVars, bits, queueVars, slaveVars, todo>>
    BY DEF NextHandler
<1>3. lock[m] = m
    BY <1>1, <1>2 DEF LykosInv, LockOK
<1>4. /\ thread' \in [Masters -> {"idle", "call", "next"}]
      /\ lock' \in [Masters -> Ports \cup Masters \cup {None}]
      /\ DOMAIN work' = Masters
      /\ work'[m] = work[m] \/ (work[m] # <<>> /\ work'[m] = Tail(work[m]))
      /\ \/ thread'[m] = "call" /\ lock'[m] = m
         \/ thread'[m] = "idle" /\ lock'[m] = None
      /\ \A n \in Masters : n # m =>
            work'[n] = work[n] /\ thread'[n] = thread[n] /\ lock'[n] = lock[n]
    BY <1>1, <1>3 DEF NextHandler
<1>5. \A n \in Masters : todo[n] # <<>> => lock'[n] # None
    BY <1>2, <1>4 DEF LykosInv, TodoOK
<1>6. LockOK'
    BY <1>1, <1>2, <1>3, <1>4, LockMoves
<1> QED
    BY <1>1, <1>2, <1>4, <1>5, <1>6, WorkMoves

LEMMA CallStep ==
    ASSUME LykosInv, NEW m \in Automata, Call(m)
    PROVE  LykosInv'
<1>1. /\ m \in Masters /\ m # None /\ DOMAIN work = Masters
      /\ thread \in [Masters -> {"idle", "call", "next"}]
      /\ lock \in [Masters -> Ports \cup Masters \cup {None}]
    BY MasterFacts, LykosAssumption DEF LykosInv, LykosTypeOK
<1>2. /\ thread[m] = "call" /\ lock[m] \in {None, m}
      /\ thread' = [thread EXCEPT ![m] = "next"]
      /\ UNCHANGED <<circuit, op, status, permits, bits, queueVars, full, work>>
    BY DEF Call
<1>3. todo[m] = <<>>
    BY <1>1, <1>2 DEF LykosInv, LockOK, TodoOK
<1>4. /\ thread' \in [Masters -> {"idle", "call", "next"}] /\ thread'[m] = "next"
      /\ \A n \in Masters : n # m => thread'[n] = thread[n]
    BY <1>1, <1>2
<1>5. CASE Fire(m, m)
    <2>1. /\ circuit' \in Circuits
          /\ TodoOK' /\ RequestsOK' /\ ItemsOK' /\ WorkOK' /\ DataOK'
          /\ buffer' \in [Ports -> (UNION Range(Data)) \cup {None}]
          /\ cell' \in [Slaves -> (UNION Range(Data)) \cup {None}]
          /\ todo' \in [Masters -> Seq(Steps)]
          /\ lock' \in [Masters -> Ports \cup Masters \cup {None}]
          /\ lock'[m] = m /\ \A n \in Masters : n # m => lock'[n] = lock[n]
          /\ \A q \in Ports : Pending("complete", q) => Pending("complete", q)'
        <3>1. m \in Ports \cup Masters
            BY <1>1
        <3>2. \A q \in Ports : op'[q].at = op[q].at
            BY <1>2
        <3> QED
            BY <1>2, <1>3, <1>5, <3>1, <3>2, FireStep
    <2>2. LykosTypeOK'
        BY <1>2, <1>4, <2>1, Same DEF LykosInv, LykosTypeOK, queueVars
    <2>3. OpsOK'
        <3>1. \A q \in Ports : (\E n \in Automata' : q \in Public(n)') <=> \E n \in Automata : q \in Public(n)
            BY <1>2, Same
        <3> QED
            BY <1>2, <2>1, <3>1, Same DEF LykosInv, OpsOK, At
    <2>4. LockOK'
        <3>1. \A n \in Masters : n # m => todo'[n] = todo[n]
            BY <1>3, <1>5, FireFacts
        <3> QED
            BY <1>2, <1>4, <2>1, <3>1, LockMoves
    <2> QED
        BY <2>1, <2>2, <2>3, <2>4 DEF LykosInv
<1>6. CASE ~Fire(m, m)
    <2>1. lock' = [lock EXCEPT ![m] = m] /\ UNCHANGED <<buffer, cell, todo>>
        BY <1>6 DEF Call
    <2>2. /\ lock' \in [Masters -> Ports \cup Masters \cup {None}] /\ lock'[m] = m
          /\ \A n \in Masters : n # m => lock'[n] = lock[n]
        BY <1>1, <2>1
    <2>3. \A n \in Masters : todo[n] # <<>> => lock'[n] # None
        BY <1>1, <2>2 DEF LykosInv, TodoOK
    <2>4. LockOK'
        BY <1>2, <1>3, <1>4, <2>1, <2>2, LockMoves
    <2>5. UNCHANGED <<circuit, op, portVars, bits, queueVars, slaveVars, todo>>
        BY <1>2, <2>1 DEF portVars, slaveVars
    <2> QED
        BY <1>1, <1>2, <1>4, <2>2, <2>3, <2>4, <2>5, WorkMoves
<1> QED
    BY <1>5, <1>6
-----------------------------------------------------------------------------
(* The statements of a transition, one at a time                           *)

\* The statement to be executed.
Do(m) == Head(todo[m])[1]
On(m) == Head(todo[m])[2]

LEMMA StatementFacts ==
    ASSUME LykosInv, NEW m \in Automata, Statement(m)
    PROVE  /\ m \in Masters /\ <<Do(m), On(m)>> \in Steps /\ Does(m, Do(m), On(m))
           /\ todo' \in [Masters -> Seq(Steps)]
           /\ \A n \in Masters : n # m => todo'[n] = todo[n]
           /\ \A n \in Masters : n # m => \A do : \A x : Does(n, do, x)' <=> Does(n, do, x)
           /\ \A do : \A x : Does(m, do, x)' => Does(m, do, x)
           /\ \A do : \A x : Does(m, do, x) /\ <<do, x>> # <<Do(m), On(m)>> => Does(m, do, x)'
           /\ \A e : Once(todo[m], e) => Once(todo'[m], e)
           /\ \A do : \A x : <<do, x>> = <<Do(m), On(m)>> /\ Once(todo[m], <<do, x>>) => ~Does(m, do, x)'
           /\ \A k \in DOMAIN todo'[m] : todo'[m][k][1] # "take"
           /\ ~Does(m, "take", m)'
           /\ Do(m) # "take" => ~Does(m, "take", m)
           /\ todo[m] # <<>> /\ lock[m] # None
           /\ UNCHANGED <<circuit, op, buffer, cell, lock, thread>>
<1> USE DEF LykosInv
<1>1. m \in Masters /\ todo \in [Masters -> Seq(Steps)] /\ todo[m] \in Seq(Steps)
    BY MasterFacts DEF LykosTypeOK
<1>2. todo[m] # <<>> /\ todo' = [todo EXCEPT ![m] = Tail(@)] /\ UNCHANGED <<circuit, op, buffer, cell, lock, thread>>
    BY DEF Statement
<1>3. /\ Tail(todo[m]) \in Seq(Steps) /\ Head(todo[m]) = todo[m][1] /\ Head(todo[m]) \in Steps
      /\ \A k \in DOMAIN Tail(todo[m]) : k + 1 \in DOMAIN todo[m] /\ Tail(todo[m])[k] = todo[m][k + 1]
      /\ Range(todo[m]) = {Head(todo[m])} \cup Range(Tail(todo[m]))
      /\ \A e : Once(todo[m], e) => Once(Tail(todo[m]), e)
      /\ Once(todo[m], Head(todo[m])) => Head(todo[m]) \notin Range(Tail(todo[m]))
    BY <1>1, <1>2, TailFacts
<1>4. todo'[m] = Tail(todo[m]) /\ todo' \in [Masters -> Seq(Steps)]
      /\ \A n \in Masters : n # m => todo'[n] = todo[n]
    BY <1>1, <1>2, <1>3
<1>5. Head(todo[m]) = <<Do(m), On(m)>>
    BY <1>3 DEF Do, On, Steps
<1>6. \A do : \A x : Does(m, do, x) <=> <<do, x>> \in Range(todo[m])
    BY DEF Does, Range
<1>7. \A do : \A x : Does(m, do, x)' <=> <<do, x>> \in Range(Tail(todo[m]))
    BY <1>4 DEF Does, Range
<1>8. \A n \in Masters : n # m => \A do : \A x : Does(n, do, x)' <=> Does(n, do, x)
    BY <1>4 DEF Does
<1>9. /\ \A do : \A x : Does(m, do, x)' => Does(m, do, x)
      /\ \A do : \A x : Does(m, do, x) /\ <<do, x>> # <<Do(m), On(m)>> => Does(m, do, x)'
      /\ Does(m, Do(m), On(m))
      /\ \A do : \A x : <<do, x>> = <<Do(m), On(m)>> /\ Once(todo[m], <<do, x>>) => ~Does(m, do, x)'
    <2> DEFINE e == <<Do(m), On(m)>>
               rest == Range(Tail(todo[m]))
    <2>1. Range(todo[m]) = {e} \cup rest /\ (Once(todo[m], e) => e \notin rest)
        BY <1>3, <1>5
    <2>2. \A do : \A x : Does(m, do, x)' <=> <<do, x>> \in rest
        BY <1>7
    <2>3. Does(m, Do(m), On(m)) <=> e \in Range(todo[m])
        BY <1>6
    <2> HIDE DEF e, rest
    <2>4. \A do : \A x : Does(m, do, x)' => Does(m, do, x)
        BY <1>6, <2>1, <2>2
    <2>5. \A do : \A x : Does(m, do, x) /\ <<do, x>> # e => Does(m, do, x)'
        BY <1>6, <2>1, <2>2
    <2>6. Does(m, Do(m), On(m))
        BY <2>1, <2>3
    <2>7. \A do : \A x : <<do, x>> = e /\ Once(todo[m], <<do, x>>) => ~Does(m, do, x)'
        BY <2>1, <2>2
    <2> QED
        BY <2>4, <2>5, <2>6, <2>7 DEF e
<1>10. \A k \in DOMAIN todo[m] : todo[m][k][1] = "take" => k = 1
    BY <1>1 DEF TodoOK
<1>11. \A k \in DOMAIN Tail(todo[m]) : k + 1 # 1
    BY <1>3
<1>12. \A k \in DOMAIN todo'[m] : todo'[m][k][1] # "take"
    BY <1>3, <1>4, <1>10, <1>11
<1>13. ~Does(m, "take", m)'
    BY <1>12 DEF Does
<1>14. Do(m) # "take" => ~Does(m, "take", m)
    BY <1>3, <1>5, <1>10 DEF Does
<1>15. lock[m] # None
    BY <1>1, <1>2 DEF TodoOK
<1> QED
    BY <1>1, <1>2, <1>3, <1>4, <1>5, <1>8, <1>9, <1>12, <1>13, <1>14, <1>15

\* The slaves that are still to be moved are in the state that was tested.
LEMMA StatementTodo ==
    ASSUME LykosInv, NEW m \in Automata, Statement(m),
           \A n \in Masters : \A x \in PrivatePorts : Does(n, "reach", x)' => ~Usable(x)'
    PROVE  TodoOK'
<1> USE DEF LykosInv
<1>1. \A n \in Masters : \A do : \A x : Does(n, do, x)' => Does(n, do, x)
    BY StatementFacts
<1>2. \A n \in Masters : todo'[n] # <<>> => n \in Automata /\ lock'[n] # None
    BY StatementFacts DEF TodoOK
<1>3. \A n \in Masters : \A k \in DOMAIN todo'[n] : todo'[n][k][1] = "take" => k = 1 /\ todo'[n][k][2] = n
    BY StatementFacts DEF TodoOK
<1>4. \A n \in Masters : \A e : Once(todo[n], e) => Once(todo'[n], e)
    BY StatementFacts
<1>5. \A n \in Masters : \A p \in Ports : Does(n, "complete", p)' =>
         p \in Public(n) /\ Once(todo'[n], <<"complete", p>>)
    BY <1>1, <1>4 DEF TodoOK
<1>6. \A n \in Masters : \A x \in PrivatePorts : Does(n, "kick", x)' => \E o \in Automata : x \in Range(Private(o))
    BY <1>1 DEF TodoOK
<1>7. \A n \in Masters : \A x \in PrivatePorts : Does(n, "reach", x)' =>
         Opposite(x) \in Range(Private(n)) /\ Once(todo'[n], <<"reach", x>>)
    BY <1>1, <1>4 DEF TodoOK
<1>8. circuit' = circuit
    BY StatementFacts
<1> QED
    BY <1>2, <1>3, <1>5, <1>6, <1>7, <1>8, Same DEF TodoOK, Once

LEMMA StatementLock ==
    ASSUME LykosInv, NEW m \in Automata, Statement(m)
    PROVE  LockOK'
<1>1. /\ m \in Masters /\ todo[m] # <<>> /\ UNCHANGED <<circuit, op, lock, thread>>
      /\ \A n \in Masters : n # m => todo'[n] = todo[n]
    BY StatementFacts
<1>2. \A n \in Masters : Master(lock[n])' = Master(lock'[n])
    BY <1>1 DEF Master, Automata, Public, Alone, Grouped, Private
<1>3. \A q \in Ports : Master(q)' = Master(q)
    BY <1>1, Same
<1> QED
    BY <1>1, <1>2, <1>3 DEF LykosInv, LockOK, At

LEMMA StatementOps ==
    ASSUME LykosInv, NEW m \in Automata, Statement(m),
           \A q \in Ports : At(q, "flag") \/ At(q, "throw") => status'[q] = status[q],
           \A q \in Ports : status[q] = "completed" \/ Pending("complete", q)
                              => status'[q] = "completed" \/ Pending("complete", q)'
    PROVE  OpsOK'
<1>1. UNCHANGED <<circuit, op>>
    BY StatementFacts
<1>2. \A q \in Ports : (\E n \in Automata' : q \in Public(n)') <=> \E n \in Automata : q \in Public(n)
    BY <1>1, Same
<1> QED
    BY <1>1, <1>2, Same DEF LykosInv, OpsOK, At

LEMMA StatementData ==
    ASSUME LykosInv, NEW m \in Automata, Statement(m), \A s \in Slaves : Holds(s)' => Holds(s)
    PROVE  DataOK'
<1>1. UNCHANGED <<op, buffer, cell>>
    BY StatementFacts
<1> QED
    BY <1>1 DEF LykosInv, DataOK, At

\* Nothing is taken or completed.
LEMMA StatementRequests ==
    ASSUME LykosInv, NEW m \in Automata, Statement(m), Do(m) \notin {"take", "complete"},
           UNCHANGED <<status, items, published>>, bits' \cap Ports = bits \cap Ports
    PROVE  RequestsOK' /\ ItemsOK' /\ OpsOK'
<1> USE DEF LykosInv
<1>1. UNCHANGED <<circuit, op>> /\ Automata \subseteq Masters
    BY StatementFacts, MasterFacts
<1>2. \A n \in Masters : \A do \in {"take", "complete"} : \A x : Does(n, do, x)' <=> Does(n, do, x)
    BY StatementFacts
<1>3. \A q \in Ports : Open(q)' <=> Open(q)
    BY <1>1 DEF Open
<1>4. \A q \in Ports : Flagged(q)' <=> Flagged(q)
    BY <1>1, Same DEF Flagged
<1>5. \A q \in Ports : Pending("complete", q)' <=> Pending("complete", q)
    BY <1>2 DEF Pending
<1>6. RequestsOK'
    <2>1. \A q \in Ports : Flagged(q)' \/ Pending("complete", q)' => Open(q)'
        BY <1>3, <1>4, <1>5 DEF RequestsOK
    <2>2. bits' \cap group' = {}
        BY <1>1, Same, OwnerFacts DEF RequestsOK
    <2>3. \A n \in Automata : \A q \in Ports : Does(n, "complete", q)' =>
             IF Does(n, "take", n)' THEN q \in group => q = Head(items[n]) ELSE ~Flagged(q)'
        BY <1>1, <1>2, <1>4 DEF RequestsOK
    <2> QED
        BY <1>1, <2>1, <2>2, <2>3, Same DEF RequestsOK
<1>7. ItemsOK'
    <2>1. \A n \in Automata : Does(n, "take", n)' => Does(n, "take", n)
        BY <1>1, <1>2
    <2>2. \A q : At(q, "publish")' <=> At(q, "publish")
        BY <1>1 DEF At
    <2>3. ASSUME NEW n \in Automata
          PROVE  {q \in Grouped(n) : At(q, "publish")'} = {q \in Grouped(n) : At(q, "publish")}
        BY <2>2
    <2>4. ASSUME NEW n \in Automata
          PROVE  /\ IsInjective(items[n])
                 /\ Len(items[n]) = published[n] + Cardinality({q \in Grouped(n) : At(q, "publish")'})
                 /\ Does(n, "take", n)' /\ Grouped(n) # {} => published[n] > 0
        BY <2>1, <2>3 DEF ItemsOK
    <2> QED
        BY <1>1, <2>4, Same DEF ItemsOK, At, Does
<1>8. OpsOK'
    BY <1>5, StatementOps
<1> QED
    BY <1>6, <1>7, <1>8

LEMMA ReleaseStep ==
    ASSUME LykosInv, NEW m \in Automata, Statement(m), Do(m) = "release", Release(On(m))
    PROVE  LykosInv'
<1> USE DEF LykosInv
<1> DEFINE p == On(m)
<1>1. /\ permits' = [permits EXCEPT ![p] = IF @ < MaxPermits THEN @ + 1 ELSE @]
      /\ UNCHANGED <<status, bits, queueVars, full, work>>
    BY DEF Release
<1>2. UNCHANGED <<circuit, op, buffer, cell, lock, thread>> /\ todo' \in [Masters -> Seq(Steps)]
    BY StatementFacts
<1>3. /\ \A n \in Masters : \A x : Does(n, "reach", x)' <=> Does(n, "reach", x)
      /\ \A n \in Masters : \A x : Does(n, "complete", x)' <=> Does(n, "complete", x)
    BY StatementFacts
<1>4. permits' \in [Ports -> 0 .. MaxPermits]
    <2>1. p \in Ports /\ permits \in [Ports -> 0 .. MaxPermits] /\ permits[p] \in 0 .. MaxPermits
        BY StatementFacts DEF Steps, LykosTypeOK
    <2>2. (IF permits[p] < MaxPermits THEN permits[p] + 1 ELSE permits[p]) \in 0 .. MaxPermits
        BY <2>1, LykosAssumption
    <2> QED
        BY <1>1, <2>1, <2>2
<1>5. LykosTypeOK'
    BY <1>1, <1>2, <1>4, Same DEF LykosTypeOK, queueVars
<1>6. TodoOK'
    <2>1. \A n \in Masters : \A x \in PrivatePorts : Does(n, "reach", x)' => ~Usable(x)'
        BY <1>1, <1>3 DEF TodoOK, Usable
    <2> QED
        BY <2>1, StatementTodo
<1>7. RequestsOK' /\ ItemsOK' /\ OpsOK'
    BY <1>1, StatementRequests DEF queueVars
<1>8. WorkOK'
    BY <1>1, <1>2, WorkFrame
<1>9. DataOK'
    <2>1. \A s \in Slaves : Holds(s)' => Holds(s)
        BY <1>1, <1>3 DEF Holds, Pending
    <2> QED
        BY <2>1, StatementData
<1> QED
    BY <1>2, <1>5, <1>6, <1>7, <1>8, <1>9, StatementLock

LEMMA KickStep ==
    ASSUME LykosInv, NEW m \in Automata, Statement(m), Do(m) = "kick", Kick(On(m))
    PROVE  LykosInv'
<1> USE DEF LykosInv
<1>0. PICK x : x = On(m)
    OBVIOUS
<1>1. /\ bits' = bits \cup {x}
      /\ work' = [work EXCEPT ![Master(x)] = IF x \in Range(@) THEN @ ELSE Append(@, x)]
      /\ UNCHANGED <<status, queueVars, permits, full>>
    BY <1>0 DEF Kick
<1>2. UNCHANGED <<circuit, op, buffer, cell, lock, thread>> /\ todo' \in [Masters -> Seq(Steps)]
    BY StatementFacts
<1>3. \A n \in Masters : \A y : Does(n, "reach", y)' <=> Does(n, "reach", y)
    BY StatementFacts
<1>4. x \in PrivatePorts /\ Does(m, "kick", x) /\ m \in Masters /\ DOMAIN work = Masters
    BY <1>0, StatementFacts DEF Steps, LykosTypeOK
<1>5. PICK n \in Automata : x \in Range(Private(n))
    BY <1>4 DEF TodoOK
<1>6. Master(x) = n /\ n \in Masters
    BY <1>5, OwnerFacts, MasterFacts
<1>7. /\ DOMAIN work' = Masters /\ \A o \in Masters : o # n => work'[o] = work[o]
      /\ work'[n] = IF x \in Range(work[n]) THEN work[n] ELSE Append(work[n], x)
    BY <1>1, <1>4, <1>6
<1>8. WorkOK'
    <2>1. work[n] \in Seq(Range(Private(n))) /\ IsInjective(work[n])
        BY DEF WorkOK
    <2>2. work'[n] \in Seq(Range(Private(n))) /\ IsInjective(work'[n])
        BY <1>5, <1>7, <2>1, AppendFacts
    <2>3. Automata \subseteq Masters
        BY MasterFacts
    <2> QED
        BY <1>2, <1>7, <2>2, <2>3, Same DEF WorkOK
<1>9. bits' \subseteq Ports \cup PrivatePorts /\ bits' \cap Ports = bits \cap Ports
    BY <1>1, <1>4, LykosAssumption DEF LykosTypeOK
<1>10. LykosTypeOK'
    <2>1. \A o \in Automata : IsInjective(work'[o]) /\ Len(work'[o]) <= Len(Private(o))
        BY <1>2, <1>8, WorkFitsNext
    <2> QED
        BY <1>1, <1>2, <1>7, <1>9, <2>1, Same DEF LykosTypeOK, queueVars
<1>11. TodoOK'
    <2>1. \A o \in Masters : \A y \in PrivatePorts : Does(o, "reach", y)' => ~Usable(y)'
        BY <1>1, <1>3 DEF TodoOK, Usable
    <2> QED
        BY <2>1, StatementTodo
<1>12. RequestsOK' /\ ItemsOK' /\ OpsOK'
    BY <1>1, <1>9, StatementRequests DEF queueVars
<1>13. DataOK'
    <2>1. \A s \in Slaves : Holds(s)' => Holds(s)
        BY <1>1, <1>3 DEF Holds, Pending
    <2> QED
        BY <2>1, StatementData
<1> QED
    BY <1>2, <1>8, <1>10, <1>11, <1>12, <1>13, StatementLock

\* A slave is moved once, and by one of its masters: nobody else is about to
\* move it, or was told that it is in the state that it leaves.
LEMMA OtherReaches ==
    ASSUME LykosInv, NEW m \in Masters, NEW n \in Masters,
           NEW x \in PrivatePorts, NEW y \in PrivatePorts,
           Does(m, "reach", x), Does(n, "reach", y), y[2] = x[2]
    PROVE  y = x /\ n = m
<1> USE DEF LykosInv
<1>1. todo[m] # <<>> /\ todo[n] # <<>>
    BY EmptySeq DEF Does
<1>2. m \in Automata /\ n \in Automata
    BY <1>1 DEF TodoOK
<1>3. /\ Opposite(x) \in Range(Private(m)) /\ ~Usable(x)
      /\ Opposite(y) \in Range(Private(n)) /\ ~Usable(y)
    BY DEF TodoOK
<1>4. y # Opposite(x)
    BY <1>3, OppositeFacts
<1>5. y = x
    BY <1>4, OppositeFacts
<1>6. n = m
    BY <1>2, <1>3, <1>5, OwnerFacts
<1> QED
    BY <1>5, <1>6

LEMMA ReachStep ==
    ASSUME LykosInv, NEW m \in Automata, Statement(m), Do(m) = "reach", Reach(On(m))
    PROVE  LykosInv'
<1> USE DEF LykosInv
<1>0. PICK x : x = On(m)
    OBVIOUS
<1>1. /\ full' = IF x[1] = "out" THEN full \cup {x[2]} ELSE full \ {x[2]}
      /\ UNCHANGED <<status, bits, queueVars, permits, work>>
    BY <1>0 DEF Reach
<1>2. UNCHANGED <<circuit, op, buffer, cell, lock, thread>> /\ todo' \in [Masters -> Seq(Steps)]
    BY StatementFacts
<1>3. x \in PrivatePorts /\ x[2] \in Slaves /\ Does(m, "reach", x) /\ m \in Masters
    <2>1. x \in PrivatePorts /\ Does(m, "reach", x) /\ m \in Masters
        BY <1>0, StatementFacts DEF Steps
    <2> QED
        BY <2>1, OppositeFacts
<1>4. ~Does(m, "reach", x)'
    <2>1. Once(todo[m], <<"reach", x>>)
        BY <1>3 DEF TodoOK
    <2> QED
        BY <1>0, <2>1, StatementFacts
<1>5. /\ \A n \in Masters : \A y : Does(n, "reach", y)' => Does(n, "reach", y)
      /\ \A n \in Masters : \A y : Does(n, "reach", y) /\ y # x => Does(n, "reach", y)'
    BY <1>0, StatementFacts
<1>6. ASSUME NEW n \in Masters, NEW y \in PrivatePorts, Does(n, "reach", y)'
      PROVE  ~Usable(y)' /\ y[2] # x[2]
    <2>1. Does(n, "reach", y)
        BY <1>5, <1>6
    <2>2. ~(y = x /\ n = m)
        BY <1>4, <1>6
    <2>3. y[2] # x[2]
        BY <1>3, <2>1, <2>2, OtherReaches
    <2>4. ~Usable(y)
        BY <2>1 DEF TodoOK
    <2> QED
        BY <1>1, <2>3, <2>4 DEF Usable
<1>7. LykosTypeOK'
    <2>1. full' \subseteq Slaves
        BY <1>1, <1>3 DEF LykosTypeOK
    <2> QED
        BY <1>1, <1>2, <2>1, Same DEF LykosTypeOK, queueVars
<1>8. TodoOK'
    BY <1>6, StatementTodo
<1>9. RequestsOK' /\ ItemsOK' /\ OpsOK'
    BY <1>1, StatementRequests DEF queueVars
<1>10. WorkOK'
    BY <1>1, <1>2, WorkFrame
<1>11. DataOK'
    <2>1. ASSUME NEW s \in Slaves, Holds(s)'
          PROVE  Holds(s)
        <3> DEFINE out == <<"out", s>>
                   in == <<"in", s>>
        <3>1. out \in PrivatePorts /\ in \in PrivatePorts /\ out[2] = s /\ in[2] = s
            BY DEF PrivatePorts
        <3>2. Pending("reach", out)' => Pending("reach", out)
            BY <1>5 DEF Pending
        <3>3. CASE x = out
            BY <1>3, <3>3 DEF Holds, Pending
        <3>4. CASE x = in
            <4>1. s \notin full'
                BY <1>1, <3>4
            <4> QED
                BY <2>1, <3>2, <4>1 DEF Holds
        <3>5. CASE x # in /\ x # out
            <4>1. s # x[2]
                BY <1>3, <3>1, <3>5, OppositeFacts DEF PrivatePorts
            <4>2. s \in full' <=> s \in full
                BY <1>1, <4>1
            <4>3. Pending("reach", in) => Pending("reach", in)'
                BY <1>5, <3>5 DEF Pending
            <4> QED
                BY <2>1, <3>2, <4>2, <4>3 DEF Holds
        <3> QED
            BY <3>3, <3>4, <3>5
    <2> QED
        BY <2>1, StatementData
<1> QED
    BY <1>2, <1>7, <1>8, <1>9, <1>10, <1>11, StatementLock

LEMMA CompleteStep ==
    ASSUME LykosInv, NEW m \in Automata, Statement(m), Do(m) = "complete", Complete(On(m))
    PROVE  LykosInv'
<1> USE DEF LykosInv
<1>0. PICK p : p = On(m)
    OBVIOUS
<1>1. /\ status' = [status EXCEPT ![p] = "completed"]
      /\ UNCHANGED <<bits, queueVars, permits, full, work>>
    BY <1>0 DEF Complete
<1>2. UNCHANGED <<circuit, op, buffer, cell, lock, thread>> /\ todo' \in [Masters -> Seq(Steps)]
    BY StatementFacts
<1>3. p \in Ports /\ Does(m, "complete", p) /\ m \in Masters /\ Automata \subseteq Masters
    BY <1>0, StatementFacts, MasterFacts DEF Steps
<1>4. Open(p) /\ p \in Public(m) /\ ~Flagged(p)
    <2>1. Open(p)
        BY <1>3 DEF RequestsOK, Pending
    <2>2. ~Does(m, "take", m)
        BY StatementFacts
    <2> QED
        BY <1>3, <2>1, <2>2 DEF RequestsOK, TodoOK
<1>5. ~Pending("complete", p)'
    <2> SUFFICES ASSUME NEW n \in Masters, Does(n, "complete", p)'
                 PROVE  FALSE
        BY DEF Pending
    <2>1. Does(n, "complete", p)
        BY StatementFacts
    <2>2. todo[n] # <<>>
        BY <2>1, EmptySeq DEF Does
    <2>3. n \in Automata /\ p \in Public(n)
        BY <1>3, <2>1, <2>2 DEF TodoOK
    <2>4. n = m
        BY <1>4, <2>3, OwnerFacts
    <2>5. Once(todo[m], <<"complete", p>>)
        BY <1>3 DEF TodoOK
    <2> QED
        BY <1>0, <2>4, <2>5, StatementFacts
<1>6. /\ status' \in [Ports -> {None, "pending", "completed"}] /\ status'[p] = "completed"
      /\ \A q \in Ports : q # p => status'[q] = status[q]
    BY <1>1, <1>3 DEF LykosTypeOK
<1>7. /\ \A n \in Masters : \A do : \A x : Does(n, do, x)' => Does(n, do, x)
      /\ \A n \in Masters : \A x : x # p => (Does(n, "complete", x)' <=> Does(n, "complete", x))
      /\ \A n \in Masters : \A do \in {"take", "reach"} : \A x : Does(n, do, x)' <=> Does(n, do, x)
    BY <1>0, StatementFacts
<1>8. LykosTypeOK'
    BY <1>1, <1>2, <1>6, Same DEF LykosTypeOK, queueVars
<1>9. TodoOK'
    <2>1. \A n \in Masters : \A x \in PrivatePorts : Does(n, "reach", x)' => ~Usable(x)'
        BY <1>1, <1>7 DEF TodoOK, Usable
    <2> QED
        BY <2>1, StatementTodo
<1>10. OpsOK'
    <2>1. \A q \in Ports : At(q, "flag") \/ At(q, "throw") => status'[q] = status[q]
        BY <1>4, <1>6, LykosAssumption DEF Open, At, OpsOK
    <2>2. \A q \in Ports : status[q] = "completed" \/ Pending("complete", q)
                              => status'[q] = "completed" \/ Pending("complete", q)'
        BY <1>6, <1>7 DEF Pending
    <2> QED
        BY <2>1, <2>2, StatementOps
<1>11. RequestsOK'
    <2>1. \A q \in Ports : q # p => (Open(q)' <=> Open(q))
        BY <1>2, <1>6 DEF Open
    <2>2. \A q \in Ports : Flagged(q)' <=> Flagged(q)
        BY <1>1, <1>2, Same DEF Flagged, queueVars
    <2>3. \A q \in Ports : Pending("complete", q)' => Pending("complete", q) /\ q # p
        BY <1>5, <1>7 DEF Pending
    <2>4. \A q \in Ports : Flagged(q)' \/ Pending("complete", q)' => Open(q)'
        BY <1>4, <2>1, <2>2, <2>3 DEF RequestsOK
    <2>5. bits' \cap group' = {}
        BY <1>1, <1>2, Same DEF RequestsOK
    <2>6. \A n \in Automata : \A q \in Ports : Does(n, "complete", q)' =>
             IF Does(n, "take", n)' THEN q \in group => q = Head(items[n]) ELSE ~Flagged(q)'
        BY <1>3, <1>7, <2>2 DEF RequestsOK
    <2> QED
        BY <1>1, <1>2, <2>4, <2>5, <2>6, Same DEF RequestsOK, queueVars
<1>12. ItemsOK'
    <2>1. ASSUME NEW n \in Automata
          PROVE  {q \in Grouped(n) : At(q, "publish")'} = {q \in Grouped(n) : At(q, "publish")}
        BY <1>2 DEF At
    <2>2. ASSUME NEW n \in Automata
          PROVE  /\ IsInjective(items[n])
                 /\ Len(items[n]) = published[n] + Cardinality({q \in Grouped(n) : At(q, "publish")'})
                 /\ Does(n, "take", n)' /\ Grouped(n) # {} => published[n] > 0
        BY <1>3, <1>7, <2>1 DEF ItemsOK
    <2> QED
        BY <1>1, <1>2, <2>2, Same DEF ItemsOK, At, Does, queueVars
<1>13. WorkOK'
    BY <1>1, <1>2, WorkFrame
<1>14. DataOK'
    <2>1. \A s \in Slaves : Holds(s)' => Holds(s)
        BY <1>1, <1>7 DEF Holds, Pending
    <2> QED
        BY <2>1, StatementData
<1> QED
    BY <1>2, <1>8, <1>9, <1>10, <1>11, <1>12, <1>13, <1>14, StatementLock

\* The ports of the transition are taken, each from its mask or from the queue:
\* none of them can be taken again before its next operation.
LEMMA TakeStep ==
    ASSUME LykosInv, NEW m \in Automata, Statement(m), Do(m) = "take", Take(On(m))
    PROVE  LykosInv'
<1> USE DEF LykosInv
<1>1. On(m) = m /\ Does(m, "take", m)
    <2>1. PICK x : x = On(m)
        OBVIOUS
    <2>2. Does(m, "take", x) /\ m \in Masters
        BY <2>1, StatementFacts
    <2>3. \A k \in DOMAIN todo[m] : todo[m][k][1] = "take" => todo[m][k][2] = m
        BY <2>2 DEF TodoOK
    <2>4. x = m
        BY <2>2, <2>3 DEF Does
    <2> QED
        BY <2>1, <2>2, <2>4
<1>2. /\ bits' = bits \ (Range(Alone(m)) \cup Range(Private(m)))
      /\ UNCHANGED <<status, permits, full, work>>
      /\ IF Grouped(m) = {} THEN UNCHANGED queueVars
         ELSE /\ items' = [items EXCEPT ![m] = Tail(@)]
              /\ published' = [published EXCEPT ![m] = @ - 1]
    BY <1>1 DEF Take
<1>3. UNCHANGED <<circuit, op, buffer, cell, lock, thread>> /\ todo' \in [Masters -> Seq(Steps)]
    BY StatementFacts
<1>4. m \in Masters /\ Automata \subseteq Masters
    BY MasterFacts
<1>5. /\ \A n \in Masters : \A x : \A do \in {"reach", "complete"} : Does(n, do, x)' <=> Does(n, do, x)
      /\ \A n \in Masters : n # m => (Does(n, "take", n)' <=> Does(n, "take", n))
      /\ ~Does(m, "take", m)'
    BY StatementFacts
<1>6. /\ items[m] \in Seq(Grouped(m)) /\ published \in [Masters -> Nat]
      /\ published[m] \in Nat /\ published[m] <= Len(items[m])
      /\ DOMAIN items = Masters /\ IsInjective(items[m])
      /\ Grouped(m) # {} => published[m] > 0
    BY <1>1, <1>4 DEF LykosTypeOK, ItemsOK
<1>7. Grouped(m) # {} =>
         /\ items[m] # <<>> /\ items'[m] = Tail(items[m]) /\ published'[m] = published[m] - 1
         /\ Tail(items[m]) \in Seq(Grouped(m)) /\ Len(Tail(items[m])) = Len(items[m]) - 1
         /\ Range(items[m]) = {Head(items[m])} \cup Range(Tail(items[m]))
         /\ IsInjective(Tail(items[m])) /\ Head(items[m]) \notin Range(Tail(items[m]))
    <2> SUFFICES ASSUME Grouped(m) # {}
                 PROVE  /\ items[m] # <<>> /\ items'[m] = Tail(items[m]) /\ published'[m] = published[m] - 1
                        /\ Tail(items[m]) \in Seq(Grouped(m)) /\ Len(Tail(items[m])) = Len(items[m]) - 1
                        /\ Range(items[m]) = {Head(items[m])} \cup Range(Tail(items[m]))
                        /\ IsInjective(Tail(items[m])) /\ Head(items[m]) \notin Range(Tail(items[m]))
        OBVIOUS
    <2>1. items[m] # <<>>
        BY <1>6, EmptySeq
    <2>2. items'[m] = Tail(items[m]) /\ published'[m] = published[m] - 1
        BY <1>2, <1>4, <1>6
    <2>3. /\ Tail(items[m]) \in Seq(Grouped(m)) /\ Len(Tail(items[m])) = Len(items[m]) - 1
        BY <1>6, <2>1, HeadTailProperties
    <2>4. /\ Range(items[m]) = {Head(items[m])} \cup Range(Tail(items[m]))
          /\ IsInjective(Tail(items[m])) /\ Head(items[m]) \notin Range(Tail(items[m]))
        BY <1>6, <2>1, TailFacts
    <2> QED
        BY <2>1, <2>2, <2>3, <2>4
<1>8. /\ \A n \in Masters : n # m => items'[n] = items[n] /\ published'[n] = published[n]
      /\ Grouped(m) = {} => items'[m] = items[m] /\ published'[m] = published[m]
      /\ DOMAIN items' = Masters
    BY <1>2, <1>4, <1>6 DEF queueVars
<1>9. published' \in [Masters -> Nat]
    BY <1>2, <1>4, <1>6, <1>7 DEF queueVars
<1>10. \A n \in Automata : Range(items'[n]) \subseteq Range(items[n])
    BY <1>4, <1>7, <1>8
<1>11. LykosTypeOK'
    <2>1. \A n \in Automata : items'[n] \in Seq(Grouped(n)) /\ published'[n] <= Len(items'[n])
        <3>1. items'[m] \in Seq(Grouped(m)) /\ published'[m] <= Len(items'[m])
            <4>1. CASE Grouped(m) = {}
                BY <1>6, <1>8, <4>1
            <4>2. CASE Grouped(m) # {}
                <5>1. items'[m] \in Seq(Grouped(m))
                    BY <1>7, <4>2
                <5>2. published'[m] = published[m] - 1 /\ Len(items'[m]) = Len(items[m]) - 1
                    BY <1>7, <4>2
                <5>3. Len(items[m]) \in Nat
                    BY <1>6
                <5> QED
                    BY <1>6, <5>1, <5>2, <5>3
            <4> QED
                BY <4>1, <4>2
        <3> QED
            BY <1>4, <1>8, <3>1 DEF LykosTypeOK
    <2>2. bits' \subseteq Ports \cup PrivatePorts
        BY <1>2 DEF LykosTypeOK
    <2> QED
        BY <1>2, <1>3, <1>8, <1>9, <2>1, <2>2, Same DEF LykosTypeOK
<1>12. TodoOK'
    <2>1. \A n \in Masters : \A x \in PrivatePorts : Does(n, "reach", x)' => ~Usable(x)'
        BY <1>2, <1>5 DEF TodoOK, Usable
    <2> QED
        BY <2>1, StatementTodo
<1>13. \A q \in Ports : Pending("complete", q)' <=> Pending("complete", q)
    BY <1>5 DEF Pending
<1>14. OpsOK'
    BY <1>2, <1>13, StatementOps
<1>15. RequestsOK'
    <2>1. \A q \in Ports : Open(q)' <=> Open(q)
        BY <1>2, <1>3 DEF Open
    <2>2. \A q \in Ports : Flagged(q)' => Flagged(q)
        BY <1>2, <1>3, <1>10, Same DEF Flagged
    <2>3. \A q \in Ports : Flagged(q)' \/ Pending("complete", q)' => Open(q)'
        BY <1>13, <2>1, <2>2 DEF RequestsOK
    <2>4. bits' \cap group' = {}
        BY <1>2, <1>3, Same DEF RequestsOK
    <2>5. ASSUME NEW q \in Ports, Does(m, "complete", q)
          PROVE  ~Flagged(q)'
        <3>1. q \in Public(m) /\ (q \in group => q = Head(items[m]))
            BY <1>1, <1>4, <2>5 DEF TodoOK, RequestsOK
        <3>2. \A n \in Automata : n # m => q \notin Range(items'[n])
            <4> SUFFICES ASSUME NEW n \in Automata, n # m
                         PROVE  q \notin Range(items'[n])
                OBVIOUS
            <4>1. items[n] \in Seq(Grouped(n))
                BY DEF LykosTypeOK
            <4>2. Range(items[n]) \subseteq Grouped(n)
                BY <4>1, RangeOfSeq
            <4>3. q \notin Grouped(n)
                BY <3>1, OwnerFacts DEF Public
            <4> QED
                BY <1>10, <4>2, <4>3
        <3>3. q \notin bits' /\ q \notin Range(items'[m])
            <4>1. CASE q \in Range(Alone(m))
                <5>1. q \notin Grouped(m)
                    BY <4>1, MasterFacts
                <5>2. Range(items[m]) \subseteq Grouped(m)
                    BY <1>6, RangeOfSeq
                <5> QED
                    BY <1>2, <1>10, <4>1, <5>1, <5>2
            <4>2. CASE q \notin Range(Alone(m))
                <5>1. q \in Grouped(m) /\ q \in group
                    BY <3>1, <4>2 DEF Public, group
                <5>2. q \notin bits'
                    BY <1>2, <5>1 DEF RequestsOK
                <5> QED
                    BY <1>7, <3>1, <5>1, <5>2
            <4> QED
                BY <4>1, <4>2
        <3> QED
            BY <1>3, <3>2, <3>3, Same DEF Flagged
    <2>6. ASSUME NEW n \in Automata, NEW q \in Ports, Does(n, "complete", q)'
          PROVE  IF Does(n, "take", n)' THEN q \in group => q = Head(items'[n]) ELSE ~Flagged(q)'
        <3>1. CASE n = m
            BY <1>4, <1>5, <2>5, <2>6, <3>1
        <3>2. CASE n # m
            BY <1>4, <1>5, <1>8, <2>2, <2>6, <3>2 DEF RequestsOK
        <3> QED
            BY <3>1, <3>2
    <2> QED
        BY <1>3, <2>3, <2>4, <2>6, Same DEF RequestsOK
<1>16. ItemsOK'
    <2>1. ASSUME NEW n \in Automata
          PROVE  /\ IsInjective(items'[n])
                 /\ Len(items'[n]) = published'[n] + Cardinality({q \in Grouped(n) : At(q, "publish")'})
                 /\ Does(n, "take", n)' /\ Grouped(n) # {} => published'[n] > 0
        <3> DEFINE offered == {q \in Grouped(n) : At(q, "publish")}
        <3>1. {q \in Grouped(n) : At(q, "publish")'} = offered
            BY <1>3 DEF At
        <3>2. /\ IsInjective(items[n]) /\ Len(items[n]) = published[n] + Cardinality(offered)
              /\ Does(n, "take", n) /\ Grouped(n) # {} => published[n] > 0
            BY DEF ItemsOK
        <3>3. Cardinality(offered) \in Nat /\ n \in Masters
            BY <1>4, ItemsCounted
        <3> HIDE DEF offered
        <3>4. CASE n # m \/ Grouped(n) = {}
            BY <1>5, <1>8, <3>1, <3>2, <3>3, <3>4
        <3>5. CASE n = m /\ Grouped(n) # {}
            <4>1. IsInjective(items'[n])
                BY <1>7, <3>5
            <4>2. Len(items'[n]) = published'[n] + Cardinality(offered)
                BY <1>6, <1>7, <3>2, <3>3, <3>5
            <4>3. ~Does(n, "take", n)'
                BY <1>5, <3>5
            <4> QED
                BY <3>1, <4>1, <4>2, <4>3
        <3> QED
            BY <3>4, <3>5
    <2> QED
        BY <1>3, <2>1, Same DEF ItemsOK, At, Does
<1>17. WorkOK'
    BY <1>2, <1>3, WorkFrame
<1>18. DataOK'
    <2>1. \A s \in Slaves : Holds(s)' => Holds(s)
        BY <1>2, <1>5 DEF Holds, Pending
    <2> QED
        BY <2>1, StatementData
<1> QED
    BY <1>3, <1>11, <1>12, <1>14, <1>15, <1>16, <1>17, <1>18, StatementLock

LEMMA StatementStep ==
    ASSUME LykosInv, NEW m \in Automata, Statement(m)
    PROVE  LykosInv'
<1>1. \/ Do(m) = "take" /\ Take(On(m))
      \/ Do(m) = "complete" /\ Complete(On(m))
      \/ Do(m) = "release" /\ Release(On(m))
      \/ Do(m) = "reach" /\ Reach(On(m))
      \/ Do(m) = "kick" /\ Kick(On(m))
    BY DEF Statement, Do, On
<1> QED
    BY <1>1, TakeStep, CompleteStep, ReleaseStep, ReachStep, KickStep
-----------------------------------------------------------------------------
(* The invariant                                                           *)

LEMMA LykosInit == Init => LykosInv
<1> SUFFICES ASSUME Init
             PROVE  LykosInv
    OBVIOUS
<1> USE DEF Init
<1>1. Automata \subseteq Masters
    BY MasterFacts
<1>2. \A m \in Masters : todo[m] = <<>>
    OBVIOUS
<1>3. \A m \in Masters : \A do : \A x : ~Does(m, do, x)
    BY <1>2, EmptySeq DEF Does
<1>4. \A do : \A x : ~Pending(do, x)
    BY <1>3 DEF Pending
<1>5. \A m \in Automata : Range(Private(m)) \subseteq PrivatePorts
    BY MasterFacts
<1>6. Ports \cap PrivatePorts = {} /\ None \notin Ports \cup Masters /\ MaxPermits \in Nat \ {0}
    BY LykosAssumption
<1>7. \A p \in Ports : op[p].at = "idle" /\ op[p].timed = FALSE
    BY DEF Idle
<1>8. WorkOK
    <2> SUFFICES ASSUME NEW m \in Automata
                 PROVE  work[m] \in Seq(Range(Private(m))) /\ IsInjective(work[m])
        BY DEF WorkOK
    <2>1. work[m] = Private(m)
        BY <1>1
    <2>2. Private(m) \in Seq(PrivatePorts) /\ IsInjective(Private(m))
        BY MasterFacts
    <2>3. Private(m) \in Seq(Range(Private(m)))
        BY <2>2, SeqOfRange
    <2> QED
        BY <2>1, <2>2, <2>3
<1>9. Fits
    BY <1>8, WorkFits
<1>10. \A m \in Masters : items[m] = <<>> /\ published[m] = 0 /\ Range(items[m]) = {}
    BY EmptySeq DEF Range
<1>11. \A m \in Automata : items[m] \in Seq(Grouped(m)) /\ Len(items[m]) = 0 /\ IsInjective(items[m])
    BY <1>1, <1>10, EmptySeq DEF IsInjective
<1>12. LykosTypeOK
    <2>1. Idle \in [at : Labels, timed : BOOLEAN, interrupts : Nat]
        BY DEF Idle, Labels
    <2>2. op \in [Ports -> [at : Labels, timed : BOOLEAN, interrupts : Nat]]
        BY <2>1
    <2>3. permits \in [Ports -> 0 .. MaxPermits]
        BY <1>6
    <2>4. todo \in [Masters -> Seq(Steps)]
        BY EmptySeq
    <2>5. bits \subseteq Ports \cup PrivatePorts
        BY <1>5
    <2>6. \A m \in Automata : items[m] \in Seq(Grouped(m)) /\ published[m] <= Len(items[m])
        BY <1>1, <1>10, <1>11
    <2> QED
        BY <1>9, <2>2, <2>3, <2>4, <2>5, <2>6 DEF LykosTypeOK, Fits
<1>13. TodoOK
    BY <1>2, <1>3, EmptySeq DEF TodoOK
<1>14. LockOK
    BY <1>6, <1>7 DEF LockOK, At
<1>15. OpsOK
    BY <1>7 DEF OpsOK, At
<1>16. RequestsOK
    <2>1. \A p \in Ports : ~Flagged(p)
        BY <1>1, <1>5, <1>6, <1>10 DEF Flagged
    <2>2. bits \cap group = {}
        BY <1>5, <1>6, OwnerFacts
    <2> QED
        BY <1>1, <1>3, <1>4, <2>1, <2>2 DEF RequestsOK
<1>17. ItemsOK
    <2>1. \A m \in Automata : {p \in Grouped(m) : At(p, "publish")} = {}
        BY <1>7, MasterFacts DEF At, Public
    <2>2. Cardinality({}) = 0
        BY FS_EmptySet
    <2>3. ASSUME NEW m \in Automata
          PROVE  /\ IsInjective(items[m])
                 /\ Len(items[m]) = published[m] + Cardinality({p \in Grouped(m) : At(p, "publish")})
                 /\ Does(m, "take", m) /\ Grouped(m) # {} => published[m] > 0
        <3>1. Cardinality({p \in Grouped(m) : At(p, "publish")}) = 0
            BY <2>1, <2>2
        <3>2. m \in Masters /\ published[m] = 0 /\ Len(items[m]) = 0 /\ ~Does(m, "take", m)
            BY <1>1, <1>3, <1>10, <1>11
        <3> QED
            BY <1>11, <3>1, <3>2
    <2> QED
        BY <2>3 DEF ItemsOK
<1>18. DataOK
    BY <1>4, <1>7 DEF DataOK, At, Holds, Ports
<1> QED
    BY <1>8, <1>12, <1>13, <1>14, <1>15, <1>16, <1>17, <1>18 DEF LykosInv

LEMMA Unchanged ==
    ASSUME LykosInv, UNCHANGED vars
    PROVE  LykosInv'
<1>1. UNCHANGED <<circuit, op, portVars, bits, queueVars, slaveVars, lock, todo, runVars>>
    BY DEF vars
<1> USE DEF LykosInv, portVars, queueVars, slaveVars, runVars
<1>2. UNCHANGED <<circuit, op, status, buffer, permits, bits, items, published, full, cell, lock, todo, work, thread>>
    BY <1>1
<1>3. LykosTypeOK'
    BY <1>2, Same DEF LykosTypeOK
<1>4. TodoOK'
    BY <1>2, TodoFrame DEF TodoOK
<1>5. LockOK'
    BY <1>2, LockFrame DEF At
<1>6. OpsOK'
    <2>1. \A q \in Ports : Pending("complete", q)' <=> Pending("complete", q)
        BY <1>2 DEF Pending, Does
    <2>2. \A q \in Ports : (\E n \in Automata' : q \in Public(n)') <=> \E n \in Automata : q \in Public(n)
        BY <1>2, Same
    <2> QED
        BY <1>2, <2>1, <2>2, Same DEF OpsOK, At
<1>7. RequestsOK'
    BY <1>2, RequestsFrame DEF Open
<1>8. ItemsOK'
    BY <1>2, ItemsFrame DEF At
<1>9. WorkOK'
    BY <1>2, WorkFrame
<1>10. DataOK'
    BY <1>2, DataFrame DEF At
<1> QED
    BY <1>2, <1>3, <1>4, <1>5, <1>6, <1>7, <1>8, <1>9, <1>10

LEMMA LykosStep == LykosInv /\ [Next]_vars => LykosInv'
<1> SUFFICES ASSUME LykosInv, [Next]_vars
             PROVE  LykosInv'
    OBVIOUS
<1>1. ASSUME NEW p \in Ports, Start(p) \/ Progress(p) \/ Interrupt(p) \/ Expire(p)
      PROVE  LykosInv'
    <2>1. CASE Start(p)
        BY <2>1, StartStep
    <2>2. CASE Flag(p)
        BY <2>2, FlagStep
    <2>3. CASE Offer(p)
        BY <2>3, OfferStep
    <2>4. CASE Publish(p)
        BY <2>4, PublishStep
    <2>5. CASE CallSync(p)
        BY <2>5, CallSyncMoves, CallSyncFires
    <2>6. CASE Fired(p)
        BY <2>6, FiredStep
    <2>7. CASE Check(p) \/ Wake(p) \/ Interrupt(p) \/ Resume(p) \/ Expire(p) \/ Throw(p)
        BY <2>7, ThreadMoves
    <2>8. CASE CancelSync(p)
        BY <2>8, CancelStep
    <2> QED
        BY <1>1, <2>1, <2>2, <2>3, <2>4, <2>5, <2>6, <2>7, <2>8 DEF Progress
<1>2. ASSUME NEW m \in Automata, Statement(m) \/ Run(m)
      PROVE  LykosInv'
    BY <1>2, StatementStep, DequeueStep, CallStep, NextStep DEF Run
<1>3. CASE UNCHANGED vars
    BY <1>3, Unchanged
<1> QED
    BY <1>1, <1>2, <1>3 DEF Next

\* LykosInv holds in every state of every protocol that Lykos may generate.
THEOREM LykosInvariance == Spec => []LykosInv
BY LykosInit, LykosStep, PTL DEF Spec

\* The variables keep their types: in particular no handler is queued twice, so
\* that the array of QueueableHandlersQueue, of one slot per private port, never
\* overflows, and no item of a SingleReaderQueue is counted before it is written.
THEOREM LykosTyped == Spec => []LykosTypeOK
<1>1. LykosInv => LykosTypeOK
    BY DEF LykosInv
<1> QED
    BY <1>1, LykosInvariance, PTL

\* Two masters that share a slave, and lock nothing that is shared, never both
\* are between their tests and their moves of it, and each moves it from the
\* state it has tested (fire in java-protocol.stg, where the semaphores of the
\* slaves are commented out).
THEOREM SlavesSafe == Spec => []SlaveStable
<1>1. LykosInv => SlaveStable
    <2> SUFFICES ASSUME LykosInv, NEW m \in Masters, NEW k \in DOMAIN todo[m], todo[m][k][1] = "reach",
                        NEW x, x = todo[m][k][2]
                 PROVE  /\ ~Usable(x)
                        /\ \A n \in Masters \ {m} : \A l \in DOMAIN todo[n] :
                              todo[n][l] # <<"reach", Opposite(x)>>
        BY DEF SlaveStable
    <2>1. todo[m] \in Seq(Steps)
        BY DEF LykosInv, LykosTypeOK
    <2>2. todo[m][k] \in Steps
        BY <2>1
    <2>3. todo[m][k] = <<"reach", x>> /\ x \in PrivatePorts
        BY <2>2 DEF Steps
    <2>4. Does(m, "reach", x)
        BY <2>3 DEF Does
    <2>5. ~Usable(x)
        BY <2>3, <2>4 DEF LykosInv, TodoOK
    <2>6. ASSUME NEW n \in Masters \ {m}, NEW l \in DOMAIN todo[n], todo[n][l] = <<"reach", Opposite(x)>>
          PROVE  FALSE
        <3>1. Does(n, "reach", Opposite(x)) /\ Opposite(x) \in PrivatePorts
            BY <2>3, <2>6, OppositeFacts DEF Does
        <3>2. ~Usable(Opposite(x))
            BY <3>1 DEF LykosInv, TodoOK
        <3> QED
            BY <2>3, <2>5, <3>2, OppositeFacts
    <2> QED
        BY <2>5, <2>6
<1> QED
    BY <1>1, LykosInvariance, PTL

\* offer writes into a free slot of the array, whose size is the number of ports
\* behind the queue, although it does not test that; and no item outlives the
\* operation of its port.
THEOREM QueueSafe == Spec => []SlotsSuffice
<1>1. LykosInv => SlotsSuffice
    <2> SUFFICES ASSUME LykosInv, NEW m \in Automata
                 PROVE  /\ IsInjective(items[m]) /\ Len(items[m]) <= Cardinality(Grouped(m))
                        /\ \A k \in DOMAIN items[m] : ~At(items[m][k], "idle")
        BY DEF SlotsSuffice
    <2>1. items[m] \in Seq(Grouped(m)) /\ IsInjective(items[m]) /\ Len(items[m]) \in Nat
        <3>1. items[m] \in Seq(Grouped(m))
            BY DEF LykosInv, LykosTypeOK
        <3>2. IsInjective(items[m])
            BY DEF LykosInv, ItemsOK
        <3> QED
            BY <3>1, <3>2
    <2>2. ASSUME NEW k \in DOMAIN items[m]
          PROVE  ~At(items[m][k], "idle")
        <3>1. items[m][k] \in Range(items[m]) /\ items[m][k] \in Grouped(m)
            BY <2>1 DEF Range
        <3>2. items[m][k] \in Ports
            BY <3>1, MasterFacts DEF LykosInv, Public
        <3>3. Open(items[m][k])
            BY <3>1, <3>2 DEF LykosInv, RequestsOK, Flagged
        <3> QED
            BY <3>3 DEF Open, At
    <2>3. Len(items[m]) <= Cardinality(Grouped(m))
        <3>1. IsFiniteSet(Grouped(m))
            BY ItemsCounted DEF LykosInv
        <3>2. items[m] \in Injection(1 .. Len(items[m]), Grouped(m))
            BY <2>1 DEF Injection, IsInjective
        <3>3. Cardinality(1 .. Len(items[m])) <= Cardinality(Grouped(m))
            BY <3>1, <3>2, FS_Injection
        <3> QED
            BY <2>1, <3>3, UpTo
    <2> QED
        BY <2>1, <2>2, <2>3
<1> QED
    BY <1>1, LykosInvariance, PTL
-----------------------------------------------------------------------------
(* A thread whose operation is completed is woken                          *)

\* The thread of a port goes to sleep only while its operation is not
\* completed, and touches no other port.
LEMMA SleepsUnserved ==
    ASSUME LykosInv, NEW p \in Ports, Start(p) \/ Progress(p) \/ Interrupt(p) \/ Expire(p)
    PROVE  /\ At(p, "wait")' => status'[p] # "completed"
           /\ \A q \in Ports : q # p =>
                 op'[q] = op[q] /\ status'[q] = status[q] /\ permits'[q] = permits[q]
<1>1. /\ op \in [Ports -> OpType] /\ op[p] \in OpType
      /\ status \in [Ports -> {None, "pending", "completed"}]
      /\ permits \in [Ports -> 0 .. MaxPermits]
    BY DEF LykosInv, LykosTypeOK, OpType
<1>2. CASE Start(p)
    <2>1. PICK t \in BOOLEAN : op' = [op EXCEPT ![p] = [at |-> "flag", timed |-> t,
                                                       interrupts |-> MaxInterrupts[p]]]
        BY <1>2 DEF Start
    <2>2. status' = [status EXCEPT ![p] = "pending"] /\ permits' = permits
        BY <1>2 DEF Start
    <2> QED
        BY <1>1, <2>1, <2>2 DEF At
<1>3. CASE Interrupt(p)
    <2> DEFINE l == IF op[p].timed THEN "check" ELSE "interrupted"
               new == [at |-> l, timed |-> op[p].timed, interrupts |-> op[p].interrupts - 1]
    <2>1. op' = [op EXCEPT ![p] = new]
        BY <1>1, <1>3 DEF Interrupt, OpType
    <2>2. new.at # "wait"
        OBVIOUS
    <2> HIDE DEF new
    <2>3. status' = status /\ permits' = permits
        BY <1>3 DEF Interrupt, portVars
    <2> QED
        BY <1>1, <2>1, <2>2, <2>3 DEF At
<1>4. CASE Progress(p) \/ Expire(p)
    <2>1. PICK l \in Labels : Goto(p, l) /\ (l = "wait" => status[p] # "completed" /\ status' = status)
        <3>1. CASE Flag(p) \/ Offer(p) \/ Publish(p) \/ Expire(p) \/ Wake(p) \/ Resume(p) \/ CancelSync(p) \/ Throw(p)
            BY <3>1 DEF Flag, Offer, Publish, Expire, Wake, Retry, Resume, CancelSync, Throw, Labels
        <3>2. CASE Check(p)
            BY <3>2 DEF Check, portVars, Labels
        <3>3. CASE Fired(p)
            BY <3>3 DEF Fired, AfterCall, Labels
        <3>4. CASE CallSync(p)
            BY <3>4 DEF CallSync, AfterCall, Labels
        <3> QED
            BY <1>4, <3>1, <3>2, <3>3, <3>4 DEF Progress
    <2>2. \A q \in Ports : q # p => op'[q] = op[q]
        BY <2>1, GotoFacts DEF LykosInv
    <2>3. At(p, "wait")' => l = "wait"
        BY <2>1, GotoFacts DEF LykosInv, At
    <2>4. status' = status \/ status' = [status EXCEPT ![p] = None]
        BY <1>4 DEF Progress, Flag, Offer, Publish, Expire, Wake, Resume, CancelSync, Throw,
                    Check, Fired, CallSync, portVars
    <2>5. permits' = permits \/ \E n : permits' = [permits EXCEPT ![p] = n]
        BY <1>4 DEF Progress, Flag, Offer, Publish, Expire, Wake, Resume, CancelSync, Throw,
                    Check, Fired, CallSync, portVars
    <2>6. \A q \in Ports : q # p => status'[q] = status[q] /\ permits'[q] = permits[q]
        BY <1>1, <2>4, <2>5
    <2> QED
        BY <2>1, <2>2, <2>3, <2>6
<1> QED
    BY <1>2, <1>3, <1>4

\* A transition begins when its master has nothing to do: no statement that was
\* still to come is forgotten, and each completion is followed by its release.
LEMMA TodoGrows ==
    ASSUME LykosInv, Followed, NEW m \in Automata, NEW holder,
           todo' = todo \/ (Fire(m, holder) /\ todo[m] = <<>>)
    PROVE  /\ Followed'
           /\ \A do, x : Pending(do, x) => Pending(do, x)'
<1>1. CASE todo' = todo
    BY <1>1 DEF Followed, Pending, Does
<1>2. CASE Fire(m, holder) /\ todo[m] = <<>>
    <2>1. /\ todo'[m] = Statements(m) /\ \A n \in Masters : n # m => todo'[n] = todo[n]
          /\ \A n \in Masters : n # m => \A do : \A x : Does(n, do, x)' <=> Does(n, do, x)
          /\ \A do : \A x : ~Does(m, do, x)
          /\ items[m] \in Seq(Grouped(m)) /\ (Grouped(m) # {} => items[m] # <<>>)
        BY <1>2, FireFacts
    <2>2. \A q : FollowedBy(Statements(m), <<"complete", q>>, <<"release", q>>)
        BY <2>1, StatementsFacts DEF LykosInv
    <2>3. Followed'
        <3> SUFFICES ASSUME NEW n \in Masters, NEW q \in Ports
                     PROVE  FollowedBy(todo'[n], <<"complete", q>>, <<"release", q>>)
            BY DEF Followed, FollowedBy
        <3>1. CASE n = m
            BY <2>1, <2>2, <3>1
        <3>2. CASE n # m
            BY <2>1, <3>2 DEF Followed
        <3> QED
            BY <3>1, <3>2
    <2>4. ASSUME NEW do, NEW x, Pending(do, x)
          PROVE  Pending(do, x)'
        <3>1. PICK n \in Masters : Does(n, do, x)
            BY <2>4 DEF Pending
        <3>2. n # m
            BY <2>1, <3>1
        <3> QED
            BY <2>1, <3>1, <3>2 DEF Pending
    <2> QED
        BY <2>3, <2>4
<1> QED
    BY <1>1, <1>2

\* What the threads of ports and masters do between the statements.
LEMMA ThreadsKeep ==
    ASSUME LykosInv, Followed,
           \/ \E p \in Ports : Start(p) \/ Progress(p) \/ Interrupt(p) \/ Expire(p)
           \/ \E m \in Automata : Run(m)
    PROVE  /\ Followed'
           /\ \A do, x : Pending(do, x) => Pending(do, x)'
<1>1. ASSUME NEW p \in Ports, CallSync(p)
      PROVE  \E m \in Automata : todo' = todo \/ (Fire(m, p) /\ todo[m] = <<>>)
    <2>1. Master(p) \in Automata /\ Master(p) \in Masters /\ lock[Master(p)] = None
        BY <1>1, UserFacts DEF CallSync, At
    <2>2. todo[Master(p)] = <<>>
        BY <2>1 DEF LykosInv, TodoOK
    <2>3. todo' = todo \/ Fire(Master(p), p)
        BY <1>1 DEF CallSync
    <2> QED
        BY <2>1, <2>2, <2>3
<1>2. ASSUME NEW m \in Automata, Call(m)
      PROVE  todo' = todo \/ (Fire(m, m) /\ todo[m] = <<>>)
    <2>1. m \in Masters /\ thread[m] = "call" /\ lock[m] \in {None, m}
        BY <1>2, MasterFacts DEF Call, LykosInv
    <2>2. todo[m] = <<>>
        BY <2>1 DEF LykosInv, TodoOK, LockOK
    <2> QED
        BY <1>2, <2>2 DEF Call
<1>3. CASE todo' = todo
    BY <1>3 DEF Followed, Pending, Does
<1>4. ASSUME NEW p \in Ports, Start(p) \/ Progress(p) \/ Interrupt(p) \/ Expire(p)
      PROVE  todo' = todo \/ CallSync(p)
    BY <1>4 DEF Start, Progress, Interrupt, Flag, Offer, Publish, Expire, Wake, Resume,
                CancelSync, Throw, Check, Fired
<1>5. ASSUME NEW m \in Automata, Run(m)
      PROVE  todo' = todo \/ Call(m)
    BY <1>5 DEF Run, Dequeue, NextHandler
<1> QED
    BY <1>1, <1>2, <1>3, <1>4, <1>5, TodoGrows

\* A statement: who is completed now is released next, and who is released has
\* a permit.
LEMMA StatementWakes ==
    ASSUME LykosInv, WakesInv, NEW m \in Automata, Statement(m)
    PROVE  WakesInv'
<1> USE DEF LykosInv, WakesInv
<1>1. /\ m \in Masters /\ todo \in [Masters -> Seq(Steps)] /\ todo[m] \in Seq(Steps)
      /\ todo[m] # <<>> /\ todo' = [todo EXCEPT ![m] = Tail(@)]
      /\ permits \in [Ports -> 0 .. MaxPermits] /\ status \in [Ports -> {None, "pending", "completed"}]
    BY MasterFacts DEF LykosTypeOK, Statement
<1>2. /\ \A e, f : FollowedBy(todo[m], e, f) =>
            FollowedBy(Tail(todo[m]), e, f) /\ (Head(todo[m]) = e => f \in Range(Tail(todo[m])))
      /\ Head(todo[m]) = todo[m][1] /\ Head(todo[m]) \in Steps
    BY <1>1, TailFacts
<1>3. Head(todo[m]) = <<Do(m), On(m)>>
    BY <1>2 DEF Do, On, Steps
<1>4. todo'[m] = Tail(todo[m]) /\ \A n \in Masters : n # m => todo'[n] = todo[n]
    BY <1>1
<1>5. Followed'
    <2> SUFFICES ASSUME NEW n \in Masters, NEW q \in Ports
                 PROVE  FollowedBy(todo'[n], <<"complete", q>>, <<"release", q>>)
        BY DEF Followed, FollowedBy
    <2>1. FollowedBy(todo[n], <<"complete", q>>, <<"release", q>>)
        BY DEF Followed
    <2>2. CASE n = m
        BY <1>2, <1>4, <2>1, <2>2
    <2>3. CASE n # m
        BY <1>4, <2>1, <2>3
    <2> QED
        BY <2>2, <2>3
<1>6. ASSUME NEW p \in Ports, At(p, "wait")', status'[p] = "completed"
      PROVE  permits'[p] > 0 \/ Pending("release", p)'
    <2>1. At(p, "wait")
        BY <1>6, StatementFacts DEF At
    <2>2. CASE Do(m) = "complete" /\ On(m) = p
        <3>1. FollowedBy(todo[m], <<"complete", p>>, <<"release", p>>)
            BY <1>1 DEF Followed
        <3>2. <<"release", p>> \in Range(todo'[m])
            BY <1>2, <1>3, <1>4, <2>2, <3>1
        <3> QED
            BY <1>1, <3>2 DEF Pending, Does, Range
    <2>3. CASE ~(Do(m) = "complete" /\ On(m) = p)
        <3>1. status'[p] = "completed" => status[p] = "completed"
            BY <1>1, <2>3 DEF Statement, Do, On, Take, Complete, Release, Reach, Kick
        <3>2. permits[p] > 0 \/ Pending("release", p)
            BY <1>6, <2>1, <3>1 DEF ServedWakes
        <3>3. CASE permits[p] > 0
            <4>1. \/ permits' = permits
                  \/ \E q \in Ports : Release(q)
                BY <1>1, <1>2 DEF Statement, Steps, Take, Complete, Release, Reach, Kick
            <4>2. ASSUME NEW q \in Ports, Release(q)
                  PROVE  permits'[p] > 0
                <5>1. permits' = [permits EXCEPT ![q] = IF @ < MaxPermits THEN @ + 1 ELSE @]
                    BY <4>2 DEF Release
                <5>2. permits[p] \in Nat /\ permits[p] > 0
                    BY <1>1, <3>3, LykosAssumption
                <5>3. CASE q = p
                    BY <1>1, <5>1, <5>2, <5>3
                <5>4. CASE q # p
                    BY <1>1, <5>1, <5>2, <5>4
                <5> QED
                    BY <5>3, <5>4
            <4> QED
                BY <3>3, <4>1, <4>2
        <3>4. CASE Pending("release", p)
            <4>1. PICK n \in Masters : Does(n, "release", p)
                BY <3>4 DEF Pending
            <4>2. CASE n = m /\ Do(m) = "release" /\ On(m) = p
                <5>1. Release(p)
                    BY <4>2 DEF Statement, Do, On
                <5>2. permits[p] \in Nat /\ MaxPermits \in Nat \ {0}
                    BY <1>1, LykosAssumption
                <5>3. permits'[p] > 0
                    BY <1>1, <5>1, <5>2 DEF Release
                <5> QED
                    BY <5>3
            <4>3. CASE ~(n = m /\ Do(m) = "release" /\ On(m) = p)
                <5>1. Does(n, "release", p)'
                    BY <4>1, <4>3, StatementFacts
                <5> QED
                    BY <5>1 DEF Pending
            <4> QED
                BY <4>2, <4>3
        <3> QED
            BY <3>2, <3>3, <3>4
    <2> QED
        BY <2>2, <2>3
<1>7. ServedWakes'
    BY <1>6 DEF ServedWakes
<1> QED
    BY <1>5, <1>7

LEMMA WakesStep == LykosInv /\ WakesInv /\ [Next]_vars => WakesInv'
<1> SUFFICES ASSUME LykosInv, WakesInv, [Next]_vars
             PROVE  WakesInv'
    OBVIOUS
<1>1. ASSUME NEW p \in Ports, Start(p) \/ Progress(p) \/ Interrupt(p) \/ Expire(p)
      PROVE  WakesInv'
    <2>1. Followed' /\ \A do, x : Pending(do, x) => Pending(do, x)'
        BY <1>1, ThreadsKeep DEF WakesInv
    <2>2. /\ At(p, "wait")' => status'[p] # "completed"
          /\ \A q \in Ports : q # p =>
                op'[q] = op[q] /\ status'[q] = status[q] /\ permits'[q] = permits[q]
        BY <1>1, SleepsUnserved
    <2>3. ServedWakes'
        BY <2>1, <2>2 DEF WakesInv, ServedWakes, At
    <2> QED
        BY <2>1, <2>3 DEF WakesInv
<1>2. ASSUME NEW m \in Automata, Run(m)
      PROVE  WakesInv'
    <2>1. Followed' /\ \A do, x : Pending(do, x) => Pending(do, x)'
        BY <1>2, ThreadsKeep DEF WakesInv
    <2>2. UNCHANGED <<op, status, permits>>
        BY <1>2 DEF Run, Dequeue, Call, NextHandler, portVars
    <2> QED
        BY <2>1, <2>2 DEF WakesInv, ServedWakes, At
<1>3. ASSUME NEW m \in Automata, Statement(m)
      PROVE  WakesInv'
    BY <1>3, StatementWakes
<1>4. CASE UNCHANGED vars
    BY <1>4 DEF vars, portVars, WakesInv, Followed, ServedWakes, At, Pending, Does
<1> QED
    BY <1>1, <1>2, <1>3, <1>4 DEF Next

LEMMA WakesInit == Init => WakesInv
<1> SUFFICES ASSUME Init
             PROVE  WakesInv
    OBVIOUS
<1>1. \A m \in Masters : todo[m] = <<>>
    BY DEF Init
<1>2. Followed
    BY <1>1 DEF Followed, FollowedBy
<1>3. ServedWakes
    BY DEF Init, ServedWakes, At, Idle
<1> QED
    BY <1>2, <1>3 DEF WakesInv

\* A put or get that has been completed while its thread was about to sleep is
\* woken: the call that drains the permits of the port (drainPermits at the end
\* of call in java-protocol.stg) never drains the one of the completion, whatever
\* transitions other threads fire meanwhile.
THEOREM ServedAwake == Spec => []ServedWakes
<1>1. WakesInv => ServedWakes
    BY DEF WakesInv
<1> QED
    BY <1>1, WakesInit, WakesStep, LykosInvariance, PTL DEF Spec
=============================================================================
