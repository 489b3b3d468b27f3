------------------------- MODULE NetworkLinksProofs -------------------------
(***************************************************************************)
(* What NetworkMgr promises of the links: a lost station is retried, the   *)
(* Ethernet has no address without a link, an address counted twice is a   *)
(* renewal, and a lone network is reported as it is. The argument is one   *)
(* invariant, LinkInv, over the events that wait on the default loop.      *)
(***************************************************************************)
EXTENDS NetworkMgrProofs, FiniteSetTheorems

-----------------------------------------------------------------------------
\* What waiting events still mean, as the queue grows and is worked off.

Gains == {"gotIp", "linkUp"}

LEMMA GainIsNoLoss ==
    ASSUME NEW n \in Nets, NEW g \in Gains
    PROVE  Event(n, g) \in EventType /\ Event(n, g) \notin Losses(n)
BY DEF Gains, Event, EventType, Losses

LEMMA HasNow ==
    ASSUME NEW n, NEW g, NEW now \in BOOLEAN, NEW q
    PROVE  HasAfter(n, g, now, q, 0) <=> now
BY DEF HasAfter

\* An event that is posted changes nothing for those before it, and comes last.
LEMMA HasPosted ==
    ASSUME NEW n \in Nets, NEW g \in Gains, NEW now \in BOOLEAN,
           NEW q \in Seq(EventType), NEW e \in EventType
    PROVE  /\ \A k \in 0 .. Len(q) :
                 HasAfter(n, g, now, Append(q, e), k) <=> HasAfter(n, g, now, q, k)
           /\ HasAfter(n, g, now, Append(q, e), Len(q) + 1) <=>
                 \/ e = Event(n, g)
                 \/ HasAfter(n, g, now, q, Len(q)) /\ e \notin Losses(n)
<1> DEFINE r == Append(q, e)
<1>1. /\ Len(q) \in Nat /\ r[Len(q) + 1] = e
      /\ \A i \in 1 .. Len(q) : r[i] = q[i]
  OBVIOUS
<1> HIDE DEF r
<1>2. ASSUME NEW k \in 0 .. Len(q)
      PROVE  HasAfter(n, g, now, r, k) <=> HasAfter(n, g, now, q, k)
  <2>1. \A i \in 1 .. k : r[i] = q[i]
    BY <1>1
  <2>2. \A i \in 1 .. k : \A j \in (i + 1) .. k : r[j] = q[j]
    BY <2>1
  <2> QED BY <2>1, <2>2 DEF HasAfter
<1>3. HasAfter(n, g, now, r, Len(q) + 1) <=>
         \/ e = Event(n, g)
         \/ HasAfter(n, g, now, q, Len(q)) /\ e \notin Losses(n)
  <2> DEFINE m == Len(q) + 1
  <2>0. m \in Nat /\ 1 .. m = (1 .. Len(q)) \cup {m} /\ r[m] = e
    BY <1>1
  <2>1. ASSUME HasAfter(n, g, now, r, m), e # Event(n, g)
        PROVE  HasAfter(n, g, now, q, Len(q)) /\ e \notin Losses(n)
    <3>1. CASE now /\ \A j \in 1 .. m : r[j] \notin Losses(n)
      BY <1>1, <2>0, <3>1 DEF HasAfter
    <3>2. CASE \E i \in 1 .. m : r[i] = Event(n, g) /\ \A j \in (i + 1) .. m : r[j] \notin Losses(n)
      <4>1. PICK i \in 1 .. m : r[i] = Event(n, g) /\ \A j \in (i + 1) .. m : r[j] \notin Losses(n)
        BY <3>2
      <4>2. i \in 1 .. Len(q) /\ m \in (i + 1) .. m
        BY <1>1, <2>0, <2>1, <4>1
      <4>3. q[i] = Event(n, g) /\ \A j \in (i + 1) .. Len(q) : q[j] \notin Losses(n)
        BY <1>1, <4>1, <4>2
      <4> QED BY <2>0, <4>1, <4>2, <4>3 DEF HasAfter
    <3> QED BY <2>1, <3>1, <3>2 DEF HasAfter
  <2>2. ASSUME e = Event(n, g) PROVE HasAfter(n, g, now, r, m)
    <3>1. m \in 1 .. m /\ \A j \in (m + 1) .. m : FALSE
      BY <2>0, <1>1
    <3> QED BY <2>0, <2>2, <3>1 DEF HasAfter
  <2>3. ASSUME HasAfter(n, g, now, q, Len(q)), e \notin Losses(n)
        PROVE  HasAfter(n, g, now, r, m)
    <3>1. CASE now /\ \A j \in 1 .. Len(q) : q[j] \notin Losses(n)
      BY <1>1, <2>0, <2>3, <3>1 DEF HasAfter
    <3>2. CASE \E i \in 1 .. Len(q) : /\ q[i] = Event(n, g)
                                      /\ \A j \in (i + 1) .. Len(q) : q[j] \notin Losses(n)
      <4>1. PICK i \in 1 .. Len(q) : /\ q[i] = Event(n, g)
                                     /\ \A j \in (i + 1) .. Len(q) : q[j] \notin Losses(n)
        BY <3>2
      <4>2. i \in 1 .. m /\ r[i] = Event(n, g)
        BY <1>1, <2>0, <4>1
      <4>3. \A j \in (i + 1) .. m : r[j] \notin Losses(n)
        BY <1>1, <2>0, <2>3, <4>1
      <4> QED BY <4>2, <4>3 DEF HasAfter
    <3> QED BY <2>3, <3>1, <3>2 DEF HasAfter
  <2> QED BY <2>1, <2>2, <2>3
<1> QED BY <1>2, <1>3 DEF r

\* What n has when the first event is handled, and what follows from there.
HasNext(n, g, now, e) == e = Event(n, g) \/ (now /\ e \notin Losses(n))

LEMMA HasHandled ==
    ASSUME NEW n \in Nets, NEW g \in Gains, NEW now \in BOOLEAN, NEW then \in BOOLEAN,
           NEW q \in Seq(EventType), q # <<>>, then <=> HasNext(n, g, now, q[1]),
           NEW k \in 0 .. (Len(q) - 1)
    PROVE  HasAfter(n, g, then, Tail(q), k) <=> HasAfter(n, g, now, q, k + 1)
<1> DEFINE t == Tail(q)
<1>1. /\ Len(q) \in Nat /\ Len(q) > 0 /\ Len(t) = Len(q) - 1
      /\ \A i \in 1 .. Len(t) : t[i] = q[i + 1]
  OBVIOUS
<1>2. then <=> q[1] = Event(n, g) \/ (now /\ q[1] \notin Losses(n))
  BY DEF HasNext
<1> HIDE DEF t
<1>3. ASSUME HasAfter(n, g, then, t, k) PROVE HasAfter(n, g, now, q, k + 1)
  <2>1. ASSUME NEW i \in 1 .. k, t[i] = Event(n, g),
               \A j \in (i + 1) .. k : t[j] \notin Losses(n)
        PROVE  HasAfter(n, g, now, q, k + 1)
    <3>1. i + 1 \in 1 .. (k + 1) /\ q[i + 1] = Event(n, g)
      BY <1>1, <2>1
    <3>2. ASSUME NEW j \in (i + 2) .. (k + 1) PROVE q[j] \notin Losses(n)
      <4>1. j - 1 \in (i + 1) .. k /\ t[j - 1] = q[(j - 1) + 1] /\ (j - 1) + 1 = j
        BY <1>1, <3>2
      <4> QED BY <2>1, <4>1
    <3>3. \A j \in ((i + 1) + 1) .. (k + 1) : q[j] \notin Losses(n)
      BY <3>2
    <3> QED BY <3>1, <3>3 DEF HasAfter
  <2>2. ASSUME then, \A j \in 1 .. k : t[j] \notin Losses(n)
        PROVE  HasAfter(n, g, now, q, k + 1)
    <3>1. ASSUME NEW j \in 2 .. (k + 1) PROVE q[j] \notin Losses(n)
      <4>1. j - 1 \in 1 .. k /\ t[j - 1] = q[(j - 1) + 1] /\ (j - 1) + 1 = j
        BY <1>1, <3>1
      <4> QED BY <2>2, <4>1
    <3>2. 1 \in 1 .. (k + 1) /\ \A j \in 1 .. (k + 1) : j = 1 \/ j \in 2 .. (k + 1)
      OBVIOUS
    <3>3. CASE q[1] = Event(n, g)
      <4>1. \A j \in (1 + 1) .. (k + 1) : q[j] \notin Losses(n)
        BY <3>1
      <4> QED BY <3>2, <3>3, <4>1 DEF HasAfter
    <3>4. CASE now /\ q[1] \notin Losses(n)
      BY <3>1, <3>2, <3>4 DEF HasAfter
    <3> QED BY <1>2, <2>2, <3>3, <3>4
  <2> QED BY <1>3, <2>1, <2>2 DEF HasAfter
<1>4. ASSUME HasAfter(n, g, now, q, k + 1) PROVE HasAfter(n, g, then, t, k)
  <2>0. \A j \in 1 .. k : t[j] = q[j + 1] /\ j + 1 \in 1 .. (k + 1)
    BY <1>1
  <2>1. ASSUME NEW i \in 1 .. (k + 1), q[i] = Event(n, g),
               \A j \in (i + 1) .. (k + 1) : q[j] \notin Losses(n)
        PROVE  HasAfter(n, g, then, t, k)
    <3>1. CASE i = 1
      <4>1. \A j \in 1 .. k : t[j] \notin Losses(n)
        BY <2>0, <2>1, <3>1
      <4> QED BY <1>2, <2>1, <3>1, <4>1 DEF HasAfter
    <3>2. CASE i # 1
      <4>1. i - 1 \in 1 .. k /\ t[i - 1] = Event(n, g)
        BY <2>0, <2>1, <3>2
      <4>2. \A j \in ((i - 1) + 1) .. k : t[j] \notin Losses(n)
        BY <2>0, <2>1, <3>2
      <4> QED BY <4>1, <4>2 DEF HasAfter
    <3> QED BY <3>1, <3>2
  <2>2. ASSUME now, \A j \in 1 .. (k + 1) : q[j] \notin Losses(n)
        PROVE  HasAfter(n, g, then, t, k)
    <3>1. q[1] \notin Losses(n) /\ \A j \in 1 .. k : t[j] \notin Losses(n)
      BY <2>0, <2>2
    <3> QED BY <1>2, <2>2, <3>1 DEF HasAfter
  <2> QED BY <1>4, <2>1, <2>2 DEF HasAfter
<1> QED BY <1>3, <1>4 DEF t

-----------------------------------------------------------------------------
\* The addresses that find their network connected, counted in any queue.

SurplusIn(n, now, q) ==
    {i \in DOMAIN q : q[i] = Event(n, "gotIp") /\ HasAfter(n, "gotIp", now, q, i - 1)}

LEMMA SurplusFinite ==
    ASSUME NEW n, NEW now, NEW q \in Seq(EventType)
    PROVE  /\ IsFiniteSet(SurplusIn(n, now, q)) /\ Cardinality(SurplusIn(n, now, q)) \in Nat
           /\ SurplusIn(n, now, q) \subseteq 1 .. Len(q)
<1>1. DOMAIN q = 1 .. Len(q) /\ Len(q) \in Nat
  OBVIOUS
<1>2. IsFiniteSet(1 .. Len(q))
  BY <1>1, FS_Interval
<1>3. SurplusIn(n, now, q) \subseteq 1 .. Len(q)
  BY <1>1 DEF SurplusIn
<1> QED BY <1>2, <1>3, FS_Subset, FS_CardinalityType

\* A post adds to them if it is an address of n and n will be connected by then.
LEMMA SurplusPosted ==
    ASSUME NEW n \in Nets, NEW now \in BOOLEAN, NEW q \in Seq(EventType), NEW e \in EventType
    PROVE  Cardinality(SurplusIn(n, now, Append(q, e))) =
              Cardinality(SurplusIn(n, now, q)) +
              (IF e = Event(n, "gotIp") /\ HasAfter(n, "gotIp", now, q, Len(q)) THEN 1 ELSE 0)
<1> DEFINE r == Append(q, e)
           new == Len(q) + 1
           C == e = Event(n, "gotIp") /\ HasAfter(n, "gotIp", now, q, Len(q))
<1>1. /\ Len(q) \in Nat /\ DOMAIN q = 1 .. Len(q) /\ DOMAIN r = 1 .. new /\ r[new] = e
      /\ \A i \in 1 .. Len(q) : r[i] = q[i]
  OBVIOUS
<1>2. \A k \in 0 .. Len(q) :
         HasAfter(n, "gotIp", now, r, k) <=> HasAfter(n, "gotIp", now, q, k)
  BY HasPosted DEF Gains
<1> HIDE DEF r
<1>3. ASSUME NEW i \in 1 .. Len(q)
      PROVE  i \in SurplusIn(n, now, r) <=> i \in SurplusIn(n, now, q)
  <2>1. i - 1 \in 0 .. Len(q) /\ i \in DOMAIN r /\ i \in DOMAIN q /\ r[i] = q[i]
    BY <1>1
  <2> QED BY <1>2, <2>1 DEF SurplusIn
<1>4. new \in SurplusIn(n, now, r) <=> C
  <2>1. new - 1 = Len(q) /\ Len(q) \in 0 .. Len(q) /\ new \in DOMAIN r
    BY <1>1
  <2> QED BY <1>1, <1>2, <2>1 DEF SurplusIn
<1>5. /\ SurplusIn(n, now, r) \subseteq (1 .. Len(q)) \cup {new}
      /\ SurplusIn(n, now, q) \subseteq 1 .. Len(q)
  BY <1>1 DEF SurplusIn
<1>6. new \notin 1 .. Len(q)
  BY <1>1
<1>7. CASE C
  <2>1. SurplusIn(n, now, r) = SurplusIn(n, now, q) \cup {new}
    BY <1>3, <1>4, <1>5, <1>7
  <2>2. new \notin SurplusIn(n, now, q)
    BY <1>5, <1>6
  <2>3. Cardinality(SurplusIn(n, now, r)) = Cardinality(SurplusIn(n, now, q)) + 1
    BY <2>1, <2>2, SurplusFinite, FS_AddElement
  <2> QED BY <1>7, <2>3 DEF r
<1>8. CASE ~C
  <2>1. SurplusIn(n, now, r) = SurplusIn(n, now, q)
    BY <1>3, <1>4, <1>5, <1>6, <1>8
  <2>2. Cardinality(SurplusIn(n, now, q)) \in Nat
    BY SurplusFinite
  <2>3. Cardinality(SurplusIn(n, now, r)) = Cardinality(SurplusIn(n, now, q)) + 0
    BY <2>1, <2>2
  <2> QED BY <1>8, <2>3 DEF r
<1> QED BY <1>7, <1>8

\* Handling the first event removes it from them, if it is one, and moves the rest.
LEMMA SurplusHandled ==
    ASSUME NEW n \in Nets, NEW now \in BOOLEAN, NEW then \in BOOLEAN,
           NEW q \in Seq(EventType), q # <<>>, then <=> HasNext(n, "gotIp", now, q[1])
    PROVE  Cardinality(SurplusIn(n, now, q)) =
              Cardinality(SurplusIn(n, then, Tail(q))) +
              (IF q[1] = Event(n, "gotIp") /\ now THEN 1 ELSE 0)
<1> DEFINE t == Tail(q)
           S == SurplusIn(n, now, q)
           T == SurplusIn(n, then, t)
           C == q[1] = Event(n, "gotIp") /\ now
<1>1. /\ Len(q) \in Nat /\ Len(q) > 0 /\ Len(t) = Len(q) - 1 /\ t \in Seq(EventType)
      /\ DOMAIN q = 1 .. Len(q) /\ DOMAIN t = 1 .. Len(t)
      /\ \A i \in 1 .. Len(t) : t[i] = q[i + 1]
  OBVIOUS
<1>2. \A k \in 0 .. (Len(q) - 1) :
         HasAfter(n, "gotIp", then, t, k) <=> HasAfter(n, "gotIp", now, q, k + 1)
  BY HasHandled DEF Gains
<1>3. 1 \in S <=> C
  <2>1. 1 \in DOMAIN q /\ 1 - 1 = 0
    BY <1>1
  <2> QED BY <2>1, HasNow DEF SurplusIn
<1> HIDE DEF t
<1>4. ASSUME NEW i \in 1 .. Len(t) PROVE i \in T <=> i + 1 \in S
  <2>1. /\ i \in DOMAIN t /\ i + 1 \in DOMAIN q /\ t[i] = q[i + 1]
        /\ i - 1 \in 0 .. (Len(q) - 1) /\ (i - 1) + 1 = (i + 1) - 1
    BY <1>1
  <2> QED BY <1>2, <2>1 DEF SurplusIn
<1>5. IsFiniteSet(S) /\ IsFiniteSet(T) /\ S \subseteq 1 .. Len(q) /\ T \subseteq 1 .. Len(t)
  BY <1>1, SurplusFinite
<1> HIDE DEF S, T
<1>6. Cardinality(S \ {1}) = Cardinality(T)
  <2> DEFINE f == [i \in T |-> i + 1]
  <2>1. f \in Bijection(T, S \ {1})
    <3>1. \A i \in T : i \in 1 .. Len(t) /\ f[i] = i + 1 /\ i + 1 \in S /\ i + 1 # 1
      BY <1>4, <1>5
    <3>2. f \in Injection(T, S \ {1})
      <4>1. f \in [T -> S \ {1}]
        BY <3>1
      <4>2. \A a, b \in T : f[a] = f[b] => a = b
        BY <3>1
      <4> QED BY <4>1, <4>2 DEF Injection, IsInjective
    <3>3. ASSUME NEW s \in S \ {1} PROVE \E i \in T : f[i] = s
      <4>1. s - 1 \in 1 .. Len(t) /\ (s - 1) + 1 = s
        BY <1>1, <1>5
      <4>2. s - 1 \in T
        BY <1>4, <4>1
      <4> QED BY <4>1, <4>2
    <3>4. f \in Surjection(T, S \ {1})
      BY <3>1, <3>3 DEF Surjection
    <3> QED BY <3>2, <3>4 DEF Bijection
  <2>2. ExistsBijection(T, S \ {1})
    BY <2>1 DEF ExistsBijection
  <2> QED BY <1>5, <2>2, FS_Bijection
<1>7. Cardinality(S) = Cardinality(T) + (IF C THEN 1 ELSE 0)
  <2>1. Cardinality(S \ {1}) = IF 1 \in S THEN Cardinality(S) - 1 ELSE Cardinality(S)
    BY <1>5, FS_RemoveElement
  <2>2. Cardinality(S) \in Nat /\ Cardinality(T) \in Nat
    BY <1>5, FS_CardinalityType
  <2>3. CASE C
    BY <1>3, <1>6, <2>1, <2>2, <2>3
  <2>4. CASE ~C
    BY <1>3, <1>6, <2>1, <2>2, <2>4
  <2> QED BY <2>3, <2>4
<1> QED BY <1>7 DEF S, T, t

-----------------------------------------------------------------------------
\* The same for the state: a step that leaves the queue and the connections alone, ...

Holds(n) == Connections(n) = 1
Later(n) == ConnectedAfter(n, Len(drv))
Extra(n) == Cardinality(Surplus(n))

\* Every address of the Ethernet in the queue has its link by then.
LinkFirst == \A i \in DOMAIN drv : drv[i] = Event("eth", "gotIp") => LinkUpAfter(i - 1)

LinkFirstIn(now, q) ==
    \A i \in DOMAIN q :
        q[i] = Event("eth", "gotIp") => HasAfter("eth", "linkUp", now, q, i - 1)

LEMMA ConnectionsType ==
    ASSUME NEW n PROVE Connections(n) \in {0, 1} /\ (Holds(n) <=> Connections(n) # 0)
BY DEF Connections, Holds

LEMMA SameQueue ==
    ASSUME NEW n, drv' = drv, Holds(n)' <=> Holds(n)
    PROVE  (Later(n)' <=> Later(n)) /\ Extra(n)' = Extra(n)
<1>1. \A k : ConnectedAfter(n, k)' <=> ConnectedAfter(n, k)
  BY DEF ConnectedAfter, HasAfter, Holds
<1>2. Surplus(n)' = Surplus(n)
  BY <1>1 DEF Surplus
<1>3. Len(drv') = Len(drv)
  OBVIOUS
<1> QED BY <1>1, <1>2, <1>3 DEF Later, Extra

\* ... one that posts an event, ...
LEMMA PostedOne ==
    ASSUME drv \in Seq(EventType), NEW n \in Nets, NEW e \in EventType,
           drv' = Append(drv, e), Connections(n)' = Connections(n)
    PROVE  /\ Later(n)' <=> e = Event(n, "gotIp") \/ (Later(n) /\ e \notin Losses(n))
           /\ Extra(n)' = Extra(n) + IF e = Event(n, "gotIp") /\ Later(n) THEN 1 ELSE 0
<1> DEFINE now == Connections(n) = 1
<1>1. Len(drv') = Len(drv) + 1 /\ now \in BOOLEAN
  OBVIOUS
<1>2. /\ Later(n) <=> HasAfter(n, "gotIp", now, drv, Len(drv))
      /\ Later(n)' <=> HasAfter(n, "gotIp", now, Append(drv, e), Len(drv) + 1)
      /\ Extra(n) = Cardinality(SurplusIn(n, now, drv))
      /\ Extra(n)' = Cardinality(SurplusIn(n, now, Append(drv, e)))
  BY <1>1 DEF Later, Extra, ConnectedAfter, Surplus, SurplusIn
<1> HIDE DEF now
<1>3. HasAfter(n, "gotIp", now, Append(drv, e), Len(drv) + 1) <=>
         \/ e = Event(n, "gotIp")
         \/ HasAfter(n, "gotIp", now, drv, Len(drv)) /\ e \notin Losses(n)
  BY <1>1, HasPosted DEF Gains
<1>4. Cardinality(SurplusIn(n, now, Append(drv, e))) =
         Cardinality(SurplusIn(n, now, drv)) +
         (IF e = Event(n, "gotIp") /\ HasAfter(n, "gotIp", now, drv, Len(drv)) THEN 1 ELSE 0)
  BY <1>1, SurplusPosted
<1> QED BY <1>2, <1>3, <1>4

LEMMA LinkPosted ==
    ASSUME NEW q \in Seq(EventType), NEW e \in EventType, NEW now \in BOOLEAN
    PROVE  /\ HasAfter("eth", "linkUp", now, Append(q, e), Len(q) + 1) <=>
                 \/ e = Event("eth", "linkUp")
                 \/ HasAfter("eth", "linkUp", now, q, Len(q)) /\ e \notin Losses("eth")
           /\ LinkFirstIn(now, q)
              /\ (e = Event("eth", "gotIp") => HasAfter("eth", "linkUp", now, q, Len(q)))
                 => LinkFirstIn(now, Append(q, e))
<1> DEFINE r == Append(q, e)
<1>1. /\ Len(q) \in Nat /\ r[Len(q) + 1] = e
      /\ DOMAIN r = 1 .. (Len(q) + 1) /\ DOMAIN q = 1 .. Len(q)
      /\ \A i \in DOMAIN q : r[i] = q[i]
  OBVIOUS
<1>2. /\ \A k \in 0 .. Len(q) : HasAfter("eth", "linkUp", now, r, k)
                                  <=> HasAfter("eth", "linkUp", now, q, k)
      /\ HasAfter("eth", "linkUp", now, r, Len(q) + 1) <=>
            \/ e = Event("eth", "linkUp")
            \/ HasAfter("eth", "linkUp", now, q, Len(q)) /\ e \notin Losses("eth")
  <2>1. "eth" \in Nets /\ "linkUp" \in Gains
    BY DEF Gains, Nets
  <2> QED BY <2>1, HasPosted, Zenon
<1> HIDE DEF r
<1>3. ASSUME LinkFirstIn(now, q),
             e = Event("eth", "gotIp") => HasAfter("eth", "linkUp", now, q, Len(q)),
             NEW i \in DOMAIN r, r[i] = Event("eth", "gotIp")
      PROVE  HasAfter("eth", "linkUp", now, r, i - 1)
  <2>1. CASE i \in DOMAIN q
    <3>1. HasAfter("eth", "linkUp", now, q, i - 1)
      BY <1>1, <1>3, <2>1 DEF LinkFirstIn
    <3>2. i - 1 \in 0 .. Len(q)
      BY <1>1, <2>1
    <3> QED BY <1>2, <3>1, <3>2
  <2>2. CASE i = Len(q) + 1
    <3>1. i - 1 = Len(q) /\ i - 1 \in 0 .. Len(q) /\ e = Event("eth", "gotIp")
      BY <1>1, <1>3, <2>2
    <3> QED BY <1>2, <1>3, <3>1
  <2> QED BY <1>1, <1>3, <2>1, <2>2
<1>4. LinkFirstIn(now, q)
      /\ (e = Event("eth", "gotIp") => HasAfter("eth", "linkUp", now, q, Len(q)))
         => LinkFirstIn(now, r)
  BY <1>3 DEF LinkFirstIn
<1> QED BY <1>2, <1>4 DEF r

LEMMA LinkFirstHere == LinkFirst <=> LinkFirstIn(isLinkUp, drv)
BY DEF LinkFirst, LinkFirstIn, LinkUpAfter

LEMMA PostedLink ==
    ASSUME drv \in Seq(EventType), NEW e \in EventType, isLinkUp \in BOOLEAN,
           drv' = Append(drv, e), isLinkUp' = isLinkUp
    PROVE  /\ LinkUpAfter(Len(drv))' <=>
                 e = Event("eth", "linkUp") \/ (LinkUpAfter(Len(drv)) /\ e \notin Losses("eth"))
           /\ LinkFirst /\ (e = Event("eth", "gotIp") => LinkUpAfter(Len(drv))) => LinkFirst'
<1>1. Len(drv') = Len(drv) + 1
  OBVIOUS
<1>2. LinkFirst' <=> LinkFirstIn(isLinkUp', drv')
  BY DEF LinkFirst, LinkFirstIn, LinkUpAfter
<1> QED BY <1>1, <1>2, LinkPosted, LinkFirstHere DEF LinkUpAfter

\* ... and one that handles the first.
LEMMA HandledOne ==
    ASSUME drv \in Seq(EventType), NEW n \in Nets, drv # <<>>, drv' = Tail(drv),
           Holds(n)' <=> HasNext(n, "gotIp", Holds(n), drv[1])
    PROVE  /\ Later(n)' <=> Later(n)
           /\ Extra(n) = Extra(n)' + IF drv[1] = Event(n, "gotIp") /\ Holds(n) THEN 1 ELSE 0
<1>1. Holds(n) \in BOOLEAN /\ Holds(n)' \in BOOLEAN
  BY DEF Holds
<1>2. Len(drv') \in 0 .. (Len(drv) - 1) /\ Len(drv') + 1 = Len(drv)
  OBVIOUS
<1>3. /\ Later(n) <=> HasAfter(n, "gotIp", Holds(n), drv, Len(drv))
      /\ Later(n)' <=> HasAfter(n, "gotIp", Holds(n)', Tail(drv), Len(drv'))
      /\ Extra(n) = Cardinality(SurplusIn(n, Holds(n), drv))
      /\ Extra(n)' = Cardinality(SurplusIn(n, Holds(n)', Tail(drv)))
  BY DEF Later, Extra, ConnectedAfter, Surplus, SurplusIn, Holds
<1>4. HasAfter(n, "gotIp", Holds(n)', Tail(drv), Len(drv'))
         <=> HasAfter(n, "gotIp", Holds(n), drv, Len(drv') + 1)
  <2>1. "gotIp" \in Gains
    BY DEF Gains
  <2> QED BY <1>1, <1>2, <2>1, HasHandled, Zenon
<1>5. Cardinality(SurplusIn(n, Holds(n), drv)) =
         Cardinality(SurplusIn(n, Holds(n)', Tail(drv))) +
         (IF drv[1] = Event(n, "gotIp") /\ Holds(n) THEN 1 ELSE 0)
  BY <1>1, SurplusHandled, Zenon
<1> QED BY <1>1, <1>2, <1>3, <1>4, <1>5

LEMMA HandledLink ==
    ASSUME drv \in Seq(EventType), drv # <<>>, drv' = Tail(drv),
           isLinkUp \in BOOLEAN, isLinkUp' \in BOOLEAN,
           isLinkUp' <=> HasNext("eth", "linkUp", isLinkUp, drv[1])
    PROVE  /\ LinkUpAfter(Len(drv))' <=> LinkUpAfter(Len(drv))
           /\ LinkFirst => LinkFirst'
<1>1. /\ Len(drv) \in Nat /\ Len(drv') = Len(drv) - 1 /\ Len(drv) > 0
      /\ DOMAIN drv' = 1 .. Len(drv') /\ DOMAIN drv = 1 .. Len(drv)
      /\ \A i \in DOMAIN drv' : drv'[i] = drv[i + 1]
  OBVIOUS
<1>2. \A k \in 0 .. (Len(drv) - 1) : HasAfter("eth", "linkUp", isLinkUp', Tail(drv), k)
                                       <=> HasAfter("eth", "linkUp", isLinkUp, drv, k + 1)
  <2>1. "eth" \in Nets /\ "linkUp" \in Gains
    BY DEF Gains, Nets
  <2> QED BY <2>1, HasHandled, Zenon
<1>3. \A k \in 0 .. (Len(drv) - 1) : LinkUpAfter(k)' <=> LinkUpAfter(k + 1)
  BY <1>2 DEF LinkUpAfter
<1>4. LinkUpAfter(Len(drv))' <=> LinkUpAfter(Len(drv))
  <2>1. Len(drv') \in 0 .. (Len(drv) - 1) /\ Len(drv') + 1 = Len(drv)
    BY <1>1
  <2>2. HasAfter("eth", "linkUp", isLinkUp', Tail(drv), Len(drv'))
          <=> HasAfter("eth", "linkUp", isLinkUp, drv, Len(drv') + 1)
    BY <1>2, <2>1
  <2> QED BY <2>1, <2>2 DEF LinkUpAfter
<1>5. ASSUME LinkFirst, NEW i \in DOMAIN drv', drv'[i] = Event("eth", "gotIp")
      PROVE  LinkUpAfter(i - 1)'
  <2>1. /\ i + 1 \in DOMAIN drv /\ drv[i + 1] = Event("eth", "gotIp")
        /\ i - 1 \in 0 .. (Len(drv) - 1) /\ (i - 1) + 1 = (i + 1) - 1
    BY <1>1, <1>5
  <2>2. LinkUpAfter((i + 1) - 1)
    BY <1>5, <2>1 DEF LinkFirst
  <2> QED BY <1>3, <2>1, <2>2
<1> QED BY <1>4, <1>5 DEF LinkFirst

-----------------------------------------------------------------------------
\* What the actions do to the queue and to the connections.

LEMMA PostIsAppend ==
    ASSUME drv \in Seq(EventType), NEW e \in EventType, Post(<<e>>)
    PROVE  drv' = Append(drv, e)
BY DEF Post

\* The events in their types, and which of them lose or bring what.
LEMMA EventFacts ==
    /\ \A n \in Nets : \A e \in {"linkUp", "gotIp", "down", "stop"} : Event(n, e) \in EventType
    /\ \A n, m \in Nets : \A e, f \in {"linkUp", "gotIp", "down", "stop"} :
          Event(n, e) = Event(m, f) <=> n = m /\ e = f
    /\ \A n, m \in Nets : \A e \in {"linkUp", "gotIp"} : Event(m, e) \notin Losses(n)
    /\ \A n, m \in Nets : Event(m, "down") \in Losses(n) <=> m = n
    /\ Event("eth", "stop") \in Losses("eth") /\ Event("eth", "stop") \notin Losses("wifi")
BY DEF Event, EventType, Losses, Nets

\* What the two loops of Connect() and the timer may do to the links and to the
\* station's last attempt.
LEMMA ConnectLinks ==
    ASSUME TypeOK, BeginAll \/ ConnectAll \/ ReconnectWifiSta
    PROVE  /\ \/ link'["eth"] = link["eth"]
              \/ "eth" \notin begun /\ link'["eth"] = "off"
              \/ link["eth"] = "off" /\ link'["eth"] = "idle"
           /\ \/ link'["wifi"] = link["wifi"]
              \/ "wifi" \notin begun /\ link'["wifi"] \in {"idle", "trying"}
              \/ link["wifi"] = "idle" /\ link'["wifi"] = "trying"
           /\ timer' = timer => \A n \in Nets : n \notin begun' => link'[n] = link[n]
           /\ timer' = timer /\ ~Sta =>
                 \/ link'["wifi"] = link["wifi"]
                 \/ "wifi" \notin begun /\ link'["wifi"] = "idle"
           /\ Sta /\ link'["wifi"] = "idle" =>
                 refused' \/ (link["wifi"] = "idle" /\ refused' = refused /\ timer' = timer
                               /\ ("wifi" \in begun' => "wifi" \in begun))
<1>t. /\ link \in [Nets -> {"off", "idle", "trying", "up"}]
      /\ "wifi" \in Nets /\ "eth" \in Nets /\ \A n \in Nets : n = "wifi" \/ n = "eth"
  BY DEF TypeOK, Nets
<1>1. CASE BeginAll
  <2>1. PICK done \in SUBSET (networks \ begun), ok \in BOOLEAN :
          /\ begun' = begun \cup done
          /\ link' = [n \in Nets |-> IF n \notin done THEN link[n]
                                    ELSE IF n = "wifi" THEN WifiBegun(ok) ELSE EthBegun]
          /\ refused' = IF "wifi" \in done /\ Sta THEN ~ok ELSE refused
    BY <1>1 DEF BeginAll
  <2>2. /\ WifiBegun(ok) = IF Sta /\ ok THEN "trying" ELSE "idle"
        /\ EthBegun = "off" /\ timer' = timer
    BY <1>1 DEF WifiBegun, EthBegun, EspWifiConnect, BeginAll, netVars
  <2>3. link'["eth"] = (IF "eth" \notin done THEN link["eth"] ELSE "off")
    BY <1>t, <2>1, <2>2
  <2>4. link'["wifi"] =
           (IF "wifi" \notin done THEN link["wifi"] ELSE IF Sta /\ ok THEN "trying" ELSE "idle")
    BY <1>t, <2>1, <2>2
  <2>5. done \cap begun = {}
    OBVIOUS
  <2>6. \/ link'["eth"] = link["eth"]
        \/ "eth" \notin begun /\ link'["eth"] = "off"
        \/ link["eth"] = "off" /\ link'["eth"] = "idle"
    BY <1>t, <2>1, <2>2, <2>3, <2>4, <2>5
  <2>7. \/ link'["wifi"] = link["wifi"]
        \/ "wifi" \notin begun /\ link'["wifi"] \in {"idle", "trying"}
        \/ link["wifi"] = "idle" /\ link'["wifi"] = "trying"
    BY <1>t, <2>1, <2>2, <2>3, <2>4, <2>5
  <2>8. timer' = timer => \A n \in Nets : n \notin begun' => link'[n] = link[n]
    BY <1>t, <2>1, <2>2, <2>3, <2>4, <2>5
  <2>9. timer' = timer /\ ~Sta =>
            \/ link'["wifi"] = link["wifi"]
            \/ "wifi" \notin begun /\ link'["wifi"] = "idle"
    BY <1>t, <2>1, <2>2, <2>3, <2>4, <2>5
  <2>10. Sta /\ link'["wifi"] = "idle" =>
          refused' \/ (link["wifi"] = "idle" /\ refused' = refused /\ timer' = timer
                        /\ ("wifi" \in begun' => "wifi" \in begun))
    BY <1>t, <2>1, <2>2, <2>3, <2>4, <2>5
  <2> QED BY <2>6, <2>7, <2>8, <2>9, <2>10
<1>2. CASE ConnectAll
  <2>1. PICK ok \in BOOLEAN :
          /\ link' = [n \in Nets |-> IF n \notin networks \cap begun THEN link[n]
                                    ELSE IF n = "wifi" THEN WifiConnect(ok) ELSE EthConnect(ok)]
          /\ refused' = IF "wifi" \in networks \cap begun /\ Sta
                        THEN Refusal(link["wifi"], ok) ELSE refused
    BY <1>2 DEF ConnectAll
  <2>2. /\ UNCHANGED <<begun, timer>>
        /\ link'["eth"] = IF "eth" \in networks \cap begun THEN EthConnect(ok) ELSE link["eth"]
        /\ link'["wifi"] = IF "wifi" \in networks \cap begun THEN WifiConnect(ok) ELSE link["wifi"]
    BY <1>2, <1>t, <2>1 DEF ConnectAll, netVars
  <2>3. EthConnect(ok) = IF link["eth"] = "off" /\ ok THEN "idle" ELSE link["eth"]
    BY DEF EthConnect
  <2>4. WifiConnect(ok) = IF Sta /\ link["wifi"] = "idle" /\ ok THEN "trying" ELSE link["wifi"]
    BY DEF WifiConnect, EspWifiConnect
  <2>5. Refusal(link["wifi"], ok) = IF link["wifi"] = "idle" THEN ~ok ELSE refused
    BY DEF Refusal
  <2>6. \/ link'["eth"] = link["eth"]
        \/ "eth" \notin begun /\ link'["eth"] = "off"
        \/ link["eth"] = "off" /\ link'["eth"] = "idle"
    BY <1>t, <2>1, <2>2, <2>3, <2>4, <2>5
  <2>7. \/ link'["wifi"] = link["wifi"]
        \/ "wifi" \notin begun /\ link'["wifi"] \in {"idle", "trying"}
        \/ link["wifi"] = "idle" /\ link'["wifi"] = "trying"
    BY <1>t, <2>1, <2>2, <2>3, <2>4, <2>5
  <2>8. timer' = timer => \A n \in Nets : n \notin begun' => link'[n] = link[n]
    BY <1>t, <2>1, <2>2, <2>3, <2>4, <2>5
  <2>9. timer' = timer /\ ~Sta =>
            \/ link'["wifi"] = link["wifi"]
            \/ "wifi" \notin begun /\ link'["wifi"] = "idle"
    BY <1>t, <2>1, <2>2, <2>3, <2>4, <2>5
  <2>10. Sta /\ link'["wifi"] = "idle" =>
          refused' \/ (link["wifi"] = "idle" /\ refused' = refused /\ timer' = timer
                        /\ ("wifi" \in begun' => "wifi" \in begun))
    BY <1>t, <2>1, <2>2, <2>3, <2>4, <2>5
  <2> QED BY <2>6, <2>7, <2>8, <2>9, <2>10
<1>3. CASE ReconnectWifiSta
  <2>1. PICK ok \in BOOLEAN :
          /\ link' = [link EXCEPT !["wifi"] = EspWifiConnect(@, ok)]
          /\ refused' = Refusal(link["wifi"], ok)
    BY <1>3 DEF ReconnectWifiSta
  <2>2. begun' = begun
    BY <1>3 DEF ReconnectWifiSta, appVars
  <2>3. timer /\ timer' = FALSE
    BY <1>3 DEF ReconnectWifiSta
  <2>4. /\ link'["wifi"] = IF link["wifi"] = "idle" /\ ok THEN "trying" ELSE link["wifi"]
        /\ \A n \in Nets : n # "wifi" => link'[n] = link[n]
    BY <1>t, <2>1 DEF EspWifiConnect
  <2>5. refused' = IF link["wifi"] = "idle" THEN ~ok ELSE refused
    BY <2>1 DEF Refusal
  <2>6. \/ link'["eth"] = link["eth"]
        \/ "eth" \notin begun /\ link'["eth"] = "off"
        \/ link["eth"] = "off" /\ link'["eth"] = "idle"
    BY <1>t, <2>2, <2>4, <2>5, <2>3
  <2>7. \/ link'["wifi"] = link["wifi"]
        \/ "wifi" \notin begun /\ link'["wifi"] \in {"idle", "trying"}
        \/ link["wifi"] = "idle" /\ link'["wifi"] = "trying"
    BY <1>t, <2>2, <2>4, <2>5, <2>3
  <2>8. timer' = timer => \A n \in Nets : n \notin begun' => link'[n] = link[n]
    BY <1>t, <2>2, <2>4, <2>5, <2>3
  <2>9. timer' = timer /\ ~Sta =>
            \/ link'["wifi"] = link["wifi"]
            \/ "wifi" \notin begun /\ link'["wifi"] = "idle"
    BY <1>t, <2>2, <2>4, <2>5, <2>3
  <2>10. Sta /\ link'["wifi"] = "idle" =>
          refused' \/ (link["wifi"] = "idle" /\ refused' = refused /\ timer' = timer
                        /\ ("wifi" \in begun' => "wifi" \in begun))
    BY <1>t, <2>2, <2>4, <2>5, <2>3
  <2> QED BY <2>6, <2>7, <2>8, <2>9, <2>10
<1> QED BY <1>1, <1>2, <1>3

\* Steps that neither post an event nor handle one.
LEMMA QuietEffect ==
    ASSUME LinkInv,
           \/ \E n \in Nets : AddNetwork(n)
           \/ \E n \in Nets : RemoveNetwork(n) /\ UNCHANGED <<link, drv>>
           \/ AddUnknown \/ BeginAll \/ ConnectAll \/ PostTo \/ Return \/ WifiDownReturns
           \/ ReconnectWifiSta \/ Deliver \/ UNCHANGED vars
    PROVE  /\ UNCHANGED <<drv, renewals, repeats, count, isLinkUp>>
           /\ \A n \in Nets : /\ Connections(n)' = Connections(n)
                              /\ link'[n] = "up" <=> link[n] = "up"
           /\ link'["eth"] \in {"trying", "up"} => link["eth"] \in {"trying", "up"}
           /\ isConnected'["eth"] = isConnected["eth"]
           /\ begun \subseteq begun'
<1>t. /\ link \in [Nets -> {"off", "idle", "trying", "up"}] /\ isConnected \in [Nets -> BOOLEAN]
      /\ "wifi" \in Nets /\ "eth" \in Nets
      /\ TypeOK /\ \A n \in Nets \ begun : link[n] = "off"
  BY DEF LinkInv, IInv, TypeOK, Unheard, Nets
<1> USE DEF appVars, driverVars, mgrVars, netVars
<1>1. ASSUME NEW n \in Nets, AddNetwork(n) \/ (RemoveNetwork(n) /\ UNCHANGED <<link, drv>>)
      PROVE  UNCHANGED <<drv, renewals, repeats, count, isLinkUp, isConnected, handler,
                         link, begun>>
  BY <1>1 DEF AddNetwork, RemoveNetwork
<1>2. CASE BeginAll \/ ConnectAll \/ ReconnectWifiSta
  <2>1. UNCHANGED <<drv, renewals, repeats, count, isLinkUp, isConnected, handler>>
        /\ begun \subseteq begun'
    BY <1>2 DEF BeginAll, ConnectAll, ReconnectWifiSta
  <2>2. \A n \in Nets : link'[n] = "up" <=> link[n] = "up"
    BY <1>t, <1>2, ConnectLinks DEF Nets
  <2>3. link'["eth"] \in {"trying", "up"} => link["eth"] \in {"trying", "up"}
    BY <1>t, <1>2, ConnectLinks
  <2>4. \A n \in Nets : Connections(n)' = Connections(n)
    BY <2>1 DEF Connections
  <2> QED BY <2>1, <2>2, <2>3, <2>4
<1>3. CASE AddUnknown
  <2>1. UNCHANGED <<drv, renewals, repeats, count, isLinkUp, isConnected, handler, link, begun>>
    BY <1>3 DEF AddUnknown
  <2> QED BY <2>1 DEF Connections
<1>4. ASSUME PostTo \/ Return \/ Deliver \/ UNCHANGED vars
      PROVE  /\ UNCHANGED <<drv, renewals, repeats, count, isLinkUp, isConnected, link, begun>>
             /\ handler' = handler \/ (handler = "return" /\ handler' = "idle")
  BY <1>4 DEF PostTo, Return, Deliver, vars
<1>5. CASE WifiDownReturns
  <2>1. /\ UNCHANGED <<drv, renewals, repeats, count, isLinkUp, link, begun>>
        /\ handler = "staDown" /\ handler' = "idle"
        /\ isConnected' = [isConnected EXCEPT !["wifi"] = FALSE]
    BY <1>5 DEF WifiDownReturns
  <2>2. \A n \in Nets : Connections(n)' = Connections(n)
    BY <1>t, <2>1 DEF Connections, Nets
  <2> QED BY <1>t, <2>1, <2>2
<1>7. ASSUME UNCHANGED <<drv, renewals, repeats, count, isLinkUp, isConnected, link, begun>>,
             handler' = handler \/ (handler = "return" /\ handler' = "idle")
      PROVE  \A n \in Nets : Connections(n)' = Connections(n)
  BY <1>7 DEF Connections
<1> QED BY <1>1, <1>2, <1>3, <1>4, <1>5, <1>7

\* What an event that loses n does to both networks.
LEMMA LossPosted ==
    ASSUME NEW n \in Nets, NEW q \in Seq(EventType), NEW e \in EventType, e \in Losses(n),
           NEW m \in Nets, NEW now \in BOOLEAN
    PROVE  /\ Append(q, e) \in Seq(EventType) /\ Len(Append(q, e)) = Len(q) + 1
           /\ HasAfter(m, "gotIp", now, Append(q, e), Len(q) + 1) <=>
                 m # n /\ HasAfter(m, "gotIp", now, q, Len(q))
           /\ Cardinality(SurplusIn(m, now, Append(q, e))) = Cardinality(SurplusIn(m, now, q))
<1>1. "gotIp" \in Gains
  BY DEF Gains
<1>2. e # Event(m, "gotIp") /\ (e \in Losses(m) <=> m = n)
  BY DEF Losses, Event, Nets
<1>3. HasAfter(m, "gotIp", now, Append(q, e), Len(q) + 1) <=>
         \/ e = Event(m, "gotIp")
         \/ HasAfter(m, "gotIp", now, q, Len(q)) /\ e \notin Losses(m)
  BY <1>1, HasPosted, Zenon
<1>4. Cardinality(SurplusIn(m, now, Append(q, e))) =
         Cardinality(SurplusIn(m, now, q)) +
         (IF e = Event(m, "gotIp") /\ HasAfter(m, "gotIp", now, q, Len(q)) THEN 1 ELSE 0)
  BY SurplusPosted, Zenon
<1>5. Cardinality(SurplusIn(m, now, q)) \in Nat
  BY SurplusFinite
<1>6. Cardinality(SurplusIn(m, now, Append(q, e))) = Cardinality(SurplusIn(m, now, q)) + 0
  BY <1>2, <1>4
<1> QED BY <1>2, <1>3, <1>5, <1>6

\* A network that is stopped: it has no address once what waits is handled, unless it
\* is an access point, whose link never was up.
LEMMA StopEffect ==
    ASSUME LinkInv, NEW n \in Nets, Stop(n), UNCHANGED <<isConnected, isLinkUp, handler>>
    PROVE  /\ link' = [link EXCEPT ![n] = "off"]
           /\ \A m \in Nets : /\ Connections(m)' = Connections(m)
                              /\ Extra(m)' = Extra(m)
                              /\ m # n => (Later(m)' <=> Later(m))
           /\ Later(n)' => Later(n) /\ link[n] # "up"
           /\ n # "eth" => (LinkUpAfter(Len(drv))' <=> LinkUpAfter(Len(drv)))
           /\ LinkFirst => LinkFirst'
<1>t. /\ drv \in Seq(EventType) /\ isLinkUp \in BOOLEAN
      /\ link' = [link EXCEPT ![n] = "off"]
      /\ ~Sta => link["wifi"] \in {"off", "idle"}
  BY DEF LinkInv, IInv, TypeOK, Unheard, Stop
<1>c. \A m \in Nets : Connections(m)' = Connections(m) /\ (Holds(m)' <=> Holds(m))
  BY DEF Connections, Holds
<1>1. PICK evs \in StopEvents(n) : Post(evs)
  BY DEF Stop
<1>2. drv' = drv \o evs
  BY <1>1 DEF Post
<1>3. ASSUME NEW e \in EventType, e \in Losses(n), drv' = Append(drv, e)
      PROVE  /\ \A m \in Nets : /\ Extra(m)' = Extra(m)
                                /\ Later(m)' <=> m # n /\ Later(m)
             /\ n # "eth" => (LinkUpAfter(Len(drv))' <=> LinkUpAfter(Len(drv)))
             /\ LinkFirst => LinkFirst'
  <2>1. ASSUME NEW m \in Nets
        PROVE  Extra(m)' = Extra(m) /\ (Later(m)' <=> m # n /\ Later(m))
    <3>1. e # Event(m, "gotIp") /\ (e \in Losses(m) <=> m = n)
      BY <1>3 DEF Losses, Event, Nets
    <3>2. Extra(m) \in Nat
      BY <1>t, SurplusFinite DEF Extra, Surplus, SurplusIn, ConnectedAfter
    <3> QED BY <1>3, <1>t, <1>c, <3>1, <3>2, PostedOne
  <2>2. /\ e # Event("eth", "gotIp") /\ e # Event("eth", "linkUp")
        /\ n # "eth" => e \notin Losses("eth")
    BY <1>3 DEF Losses, Event, Nets
  <2> QED BY <1>t, <1>3, <2>1, <2>2, PostedLink
<1>4. ASSUME n = "eth", evs = <<Event("eth", "down"), Event("eth", "stop")>>
      PROVE  /\ \A m \in Nets : /\ Extra(m)' = Extra(m)
                                /\ Later(m)' <=> m # n /\ Later(m)
             /\ LinkFirst => LinkFirst'
  <2> DEFINE d == Event("eth", "down")
             s == Event("eth", "stop")
             r == Append(drv, d)
  <2>1. /\ d \in EventType /\ s \in EventType /\ d \in Losses(n) /\ s \in Losses(n)
        /\ d # Event("eth", "gotIp") /\ s # Event("eth", "gotIp")
    BY <1>4 DEF Losses, Event, EventType, Nets
  <2> HIDE DEF d, s
  <2>2. /\ drv' = Append(r, s) /\ r \in Seq(EventType) /\ Len(r) = Len(drv) + 1
        /\ Len(drv') = Len(r) + 1
    BY <1>t, <1>2, <1>4, <2>1 DEF d, s
  <2> HIDE DEF r
  <2>3. ASSUME NEW m \in Nets
        PROVE  Extra(m)' = Extra(m) /\ (Later(m)' <=> m # n /\ Later(m))
    <3>1. Holds(m) \in BOOLEAN
      BY DEF Holds
    <3>2. ASSUME NEW q \in Seq(EventType), NEW e \in EventType, e \in Losses(n)
          PROVE  /\ HasAfter(m, "gotIp", Holds(m), Append(q, e), Len(q) + 1) <=>
                       m # n /\ HasAfter(m, "gotIp", Holds(m), q, Len(q))
                 /\ Cardinality(SurplusIn(m, Holds(m), Append(q, e))) =
                       Cardinality(SurplusIn(m, Holds(m), q))
      <4> DEFINE now == Holds(m)
      <4>1. now \in BOOLEAN
        BY <3>1
      <4> HIDE DEF now
      <4>2. /\ HasAfter(m, "gotIp", now, Append(q, e), Len(q) + 1) <=>
                  m # n /\ HasAfter(m, "gotIp", now, q, Len(q))
            /\ Cardinality(SurplusIn(m, now, Append(q, e))) = Cardinality(SurplusIn(m, now, q))
        BY <3>2, <4>1, LossPosted
      <4> QED BY <4>2 DEF now
    <3>3. /\ HasAfter(m, "gotIp", Holds(m), Append(drv, d), Len(drv) + 1) <=>
                m # n /\ HasAfter(m, "gotIp", Holds(m), drv, Len(drv))
          /\ Cardinality(SurplusIn(m, Holds(m), Append(drv, d))) =
                Cardinality(SurplusIn(m, Holds(m), drv))
          /\ HasAfter(m, "gotIp", Holds(m), Append(r, s), Len(r) + 1) <=>
                m # n /\ HasAfter(m, "gotIp", Holds(m), r, Len(r))
          /\ Cardinality(SurplusIn(m, Holds(m), Append(r, s))) =
                Cardinality(SurplusIn(m, Holds(m), r))
      BY <1>t, <2>1, <2>2, <3>2
    <3>4. /\ Later(m) <=> HasAfter(m, "gotIp", Holds(m), drv, Len(drv))
          /\ Later(m)' <=> HasAfter(m, "gotIp", Holds(m)', drv', Len(drv'))
          /\ Extra(m) = Cardinality(SurplusIn(m, Holds(m), drv))
          /\ Extra(m)' = Cardinality(SurplusIn(m, Holds(m)', drv'))
      BY DEF Later, Extra, ConnectedAfter, Surplus, SurplusIn, Holds
    <3>5. Holds(m)' = Holds(m)
      BY <1>c DEF Holds
    <3> QED BY <2>2, <3>3, <3>4, <3>5 DEF r
  <2>4. LinkFirst => LinkFirst'
    <3>1. LinkFirstIn(isLinkUp, drv) => LinkFirstIn(isLinkUp, Append(drv, d))
      BY <1>t, <2>1, LinkPosted
    <3>2. LinkFirstIn(isLinkUp, r) => LinkFirstIn(isLinkUp, Append(r, s))
      BY <1>t, <2>1, <2>2, LinkPosted
    <3>3. LinkFirst' <=> LinkFirstIn(isLinkUp', drv')
      BY DEF LinkFirst, LinkFirstIn, LinkUpAfter
    <3>4. LinkFirst' <=> LinkFirstIn(isLinkUp, Append(r, s))
      BY <2>2, <3>3
    <3> QED BY <3>1, <3>2, <3>4, LinkFirstHere DEF r
  <2> QED BY <2>3, <2>4
<1>5. CASE evs = <<>>
  <2>1. drv' = drv
    BY <1>t, <1>2, <1>5
  <2>2. n = "wifi" /\ ~(Sta /\ link[n] \in {"trying", "up"})
    BY <1>1, <1>5 DEF StopEvents, Nets
  <2>3. link[n] # "up"
    BY <1>t, <2>2
  <2>4. \A m \in Nets : Extra(m)' = Extra(m) /\ (Later(m)' <=> Later(m))
    BY <1>c, <2>1, SameQueue
  <2>5. /\ LinkUpAfter(Len(drv))' <=> LinkUpAfter(Len(drv))
        /\ LinkFirst' <=> LinkFirst
    BY <2>1 DEF LinkUpAfter, LinkFirst
  <2> QED BY <1>t, <1>c, <2>3, <2>4, <2>5
<1>6. ASSUME NEW e \in {"down", "stop"}, evs = <<Event(n, e)>>, n = "wifi" => e = "down"
      PROVE  /\ \A m \in Nets : /\ Extra(m)' = Extra(m)
                                /\ Later(m)' <=> m # n /\ Later(m)
             /\ n # "eth" => (LinkUpAfter(Len(drv))' <=> LinkUpAfter(Len(drv)))
             /\ LinkFirst => LinkFirst'
  <2>1. Event(n, e) \in EventType /\ Event(n, e) \in Losses(n)
    BY <1>6 DEF Event, EventType, Losses, Nets
  <2>2. drv' = Append(drv, Event(n, e))
    BY <1>t, <1>2, <1>6, <2>1
  <2> QED BY <1>3, <2>1, <2>2
<1>7. \/ evs = <<>>
      \/ \E e \in {"down", "stop"} : evs = <<Event(n, e)>> /\ (n = "wifi" => e = "down")
      \/ n = "eth" /\ evs = <<Event("eth", "down"), Event("eth", "stop")>>
  BY <1>1 DEF StopEvents, Nets
<1> QED BY <1>t, <1>c, <1>4, <1>5, <1>6, <1>7

\* The first event is taken: what each network has is as its handler leaves it, and
\* only an address that found its network connected counts as repeated.
LEMMA HandlerEffect ==
    ASSUME LinkInv, WifiGotIp \/ WifiDown \/ EthLinkUp \/ EthGotIp \/ EthDown
    PROVE  /\ handler = "idle" /\ drv # <<>> /\ drv' = Tail(drv)
           /\ UNCHANGED <<link, renewals, begun>>
           /\ \A n \in Nets : Holds(n)' <=> HasNext(n, "gotIp", Holds(n), drv[1])
           /\ isLinkUp' \in BOOLEAN
           /\ isLinkUp' <=> HasNext("eth", "linkUp", isLinkUp, drv[1])
           /\ repeats' = repeats
                 + (IF drv[1] = Event("wifi", "gotIp") /\ Holds("wifi") THEN 1 ELSE 0)
                 + (IF drv[1] = Event("eth", "gotIp") /\ Holds("eth") THEN 1 ELSE 0)
           /\ isConnected'["eth"] =>
                 \/ isConnected["eth"] /\ (isLinkUp => isLinkUp')
                 \/ drv[1] = Event("eth", "gotIp")
<1>t. /\ isConnected \in [Nets -> BOOLEAN] /\ isLinkUp \in BOOLEAN /\ repeats \in Nat
      /\ drv \in Seq(EventType)
  BY DEF LinkInv, IInv, TypeOK
<1>n. "wifi" \in Nets /\ "eth" \in Nets /\ \A n \in Nets : n = "wifi" \/ n = "eth"
  BY DEF Nets
<1>h. drv # <<>> => Head(drv) = drv[1]
  BY <1>t
<1> USE DEF Take, appVars
<1> DEFINE Same == repeats' = repeats
              + (IF drv[1] = Event("wifi", "gotIp") /\ Holds("wifi") THEN 1 ELSE 0)
              + (IF drv[1] = Event("eth", "gotIp") /\ Holds("eth") THEN 1 ELSE 0)
<1> HIDE DEF Same
<1>1. CASE WifiGotIp
  <2>1. /\ handler = "idle" /\ drv # <<>> /\ drv[1] = Event("wifi", "gotIp") /\ drv' = Tail(drv)
        /\ UNCHANGED <<link, renewals, begun, isLinkUp>> /\ handler' = "return"
        /\ isConnected' = [isConnected EXCEPT !["wifi"] = TRUE]
        /\ repeats' = IF isConnected["wifi"] THEN repeats + 1 ELSE repeats
    BY <1>1, <1>h DEF WifiGotIp
  <2>2. Holds("wifi")' /\ (Holds("eth")' <=> Holds("eth"))
         /\ (Holds("wifi") <=> isConnected["wifi"])
    BY <1>t, <1>n, <2>1 DEF Holds, Connections
  <2>3. HasNext("wifi", "gotIp", Holds("wifi"), drv[1])
        /\ (HasNext("eth", "gotIp", Holds("eth"), drv[1]) <=> Holds("eth"))
        /\ (HasNext("eth", "linkUp", isLinkUp, drv[1]) <=> isLinkUp)
        /\ drv[1] # Event("eth", "gotIp")
    BY <2>1 DEF HasNext, Event, Losses
  <2>4. isConnected'["eth"] = isConnected["eth"]
    BY <1>t, <1>n, <2>1
  <2>5. Same
    BY <1>t, <2>1, <2>2, <2>3 DEF Same
  <2> QED BY <1>t, <1>n, <2>1, <2>2, <2>3, <2>4, <2>5 DEF Same
<1>2. CASE WifiDown
  <2>1. /\ handler = "idle" /\ drv # <<>> /\ drv[1] = Event("wifi", "down") /\ drv' = Tail(drv)
        /\ UNCHANGED <<link, renewals, begun, isLinkUp, isConnected, repeats>>
        /\ handler' = "staDown"
    BY <1>2, <1>h DEF WifiDown
  <2>2. ~Holds("wifi")' /\ (Holds("eth")' <=> Holds("eth"))
    BY <1>t, <1>n, <2>1 DEF Holds, Connections
  <2>3. ~HasNext("wifi", "gotIp", Holds("wifi"), drv[1])
        /\ (HasNext("eth", "gotIp", Holds("eth"), drv[1]) <=> Holds("eth"))
        /\ (HasNext("eth", "linkUp", isLinkUp, drv[1]) <=> isLinkUp)
        /\ drv[1] # Event("wifi", "gotIp") /\ drv[1] # Event("eth", "gotIp")
    BY <2>1 DEF HasNext, Event, Losses
  <2>4. Same
    BY <1>t, <2>1, <2>3 DEF Same
  <2> QED BY <1>t, <1>n, <2>1, <2>2, <2>3, <2>4 DEF Same
<1>3. CASE EthLinkUp
  <2>1. /\ handler = "idle" /\ drv # <<>> /\ drv[1] = Event("eth", "linkUp") /\ drv' = Tail(drv)
        /\ UNCHANGED <<link, renewals, begun, handler, isConnected, repeats>> /\ isLinkUp' = TRUE
    BY <1>3, <1>h DEF EthLinkUp
  <2>2. \A n \in Nets : Holds(n)' <=> Holds(n)
    BY <2>1 DEF Holds, Connections
  <2>3. (HasNext("wifi", "gotIp", Holds("wifi"), drv[1]) <=> Holds("wifi"))
        /\ (HasNext("eth", "gotIp", Holds("eth"), drv[1]) <=> Holds("eth"))
        /\ HasNext("eth", "linkUp", isLinkUp, drv[1])
        /\ drv[1] # Event("wifi", "gotIp") /\ drv[1] # Event("eth", "gotIp")
    BY <2>1 DEF HasNext, Event, Losses
  <2>4. (\A n \in Nets : Holds(n)' <=> HasNext(n, "gotIp", Holds(n), drv[1]))
        /\ (isLinkUp' <=> HasNext("eth", "linkUp", isLinkUp, drv[1]))
    BY <1>n, <2>1, <2>2, <2>3
  <2>5. Same
    BY <1>t, <2>1, <2>3 DEF Same
  <2> QED BY <1>t, <2>1, <2>4, <2>5 DEF Same
<1>4. CASE EthGotIp
  <2>1. /\ handler = "idle" /\ drv # <<>> /\ drv[1] = Event("eth", "gotIp") /\ drv' = Tail(drv)
        /\ UNCHANGED <<link, renewals, begun, isLinkUp>> /\ handler' = "return"
        /\ isConnected' = [isConnected EXCEPT !["eth"] = TRUE]
        /\ repeats' = IF isConnected["eth"] THEN repeats + 1 ELSE repeats
    BY <1>4, <1>h DEF EthGotIp
  <2>2. Holds("eth")' /\ (Holds("wifi")' <=> Holds("wifi")) /\ (Holds("eth") <=> isConnected["eth"])
    BY <1>t, <1>n, <2>1 DEF Holds, Connections
  <2>3. HasNext("eth", "gotIp", Holds("eth"), drv[1])
        /\ (HasNext("wifi", "gotIp", Holds("wifi"), drv[1]) <=> Holds("wifi"))
        /\ (HasNext("eth", "linkUp", isLinkUp, drv[1]) <=> isLinkUp)
        /\ drv[1] # Event("wifi", "gotIp")
    BY <2>1 DEF HasNext, Event, Losses
  <2>4. Same
    BY <1>t, <2>1, <2>2, <2>3 DEF Same
  <2> QED BY <1>t, <1>n, <2>1, <2>2, <2>3, <2>4 DEF Same
<1>5. CASE EthDown
  <2>1. /\ handler = "idle" /\ drv # <<>> /\ drv' = Tail(drv)
        /\ drv[1] \in {Event("eth", "down"), Event("eth", "stop")}
        /\ UNCHANGED <<link, renewals, begun, repeats>> /\ handler' = "return" /\ isLinkUp' = FALSE
        /\ isConnected' = [isConnected EXCEPT !["eth"] = FALSE]
    BY <1>5, <1>h DEF EthDown
  <2>2. ~Holds("eth")' /\ (Holds("wifi")' <=> Holds("wifi")) /\ ~isConnected'["eth"]
    BY <1>t, <1>n, <2>1 DEF Holds, Connections
  <2>3. ~HasNext("eth", "gotIp", Holds("eth"), drv[1])
        /\ (HasNext("wifi", "gotIp", Holds("wifi"), drv[1]) <=> Holds("wifi"))
        /\ ~HasNext("eth", "linkUp", isLinkUp, drv[1])
        /\ drv[1] # Event("wifi", "gotIp") /\ drv[1] # Event("eth", "gotIp")
    BY <2>1 DEF HasNext, Event, Losses
  <2>4. Same
    BY <1>t, <2>1, <2>3 DEF Same
  <2> QED BY <1>t, <1>n, <2>1, <2>2, <2>3, <2>4 DEF Same
<1> QED BY <1>1, <1>2, <1>3, <1>4, <1>5

\* The drivers: one event is posted, the link of its network changes with it.
LEMMA DriverEffect ==
    ASSUME LinkInv, NEW n \in Nets, NEW e \in {"linkUp", "gotIp", "down"},
           Post(<<Event(n, e)>>), UNCHANGED <<isConnected, isLinkUp, handler>>
    PROVE  /\ drv \in Seq(EventType) /\ drv' = Append(drv, Event(n, e))
           /\ \A m \in Nets :
                 /\ Connections(m)' = Connections(m)
                 /\ m # n => (Later(m)' <=> Later(m)) /\ Extra(m)' = Extra(m)
           /\ e = "gotIp" => Later(n)' /\ Extra(n)' = Extra(n) + (IF Later(n) THEN 1 ELSE 0)
           /\ e = "linkUp" => (Later(n)' <=> Later(n)) /\ Extra(n)' = Extra(n)
           /\ e = "down" => ~Later(n)' /\ Extra(n)' = Extra(n)
<1>t. drv \in Seq(EventType) /\ Event(n, e) \in EventType
  BY EventFacts DEF LinkInv, IInv, TypeOK
<1>1. drv' = Append(drv, Event(n, e))
  BY <1>t, PostIsAppend
<1>2. \A m \in Nets : Connections(m)' = Connections(m)
  BY DEF Connections
<1>3. \A m \in Nets : Extra(m) \in Nat
  BY <1>t, SurplusFinite DEF Extra, Surplus, SurplusIn, ConnectedAfter
<1>4. ASSUME NEW m \in Nets
      PROVE  /\ Later(m)' <=>
                   Event(n, e) = Event(m, "gotIp") \/ (Later(m) /\ Event(n, e) \notin Losses(m))
             /\ Extra(m)' = Extra(m) +
                   IF Event(n, e) = Event(m, "gotIp") /\ Later(m) THEN 1 ELSE 0
  BY <1>t, <1>1, <1>2, <1>4, PostedOne
<1>5. ASSUME NEW m \in Nets, m # n
      PROVE  (Later(m)' <=> Later(m)) /\ Extra(m)' = Extra(m)
  <2>1. Event(n, e) # Event(m, "gotIp") /\ Event(n, e) \notin Losses(m)
    BY <1>5 DEF Event, Losses
  <2> QED BY <1>3, <1>4, <2>1
<1>6. CASE e = "gotIp"
  <2>1. Later(n)' /\ Extra(n)' = Extra(n) + (IF Later(n) THEN 1 ELSE 0)
    BY <1>4, <1>6
  <2> QED BY <1>t, <1>1, <1>2, <1>5, <1>6, <2>1
<1>7. CASE e = "linkUp"
  <2>1. Event(n, e) # Event(n, "gotIp") /\ Event(n, e) \notin Losses(n)
    BY <1>7 DEF Event, Losses
  <2>2. (Later(n)' <=> Later(n)) /\ Extra(n)' = Extra(n)
    BY <1>3, <1>4, <2>1
  <2> QED BY <1>t, <1>1, <1>2, <1>5, <1>7, <2>2
<1>8. CASE e = "down"
  <2>1. Event(n, e) # Event(n, "gotIp") /\ Event(n, e) \in Losses(n)
    BY <1>8 DEF Event, Losses, Nets
  <2>2. ~Later(n)' /\ Extra(n)' = Extra(n)
    BY <1>3, <1>4, <2>1
  <2> QED BY <1>t, <1>1, <1>2, <1>5, <1>8, <2>2
<1> QED BY <1>6, <1>7, <1>8

-----------------------------------------------------------------------------
\* The links are followed, and every address that repeats one was a renewal.

LEMMA StrayIs ==
    ASSUME NEW n PROVE Stray(n) = (IF link[n] # "up" /\ Later(n) THEN 1 ELSE 0)
BY DEF Stray, Later

LEMMA FollowStep == LinkInv /\ [Next]_vars => LinkFollowed' /\ RenewalsCounted'
<1> SUFFICES ASSUME LinkInv, [Next]_vars PROVE LinkFollowed' /\ RenewalsCounted'
  OBVIOUS
<1>t. /\ link \in [Nets -> {"off", "idle", "trying", "up"}] /\ repeats \in Nat /\ renewals \in Nat
      /\ drv \in Seq(EventType)
  BY DEF LinkInv, IInv, TypeOK
<1>n. "wifi" \in Nets /\ "eth" \in Nets /\ \A n \in Nets : n = "wifi" \/ n = "eth"
  BY DEF Nets
<1>e. \A n \in Nets : Extra(n) \in Nat
  BY <1>t, SurplusFinite DEF Extra, Surplus, SurplusIn, ConnectedAfter
<1>f. \A n \in Nets : (link[n] = "up" => Later(n)) /\ (~LateIp => ~(link[n] # "up" /\ Later(n)))
  BY StrayIs DEF LinkInv, LinkFollowed, Later
<1>r. repeats + Extra("wifi") + Extra("eth") + Stray("wifi") + Stray("eth") <= renewals
  BY DEF LinkInv, RenewalsCounted, Extra
<1>s. \A n \in Nets : /\ Stray(n) = (IF link[n] # "up" /\ Later(n) THEN 1 ELSE 0)
                      /\ Stray(n)' = (IF link'[n] # "up" /\ Later(n)' THEN 1 ELSE 0)
  BY StrayIs DEF Stray, Later
\* What is to be shown, in these terms.
<1>q. ASSUME \A n \in Nets : /\ link'[n] = "up" => Later(n)'
                             /\ ~LateIp => ~(link'[n] # "up" /\ Later(n)'),
             repeats' + Extra("wifi")' + Extra("eth")' + Stray("wifi")' + Stray("eth")' <= renewals'
      PROVE  LinkFollowed' /\ RenewalsCounted'
  <2>1. \A n \in Nets : link'[n] = "up" => ConnectedAfter(n, Len(drv))'
    BY <1>q DEF Later
  <2>2. \A n \in Nets : ~LateIp => Stray(n)' = 0
    BY <1>q, <1>s
  <2>3. RenewalsCounted'
    BY <1>q DEF RenewalsCounted, Extra
  <2> QED BY <2>1, <2>2, <2>3 DEF LinkFollowed
<1> USE DEF appVars, driverVars, mgrVars, netVars
<1>1. ASSUME \/ \E n \in Nets : AddNetwork(n)
             \/ \E n \in Nets : RemoveNetwork(n) /\ UNCHANGED <<link, drv>>
             \/ AddUnknown \/ BeginAll \/ ConnectAll \/ PostTo \/ Return \/ WifiDownReturns
             \/ ReconnectWifiSta \/ Deliver \/ UNCHANGED vars
      PROVE  LinkFollowed' /\ RenewalsCounted'
  <2>1. /\ UNCHANGED <<drv, renewals, repeats>>
        /\ \A n \in Nets : /\ Connections(n)' = Connections(n)
                           /\ link'[n] = "up" <=> link[n] = "up"
    BY <1>1, QuietEffect
  <2>2. \A n \in Nets : (Later(n)' <=> Later(n)) /\ Extra(n)' = Extra(n)
    <3>1. \A n \in Nets : Holds(n)' <=> Holds(n)
      BY <2>1 DEF Holds
    <3> QED BY <2>1, <3>1, SameQueue
  <2>3. \A n \in Nets : Stray(n)' = Stray(n)
    BY <1>s, <2>1, <2>2
  <2> QED BY <1>q, <1>f, <1>r, <1>n, <2>1, <2>2, <2>3
<1>2. ASSUME NEW n \in Nets, Stop(n),
              UNCHANGED <<isConnected, isLinkUp, handler, renewals, repeats>>
      PROVE  LinkFollowed' /\ RenewalsCounted'
  <2>1. /\ link' = [link EXCEPT ![n] = "off"]
        /\ \A m \in Nets : Extra(m)' = Extra(m) /\ (m # n => (Later(m)' <=> Later(m)))
        /\ Later(n)' => Later(n) /\ link[n] # "up"
    BY <1>2, StopEffect
  <2>2. \A m \in Nets : /\ link'[m] = "up" => Later(m)'
                        /\ ~LateIp => ~(link'[m] # "up" /\ Later(m)')
    BY <1>t, <1>f, <2>1
  <2>3. \A m \in Nets : Stray(m)' <= Stray(m) /\ Stray(m)' \in Nat /\ Stray(m) \in Nat
    BY <1>t, <1>s, <2>1
  <2>4. repeats' + Extra("wifi")' + Extra("eth")' + Stray("wifi")' + Stray("eth")' <= renewals'
    BY <1>2, <1>t, <1>e, <1>n, <1>r, <2>1, <2>3
  <2> QED BY <1>q, <2>2, <2>4
<1>3. ASSUME NEW n \in Nets,
              AddressObtained(n) \/ LinkLost(n) \/ AddressRenewed(n) \/ (n = "eth" /\ CableIn)
      PROVE  LinkFollowed' /\ RenewalsCounted'
  <2>0. UNCHANGED <<isConnected, isLinkUp, handler, repeats>>
    BY <1>3 DEF AddressObtained, LinkLost, AddressRenewed, CableIn
  <2>e. \A m \in Nets : Stray(m) \in {0, 1} /\ Stray(m)' \in {0, 1}
    BY <1>s
  \* The others keep what they have.
  <2>o. ASSUME \A m \in Nets : m # n => /\ link'[m] = link[m] /\ (Later(m)' <=> Later(m))
                                        /\ Extra(m)' = Extra(m),
               link'[n] = "up" => Later(n)', ~LateIp => ~(link'[n] # "up" /\ Later(n)'),
               Extra(n)' + Stray(n)' + renewals <= Extra(n) + Stray(n) + renewals',
               renewals' \in Nat, Extra(n)' \in Nat
        PROVE  LinkFollowed' /\ RenewalsCounted'
    <3>1. \A m \in Nets : m # n => Stray(m)' = Stray(m)
      BY <1>s, <2>o
    <3>2. \A m \in Nets : /\ link'[m] = "up" => Later(m)'
                          /\ ~LateIp => ~(link'[m] # "up" /\ Later(m)')
      BY <1>f, <2>o
    <3>3. repeats' + Extra("wifi")' + Extra("eth")' + Stray("wifi")' + Stray("eth")' <= renewals'
      <4>1. CASE n = "wifi"
        <5>1. Extra("eth")' = Extra("eth") /\ Stray("eth")' = Stray("eth")
          BY <1>n, <2>o, <3>1, <4>1
        <5>2. /\ Extra("wifi")' + Stray("wifi")' + renewals
                    <= Extra("wifi") + Stray("wifi") + renewals'
              /\ Extra("wifi")' \in Nat /\ Stray("wifi")' \in Nat /\ renewals' \in Nat
          BY <2>e, <2>o, <4>1
        <5>3. /\ Extra("wifi") \in Nat /\ Extra("eth") \in Nat
              /\ Stray("wifi") \in Nat /\ Stray("eth") \in Nat
          BY <1>e, <1>n, <2>e
        <5>4. repeats' = repeats /\ repeats \in Nat /\ renewals \in Nat
          BY <1>t, <2>0
        <5> QED BY <1>r, <5>1, <5>2, <5>3, <5>4
      <4>2. CASE n = "eth"
        <5>1. Extra("wifi")' = Extra("wifi") /\ Stray("wifi")' = Stray("wifi")
          BY <1>n, <2>o, <3>1, <4>2
        <5>2. /\ Extra("eth")' + Stray("eth")' + renewals <= Extra("eth") + Stray("eth") + renewals'
              /\ Extra("eth")' \in Nat /\ Stray("eth")' \in Nat /\ renewals' \in Nat
          BY <2>e, <2>o, <4>2
        <5>3. /\ Extra("wifi") \in Nat /\ Extra("eth") \in Nat
              /\ Stray("wifi") \in Nat /\ Stray("eth") \in Nat
          BY <1>e, <1>n, <2>e
        <5>4. repeats' = repeats /\ repeats \in Nat /\ renewals \in Nat
          BY <1>t, <2>0
        <5> QED BY <1>r, <5>1, <5>2, <5>3, <5>4
      <4> QED BY <1>n, <4>1, <4>2
    <3> QED BY <1>q, <3>2, <3>3
  <2>1. CASE n = "eth" /\ CableIn
    <3>1. Post(<<Event("eth", "linkUp")>>) /\ link["eth"] = "idle" /\ renewals' = renewals
          /\ link' = [link EXCEPT !["eth"] = "trying"]
      BY <2>1 DEF CableIn
    <3>2. /\ \A m \in Nets : m # n => (Later(m)' <=> Later(m)) /\ Extra(m)' = Extra(m)
          /\ (Later(n)' <=> Later(n)) /\ Extra(n)' = Extra(n)
      BY <2>0, <2>1, <3>1, DriverEffect
    <3>3. Stray(n)' = Stray(n)
      BY <1>s, <1>t, <1>n, <2>1, <3>1, <3>2
    <3>4. \A m \in Nets : m # n => link'[m] = link[m]
      BY <1>t, <2>1, <3>1
    <3>5. link'[n] # "up" /\ (~LateIp => ~Later(n)')
      BY <1>f, <1>n, <1>t, <2>1, <3>1, <3>2
    <3> QED BY <1>t, <1>e, <2>o, <2>e, <3>1, <3>2, <3>3, <3>4, <3>5
  <2>2. CASE AddressObtained(n)
    <3>1. Post(<<Event(n, "gotIp")>>) /\ link[n] = "trying" /\ renewals' = renewals
          /\ link' = [link EXCEPT ![n] = "up"]
      BY <2>2 DEF AddressObtained
    <3>2. /\ \A m \in Nets : m # n => (Later(m)' <=> Later(m)) /\ Extra(m)' = Extra(m)
          /\ Later(n)' /\ Extra(n)' = Extra(n) + (IF Later(n) THEN 1 ELSE 0)
      BY <2>0, <3>1, DriverEffect
    <3>3. Stray(n)' = 0 /\ Stray(n) = (IF Later(n) THEN 1 ELSE 0)
      BY <1>s, <1>t, <3>1, <3>2
    <3>4. \A m \in Nets : m # n => link'[m] = link[m]
      BY <1>t, <3>1
    <3>5. link'[n] = "up"
      BY <1>t, <3>1
    <3>6. /\ Extra(n)' + Stray(n)' + renewals <= Extra(n) + Stray(n) + renewals'
          /\ renewals' \in Nat /\ Extra(n)' \in Nat
      BY <1>t, <1>e, <3>1, <3>2, <3>3
    <3> QED BY <2>o, <3>2, <3>4, <3>5, <3>6
  <2>3. CASE LinkLost(n)
    <3>1. Post(<<Event(n, "down")>>) /\ renewals' = renewals /\ link' = [link EXCEPT ![n] = "idle"]
      BY <2>3 DEF LinkLost
    <3>2. /\ \A m \in Nets : m # n => (Later(m)' <=> Later(m)) /\ Extra(m)' = Extra(m)
          /\ ~Later(n)' /\ Extra(n)' = Extra(n)
      BY <2>0, <3>1, DriverEffect
    <3>3. Stray(n)' = 0
      BY <1>s, <3>2
    <3>4. (\A m \in Nets : m # n => link'[m] = link[m]) /\ link'[n] # "up"
      BY <1>t, <3>1
    <3>6. /\ Extra(n)' + Stray(n)' + renewals <= Extra(n) + Stray(n) + renewals'
          /\ renewals' \in Nat /\ Extra(n)' \in Nat
      BY <1>t, <1>e, <2>e, <3>1, <3>2, <3>3
    <3> QED BY <2>o, <3>2, <3>4, <3>6
  <2>4. CASE AddressRenewed(n)
    <3>1. /\ Post(<<Event(n, "gotIp")>>) /\ renewals' = renewals + 1 /\ link' = link
          /\ ~LateIp => link[n] = "up"
      BY <2>4 DEF AddressRenewed
    <3>2. /\ \A m \in Nets : m # n => (Later(m)' <=> Later(m)) /\ Extra(m)' = Extra(m)
          /\ Later(n)' /\ Extra(n)' = Extra(n) + (IF Later(n) THEN 1 ELSE 0)
      BY <2>0, <3>1, DriverEffect
    <3>3. /\ Stray(n)' = (IF link[n] # "up" THEN 1 ELSE 0)
          /\ Stray(n) = (IF link[n] # "up" /\ Later(n) THEN 1 ELSE 0)
          /\ link[n] = "up" => Later(n)
      BY <1>s, <1>f, <3>1, <3>2
    <3>6. /\ Extra(n)' + Stray(n)' + renewals <= Extra(n) + Stray(n) + renewals'
          /\ renewals' \in Nat /\ Extra(n)' \in Nat
      <4>1. CASE Later(n)
        BY <1>t, <1>e, <3>1, <3>2, <3>3, <4>1
      <4>2. CASE ~Later(n)
        BY <1>t, <1>e, <3>1, <3>2, <3>3, <4>2
      <4> QED BY <4>1, <4>2
    <3> QED BY <2>o, <3>1, <3>2, <3>6
  <2> QED BY <1>3, <2>1, <2>2, <2>3, <2>4
<1>4. ASSUME WifiGotIp \/ WifiDown \/ EthLinkUp \/ EthGotIp \/ EthDown
      PROVE  LinkFollowed' /\ RenewalsCounted'
  <2>1. /\ drv # <<>> /\ drv' = Tail(drv) /\ UNCHANGED <<link, renewals>>
        /\ \A n \in Nets : Holds(n)' <=> HasNext(n, "gotIp", Holds(n), drv[1])
        /\ repeats' = repeats
              + (IF drv[1] = Event("wifi", "gotIp") /\ Holds("wifi") THEN 1 ELSE 0)
              + (IF drv[1] = Event("eth", "gotIp") /\ Holds("eth") THEN 1 ELSE 0)
    BY <1>4, HandlerEffect
  <2>2. \A n \in Nets :
           /\ Later(n)' <=> Later(n)
           /\ Extra(n) = Extra(n)' + IF drv[1] = Event(n, "gotIp") /\ Holds(n) THEN 1 ELSE 0
    BY <1>t, <2>1, HandledOne
  <2>3. \A n \in Nets : Stray(n)' = Stray(n) /\ Stray(n) \in {0, 1}
    BY <1>s, <2>1, <2>2
  <2>4. \A n \in Nets : Extra(n)' \in Nat
    <3>1. drv' \in Seq(EventType)
      BY <1>t, <2>1
    <3>2. \A n \in Nets : Extra(n)' = Cardinality(SurplusIn(n, Holds(n)', drv'))
      BY DEF Extra, Surplus, SurplusIn, ConnectedAfter, Holds
    <3> QED BY <3>1, <3>2, SurplusFinite
  <2>5. repeats' + Extra("wifi")' + Extra("eth")' + Stray("wifi")' + Stray("eth")' <= renewals'
    <3> DEFINE w == IF drv[1] = Event("wifi", "gotIp") /\ Holds("wifi") THEN 1 ELSE 0
               x == IF drv[1] = Event("eth", "gotIp") /\ Holds("eth") THEN 1 ELSE 0
    <3>1. w \in Nat /\ x \in Nat
      OBVIOUS
    <3>2. Extra("wifi") = Extra("wifi")' + w /\ Extra("eth") = Extra("eth")' + x
      BY <1>n, <2>2
    <3>3. repeats' = repeats + w + x /\ renewals' = renewals
      BY <2>1
    <3>4. Stray("wifi")' = Stray("wifi") /\ Stray("eth")' = Stray("eth")
      BY <1>n, <2>3
    <3>5. /\ Extra("wifi")' \in Nat /\ Extra("eth")' \in Nat
          /\ Stray("wifi") \in Nat /\ Stray("eth") \in Nat
      BY <1>n, <2>3, <2>4
    <3> HIDE DEF w, x
    <3> QED BY <1>t, <1>r, <3>1, <3>2, <3>3, <3>4, <3>5
  <2> QED BY <1>q, <1>f, <2>1, <2>2, <2>5
<1>5. ASSUME NEW n \in Nets, DisconnectNetwork(n) \/ RemoveNetwork(n)
      PROVE  LinkFollowed' /\ RenewalsCounted'
  BY <1>1, <1>2, <1>5 DEF DisconnectNetwork, RemoveNetwork
<1> QED
  BY <1>1, <1>3, <1>4, <1>5, <1>n DEF Next, App, Driver, DefaultLoop, HandleWifi, HandleEth

-----------------------------------------------------------------------------
\* The Ethernet's address comes after its link.

LEMMA AfterLinkIs ==
    AddressAfterLink <=>
        (~LateIp => /\ link["eth"] \in {"trying", "up"} => LinkUpAfter(Len(drv))
                    /\ LinkFirst
                    /\ isConnected["eth"] => isLinkUp)
BY DEF AddressAfterLink, LinkFirst

LEMMA AfterLinkStep == LinkInv /\ [Next]_vars => AddressAfterLink'
<1> DEFINE Goal == /\ link'["eth"] \in {"trying", "up"} => LinkUpAfter(Len(drv))'
                   /\ LinkFirst'
                   /\ isConnected'["eth"] => isLinkUp'
<1> SUFFICES ASSUME LinkInv, [Next]_vars, ~LateIp PROVE Goal
  BY DEF AddressAfterLink, LinkFirst
<1> HIDE DEF Goal
<1>t. /\ link \in [Nets -> {"off", "idle", "trying", "up"}] /\ isLinkUp \in BOOLEAN
      /\ drv \in Seq(EventType) /\ "eth" \in Nets /\ "wifi" \in Nets
  BY DEF LinkInv, IInv, TypeOK, Nets
<1>i. /\ link["eth"] \in {"trying", "up"} => LinkUpAfter(Len(drv))
      /\ LinkFirst
      /\ isConnected["eth"] => isLinkUp
  BY AfterLinkIs DEF LinkInv
<1> USE DEF appVars, driverVars, mgrVars, netVars
<1>1. ASSUME \/ \E n \in Nets : AddNetwork(n)
             \/ \E n \in Nets : RemoveNetwork(n) /\ UNCHANGED <<link, drv>>
             \/ AddUnknown \/ BeginAll \/ ConnectAll \/ PostTo \/ Return \/ WifiDownReturns
             \/ ReconnectWifiSta \/ Deliver \/ UNCHANGED vars
      PROVE  Goal
  <2>1. /\ drv' = drv /\ isLinkUp' = isLinkUp
        /\ link'["eth"] \in {"trying", "up"} => link["eth"] \in {"trying", "up"}
        /\ isConnected'["eth"] = isConnected["eth"]
    BY <1>1, QuietEffect
  <2>2. (LinkUpAfter(Len(drv))' <=> LinkUpAfter(Len(drv))) /\ (LinkFirst' <=> LinkFirst)
    BY <2>1 DEF LinkUpAfter, LinkFirst
  <2> QED BY <1>i, <2>1, <2>2 DEF Goal
<1>2. ASSUME NEW n \in Nets, Stop(n), UNCHANGED <<isConnected, isLinkUp, handler>>
      PROVE  Goal
  <2>1. /\ link' = [link EXCEPT ![n] = "off"]
        /\ n # "eth" => (LinkUpAfter(Len(drv))' <=> LinkUpAfter(Len(drv)))
        /\ LinkFirst => LinkFirst'
    BY <1>2, StopEffect
  <2> QED BY <1>t, <1>i, <1>2, <2>1 DEF Goal
<1>3. ASSUME NEW n \in Nets, NEW e \in {"linkUp", "gotIp", "down"}, Post(<<Event(n, e)>>),
             UNCHANGED <<isConnected, isLinkUp>>
      PROVE  /\ LinkUpAfter(Len(drv))' <=>
                   \/ n = "eth" /\ e = "linkUp"
                   \/ LinkUpAfter(Len(drv)) /\ ~(n = "eth" /\ e = "down")
             /\ (n = "eth" /\ e = "gotIp" => LinkUpAfter(Len(drv))) => LinkFirst'
             /\ isConnected'["eth"] => isLinkUp'
  <2>1. Event(n, e) \in EventType /\ drv' = Append(drv, Event(n, e))
    BY <1>t, <1>3, EventFacts, PostIsAppend
  <2>2. /\ LinkUpAfter(Len(drv))' <=>
              \/ Event(n, e) = Event("eth", "linkUp")
              \/ LinkUpAfter(Len(drv)) /\ Event(n, e) \notin Losses("eth")
        /\ LinkFirst /\ (Event(n, e) = Event("eth", "gotIp") => LinkUpAfter(Len(drv))) => LinkFirst'
    BY <1>t, <1>3, <2>1, PostedLink
  <2>3. /\ Event(n, e) = Event("eth", "gotIp") <=> n = "eth" /\ e = "gotIp"
        /\ Event(n, e) = Event("eth", "linkUp") <=> n = "eth" /\ e = "linkUp"
        /\ Event(n, e) \in Losses("eth") <=> n = "eth" /\ e = "down"
    BY DEF Event, Losses
  <2> QED BY <1>i, <1>3, <2>2, <2>3
<1>4. ASSUME WifiGotIp \/ WifiDown \/ EthLinkUp \/ EthGotIp \/ EthDown
      PROVE  Goal
  <2>1. /\ drv # <<>> /\ drv' = Tail(drv) /\ link' = link /\ isLinkUp' \in BOOLEAN
        /\ isLinkUp' <=> HasNext("eth", "linkUp", isLinkUp, drv[1])
        /\ isConnected'["eth"] => \/ isConnected["eth"] /\ (isLinkUp => isLinkUp')
                                  \/ drv[1] = Event("eth", "gotIp")
    BY <1>4, HandlerEffect
  <2>2. (LinkUpAfter(Len(drv))' <=> LinkUpAfter(Len(drv))) /\ LinkFirst'
    BY <1>t, <1>i, <2>1, HandledLink
  <2>3. ASSUME drv[1] = Event("eth", "gotIp") PROVE isLinkUp'
    <3>1. 1 \in DOMAIN drv /\ 1 - 1 = 0
      BY <1>t, <2>1
    <3>2. LinkUpAfter(0)
      BY <1>i, <2>3, <3>1 DEF LinkFirst
    <3>3. isLinkUp
      BY <1>t, <3>2, HasNow DEF LinkUpAfter
    <3>4. drv[1] \notin Losses("eth")
      BY <2>3 DEF Event, Losses
    <3> QED BY <2>1, <3>3, <3>4 DEF HasNext
  <2> QED BY <1>i, <2>1, <2>2, <2>3 DEF Goal
<1>5. ASSUME NEW n \in Nets, DisconnectNetwork(n) \/ RemoveNetwork(n)
      PROVE  Goal
  BY <1>1, <1>2, <1>5 DEF DisconnectNetwork, RemoveNetwork
<1>6. ASSUME NEW n \in Nets, AddressObtained(n) \/ LinkLost(n) \/ AddressRenewed(n)
      PROVE  Goal
  <2>0. UNCHANGED <<isConnected, isLinkUp>> /\ (n = "wifi" \/ n = "eth")
    BY <1>6 DEF AddressObtained, LinkLost, AddressRenewed, Nets
  <2>1. CASE AddressObtained(n)
    <3>1. Post(<<Event(n, "gotIp")>>) /\ link[n] = "trying" /\ link' = [link EXCEPT ![n] = "up"]
      BY <2>1 DEF AddressObtained
    <3>2. n = "eth" => LinkUpAfter(Len(drv))
      BY <1>i, <3>1
    <3>3. (LinkUpAfter(Len(drv))' <=> LinkUpAfter(Len(drv))) /\ LinkFirst'
          /\ (isConnected'["eth"] => isLinkUp')
      BY <1>3, <2>0, <3>1, <3>2
    <3>4. n = "wifi" => link'["eth"] = link["eth"]
      BY <1>t, <3>1
    <3> QED BY <1>i, <2>0, <3>2, <3>3, <3>4 DEF Goal
  <2>2. CASE LinkLost(n)
    <3>1. Post(<<Event(n, "down")>>) /\ link' = [link EXCEPT ![n] = "idle"]
      BY <2>2 DEF LinkLost
    <3>2. (n = "wifi" => (LinkUpAfter(Len(drv))' <=> LinkUpAfter(Len(drv)))) /\ LinkFirst'
          /\ (isConnected'["eth"] => isLinkUp')
      BY <1>3, <2>0, <3>1
    <3>3. link'["eth"] \in {"trying", "up"} => link["eth"] \in {"trying", "up"} /\ n = "wifi"
      BY <1>t, <2>0, <3>1
    <3> QED BY <1>i, <3>2, <3>3 DEF Goal
  <2>3. CASE AddressRenewed(n)
    <3>1. Post(<<Event(n, "gotIp")>>) /\ link[n] = "up" /\ link' = link
      BY <2>3 DEF AddressRenewed
    <3>2. n = "eth" => LinkUpAfter(Len(drv))
      BY <1>i, <3>1
    <3>3. (LinkUpAfter(Len(drv))' <=> LinkUpAfter(Len(drv))) /\ LinkFirst'
          /\ (isConnected'["eth"] => isLinkUp')
      BY <1>3, <2>0, <3>1, <3>2
    <3> QED BY <1>i, <3>1, <3>3 DEF Goal
  <2> QED BY <1>6, <2>1, <2>2, <2>3
<1>7. CASE CableIn
  <2>1. Post(<<Event("eth", "linkUp")>>) /\ UNCHANGED <<isConnected, isLinkUp>>
    BY <1>7 DEF CableIn
  <2>2. LinkUpAfter(Len(drv))' /\ LinkFirst' /\ (isConnected'["eth"] => isLinkUp')
    BY <1>t, <1>3, <2>1
  <2> QED BY <2>2 DEF Goal
<1> QED
  BY <1>1, <1>4, <1>5, <1>6, <1>7 DEF Next, App, Driver, DefaultLoop, HandleWifi, HandleEth

-----------------------------------------------------------------------------
\* Nothing is heard of a network that was not begun, nor of a WiFi that is no station.

LEMMA StopSilent ==
    ASSUME drv \in Seq(EventType), NEW n \in Nets, NEW m \in Nets, Stop(n), Silent(m),
           m = n => n = "wifi" /\ ~Sta
    PROVE  Silent(m)'
<1>1. PICK evs \in StopEvents(n) : Post(evs)
  BY DEF Stop
<1>2. drv' = drv \o evs /\ evs \in Seq(EventType)
  BY <1>1, StopEventsType DEF Post
<1>3. m = n => evs = <<>>
  BY <1>1 DEF StopEvents
<1>4. \A i \in DOMAIN evs : evs[i].net = n
  <2>1. evs \in {<<>>, <<Event(n, "down")>>, <<Event(n, "stop")>>,
                 <<Event(n, "down"), Event(n, "stop")>>}
    BY <1>1 DEF StopEvents, Nets
  <2>2. Event(n, "down").net = n /\ Event(n, "stop").net = n
    BY DEF Event
  <2> QED BY <2>1, <2>2
<1>5. ASSUME NEW i \in DOMAIN drv' PROVE drv'[i].net # m
  <2>1. CASE i \in 1 .. Len(drv)
    BY <1>2, <2>1 DEF Silent
  <2>2. CASE i \notin 1 .. Len(drv)
    <3>1. i - Len(drv) \in DOMAIN evs /\ drv'[i] = evs[i - Len(drv)]
      BY <1>2, <1>5, <2>2
    <3> QED BY <1>3, <1>4, <3>1
  <2> QED BY <2>1, <2>2
<1> QED BY <1>5 DEF Silent

LEMMA PostSilent ==
    ASSUME drv \in Seq(EventType), NEW n \in Nets, NEW e \in {"linkUp", "gotIp", "down"},
           NEW m \in Nets, m # n, Post(<<Event(n, e)>>), Silent(m)
    PROVE  Silent(m)'
<1>1. drv' = Append(drv, Event(n, e)) /\ Event(n, e).net = n
  BY EventFacts, PostIsAppend DEF Event
<1> QED BY <1>1 DEF Silent

LEMMA HandledSilent ==
    ASSUME drv \in Seq(EventType), NEW m, drv # <<>>, drv' = Tail(drv), Silent(m)
    PROVE  Silent(m)'
<1>1. \A i \in DOMAIN drv' : i + 1 \in DOMAIN drv /\ drv'[i] = drv[i + 1]
  OBVIOUS
<1> QED BY <1>1 DEF Silent

LEMMA UnheardStep == LinkInv /\ [Next]_vars => Unheard'
<1> SUFFICES ASSUME LinkInv, [Next]_vars PROVE Unheard'
  OBVIOUS
<1>t. /\ link \in [Nets -> {"off", "idle", "trying", "up"}] /\ drv \in Seq(EventType)
      /\ isConnected \in [Nets -> BOOLEAN] /\ "wifi" \in Nets /\ "eth" \in Nets
      /\ \A n \in Nets : n = "wifi" \/ n = "eth"
  BY DEF LinkInv, IInv, TypeOK, Nets
<1>k. TypeOK
  BY DEF LinkInv, IInv
<1>u. /\ \A n \in Nets \ begun : link[n] = "off" /\ ~isConnected[n] /\ Silent(n)
      /\ ~Sta => link["wifi"] \in {"off", "idle"} /\ Silent("wifi")
      /\ "wifi" \notin begun \/ ~Sta => ~timer /\ handler # "staDown"
  BY DEF LinkInv, Unheard
<1> USE DEF appVars, driverVars, mgrVars, netVars
\* A step that leaves the queue alone.
<1>s. ASSUME drv' = drv, NEW n PROVE Silent(n)' <=> Silent(n)
  BY <1>s DEF Silent
<1>1. ASSUME \/ \E n \in Nets : AddNetwork(n) \/ (RemoveNetwork(n) /\ UNCHANGED <<link, drv>>)
             \/ AddUnknown \/ PostTo \/ Deliver \/ Return \/ UNCHANGED vars
      PROVE  Unheard'
  <2>1. /\ UNCHANGED <<begun, link, drv, isConnected, timer>>
        /\ handler' = handler \/ handler' = "idle"
    BY <1>1 DEF AddNetwork, AddUnknown, RemoveNetwork, PostTo, Deliver, Return, vars
  <2> QED BY <1>s, <1>u, <2>1 DEF Unheard
<1>2. CASE BeginAll \/ ConnectAll
  <2>1. UNCHANGED <<drv, isConnected, timer, handler>> /\ begun \subseteq begun'
    BY <1>2 DEF BeginAll, ConnectAll
  <2>2. \A n \in Nets : n \notin begun' => link'[n] = link[n]
    BY <1>2, <1>k, <2>1, ConnectLinks
  <2>3. ~Sta => link'["wifi"] \in {"off", "idle"}
    BY <1>2, <1>k, <1>u, <2>1, ConnectLinks
  <2> QED BY <1>s, <1>t, <1>u, <2>1, <2>2, <2>3 DEF Unheard
<1>4. ASSUME NEW n \in Nets, Stop(n), UNCHANGED <<begun, isConnected, timer, handler>>
      PROVE  Unheard'
  <2>1. link[n] # "off" /\ link' = [link EXCEPT ![n] = "off"]
    BY <1>4 DEF Stop
  <2>2. \A m \in Nets \ begun : m # n
    BY <1>u, <2>1
  <2>3. \A m \in Nets \ begun : link'[m] = "off" /\ ~isConnected'[m] /\ Silent(m)'
    BY <1>t, <1>u, <1>4, <2>1, <2>2, StopSilent
  <2>4. ~Sta => link'["wifi"] \in {"off", "idle"} /\ Silent("wifi")'
    BY <1>t, <1>u, <1>4, <2>1, StopSilent
  <2> QED BY <1>u, <1>4, <2>3, <2>4 DEF Unheard
<1>5. ASSUME NEW n \in Nets, NEW e \in {"linkUp", "gotIp", "down"}, Post(<<Event(n, e)>>),
             UNCHANGED <<begun, isConnected, timer, handler>>,
             n \in begun, n = "wifi" => Sta, \A m \in Nets : m # n => link'[m] = link[m]
      PROVE  Unheard'
  <2>1. \A m \in Nets \ begun : link'[m] = "off" /\ ~isConnected'[m] /\ Silent(m)'
    BY <1>t, <1>u, <1>5, PostSilent
  <2>2. ~Sta => link'["wifi"] \in {"off", "idle"} /\ Silent("wifi")'
    BY <1>t, <1>u, <1>5, PostSilent
  <2> QED BY <1>u, <1>5, <2>1, <2>2 DEF Unheard
<1>6. ASSUME NEW n \in Nets,
              AddressObtained(n) \/ LinkLost(n) \/ AddressRenewed(n) \/ (n = "eth" /\ CableIn)
      PROVE  Unheard'
  <2>1. /\ UNCHANGED <<begun, isConnected, timer, handler>>
        /\ \A m \in Nets : m # n => link'[m] = link[m]
        /\ \/ Post(<<Event(n, "gotIp")>>) \/ Post(<<Event(n, "down")>>)
           \/ Post(<<Event(n, "linkUp")>>)
    BY <1>6, <1>t DEF AddressObtained, LinkLost, AddressRenewed, CableIn
  <2>2. n \in begun /\ (n = "wifi" => Sta)
    <3>1. CASE AddressRenewed(n) /\ link[n] # "up"
      <4>1. PICK i \in DOMAIN drv : drv[i] = Event(n, "down")
        BY <3>1 DEF AddressRenewed
      <4>2. ~Silent(n)
        BY <4>1 DEF Silent, Event
      <4> QED BY <1>u, <4>2
    <3>2. CASE AddressObtained(n) \/ LinkLost(n) \/ (n = "eth" /\ CableIn) \/ link[n] = "up"
      <4>1. link[n] # "off" /\ (n = "wifi" => link[n] # "idle")
        BY <3>2 DEF AddressObtained, LinkLost, CableIn
      <4> QED BY <1>u, <4>1
    <3> QED BY <1>6, <3>1, <3>2
  <2> QED BY <1>5, <2>1, <2>2
<1>7. CASE WifiDownReturns
  <2>1. /\ UNCHANGED <<begun, link, drv>> /\ handler = "staDown" /\ handler' = "idle"
        /\ isConnected' = [isConnected EXCEPT !["wifi"] = FALSE]
    BY <1>7 DEF WifiDownReturns
  <2>2. "wifi" \in begun /\ Sta
    BY <1>u, <2>1
  <2> QED BY <1>s, <1>t, <1>u, <2>1, <2>2 DEF Unheard
<1>8. CASE ReconnectWifiSta
  <2>1. /\ UNCHANGED <<begun, drv, isConnected, handler>> /\ timer
        /\ \A m \in Nets : m # "wifi" => link'[m] = link[m]
    BY <1>8, <1>t DEF ReconnectWifiSta
  <2>2. "wifi" \in begun /\ Sta
    BY <1>u, <2>1
  <2> QED BY <1>s, <1>t, <1>u, <2>1, <2>2 DEF Unheard
<1>9. ASSUME WifiGotIp \/ WifiDown \/ EthLinkUp \/ EthGotIp \/ EthDown PROVE Unheard'
  <2>1. drv # <<>> /\ drv' = Tail(drv) /\ UNCHANGED <<link, begun>>
    BY <1>9, HandlerEffect
  <2>2. \A m : Silent(m) => Silent(m)'
    BY <1>t, <2>1, HandledSilent
  <2>3. CASE WifiGotIp \/ WifiDown
    <3>1. ~Silent("wifi")
      <4>1. 1 \in DOMAIN drv /\ drv[1].net = "wifi"
        BY <1>t, <2>3 DEF WifiGotIp, WifiDown, Take, Event
      <4> QED BY <4>1 DEF Silent
    <3>2. "wifi" \in begun /\ Sta
      BY <1>t, <1>u, <3>1
    <3>3. isConnected'["eth"] = isConnected["eth"]
      BY <1>t, <2>3 DEF WifiGotIp, WifiDown
    <3> QED BY <1>t, <1>u, <2>1, <2>2, <3>2, <3>3 DEF Unheard
  <2>4. CASE EthLinkUp \/ EthGotIp \/ EthDown
    <3>1. ~Silent("eth")
      <4>1. 1 \in DOMAIN drv /\ drv[1].net = "eth"
        BY <1>t, <2>4 DEF EthLinkUp, EthGotIp, EthDown, Take, Event
      <4> QED BY <4>1 DEF Silent
    <3>2. "eth" \in begun
      BY <1>t, <1>u, <3>1
    <3>3. /\ isConnected'["wifi"] = isConnected["wifi"] /\ timer' = timer
          /\ handler' = handler \/ handler' = "return"
      BY <1>t, <2>4 DEF EthLinkUp, EthGotIp, EthDown
    <3> QED BY <1>t, <1>u, <2>1, <2>2, <3>2, <3>3 DEF Unheard
  <2> QED BY <1>9, <2>3, <2>4
<1>10. ASSUME NEW n \in Nets, DisconnectNetwork(n) \/ (RemoveNetwork(n) /\ Stop(n)) PROVE Unheard'
  BY <1>4, <1>10 DEF DisconnectNetwork, RemoveNetwork
<1> QED
  BY <1>t, <1>1, <1>2, <1>6, <1>7, <1>8, <1>9, <1>10
  DEF Next, App, Driver, DefaultLoop, HandleWifi, HandleEth, RemoveNetwork

-----------------------------------------------------------------------------
\* Alone, a network is counted exactly while it is connected.

\* Without a renewal an address finds its network not connected.
LEMMA FirstAddress ==
    ASSUME LinkInv, renewals = 0, NEW n \in Nets, drv # <<>>, drv[1] = Event(n, "gotIp")
    PROVE  ~Holds(n)
<1>1. /\ drv \in Seq(EventType) /\ repeats \in Nat
      /\ "wifi" \in Nets /\ "eth" \in Nets /\ \A m \in Nets : m = "wifi" \/ m = "eth"
  BY DEF LinkInv, IInv, TypeOK, Nets
<1>2. \A m \in Nets : Surplus(m) = SurplusIn(m, Holds(m), drv)
  BY DEF Surplus, SurplusIn, ConnectedAfter, Holds
<1>3. \A m \in Nets : IsFiniteSet(Surplus(m)) /\ Extra(m) \in Nat /\ Stray(m) \in Nat
  BY <1>1, <1>2, SurplusFinite DEF Extra, Stray
<1>4. repeats + Extra("wifi") + Extra("eth") + Stray("wifi") + Stray("eth") <= 0
  BY DEF LinkInv, RenewalsCounted, Extra
<1>5. Extra("wifi") = 0 /\ Extra("eth") = 0
  <2>1. /\ Extra("wifi") \in Nat /\ Extra("eth") \in Nat
        /\ Stray("wifi") \in Nat /\ Stray("eth") \in Nat
    BY <1>1, <1>3
  <2> QED BY <1>1, <1>4, <2>1
<1>6. Extra(n) = 0
  BY <1>1, <1>5
<1>7. Surplus(n) = {}
  BY <1>3, <1>6, FS_EmptySet DEF Extra
<1>8. 1 \in DOMAIN drv /\ 1 - 1 = 0 /\ Holds(n) \in BOOLEAN
  BY <1>1 DEF Holds
<1>9. HasAfter(n, "gotIp", Holds(n), drv, 0) <=> Holds(n)
  BY <1>8, HasNow, Zenon
<1> QED BY <1>2, <1>7, <1>8, <1>9 DEF SurplusIn

LEMMA CountedStep == LinkInv /\ [Next]_vars => CountedAlone'
<1> SUFFICES ASSUME LinkInv, [Next]_vars, renewals' = 0, begun' # Nets
             PROVE  count'["wan"] = Connections("wifi")' + Connections("eth")'
  BY DEF CountedAlone
<1>i. IInv /\ TypeOK
  BY DEF LinkInv, IInv
<1>k. count["wan"] \in 0 .. ByteMod - 1 /\ ByteMod \in Nat /\ ByteMod > 3
  BY <1>i, BoundAssumption DEF TypeOK, Kinds
<1>t. /\ drv \in Seq(EventType) /\ isConnected \in [Nets -> BOOLEAN] /\ renewals \in Nat
      /\ begun \subseteq Nets
      /\ "wifi" \in Nets /\ "eth" \in Nets /\ \A n \in Nets : n = "wifi" \/ n = "eth"
  BY <1>i DEF TypeOK, Nets
<1>b. begun' \subseteq Nets
  BY TypeStep DEF LinkInv, IInv, TypeOK
<1>u. /\ \A n \in Nets \ begun : ~isConnected[n] /\ Silent(n)
      /\ "wifi" \notin begun => handler # "staDown"
  BY DEF LinkInv, Unheard
<1>c. renewals = 0 /\ begun # Nets => count["wan"] = Connections("wifi") + Connections("eth")
  BY DEF LinkInv, CountedAlone
<1> USE DEF appVars, driverVars, mgrVars, netVars
<1>1. ASSUME count' = count, \A n \in Nets : Connections(n)' = Connections(n),
             renewals' = renewals \/ renewals' = renewals + 1, begun \subseteq begun'
      PROVE  count'["wan"] = Connections("wifi")' + Connections("eth")'
  <2>1. begun # Nets
    BY <1>b, <1>1, Zenon
  <2>2. renewals = 0
    BY <1>t, <1>1
  <2> QED BY <1>t, <1>c, <1>1, <2>1, <2>2
<1>2. ASSUME \/ \E n \in Nets : AddNetwork(n)
             \/ \E n \in Nets : RemoveNetwork(n) /\ UNCHANGED <<link, drv>>
             \/ AddUnknown \/ BeginAll \/ ConnectAll \/ PostTo \/ Return \/ WifiDownReturns
             \/ ReconnectWifiSta \/ Deliver \/ UNCHANGED vars
      PROVE  count'["wan"] = Connections("wifi")' + Connections("eth")'
  BY <1>1, <1>2, QuietEffect
<1>3. ASSUME \/ \E n \in Nets : DisconnectNetwork(n) \/ (RemoveNetwork(n) /\ Stop(n))
             \/ Driver \/ EthLinkUp
      PROVE  count'["wan"] = Connections("wifi")' + Connections("eth")'
  <2>1. /\ UNCHANGED <<count, isConnected, handler, begun>>
        /\ renewals' = renewals \/ renewals' = renewals + 1
    BY <1>3 DEF DisconnectNetwork, RemoveNetwork, Driver, CableIn, AddressObtained, LinkLost,
         AddressRenewed, EthLinkUp, Take
  <2>2. \A n \in Nets : Connections(n)' = Connections(n)
    BY <2>1 DEF Connections
  <2> QED BY <1>1, <2>1, <2>2
\* A handler that counts runs for the one network that was begun.
<1>h. ASSUME WifiGotIp \/ WifiDown \/ EthGotIp \/ EthDown
      PROVE  /\ handler = "idle" /\ drv # <<>> /\ renewals = 0 /\ begun # Nets
             /\ drv[1] = Head(drv) /\ begun' = begun
             /\ count["wan"] = Connections("wifi") + Connections("eth")
             /\ \A n \in Nets : Holds(n)' <=> HasNext(n, "gotIp", Holds(n), drv[1])
  <2>1. handler = "idle" /\ drv # <<>> /\ UNCHANGED <<renewals, begun>>
    BY <1>h DEF WifiGotIp, WifiDown, EthGotIp, EthDown, Take
  <2>2. \A n \in Nets : Holds(n)' <=> HasNext(n, "gotIp", Holds(n), drv[1])
    BY <1>h, HandlerEffect
  <2>3. drv[1] = Head(drv)
    BY <1>t, <2>1
  <2> QED BY <1>c, <2>1, <2>2, <2>3
<1>o. ASSUME NEW n \in Nets, drv # <<>>, drv[1].net = n, begun # Nets, NEW m \in Nets, m # n
      PROVE  ~isConnected[m]
  <2>1. ~Silent(n)
    <3>1. 1 \in DOMAIN drv
      BY <1>t, <1>o
    <3> QED BY <1>o, <3>1 DEF Silent
  <2>2. n \in begun
    BY <1>u, <2>1
  <2>3. m \notin begun
    BY <1>t, <1>o, <2>2
  <2> QED BY <1>u, <2>3
<1>4. CASE WifiGotIp
  <2>1. /\ drv[1] = Event("wifi", "gotIp") /\ drv[1].net = "wifi" /\ PostEvent("STA_CONNECTED")
        /\ isConnected' = [isConnected EXCEPT !["wifi"] = TRUE] /\ handler' = "return"
    BY <1>4, <1>h DEF WifiGotIp, Take, Event
  <2>2. ~isConnected["eth"] /\ ~Holds("wifi")
    BY <1>4, <1>h, <1>o, <1>t, <2>1, FirstAddress
  <2>3. Connections("wifi") = 0 /\ Connections("eth") = 0
    BY <2>2, ConnectionsType DEF Connections
  <2>4. count["wan"] = 0
    BY <1>4, <1>h, <2>3
  <2>5. count'["wan"] = 1
    BY <1>4, <1>h, <1>i, <1>k, <2>1, <2>4, ConnectPosts
  <2>6. Connections("wifi")' = 1 /\ Connections("eth")' = 0
    BY <1>t, <2>1, <2>2 DEF Connections
  <2> QED BY <2>5, <2>6
<1>5. CASE EthGotIp
  <2>1. /\ drv[1] = Event("eth", "gotIp") /\ drv[1].net = "eth" /\ PostEvent("ETHERNET_CONNECTED")
        /\ isConnected' = [isConnected EXCEPT !["eth"] = TRUE] /\ handler' = "return"
    BY <1>5, <1>h DEF EthGotIp, Take, Event
  <2>2. ~isConnected["wifi"] /\ ~Holds("eth")
    BY <1>5, <1>h, <1>o, <1>t, <2>1, FirstAddress
  <2>3. Connections("wifi") = 0 /\ Connections("eth") = 0
    BY <2>2, ConnectionsType DEF Connections
  <2>4. count["wan"] = 0
    BY <1>5, <1>h, <2>3
  <2>5. count'["wan"] = 1
    BY <1>5, <1>h, <1>i, <1>k, <2>1, <2>4, ConnectPosts
  <2>6. Connections("wifi")' = 0 /\ Connections("eth")' = 1
    BY <1>t, <2>1, <2>2 DEF Connections
  <2> QED BY <2>5, <2>6
<1>6. CASE WifiDown
  <2>1. /\ drv[1].net = "wifi" /\ handler' = "staDown" /\ isConnected' = isConnected
        /\ isConnected["wifi"] => PostEvent("STA_DISCONNECTED")
        /\ ~isConnected["wifi"] => count' = count
    BY <1>6, <1>h DEF WifiDown, Take, Event
  <2>2. ~isConnected["eth"]
    BY <1>6, <1>h, <1>o, <1>t, <2>1
  <2>3. Connections("wifi")' = 0 /\ Connections("eth")' = 0 /\ Connections("eth") = 0
    BY <2>1, <2>2 DEF Connections
  <2>4. CASE isConnected["wifi"]
    <3>1. count["wan"] = 1
      BY <1>6, <1>h, <2>3, <2>4 DEF Connections
    <3>2. count'["wan"] = IF count["wan"] > 0 THEN count["wan"] - 1 ELSE 0
      BY <1>6, <1>h, <1>i, <1>k, <2>1, <2>4, DisconnectPosts
    <3> QED BY <2>3, <3>1, <3>2
  <2>5. CASE ~isConnected["wifi"]
    <3>1. count["wan"] = 0
      BY <1>6, <1>h, <2>3, <2>5 DEF Connections
    <3> QED BY <2>1, <2>3, <2>5, <3>1
  <2> QED BY <2>4, <2>5
<1>7. CASE EthDown
  <2>1. /\ drv[1].net = "eth" /\ handler' = "return" /\ PostEvent("ETHERNET_DISCONNECTED")
        /\ isConnected' = [isConnected EXCEPT !["eth"] = FALSE]
    BY <1>7, <1>h DEF EthDown, Take, Event
  <2>2. ~isConnected["wifi"]
    BY <1>7, <1>h, <1>o, <1>t, <2>1
  <2>3. Connections("wifi")' = 0 /\ Connections("eth")' = 0 /\ Connections("wifi") = 0
    BY <1>t, <2>1, <2>2 DEF Connections
  <2>4. count["wan"] = Connections("eth") /\ Connections("eth") \in {0, 1}
    BY <1>7, <1>h, <2>3, ConnectionsType
  <2>5. count'["wan"] = IF count["wan"] > 0 THEN count["wan"] - 1 ELSE 0
    BY <1>7, <1>h, <1>i, <1>k, <2>1, DisconnectPosts
  <2> QED BY <2>3, <2>4, <2>5
<1> QED
  BY <1>2, <1>3, <1>4, <1>5, <1>6, <1>7
  DEF Next, App, Driver, DefaultLoop, HandleWifi, HandleEth, RemoveNetwork

-----------------------------------------------------------------------------
\* A station that lost its access point has a way back.

LEMMA RetryStep == LinkInv /\ [Next]_vars => NoLostRetry'
<1> DEFINE Waits == \E i \in DOMAIN drv : drv[i] = Event("wifi", "down")
           Goal == Owed' \/ Forgotten'
<1> SUFFICES ASSUME LinkInv, [Next]_vars, Sta, ShouldReconnect,
                    "wifi" \in begun', link'["wifi"] = "idle"
             PROVE  Goal
  BY DEF NoLostRetry, Sta
<1>t. /\ drv \in Seq(EventType) /\ link \in [Nets -> {"off", "idle", "trying", "up"}]
      /\ isConnected \in [Nets -> BOOLEAN] /\ LateIp \in BOOLEAN
      /\ timer \in BOOLEAN /\ refused \in BOOLEAN /\ ShouldReconnect \in BOOLEAN
      /\ "wifi" \in Nets /\ "eth" \in Nets /\ \A n \in Nets : n = "wifi" \/ n = "eth"
  BY ConfigAssumption DEF LinkInv, IInv, TypeOK, Nets
<1>r. "wifi" \in begun /\ link["wifi"] = "idle" =>
         \/ timer \/ handler = "staDown" \/ Waits \/ refused \/ (LateIp /\ isConnected["wifi"])
  BY DEF LinkInv, NoLostRetry, Owed, Forgotten
<1>o. /\ Owed' <=> timer' \/ handler' = "staDown" \/ Waits'
      /\ Forgotten' <=> refused' \/ (LateIp /\ isConnected'["wifi"])
  BY DEF Owed, Forgotten
<1> USE DEF appVars, driverVars, mgrVars, netVars
\* A step that keeps the timer and the events that wait.
<1>1. ASSUME NEW e \in Seq(EventType), drv' = drv \o e, UNCHANGED <<timer, refused, isConnected>>,
             handler' = handler \/ handler = "return", "wifi" \in begun, link["wifi"] = "idle"
      PROVE  Goal
  <2>1. ASSUME NEW i \in DOMAIN drv, drv[i] = Event("wifi", "down") PROVE Waits'
    <3>1. drv \in Seq(EventType) /\ drv' = drv \o e
      BY <1>t, <1>1
    <3>2. i \in DOMAIN drv' /\ drv'[i] = drv[i]
      BY <2>1, <3>1
    <3> QED BY <2>1, <3>2 DEF Event
  <2>2. Waits => Waits'
    BY <2>1
  <2> HIDE DEF Waits
  <2> QED BY <1>r, <1>o, <1>1, <2>2
<1>2. ASSUME UNCHANGED <<drv, timer, refused, isConnected, begun, link>>,
             handler' = handler \/ handler = "return"
      PROVE  Goal
  <2>1. drv' = drv \o <<>> /\ <<>> \in Seq(EventType)
    BY <1>t, <1>2
  <2> HIDE DEF Goal
  <2> QED BY <1>1, <1>2, <2>1
\* An attempt leaves the station idle only if it is refused.
<1>3. CASE BeginAll \/ ConnectAll \/ ReconnectWifiSta
  <2>1. CASE refused'
    BY <1>o, <2>1
  <2>2. CASE ~refused'
    <3>0. TypeOK
      BY DEF LinkInv, IInv
    <3>1. /\ link["wifi"] = "idle" /\ refused' = refused /\ timer' = timer /\ "wifi" \in begun
      BY <1>3, <2>2, <3>0, ConnectLinks
    <3>2. UNCHANGED <<drv, handler, isConnected>>
      BY <1>3 DEF BeginAll, ConnectAll, ReconnectWifiSta
    <3>3. drv' = drv \o <<>> /\ <<>> \in Seq(EventType)
      BY <1>t, <3>2
    <3> HIDE DEF Goal
    <3> QED BY <1>1, <3>1, <3>2, <3>3
  <2> QED BY <2>1, <2>2
<1>5. ASSUME NEW n \in Nets, Stop(n), UNCHANGED <<timer, refused, isConnected, handler, begun>>
      PROVE  Goal
  <2>1. PICK evs \in StopEvents(n) : drv' = drv \o evs
    BY <1>5 DEF Stop, Post
  <2>2. evs \in Seq(EventType)
    BY <2>1, StopEventsType
  <2>3. link["wifi"] = "idle"
    BY <1>t, <1>5 DEF Stop
  <2> HIDE DEF Goal
  <2> QED BY <1>1, <1>5, <2>1, <2>2, <2>3
<1>6. ASSUME NEW n \in Nets, AddressObtained(n) \/ LinkLost(n) \/ AddressRenewed(n) \/ CableIn
      PROVE  Goal
  <2>1. CASE n = "wifi" /\ LinkLost(n)
    <3>1. drv' = Append(drv, Event("wifi", "down"))
      BY <1>t, <2>1, EventFacts, PostIsAppend DEF LinkLost
    <3>2. Len(drv) + 1 \in DOMAIN drv' /\ drv'[Len(drv) + 1] = Event("wifi", "down")
      BY <1>t, <3>1
    <3> QED BY <1>o, <3>2
  <2>2. CASE ~(n = "wifi" /\ LinkLost(n))
    <3>1. /\ \E e \in {"gotIp", "down", "linkUp"} : \E m \in Nets : drv' = drv \o <<Event(m, e)>>
          /\ UNCHANGED <<timer, refused, isConnected, handler, begun>>
      BY <1>6, <1>t DEF AddressObtained, LinkLost, AddressRenewed, CableIn, Post
    <3>2. link["wifi"] = "idle"
      BY <1>6, <1>t, <2>2 DEF AddressObtained, LinkLost, AddressRenewed, CableIn
    <3>3. PICK e \in {"gotIp", "down", "linkUp"}, m \in Nets : drv' = drv \o <<Event(m, e)>>
      BY <3>1
    <3>4. <<Event(m, e)>> \in Seq(EventType)
      BY EventFacts
    <3> HIDE DEF Goal
    <3> QED BY <1>1, <3>1, <3>2, <3>3, <3>4
  <2> QED BY <2>1, <2>2
<1>7. CASE WifiDownReturns
  BY <1>7, <1>t, <1>o DEF WifiDownReturns
<1>9. CASE WifiDown
  BY <1>9, <1>o DEF WifiDown
\* The timer is stopped by an address whose link is lost already: the loss waits behind
\* it, or the address is late.
<1>10. CASE WifiGotIp
  <2>1. /\ drv' = Tail(drv) /\ drv # <<>> /\ link' = link
        /\ isConnected' = [isConnected EXCEPT !["wifi"] = TRUE] /\ handler' = "return"
    BY <1>10 DEF WifiGotIp, Take
  <2>l. CASE LateIp
    BY <1>o, <1>t, <2>l, <2>1
  <2>2. CASE ~LateIp
    <3>1. ~Later("wifi")'
      <4>1. LinkFollowed' /\ link'["wifi"] # "up"
        BY FollowStep
      <4>2. Stray("wifi")' = 0
        BY <1>t, <2>2, <4>1 DEF LinkFollowed
      <4> QED BY <4>1, <4>2 DEF Stray, Later
    <3>2. Connections("wifi")' = 1
      <4>1. isConnected'["wifi"]
        BY <1>t, <2>1 DEF LinkInv, IInv, TypeOK
      <4> QED BY <2>1, <4>1 DEF Connections
    <3>3. \E j \in 1 .. Len(drv') : drv'[j] \in Losses("wifi")
      BY <3>1, <3>2 DEF Later, ConnectedAfter, HasAfter
    <3>4. DOMAIN drv' = 1 .. Len(drv')
      BY <1>t, <2>1
    <3> QED BY <1>o, <3>3, <3>4 DEF Losses
  <2> QED BY <2>l, <2>2
<1>11. ASSUME EthLinkUp \/ EthGotIp \/ EthDown PROVE Goal
  <2>1. /\ drv' = Tail(drv) /\ drv # <<>> /\ UNCHANGED <<link, timer, refused, begun>>
        /\ handler = "idle" /\ drv[1].net = "eth" /\ isConnected'["wifi"] = isConnected["wifi"]
    BY <1>11, <1>t DEF EthLinkUp, EthGotIp, EthDown, Take, Event
  <2>2. Waits => Waits'
    <3>1. ASSUME NEW i \in DOMAIN drv, drv[i] = Event("wifi", "down") PROVE Waits'
      <4>1. i # 1
        BY <2>1, <3>1 DEF Event
      <4>2. i - 1 \in DOMAIN drv' /\ drv'[i - 1] = drv[i]
        BY <1>t, <2>1, <4>1
      <4> QED BY <3>1, <4>2
    <3> QED BY <3>1
  <2>3. "wifi" \in begun /\ link["wifi"] = "idle" /\ (timer' <=> timer)
    BY <2>1
  <2> HIDE DEF Waits
  <2> QED BY <1>r, <1>o, <2>1, <2>2, <2>3
<1>12. ASSUME \/ \E n \in Nets : AddNetwork(n) \/ (RemoveNetwork(n) /\ UNCHANGED <<link, drv>>)
              \/ AddUnknown \/ PostTo \/ Return \/ Deliver \/ UNCHANGED vars
       PROVE  Goal
  <2>1. /\ UNCHANGED <<drv, timer, refused, isConnected, begun, link>>
        /\ handler' = handler \/ handler = "return"
    BY <1>12 DEF AddNetwork, AddUnknown, RemoveNetwork, PostTo, Return, Deliver, vars
  <2> HIDE DEF Goal
  <2> QED BY <1>2, <2>1
<1>13. ASSUME NEW n \in Nets, DisconnectNetwork(n) \/ (RemoveNetwork(n) /\ Stop(n)) PROVE Goal
  <2>1. Stop(n) /\ UNCHANGED <<timer, refused, isConnected, handler, begun>>
    BY <1>13 DEF DisconnectNetwork, RemoveNetwork
  <2> HIDE DEF Goal
  <2> QED BY <1>5, <2>1
<1> HIDE DEF Goal
<1> QED
  BY <1>t, <1>3, <1>6, <1>7, <1>9, <1>10, <1>11, <1>12, <1>13
  DEF Next, App, Driver, DefaultLoop, HandleWifi, HandleEth, RemoveNetwork

-----------------------------------------------------------------------------
\* The invariant and what follows from it.

LEMMA LinkInvInit == Init => LinkInv
<1> SUFFICES ASSUME Init PROVE LinkInv
  OBVIOUS
<1>1. /\ drv = <<>> /\ DOMAIN drv = {} /\ Len(drv) = 0
      /\ link = [n \in Nets |-> "off"] /\ isConnected = [n \in Nets |-> FALSE]
      /\ isLinkUp = FALSE /\ timer = FALSE /\ handler = "idle" /\ begun = {}
      /\ renewals = 0 /\ repeats = 0
      /\ "wifi" \in Nets /\ "eth" \in Nets
  BY DEF Init, Nets
<1>2. \A n \in Nets : Connections(n) = 0 /\ link[n] = "off"
  BY <1>1 DEF Connections
<1>3. \A n \in Nets : ~ConnectedAfter(n, Len(drv)) /\ Surplus(n) = {}
  BY <1>1, <1>2 DEF ConnectedAfter, HasAfter, Surplus
<1>4. \A n \in Nets : Stray(n) = 0 /\ Cardinality(Surplus(n)) = 0
  BY <1>3, FS_EmptySet DEF Stray
<1>5. LinkFollowed /\ RenewalsCounted
  BY <1>1, <1>2, <1>4 DEF LinkFollowed, RenewalsCounted
<1>6. AddressAfterLink /\ Unheard
  BY <1>1, <1>2 DEF AddressAfterLink, Unheard, Silent
<1>7. CountedAlone
  <2>1. count["wan"] = 0
    BY DEF Init, Kinds
  <2> QED BY <1>1, <1>2, <2>1 DEF CountedAlone
<1>8. NoLostRetry
  BY <1>1 DEF NoLostRetry
<1> QED BY <1>5, <1>6, <1>7, <1>8, InvInit DEF LinkInv

LEMMA LinkInvStep == LinkInv /\ [Next]_vars => LinkInv'
<1> SUFFICES ASSUME LinkInv, [Next]_vars PROVE LinkInv'
  OBVIOUS
<1>1. IInv'
  BY InvStep DEF LinkInv
<1>2. LinkFollowed' /\ RenewalsCounted'
  BY FollowStep
<1>3. AddressAfterLink' /\ Unheard'
  BY AfterLinkStep, UnheardStep
<1>4. CountedAlone' /\ NoLostRetry'
  BY CountedStep, RetryStep
<1> QED BY <1>1, <1>2, <1>3, <1>4 DEF LinkInv

\* What the events on the default loop still mean agrees with the drivers, for
\* every queue size and every number of renewed addresses.
THEOREM LinksInvariant == Spec => []LinkInv
BY LinkInvInit, LinkInvStep, PTL DEF Spec

\* A station whose access point is gone, or was never found, always has a way back,
\* unless its attempt was refused or a late address claims the connection: there is
\* no third way in which it is forgotten.
THEOREM StationNeverForgotten == Spec => []NoLostRetry
<1>1. LinkInv => NoLostRetry
  BY DEF LinkInv
<1> QED BY <1>1, LinksInvariant, PTL

\* The Ethernet object claims an address only with a link.
THEOREM EthernetHasLink == Spec => []EthernetNeedsLink
<1>1. LinkInv => EthernetNeedsLink
  BY DEF LinkInv, AddressAfterLink, EthernetNeedsLink
<1> QED BY <1>1, LinksInvariant, PTL

\* Without a renewal no address is counted twice, and none stays without its link.
LEMMA NothingRepeated ==
    ASSUME LinkInv
    PROVE  repeats <= renewals
            /\ (renewals = 0 => repeats = 0 /\ Stray("wifi") = 0 /\ Stray("eth") = 0)
<1>1. repeats \in Nat /\ renewals \in Nat /\ drv \in Seq(EventType)
  BY DEF LinkInv, IInv, TypeOK
<1>2. \A n : Cardinality(Surplus(n)) \in Nat /\ Stray(n) \in Nat
  BY <1>1, SurplusFinite DEF Surplus, SurplusIn, ConnectedAfter, Stray
<1>3. repeats + Cardinality(Surplus("wifi")) + Cardinality(Surplus("eth"))
         + Stray("wifi") + Stray("eth") <= renewals
  BY DEF LinkInv, RenewalsCounted
<1>4. /\ Cardinality(Surplus("wifi")) \in Nat /\ Cardinality(Surplus("eth")) \in Nat
      /\ Stray("wifi") \in Nat /\ Stray("eth") \in Nat
  BY <1>2
<1> QED BY <1>1, <1>3, <1>4

\* Both handlers count an address twice only for a renewal: no interleaving of the
\* drivers, the timer and the queue makes a connection count twice.
THEOREM RepeatsAreOnlyRenewals == Spec => []RepeatsAreRenewals
<1>1. LinkInv => RepeatsAreRenewals
  BY NothingRepeated DEF RepeatsAreRenewals
<1> QED BY <1>1, LinksInvariant, PTL

\* With one network begun, once the queues are empty the subscribers know the link
\* as it is.
THEOREM StatusIsHonest == Spec => []HonestStatus
<1>1. LinkInv => HonestStatus
  <2> SUFFICES ASSUME LinkInv, Quiet, Cardinality(begun) = 1, renewals = 0, NEW k \in Kinds
               PROVE  view[k] <=> \E n \in Nets : link[n] = "up"
    BY DEF HonestStatus
  <2>t. IInv /\ TypeOK /\ drv = <<>> /\ handler = "idle" /\ mq = <<>> /\ Len(drv) = 0
    BY DEF LinkInv, IInv, Quiet
  <2>1. begun # Nets
    <3>1. Cardinality(Nets) = 2
      <4>1. IsFiniteSet({"wifi"}) /\ Cardinality({"wifi"}) = 1
        BY FS_Singleton
      <4>2. Nets = {"wifi"} \cup {"eth"} /\ "eth" \notin {"wifi"}
        BY DEF Nets
      <4>3. Cardinality({"wifi"} \cup {"eth"}) = Cardinality({"wifi"}) + 1
        BY <4>1, <4>2, FS_AddElement
      <4> QED BY <4>1, <4>2, <4>3
    <3> QED BY <3>1
  <2>2. repeats = 0
    BY NothingRepeated
  <2>3. Tells(<<>>, view, k, count[k] > 0)
    <3>1. repeats + 3 <= ByteMod
      BY <2>2, BoundAssumption
    <3>2. mq \o posts = <<>>
      BY <2>t DEF IInv, IdlePostsNothing
    <3>3. Tells(mq \o posts, view, k, count[k] > 0)
      BY <2>t, <3>1, Zenon DEF IInv, StatusAnnounced
    <3> QED BY <3>2, <3>3
  <2>4. view[k] = (count[k] > 0)
    BY <2>3 DEF Tells
  <2>5. count[k] = Connections("wifi") + Connections("eth")
    BY <2>t, <2>1 DEF LinkInv, CountedAlone, IInv, CountersAgree, Kinds
  <2>6. \A n \in Nets : link[n] = "up" <=> Connections(n) = 1
    <3>1. \A n \in Nets : ConnectedAfter(n, 0) <=> Connections(n) = 1
      BY DEF ConnectedAfter, HasAfter
    <3>2. \A n \in Nets : link[n] = "up" => ConnectedAfter(n, 0)
      BY <2>t DEF LinkInv, LinkFollowed
    <3>3. Stray("wifi") = 0 /\ Stray("eth") = 0
      BY NothingRepeated
    <3>4. \A n \in Nets : ~(link[n] # "up" /\ ConnectedAfter(n, 0))
      BY <2>t, <3>3 DEF Stray, Nets
    <3> QED BY <3>1, <3>2, <3>4
  <2>7. (count[k] > 0) <=> \E n \in Nets : link[n] = "up"
    BY <2>5, <2>6, ConnectionsType DEF Nets
  <2> QED BY <2>4, <2>7
<1> QED BY <1>1, LinksInvariant, PTL

\* What IsConnected(name) answers, for any number of networks, renewals and late
\* addresses; and that a network alone is claimed and not counted in one place only.
THEOREM ClaimsAreHonest == Spec => []HonestClaims
<1>1. LinkInv => HonestClaims
  <2> SUFFICES ASSUME LinkInv, NEW n \in networks \cap Nets
               PROVE  /\ drv = <<>> /\ handler = "idle" =>
                            /\ link[n] = "up" => IsConnected(n)
                            /\ IsConnected(n) => link[n] = "up" \/ LateIp
                      /\ begun = {n} /\ renewals = 0 /\ IsConnected(n) # IsWanConnected =>
                            n = "wifi" /\ handler = "staDown" /\ ~IsWanConnected
    BY DEF HonestClaims
  <2>t. /\ IsConnected(n) <=> isConnected[n]
        /\ isConnected \in [Nets -> BOOLEAN] /\ LateIp \in BOOLEAN
    BY ConfigAssumption DEF IsConnected, LinkInv, IInv, TypeOK
  <2>1. ASSUME drv = <<>>, handler = "idle"
        PROVE  /\ link[n] = "up" => IsConnected(n)
               /\ IsConnected(n) => link[n] = "up" \/ LateIp
    <3>1. Len(drv) = 0 /\ (Connections(n) = 1 <=> isConnected[n])
      BY <2>1, <2>t DEF Connections
    <3>2. ConnectedAfter(n, Len(drv)) <=> isConnected[n]
      BY <3>1 DEF ConnectedAfter, HasAfter
    <3>3. /\ link[n] = "up" => ConnectedAfter(n, Len(drv))
          /\ ~LateIp => Stray(n) = 0
      BY DEF LinkInv, LinkFollowed
    <3> QED BY <2>t, <3>2, <3>3 DEF Stray
  <2>2. ASSUME begun = {n}, renewals = 0, IsConnected(n) # IsWanConnected
        PROVE  n = "wifi" /\ handler = "staDown" /\ ~IsWanConnected
    <3>1. begun # Nets
      BY <2>2 DEF Nets
    <3>2. count["wan"] = Connections("wifi") + Connections("eth")
      BY <2>2, <3>1 DEF LinkInv, CountedAlone
    <3>3. \A m \in Nets : m # n => Connections(m) = 0
      BY <2>2 DEF LinkInv, Unheard, Connections
    <3>4. count["wan"] = Connections(n)
      <4>1. Connections(n) \in {0, 1}
        BY DEF Connections
      <4> QED BY <3>2, <3>3, <4>1 DEF Nets
    <3>5. IsWanConnected <=> Connections(n) = 1
      BY <3>4 DEF IsWanConnected, Connections
    <3>6. Connections(n) = 1 <=> isConnected[n] /\ ~(n = "wifi" /\ handler = "staDown")
      BY DEF Connections
    <3>7. ~(IsConnected(n) <=> IsWanConnected)
      BY <2>t, <2>2 DEF IsConnected, IsWanConnected
    <3> QED BY <2>t, <3>5, <3>6, <3>7
  <2> QED BY <2>1, <2>2
<1> QED BY <1>1, LinksInvariant, PTL
=============================================================================
