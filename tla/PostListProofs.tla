---------------------------- MODULE PostListProofs ----------------------------
(***************************************************************************)
(* Proofs about PostList, for any number of posts, starts and failures:    *)
(* the types, the order in which the rows are dealt, that the newest post  *)
(* ends up first, and how often each post is shown.  That a post comes to  *)
(* be shown at all is liveness and stays with TLC.                         *)
(***************************************************************************)
EXTENDS PostList, FiniteSetTheorems, TLAPS

\* The first row is the post the loop added last.
LoopOK == next > 1 => rows # <<>> /\ rows[1] = next - 1

\* Only known posts are reported, and only reports are read for.
KnownOK == (asked > 0 \/ events # <<>>) => cache > 0

\* Answers wait in the order of what they hold, none older than the last one added.
OrderOK ==
    \A i \in DOMAIN events : events[i] # Child =>
        /\ upto <= events[i]
        /\ \A j \in DOMAIN events : i < j /\ events[j] # Child => events[i] <= events[j]

\* Until something is cancelled, the newest post known is reported, read for, answered
\* or added.
NewestOK ==
    failures = 0 /\ listeners > 0 /\ cache > 0 =>
        \/ asked > 0
        \/ upto = cache
        \/ \E i \in DOMAIN events : events[i] \in {Child, cache}

\* Without a failure every listener hears on.
HearingOK == failures = 0 => hearing = listeners

IInv == TypeOK /\ RowsDealt /\ LoopOK /\ KnownOK /\ OrderOK /\ NewestOK /\ HearingOK
-----------------------------------------------------------------------------
(* Lemmas about the sequences.                                             *)

\* The list after one turn of the loop.
Dealt(s, x) == Reverse(Append(s, x))

\* Adding and turning round puts the addition first and the rest backwards.
LEMMA AddReversed ==
    ASSUME NEW S, NEW s \in Seq(S), NEW x \in S
    PROVE  /\ Dealt(s, x) \in Seq(S)
           /\ Len(Dealt(s, x)) = Len(s) + 1
           /\ Dealt(s, x)[1] = x
           /\ \A i \in 2..(Len(s) + 1) : Dealt(s, x)[i] = s[Len(s) + 2 - i]
<1> DEFINE u == Append(s, x)
<1>1. /\ u \in Seq(S) /\ Len(u) = Len(s) + 1 /\ u[Len(s) + 1] = x
      /\ \A i \in 1..Len(s) : u[i] = s[i]
  OBVIOUS
<1>2. Reverse(u) = [i \in 1..Len(u) |-> u[(Len(u) - i) + 1]]
  BY DEF Reverse
<1>3. \A i \in 1..Len(u) : (Len(u) - i) + 1 \in 1..Len(u)
  BY <1>1
<1> HIDE DEF u
<1>4. Reverse(u) \in Seq(S) /\ Len(Reverse(u)) = Len(u)
  BY <1>1, <1>2, <1>3
<1>5. \A i \in 1..Len(u) : Reverse(u)[i] = u[(Len(u) - i) + 1]
  BY <1>2
<1>6. Reverse(u)[1] = x
  BY <1>1, <1>5
<1>7. \A i \in 2..(Len(s) + 1) : Reverse(u)[i] = s[Len(s) + 2 - i]
  BY <1>1, <1>5
<1>8. Dealt(s, x) = Reverse(u)
  BY DEF u, Dealt
<1> QED
  BY <1>1, <1>4, <1>6, <1>7, <1>8

\* The queue with reports put behind it.
LEMMA QueueReported ==
    ASSUME NEW n \in Nat, events \in Seq(0..n), NEW k \in Nat
    PROVE  /\ Reported(k) \in Seq(0..n)
           /\ Len(Reported(k)) = Len(events) + k
           /\ \A i \in 1..Len(events) : Reported(k)[i] = events[i]
           /\ \A i \in (Len(events) + 1)..(Len(events) + k) : Reported(k)[i] = Child
<1> DEFINE c == [i \in 1..k |-> Child]
<1>1. c \in Seq(0..n) /\ Len(c) = k /\ \A i \in 1..k : c[i] = Child
  BY DEF Child
<1> HIDE DEF c
<1>2. Reported(k) = events \o c
  BY DEF Reported, c
<1>3. events \o c \in Seq(0..n) /\ Len(events \o c) = Len(events) + k
  BY <1>1
<1>4. \A i \in 1..Len(events) : (events \o c)[i] = events[i]
  BY <1>1
<1>5. \A i \in (Len(events) + 1)..(Len(events) + k) : (events \o c)[i] = Child
  BY <1>1
<1> DEFINE r == events \o c
<1>6. Reported(k) = r
  BY <1>2
<1>7. r \in Seq(0..n) /\ Len(r) = Len(events) + k
  BY <1>3
<1>8. /\ \A i \in 1..Len(events) : r[i] = events[i]
      /\ \A i \in (Len(events) + 1)..(Len(events) + k) : r[i] = Child
  BY <1>4, <1>5
<1> HIDE DEF r
<1> QED
  BY <1>6, <1>7, <1>8

\* The queue with its first event taken.
LEMMA QueueTaken ==
    ASSUME NEW S, NEW q \in Seq(S), q # <<>>
    PROVE  /\ Head(q) \in S /\ Head(q) = q[1]
           /\ Tail(q) \in Seq(S)
           /\ Len(Tail(q)) = Len(q) - 1
           /\ \A i \in 1..(Len(q) - 1) : Tail(q)[i] = q[i + 1]
OBVIOUS

\* Sequences over fewer values are sequences over more.
LEMMA SeqGrows ==
    ASSUME NEW S, NEW T, S \subseteq T, NEW q \in Seq(S)
    PROVE  q \in Seq(T)
OBVIOUS
-----------------------------------------------------------------------------
(* Lemmas about how often a sequence holds something.                      *)

\* Where q holds a member of S.
Spots(q, S) == {i \in DOMAIN q : q[i] \in S}

\* A sequence has finitely many places.
LEMMA SpotsFinite ==
    ASSUME NEW T, NEW q \in Seq(T), NEW S
    PROVE  IsFiniteSet(Spots(q, S)) /\ Cardinality(Spots(q, S)) \in Nat
<1>1. Len(q) \in Nat /\ DOMAIN q = 1..Len(q)
  OBVIOUS
<1>2. IsFiniteSet(1..Len(q))
  BY <1>1, FS_Interval
<1>3. Spots(q, S) \in SUBSET (1..Len(q))
  BY <1>1 DEF Spots
<1>4. IsFiniteSet(Spots(q, S))
  BY <1>2, <1>3, FS_Subset
<1> QED
  BY <1>4, FS_CardinalityType

\* Sets that a function maps one to one are of a size.
LEMMA SameSize ==
    ASSUME NEW A, NEW B, IsFiniteSet(A), NEW f \in [A -> B],
           \A a, b \in A : f[a] = f[b] => a = b,
           \A b \in B : \E a \in A : f[a] = b
    PROVE  Cardinality(B) = Cardinality(A)
<1>1. f \in Bijection(A, B)
  BY DEF Bijection, Injection, Surjection, IsInjective
<1>2. ExistsBijection(A, B)
  BY <1>1 DEF ExistsBijection
<1> QED
  BY <1>2, FS_Bijection

\* One more event at the end of a sequence.
LEMMA SpotsAppended ==
    ASSUME NEW T, NEW q \in Seq(T), NEW x \in T, NEW S
    PROVE  Cardinality(Spots(Append(q, x), S))
             = Cardinality(Spots(q, S)) + (IF x \in S THEN 1 ELSE 0)
<1> DEFINE r == Append(q, x)
           n == Len(q) + 1
<1>1. /\ Len(q) \in Nat /\ DOMAIN q = 1..Len(q) /\ DOMAIN r = 1..n
      /\ r[n] = x
      /\ \A i \in 1..Len(q) : r[i] = q[i]
  OBVIOUS
<1> HIDE DEF r
<1>2. Spots(r, S) = IF x \in S THEN Spots(q, S) \cup {n} ELSE Spots(q, S)
  BY <1>1 DEF Spots
<1>3. n \notin Spots(q, S)
  BY <1>1 DEF Spots
<1>4. IsFiniteSet(Spots(q, S)) /\ Cardinality(Spots(q, S)) \in Nat
  BY SpotsFinite
<1> HIDE DEF n
<1>5. Cardinality(Spots(q, S) \cup {n}) = Cardinality(Spots(q, S)) + 1
  BY <1>3, <1>4, FS_AddElement
<1>6. Cardinality(Spots(r, S)) = Cardinality(Spots(q, S)) + (IF x \in S THEN 1 ELSE 0)
  BY <1>2, <1>4, <1>5
<1> QED
  BY <1>6 DEF r

\* Some more at the end of it.
LEMMA SpotsPut ==
    ASSUME NEW T, NEW q \in Seq(T), NEW r \in Seq(T), NEW k \in Nat, NEW S,
           Len(r) = Len(q) + k,
           \A i \in 1..Len(q) : r[i] = q[i],
           \A i \in (Len(q) + 1)..(Len(q) + k) : r[i] \in S
    PROVE  Cardinality(Spots(r, S)) = Cardinality(Spots(q, S)) + k
<1> DEFINE more == (Len(q) + 1)..(Len(q) + k)
<1>1. Len(q) \in Nat /\ DOMAIN q = 1..Len(q) /\ DOMAIN r = 1..(Len(q) + k)
  OBVIOUS
<1>2. Spots(r, S) = Spots(q, S) \cup more
  BY <1>1 DEF Spots
<1>3. Spots(q, S) \cap more = {}
  BY <1>1 DEF Spots
<1>4. IsFiniteSet(more) /\ Cardinality(more) = k
  BY <1>1, FS_Interval
<1>5. IsFiniteSet(Spots(q, S)) /\ Cardinality(Spots(q, S)) \in Nat
  BY SpotsFinite
<1> HIDE DEF more
<1>6. Cardinality(Spots(q, S) \cup more)
        = Cardinality(Spots(q, S)) + Cardinality(more) - Cardinality(Spots(q, S) \cap more)
  BY <1>4, <1>5, FS_Union
<1>7. Cardinality(Spots(q, S) \cap more) = 0
  BY <1>3, FS_EmptySet
<1> QED
  BY <1>2, <1>4, <1>5, <1>6, <1>7

\* The first event of a sequence taken.
LEMMA SpotsTaken ==
    ASSUME NEW T, NEW q \in Seq(T), q # <<>>, NEW S
    PROVE  Cardinality(Spots(Tail(q), S))
             = Cardinality(Spots(q, S)) - (IF Head(q) \in S THEN 1 ELSE 0)
<1> DEFINE r == Tail(q)
           A == Spots(q, S) \ {1}
           f == [i \in A |-> i - 1]
<1>1. /\ Len(q) \in Nat \ {0} /\ DOMAIN q = 1..Len(q) /\ Head(q) = q[1]
      /\ DOMAIN r = 1..(Len(q) - 1)
      /\ \A i \in 1..(Len(q) - 1) : r[i] = q[i + 1]
  BY QueueTaken
<1> HIDE DEF r
<1>2. IsFiniteSet(Spots(q, S)) /\ Cardinality(Spots(q, S)) \in Nat
  BY SpotsFinite
<1>3. /\ IsFiniteSet(A)
      /\ Cardinality(A) = IF 1 \in Spots(q, S) THEN Cardinality(Spots(q, S)) - 1
                                               ELSE Cardinality(Spots(q, S))
  BY <1>2, FS_RemoveElement
<1>4. 1 \in Spots(q, S) <=> Head(q) \in S
  BY <1>1 DEF Spots
<1>5. \A i \in A : i - 1 \in Spots(r, S) /\ i \in Nat
  BY <1>1 DEF Spots
<1>6. \A j \in Spots(r, S) : j + 1 \in A /\ j \in Nat /\ (j + 1) - 1 = j
  BY <1>1 DEF Spots
<1> HIDE DEF A
<1>7. f \in [A -> Spots(r, S)]
  BY <1>5
<1>8. \A a, b \in A : f[a] = f[b] => a = b
  BY <1>5
<1>9. \A j \in Spots(r, S) : \E a \in A : f[a] = j
  BY <1>6
<1> HIDE DEF f
<1>10. Cardinality(Spots(r, S)) = Cardinality(A)
  BY <1>3, <1>7, <1>8, <1>9, SameSize
<1>11. Cardinality(Spots(r, S)) = Cardinality(Spots(q, S)) - (IF Head(q) \in S THEN 1 ELSE 0)
  BY <1>2, <1>3, <1>4, <1>10
<1> QED
  BY <1>11 DEF r

\* Turning the list round leaves in it what was there.
LEMMA SpotsDealt ==
    ASSUME NEW T, NEW s \in Seq(T), NEW x \in T, NEW S
    PROVE  Cardinality(Spots(Dealt(s, x), S))
             = Cardinality(Spots(s, S)) + (IF x \in S THEN 1 ELSE 0)
<1> DEFINE r == Dealt(s, x)
           A == Spots(s, S)
           B == Spots(r, S) \ {1}
           f == [i \in A |-> Len(s) + 2 - i]
<1>1. Len(s) \in Nat /\ DOMAIN s = 1..Len(s)
  OBVIOUS
<1>2. r \in Seq(T)
  BY AddReversed
<1>3. Len(r) = Len(s) + 1
  BY AddReversed
<1>4. r[1] = x
  BY AddReversed
<1>5. \A i \in 2..(Len(s) + 1) : r[i] = s[Len(s) + 2 - i]
  BY AddReversed
<1> HIDE DEF r
<1>6. DOMAIN r = 1..(Len(s) + 1)
  BY <1>2, <1>3
<1>7. IsFiniteSet(Spots(r, S)) /\ Cardinality(Spots(r, S)) \in Nat
  BY <1>2, SpotsFinite
<1>8. IsFiniteSet(A) /\ Cardinality(A) \in Nat
  BY SpotsFinite
<1>9. Cardinality(B) = IF 1 \in Spots(r, S) THEN Cardinality(Spots(r, S)) - 1
                                            ELSE Cardinality(Spots(r, S))
  BY <1>7, FS_RemoveElement
<1>10. 1 \in Spots(r, S) <=> x \in S
  BY <1>1, <1>4, <1>6 DEF Spots
<1>11. \A i \in A : Len(s) + 2 - i \in B /\ i \in Nat
  <2> SUFFICES ASSUME NEW i \in A PROVE Len(s) + 2 - i \in B /\ i \in Nat
    OBVIOUS
  <2>1. i \in 1..Len(s) /\ s[i] \in S
    BY <1>1 DEF Spots
  <2>2. Len(s) + 2 - i \in 2..(Len(s) + 1) /\ Len(s) + 2 - (Len(s) + 2 - i) = i
    BY <1>1, <2>1
  <2>3. r[Len(s) + 2 - i] = s[i]
    BY <1>5, <2>2
  <2> QED
    BY <1>1, <1>6, <2>1, <2>2, <2>3 DEF Spots
<1>12. \A j \in B : Len(s) + 2 - j \in A /\ j \in Nat
  <2> SUFFICES ASSUME NEW j \in B PROVE Len(s) + 2 - j \in A /\ j \in Nat
    OBVIOUS
  <2>1. j \in 2..(Len(s) + 1) /\ r[j] \in S
    BY <1>1, <1>6 DEF Spots
  <2>2. Len(s) + 2 - j \in 1..Len(s)
    BY <1>1, <2>1
  <2> QED
    BY <1>1, <1>5, <2>1, <2>2 DEF Spots
<1> HIDE DEF A, B
<1>13. f \in [A -> B]
  BY <1>11
<1>14. \A a, b \in A : f[a] = f[b] => a = b
  BY <1>1, <1>11
<1>15. \A j \in B : \E a \in A : f[a] = j
  <2> SUFFICES ASSUME NEW j \in B PROVE \E a \in A : f[a] = j
    OBVIOUS
  <2>1. Len(s) + 2 - j \in A /\ Len(s) + 2 - (Len(s) + 2 - j) = j
    BY <1>1, <1>12
  <2> QED
    BY <2>1
<1> HIDE DEF f
<1>16. Cardinality(B) = Cardinality(A)
  BY <1>8, <1>13, <1>14, <1>15, SameSize
<1>17. Cardinality(Spots(r, S)) = Cardinality(A) + (IF x \in S THEN 1 ELSE 0)
  BY <1>7, <1>8, <1>9, <1>10, <1>16
<1> QED
  BY <1>17 DEF A, r
-----------------------------------------------------------------------------
(* The inductive invariant.                                                *)

\* Before the screen is opened there is nothing to order.
LEMMA InitIInv == Init => IInv
<1> SUFFICES ASSUME Init PROVE IInv
  OBVIOUS
<1> USE BoundsAssumption DEF Init
<1>1. TypeOK
  <2>1. <<>> \in Seq(0..cache) /\ <<>> \in Seq(1..cache)
    OBVIOUS
  <2>2. posts \in Nat /\ cache \in 0..posts /\ upto \in 0..cache /\ next \in 1..(upto + 1)
    OBVIOUS
  <2>3. shown \in BOOLEAN
    OBVIOUS
  <2>4. events \in Seq(0..cache) /\ rows \in Seq(1..cache) /\ dealt \in Seq(1..cache)
    BY <2>1
  <2> QED
    BY <2>2, <2>3, <2>4 DEF TypeOK
<1>2. RowsDealt
  BY DEF RowsDealt
<1>3. LoopOK /\ KnownOK /\ OrderOK /\ NewestOK /\ HearingOK
  BY DEF LoopOK, KnownOK, OrderOK, NewestOK, HearingOK
<1> QED
  BY <1>1, <1>2, <1>3 DEF IInv

\* A step that only puts reports behind the queue, and may raise what is known.
LEMMA ReportsKeepOrder ==
    ASSUME TypeOK, KnownOK, OrderOK, NEW k \in Nat, cache' \in Nat, cache <= cache',
           k > 0 => cache' > 0,
           events' = Reported(k), upto' = upto, asked' = asked
    PROVE  events' \in Seq(0..cache') /\ KnownOK' /\ OrderOK'
<1>1. events \in Seq(0..cache')
  BY SeqGrows DEF TypeOK
<1>2. /\ events' \in Seq(0..cache')
      /\ Len(events') = Len(events) + k
      /\ \A i \in 1..Len(events) : events'[i] = events[i]
      /\ \A i \in (Len(events) + 1)..(Len(events) + k) : events'[i] = Child
  BY <1>1, QueueReported
<1>3. k = 0 => events' = <<>> \/ events # <<>>
  BY <1>1, <1>2
<1>4. KnownOK'
  <2>1. CASE events = <<>> /\ k = 0
    BY <1>2, <2>1 DEF KnownOK, TypeOK
  <2>2. CASE events # <<>> \/ k > 0
    BY <2>2 DEF KnownOK, TypeOK
  <2> QED
    BY <2>1, <2>2
<1>5. OrderOK'
  <2>1. \A i \in DOMAIN events' : events'[i] # Child => i \in DOMAIN events
    BY <1>1, <1>2
  <2>2. ASSUME NEW i \in DOMAIN events', events'[i] # Child
        PROVE  /\ i \in DOMAIN events /\ events'[i] = events[i]
    <3>1. i \in DOMAIN events
      BY <2>1, <2>2
    <3>2. DOMAIN events = 1..Len(events)
      BY <1>1
    <3> QED
      BY <1>2, <3>1, <3>2
  <2> QED
    BY <2>2 DEF OrderOK
<1> QED
  BY <1>2, <1>4, <1>5

\* One turn of the loop keeps the order in which the rows are dealt.
LEMMA TurnDealsOn ==
    ASSUME TypeOK, RowsDealt, RowAdded
    PROVE  /\ rows' \in Seq(1..cache) /\ dealt' \in Seq(1..cache)
           /\ RowsDealt'
           /\ rows' # <<>> /\ rows'[1] = next
<1> DEFINE n == Len(dealt)
<1>1. /\ rows \in Seq(1..cache) /\ dealt \in Seq(1..cache)
      /\ next \in 1..cache /\ cache \in Nat /\ n \in Nat /\ Len(rows) = n
  <2>1. cache \in Nat /\ upto \in 0..cache /\ next \in 1..(upto + 1) /\ next <= upto
    BY BoundsAssumption DEF TypeOK, RowAdded, Idle
  <2>2. rows \in Seq(1..cache) /\ dealt \in Seq(1..cache)
    BY DEF TypeOK
  <2>3. Len(rows) = n /\ n \in Nat
    BY <2>2 DEF RowsDealt
  <2> QED
    BY <2>1, <2>2, <2>3
<1>2. rows' = Dealt(rows, next) /\ dealt' = Append(dealt, next)
  BY DEF RowAdded, Dealt
<1>3. /\ rows' \in Seq(1..cache)
      /\ Len(rows') = n + 1
      /\ rows'[1] = next
      /\ \A i \in 2..(n + 1) : rows'[i] = rows[n + 2 - i]
  <2> DEFINE S == 1..cache
  <2>1. rows \in Seq(S) /\ next \in S /\ Len(rows) = n
    BY <1>1
  <2> HIDE DEF S, n
  <2> DEFINE t == Dealt(rows, next)
  <2>2. /\ t \in Seq(S) /\ Len(t) = Len(rows) + 1 /\ t[1] = next
        /\ \A i \in 2..(Len(rows) + 1) : t[i] = rows[Len(rows) + 2 - i]
    <3>1. rows \in Seq(S) /\ next \in S
      BY <2>1
    <3>2. t \in Seq(S)
      BY <3>1, AddReversed
    <3>3. Len(t) = Len(rows) + 1
      BY <3>1, AddReversed
    <3>4. t[1] = next
      BY <3>1, AddReversed
    <3>5. \A i \in 2..(Len(rows) + 1) : t[i] = rows[Len(rows) + 2 - i]
      BY <3>1, AddReversed
    <3> QED
      BY <3>2, <3>3, <3>4, <3>5
  <2>3. rows' = t
    BY <1>2
  <2> HIDE DEF t
  <2> QED
    BY <2>1, <2>2, <2>3 DEF S
<1>4. /\ dealt' \in Seq(1..cache) /\ Len(dealt') = n + 1 /\ dealt'[n + 1] = next
      /\ \A i \in 1..n : dealt'[i] = dealt[i]
  BY <1>1, <1>2
<1>5. \A i \in 1..n : rows[i] = IF 2 * i <= n + 1 THEN dealt[n + 2 - 2 * i]
                                                  ELSE dealt[2 * i - n - 1]
  BY DEF RowsDealt
<1>6. ASSUME NEW i \in 1..(n + 1)
      PROVE  rows'[i] = IF 2 * i <= n + 2 THEN dealt'[n + 3 - 2 * i]
                                          ELSE dealt'[2 * i - n - 2]
  <2> HIDE DEF n
  <2>1. CASE i = 1
    BY <1>1, <1>3, <1>4, <2>1
  <2>2. CASE i # 1
    <3>1. n + 2 - i \in 1..n /\ rows'[i] = rows[n + 2 - i]
      BY <1>1, <1>3, <2>2
    <3>2. CASE 2 * i <= n + 2
      <4>1. /\ ~(2 * (n + 2 - i) <= n + 1) 
            /\ 2 * (n + 2 - i) - n - 1 = n + 3 - 2 * i
            /\ n + 3 - 2 * i \in 1..n
        BY <1>1, <2>2, <3>2
      <4> QED
        BY <1>4, <1>5, <3>1, <3>2, <4>1
    <3>3. CASE ~(2 * i <= n + 2)
      <4>1. /\ 2 * (n + 2 - i) <= n + 1
            /\ n + 2 - 2 * (n + 2 - i) = 2 * i - n - 2
            /\ 2 * i - n - 2 \in 1..n
        BY <1>1, <2>2, <3>3
      <4> QED
        BY <1>4, <1>5, <3>1, <3>3, <4>1
    <3> QED
      BY <3>2, <3>3
  <2> QED
    BY <2>1, <2>2
<1>7. RowsDealt'
  BY <1>1, <1>3, <1>4, <1>6 DEF RowsDealt
<1> QED
  BY <1>1, <1>3, <1>4, <1>7

\* Every step keeps the inductive invariant.
LEMMA StepIInv == IInv /\ [Next]_vars => IInv'
<1> SUFFICES ASSUME IInv, [Next]_vars PROVE IInv'
  OBVIOUS
<1> USE BoundsAssumption
<1>0. /\ TypeOK /\ RowsDealt /\ LoopOK /\ KnownOK /\ OrderOK /\ NewestOK /\ HearingOK
      /\ posts \in Nat /\ cache \in Nat /\ upto \in Nat /\ listeners \in Nat
      /\ hearing \in 0..listeners
      /\ events \in Seq(0..cache)
  BY DEF IInv, TypeOK
<1>1. ASSUME Publish PROVE IInv'
  <2>1. TypeOK'
    BY <1>0, <1>1 DEF Publish, TypeOK, loop
  <2> QED
    BY <1>0, <1>1, <2>1
       DEF IInv, Publish, loop, RowsDealt, LoopOK, KnownOK, OrderOK, NewestOK, HearingOK
<1>2. ASSUME Learn PROVE IInv'
  <2>1. PICK n \in (cache + 1)..posts :
           cache' = n /\ events' = Reported((n - cache) * hearing)
    BY <1>2 DEF Learn
  <2>2. /\ UNCHANGED <<posts, shown, listeners, hearing, asked, next, upto, rows, dealt, failures>>
    BY <1>2 DEF Learn, loop
  <2> DEFINE k == (n - cache) * hearing
  <2>3. k \in Nat /\ n \in Nat /\ cache < n /\ n <= posts
    BY <1>0
  <2>4. hearing > 0 => k > 0
    BY <1>0, <2>3
  <2> HIDE DEF k
  <2>5. events' = Reported(k)
    BY <2>1 DEF k
  <2>6. events' \in Seq(0..cache') /\ KnownOK' /\ OrderOK'
    <3>1. cache' \in Nat /\ cache <= cache' /\ cache' > 0 /\ upto' = upto /\ asked' = asked
      BY <1>0, <2>1, <2>2, <2>3
    <3> QED
      BY <1>0, <2>3, <2>5, <3>1, ReportsKeepOrder
  <2>7. rows \in Seq(1..cache') /\ dealt \in Seq(1..cache')
    BY <1>0, <2>1, <2>3, SeqGrows DEF TypeOK
  <2>8. TypeOK'
    BY <1>0, <2>1, <2>2, <2>3, <2>6, <2>7 DEF TypeOK
  <2>9. NewestOK'
    <3>1. CASE hearing = 0
      BY <1>0, <2>2, <3>1 DEF NewestOK, HearingOK
    <3>2. CASE hearing # 0
      <4>1. k > 0
        BY <1>0, <2>4, <3>2
      <4>2. /\ Len(events') = Len(events) + k
            /\ \A i \in (Len(events) + 1)..(Len(events) + k) : events'[i] = Child
        <5>1. cache \in Nat /\ events \in Seq(0..cache) /\ k \in Nat
          BY <1>0, <2>3
        <5> QED
          BY <2>5, <5>1, QueueReported
      <4>3. Len(events) + 1 \in DOMAIN events' /\ events'[Len(events) + 1] = Child
        BY <1>0, <2>3, <2>6, <4>1, <4>2
      <4> QED
        BY <4>3 DEF NewestOK
    <3> QED
      BY <3>1, <3>2
  <2> QED
    BY <1>0, <2>2, <2>6, <2>8, <2>9 DEF IInv, RowsDealt, LoopOK, HearingOK
<1>3. ASSUME ReadServed PROVE IInv'
  <2>1. /\ asked \in Nat \ {0} /\ asked' = asked - 1
        /\ events' = Append(events, cache)
        /\ UNCHANGED <<posts, cache, shown, listeners, hearing, next, upto, rows, dealt, failures>>
    BY <1>0, <1>3 DEF ReadServed, loop, TypeOK
  <2>2. /\ events' \in Seq(0..cache)
        /\ Len(events') = Len(events) + 1
        /\ events'[Len(events) + 1] = cache
        /\ \A i \in 1..Len(events) : events'[i] = events[i]
    BY <1>0, <2>1
  <2>3. TypeOK'
    BY <1>0, <2>1, <2>2 DEF TypeOK
  <2>4. KnownOK'
    BY <1>0, <2>1, <2>2 DEF KnownOK
  <2>5. OrderOK'
    <3>1. \A i \in DOMAIN events : events[i] <= cache
      BY <1>0
    <3>2. upto <= cache
      BY <1>0 DEF TypeOK
    <3> QED
      BY <1>0, <2>1, <2>2, <3>1, <3>2 DEF OrderOK
  <2>6. NewestOK'
    <3>1. Len(events) + 1 \in DOMAIN events'
      BY <1>0, <2>2
    <3> QED
      BY <2>1, <2>2, <3>1 DEF NewestOK
  <2> QED
    BY <1>0, <2>1, <2>3, <2>4, <2>5, <2>6 DEF IInv, RowsDealt, LoopOK, HearingOK
<1>4. ASSUME ReadCancelled PROVE IInv'
  <2>1. TypeOK' /\ failures' # 0
    BY <1>0, <1>4 DEF ReadCancelled, TypeOK, loop
  <2>2. KnownOK'
    BY <1>0, <1>4 DEF ReadCancelled, KnownOK, TypeOK
  <2> QED
    BY <1>0, <1>4, <2>1, <2>2
       DEF IInv, ReadCancelled, loop, RowsDealt, LoopOK, OrderOK, NewestOK, HearingOK
<1>5. ASSUME Start PROVE IInv'
  <2>1. /\ events' = Reported(cache)
        /\ listeners' = listeners + 1 /\ listeners < MaxStarts
        /\ hearing' = hearing + 1
        /\ shown' = TRUE
        /\ UNCHANGED <<posts, cache, asked, next, upto, rows, dealt, failures>>
    BY <1>5 DEF Start, firebase, loop
  <2>2. events' \in Seq(0..cache') /\ KnownOK' /\ OrderOK'
    <3>1. cache' \in Nat /\ cache <= cache' /\ (cache > 0 => cache' > 0)
          /\ upto' = upto /\ asked' = asked
      BY <1>0, <2>1
    <3> QED
      BY <1>0, <2>1, <3>1, ReportsKeepOrder
  <2>3. TypeOK'
    BY <1>0, <2>1, <2>2 DEF TypeOK
  <2>4. NewestOK'
    <3>1. CASE cache = 0
      BY <2>1, <3>1 DEF NewestOK
    <3>2. CASE cache # 0
      <4>1. /\ Len(events') = Len(events) + cache
            /\ \A i \in (Len(events) + 1)..(Len(events) + cache) : events'[i] = Child
        <5>1. cache \in Nat /\ events \in Seq(0..cache) /\ events' = Reported(cache)
          BY <1>0, <2>1
        <5> QED
          BY <5>1, QueueReported
      <4>2. Len(events) + 1 \in DOMAIN events' /\ events'[Len(events) + 1] = Child
        BY <1>0, <2>2, <3>2, <4>1
      <4> QED
        BY <4>2 DEF NewestOK
    <3> QED
      BY <3>1, <3>2
  <2> QED
    BY <1>0, <2>1, <2>2, <2>3, <2>4 DEF IInv, RowsDealt, LoopOK, HearingOK
<1>6. ASSUME Stop PROVE IInv'
  <2>1. TypeOK'
    BY <1>0, <1>6 DEF Stop, TypeOK, firebase, loop
  <2> QED
    BY <1>0, <1>6, <2>1
       DEF IInv, Stop, firebase, loop, RowsDealt, LoopOK, KnownOK, OrderOK, NewestOK, HearingOK
<1>7. ASSUME ChildAdded PROVE IInv'
  <2>1. /\ events # <<>> /\ events' = Tail(events) /\ Head(events) = Child
        /\ asked' = asked + 1
        /\ UNCHANGED <<posts, cache, shown, listeners, hearing, next, upto, rows, dealt, failures>>
    BY <1>7 DEF ChildAdded, loop
  <2>2. /\ events' \in Seq(0..cache)
        /\ Len(events') = Len(events) - 1
        /\ \A i \in 1..(Len(events) - 1) : events'[i] = events[i + 1]
    BY <1>0, <2>1, QueueTaken
  <2>3. TypeOK'
    BY <1>0, <2>1, <2>2 DEF TypeOK
  <2>4. KnownOK' /\ NewestOK'
    BY <1>0, <2>1 DEF KnownOK, NewestOK, TypeOK
  <2>5. OrderOK'
    <3> SUFFICES ASSUME NEW i \in DOMAIN events', events'[i] # Child
                 PROVE  /\ upto <= events'[i]
                        /\ \A j \in DOMAIN events' : i < j /\ events'[j] # Child
                                                        => events'[i] <= events'[j]
      BY <2>1 DEF OrderOK
    <3>0. DOMAIN events = 1..Len(events) /\ DOMAIN events' = 1..(Len(events) - 1)
          /\ Len(events) \in Nat
      BY <1>0, <2>2 DEF TypeOK
    <3>1. \A j \in DOMAIN events' : j + 1 \in DOMAIN events /\ events'[j] = events[j + 1]
      BY <2>2, <3>0
    <3>2. upto <= events'[i]
      BY <1>0, <3>1 DEF OrderOK
    <3>3. ASSUME NEW j \in DOMAIN events', i < j, events'[j] # Child
          PROVE  events'[i] <= events'[j]
      <4>1. i + 1 < j + 1
        BY <3>0, <3>3
      <4> QED
        BY <1>0, <3>1, <3>3, <4>1 DEF OrderOK
    <3> QED
      BY <3>2, <3>3
  <2> QED
    BY <1>0, <2>1, <2>3, <2>4, <2>5 DEF IInv, RowsDealt, LoopOK, HearingOK
<1>8. ASSUME DataChange PROVE IInv'
  <2>1. /\ events # <<>> /\ events' = Tail(events) /\ Head(events) # Child
        /\ next' = 1 /\ upto' = Head(events)
        /\ UNCHANGED <<posts, cache, asked, shown, listeners, hearing, rows, dealt, failures>>
    BY <1>8 DEF DataChange, firebase
  <2>2. /\ events' \in Seq(0..cache)
        /\ Len(events') = Len(events) - 1
        /\ \A i \in 1..(Len(events) - 1) : events'[i] = events[i + 1]
        /\ upto' = events[1] /\ upto' \in 0..cache
        /\ Len(events) \in Nat \ {0}
    BY <1>0, <2>1, QueueTaken
  <2>3. TypeOK'
    BY <1>0, <2>1, <2>2 DEF TypeOK
  <2>4. KnownOK' /\ LoopOK'
    BY <1>0, <2>1 DEF KnownOK, LoopOK, TypeOK
  <2>5. OrderOK'
    <3> SUFFICES ASSUME NEW i \in DOMAIN events', events'[i] # Child
                 PROVE  /\ upto' <= events'[i]
                        /\ \A j \in DOMAIN events' : i < j /\ events'[j] # Child
                                                        => events'[i] <= events'[j]
      BY DEF OrderOK
    <3>0. DOMAIN events = 1..Len(events) /\ DOMAIN events' = 1..(Len(events) - 1)
      BY <1>0, <2>2
    <3>1. i \in 1..(Len(events) - 1) /\ i + 1 \in DOMAIN events /\ 1 \in DOMAIN events
      BY <2>2, <3>0
    <3>2. events[1] <= events[i + 1]
      <4>1. events[1] # Child /\ events[i + 1] # Child /\ 1 < i + 1
        BY <2>1, <2>2, <3>1
      <4>2. OrderOK
        BY <1>0
      <4> QED
        BY <3>1, <4>1, <4>2 DEF OrderOK
    <3>3. ASSUME NEW j \in DOMAIN events', i < j, events'[j] # Child
          PROVE  events'[i] <= events'[j]
      <4>1. j + 1 \in DOMAIN events /\ events'[j] = events[j + 1]
            /\ events'[i] = events[i + 1] /\ i + 1 < j + 1
        BY <2>2, <3>0, <3>1, <3>3
      <4> QED
        BY <1>0, <3>1, <3>3, <4>1 DEF OrderOK
    <3> QED
      BY <2>2, <3>1, <3>2, <3>3
  <2>6. NewestOK'
    <3>1. ASSUME upto = cache PROVE upto' = cache
      BY <1>0, <2>1, <2>2, <3>1 DEF OrderOK
    <3>2. ASSUME NEW i \in DOMAIN events, events[i] \in {Child, cache}
          PROVE  \/ upto' = cache
                 \/ \E j \in DOMAIN events' : events'[j] \in {Child, cache}
      <4>1. CASE i = 1
        BY <2>1, <2>2, <3>2, <4>1
      <4>2. CASE i # 1
        <5>0. /\ DOMAIN events = 1..Len(events) /\ Len(events) \in Nat
              /\ DOMAIN events' = 1..(Len(events) - 1)
          BY <1>0, <2>2 DEF TypeOK
        <5>1. i - 1 \in 1..(Len(events) - 1) /\ (i - 1) + 1 = i
          BY <4>2, <5>0
        <5>2. i - 1 \in DOMAIN events' /\ events'[i - 1] = events[i]
          BY <2>2, <5>0, <5>1
        <5> QED
          BY <3>2, <5>2
      <4> QED
        BY <4>1, <4>2
    <3> QED
      BY <1>0, <2>1, <3>1, <3>2 DEF NewestOK
  <2> QED
    BY <1>0, <2>1, <2>3, <2>4, <2>5, <2>6 DEF IInv, RowsDealt, HearingOK
<1>9. ASSUME RowAdded PROVE IInv'
  <2>1. /\ next' = next + 1 /\ next <= upto
        /\ UNCHANGED <<posts, cache, asked, shown, listeners, hearing, events, upto, failures>>
    BY <1>0, <1>9 DEF RowAdded, firebase, Idle, TypeOK
  <2>2. /\ rows' \in Seq(1..cache) /\ dealt' \in Seq(1..cache)
        /\ RowsDealt'
        /\ rows' # <<>> /\ rows'[1] = next
    BY <1>0, <1>9, TurnDealsOn
  <2>3. TypeOK' /\ LoopOK'
    BY <1>0, <2>1, <2>2 DEF TypeOK, LoopOK
  <2> QED
    BY <1>0, <2>1, <2>2, <2>3 DEF IInv, KnownOK, OrderOK, NewestOK, HearingOK
<1>10. ASSUME ListenersCancelled PROVE IInv'
  <2>1. TypeOK' /\ failures' # 0
    BY <1>0, <1>10 DEF ListenersCancelled, TypeOK, firebase, loop
  <2> QED
    BY <1>0, <1>10, <2>1
       DEF IInv, ListenersCancelled, firebase, loop, RowsDealt, LoopOK, KnownOK, OrderOK,
           NewestOK, HearingOK
<1>11. ASSUME UNCHANGED vars PROVE IInv'
  BY <1>0, <1>11 DEF IInv, vars, loop, TypeOK, RowsDealt, LoopOK, KnownOK, OrderOK, NewestOK, HearingOK
<1> QED
  BY <1>1, <1>2, <1>3, <1>4, <1>5, <1>6, <1>7, <1>8, <1>9, <1>10, <1>11
     DEF Next, ClientStep, ScreenStep
-----------------------------------------------------------------------------
(* What follows.                                                           *)

\* The inductive invariant of the lists, from which the rest follows.
THEOREM Inductive == Spec => []IInv
  BY InitIInv, StepIInv, PTL DEF Spec

\* The types of TypeOK: no row shows a post that is not known.
THEOREM TypeCorrect == Spec => []TypeOK
<1>1. IInv => TypeOK
  BY DEF IInv
<1> QED
  BY <1>1, Inductive, PTL

\* RowsDealt: the order of the rows is the dealt order of the additions, whatever
\* was read, and however often.
THEOREM DealtAsCards == Spec => []RowsDealt
<1>1. IInv => RowsDealt
  BY DEF IInv
<1> QED
  BY <1>1, Inductive, PTL

\* NewestFirst: once nothing is on its way and nothing failed, the newest post is
\* the first row.
THEOREM NewestIsFirst == Spec => []NewestFirst
<1>1. IInv => NewestFirst
  <2> SUFFICES ASSUME IInv, Settled, failures = 0, posts > 0
               PROVE  rows # <<>> /\ rows[1] = posts
    BY DEF NewestFirst
  <2>1. /\ upto = posts
    BY DEF IInv, NewestOK, Settled
  <2>2. next = upto + 1 /\ upto \in Nat
    BY BoundsAssumption DEF IInv, TypeOK, Settled, Idle
  <2> QED
    BY <2>1, <2>2 DEF IInv, LoopOK
<1> QED
  BY <1>1, Inductive, PTL
-----------------------------------------------------------------------------
(* How often each post is shown.                                           *)

\* The events that will add p: a child makes a read, an answer holds p or not.
Adders(p) == {Child} \cup p..MaxPosts

Shows(p) == Cardinality(Spots(rows, {p}))
Waits(p) == Cardinality(Spots(events, Adders(p)))
Turns(p) == IF p \in next..upto THEN 1 ELSE 0

\* The rows that show p and the additions of it still to come.
Copying(p) == Shows(p) + Turns(p) + Waits(p) + asked

\* Every child reported to every listener adds p at most once ...
MostOK == \A p \in 1..MaxPosts : Copying(p) <= listeners * cache

\* ... and once for certain if it is p or a later one, unless something was cancelled.
LeastOK == failures = 0 => \A p \in 1..cache : Copying(p) >= listeners * (cache - p + 1)

CopyOK == MostOK /\ LeastOK

\* These are numbers.
LEMMA CopyingType ==
    ASSUME TypeOK, NEW p
    PROVE  /\ Shows(p) \in Nat /\ Waits(p) \in Nat /\ Turns(p) \in {0, 1}
           /\ asked \in Nat /\ Copying(p) \in Nat
<1>1. Shows(p) \in Nat
  <2>1. rows \in Seq(1..cache)
    BY DEF TypeOK
  <2> QED
    BY <2>1, SpotsFinite DEF Shows
<1>2. Waits(p) \in Nat
  <2>1. events \in Seq(0..cache)
    BY DEF TypeOK
  <2> QED
    BY <2>1, SpotsFinite DEF Waits
<1>3. Turns(p) \in {0, 1}
  BY DEF Turns
<1>4. asked \in Nat
  BY DEF TypeOK
<1> QED
  BY <1>1, <1>2, <1>3, <1>4 DEF Copying

\* New reports will each add p once.
LEMMA ReportsWait ==
    ASSUME TypeOK, NEW k \in Nat, NEW p, events' = Reported(k)
    PROVE  Waits(p)' = Waits(p) + k
<1> DEFINE T == 0..cache
           S == Adders(p)
           r == Reported(k)
<1>1. events \in Seq(0..cache) /\ cache \in Nat
  BY BoundsAssumption DEF TypeOK
<1>2. events \in Seq(T)
  BY <1>1
<1>3. r \in Seq(T)
  BY <1>1, QueueReported
<1>4. Len(r) = Len(events) + k
  BY <1>1, QueueReported
<1>5. \A i \in 1..Len(events) : r[i] = events[i]
  BY <1>1, QueueReported
<1>6. \A i \in (Len(events) + 1)..(Len(events) + k) : r[i] \in S
  BY <1>1, QueueReported DEF Adders
<1>7. Waits(p)' = Cardinality(Spots(r, S)) /\ Waits(p) = Cardinality(Spots(events, S))
  BY DEF Waits, Adders
<1> HIDE DEF T, S, r
<1>8. Cardinality(Spots(r, S)) = Cardinality(Spots(events, S)) + k
  BY <1>2, <1>3, <1>4, <1>5, <1>6, SpotsPut
<1> QED
  BY <1>7, <1>8

\* What a step does to the additions of p: a report adds to them, once for every
\* listener that hears on; a cancelled read and an answer without p take one away, and
\* nothing else changes their number.
LEMMA StepCopying ==
    ASSUME IInv, [Next]_vars, NEW p \in 1..MaxPosts
    PROVE  \/ /\ UNCHANGED <<listeners, cache, failures>>
              /\ Copying(p)' = Copying(p)
           \/ /\ UNCHANGED <<listeners, cache>>
              /\ \/ p > cache /\ failures' = failures
                 \/ failures' # 0
              /\ Copying(p)' \in {Copying(p) - 1, Copying(p)}
           \/ /\ UNCHANGED <<listeners, failures>>
              /\ cache' \in Nat /\ cache' > cache
              /\ \E h \in 0..listeners :
                    /\ failures = 0 => h = listeners
                    /\ Copying(p)' = Copying(p) + (cache' - cache) * h
           \/ /\ UNCHANGED <<cache, failures>>
              /\ listeners' = listeners + 1
              /\ Copying(p)' = Copying(p) + cache
<1> DEFINE Same == /\ UNCHANGED <<listeners, cache, failures>>
                   /\ Copying(p)' = Copying(p)
           Fewer == /\ UNCHANGED <<listeners, cache>>
                    /\ \/ p > cache /\ failures' = failures
                       \/ failures' # 0
                    /\ Copying(p)' \in {Copying(p) - 1, Copying(p)}
           Learnt == /\ UNCHANGED <<listeners, failures>>
                     /\ cache' \in Nat /\ cache' > cache
                     /\ \E h \in 0..listeners :
                           /\ failures = 0 => h = listeners
                           /\ Copying(p)' = Copying(p) + (cache' - cache) * h
           Heard == /\ UNCHANGED <<cache, failures>>
                    /\ listeners' = listeners + 1
                    /\ Copying(p)' = Copying(p) + cache
<1> SUFFICES Same \/ Fewer \/ Learnt \/ Heard
  OBVIOUS
<1> USE BoundsAssumption
<1>0. /\ TypeOK /\ KnownOK
      /\ posts \in 0..MaxPosts /\ cache \in 0..posts /\ cache \in Nat /\ p \in Nat
      /\ listeners \in Nat /\ failures \in Nat
      /\ hearing \in 0..listeners /\ (failures = 0 => hearing = listeners)
      /\ events \in Seq(0..cache) /\ rows \in Seq(1..cache)
      /\ upto \in 0..cache /\ next \in 1..(upto + 1)
  BY DEF IInv, TypeOK, HearingOK
<1>t. /\ Shows(p) \in Nat /\ Waits(p) \in Nat /\ Turns(p) \in {0, 1} /\ asked \in Nat
      /\ Copying(p) = Shows(p) + Turns(p) + Waits(p) + asked
      /\ Copying(p)' = Shows(p)' + Turns(p)' + Waits(p)' + asked'
  <2>1. /\ Shows(p) \in Nat /\ Waits(p) \in Nat /\ Turns(p) \in {0, 1} /\ asked \in Nat
    BY <1>0, CopyingType
  <2> QED
    BY <2>1 DEF Copying
<1>s. UNCHANGED rows => Shows(p)' = Shows(p)
  BY DEF Shows
<1>w. UNCHANGED events => Waits(p)' = Waits(p)
  BY DEF Waits, Adders
<1>l. UNCHANGED <<next, upto>> => Turns(p)' = Turns(p)
  BY DEF Turns
<1>1. ASSUME Publish PROVE Same
  <2>1. UNCHANGED <<cache, listeners, asked, events, next, upto, rows, failures>>
    BY <1>1 DEF Publish, loop
  <2> QED
    BY <2>1, <1>t, <1>s, <1>w, <1>l
<1>2. ASSUME Learn PROVE Learnt
  <2>1. PICK n \in (cache + 1)..posts :
           cache' = n /\ events' = Reported((n - cache) * hearing)
    BY <1>2 DEF Learn
  <2>2. UNCHANGED <<listeners, asked, next, upto, rows, failures>>
    BY <1>2 DEF Learn, loop
  <2> DEFINE k == (n - cache) * hearing
  <2>3. k \in Nat /\ n \in Nat /\ n > cache
    BY <1>0
  <2> HIDE DEF k
  <2>4. Waits(p)' = Waits(p) + k
    <3>1. events' = Reported(k)
      BY <2>1 DEF k
    <3> QED
      BY <1>0, <2>3, <3>1, ReportsWait
  <2>5. Copying(p)' = Copying(p) + k
    BY <1>t, <1>s, <1>l, <2>2, <2>3, <2>4
  <2> QED
    BY <1>0, <2>1, <2>2, <2>3, <2>5 DEF k
<1>3. ASSUME ReadServed PROVE Same \/ Fewer
  <2>1. /\ asked > 0 /\ asked' = asked - 1
        /\ events' = Append(events, cache)
        /\ UNCHANGED <<cache, listeners, next, upto, rows, failures>>
    BY <1>3 DEF ReadServed, loop
  <2>2. cache > 0
    BY <1>0, <2>1 DEF KnownOK
  <2>3. cache \in Adders(p) <=> p <= cache
    BY <1>0, <2>2 DEF Adders, Child
  <2>4. Waits(p)' = Waits(p) + (IF p <= cache THEN 1 ELSE 0)
    <3> DEFINE q == Append(events, cache)
    <3>1. cache \in 0..cache /\ events \in Seq(0..cache)
      BY <1>0
    <3>2. Cardinality(Spots(q, Adders(p)))
            = Cardinality(Spots(events, Adders(p))) + (IF cache \in Adders(p) THEN 1 ELSE 0)
      BY <3>1, SpotsAppended
    <3>3. events' = q
      BY <2>1
    <3> HIDE DEF q
    <3>4. Waits(p)' = Cardinality(Spots(q, Adders(p)))
      BY <3>3 DEF Waits, Adders
    <3>5. Waits(p) = Cardinality(Spots(events, Adders(p)))
      BY DEF Waits
    <3> QED
      BY <2>3, <3>2, <3>4, <3>5
  <2>s. asked' = asked - 1 /\ UNCHANGED <<cache, listeners, next, upto, rows, failures>>
    BY <2>1
  <2>5. CASE p <= cache
    <3>1. Waits(p)' = Waits(p) + 1
      BY <2>4, <2>5
    <3>2. Copying(p)' = Copying(p)
      BY <1>t, <1>s, <1>l, <2>s, <3>1
    <3> QED
      BY <2>s, <3>2
  <2>6. CASE p > cache
    <3>1. Waits(p)' = Waits(p)
      BY <1>0, <1>t, <2>4, <2>6
    <3>2. Copying(p)' = Copying(p) - 1
      BY <1>t, <1>s, <1>l, <2>s, <3>1
    <3> QED
      BY <2>s, <2>6, <3>2
  <2> QED
    BY <1>0, <2>5, <2>6
<1>4. ASSUME ReadCancelled PROVE Fewer
  <2>1. /\ asked > 0 /\ asked' = asked - 1 /\ failures' = failures + 1
        /\ UNCHANGED <<cache, listeners, events, next, upto, rows>>
    BY <1>4 DEF ReadCancelled, loop
  <2> QED
    BY <1>0, <1>t, <1>s, <1>w, <1>l, <2>1
<1>5. ASSUME Start PROVE Heard
  <2>1. /\ listeners' = listeners + 1 /\ events' = Reported(cache)
        /\ UNCHANGED <<cache, asked, next, upto, rows, failures>>
    BY <1>5 DEF Start, firebase, loop
  <2>2. Waits(p)' = Waits(p) + cache
    BY <1>0, <2>1, ReportsWait
  <2> QED
    BY <1>0, <1>t, <1>s, <1>l, <2>1, <2>2
<1>6. ASSUME Stop PROVE Same
  <2>1. UNCHANGED <<cache, listeners, asked, events, next, upto, rows, failures>>
    BY <1>6 DEF Stop, firebase, loop
  <2> QED
    BY <2>1, <1>t, <1>s, <1>w, <1>l
<1>7. ASSUME ChildAdded PROVE Same
  <2>1. /\ events # <<>> /\ events' = Tail(events) /\ Head(events) = Child
        /\ asked' = asked + 1
        /\ UNCHANGED <<cache, listeners, next, upto, rows, failures>>
    BY <1>7 DEF ChildAdded, loop
  <2>s. asked' = asked + 1 /\ UNCHANGED <<cache, listeners, next, upto, rows, failures>>
    BY <2>1
  <2>2. Waits(p)' = Waits(p) - 1
    <3>1. Head(events) \in Adders(p)
      BY <2>1 DEF Adders
    <3>2. Cardinality(Spots(Tail(events), Adders(p))) = Cardinality(Spots(events, Adders(p))) - 1
      BY <1>0, <2>1, <3>1, SpotsTaken
    <3> QED
      BY <2>1, <3>2 DEF Waits, Adders
  <2>3. Copying(p)' = Copying(p)
    BY <1>t, <1>s, <1>l, <2>s, <2>2
  <2> QED
    BY <2>s, <2>3
<1>8. ASSUME DataChange PROVE Same
  <2>1. /\ events # <<>> /\ events' = Tail(events) /\ Head(events) # Child
        /\ next' = 1 /\ upto' = Head(events) /\ Idle
        /\ UNCHANGED <<cache, asked, listeners, rows, failures>>
    BY <1>8 DEF DataChange, firebase
  <2>2. Head(events) \in 0..cache
    BY <1>0, <2>1, QueueTaken
  <2>3. Head(events) \in Adders(p) <=> p <= Head(events)
    BY <1>0, <2>1, <2>2 DEF Adders, Child
  <2>4. Waits(p)' = Waits(p) - (IF p <= Head(events) THEN 1 ELSE 0)
    <3>1. Cardinality(Spots(Tail(events), Adders(p)))
            = Cardinality(Spots(events, Adders(p))) - (IF Head(events) \in Adders(p) THEN 1 ELSE 0)
      BY <1>0, <2>1, SpotsTaken
    <3> QED
      BY <2>1, <2>3, <3>1 DEF Waits, Adders
  <2>5. Turns(p) = 0
    BY <1>0, <2>1 DEF Turns, Idle
  <2>6. Turns(p)' = IF p <= Head(events) THEN 1 ELSE 0
    BY <1>0, <2>1, <2>2 DEF Turns
  <2> QED
    BY <1>t, <1>s, <2>1, <2>4, <2>5, <2>6
<1>9. ASSUME RowAdded PROVE Same
  <2>1. /\ next' = next + 1 /\ next <= upto
        /\ rows' = Dealt(rows, next)
        /\ UNCHANGED <<cache, asked, listeners, events, upto, failures>>
    BY <1>0, <1>9 DEF RowAdded, firebase, Idle, Dealt
  <2>2. Shows(p)' = Shows(p) + (IF p = next THEN 1 ELSE 0)
    <3>1. next \in 1..cache
      BY <1>0, <2>1
    <3> DEFINE T == 1..cache
    <3>t. rows \in Seq(T) /\ next \in T
      BY <1>0, <3>1
    <3> HIDE DEF T
    <3>2. Cardinality(Spots(Dealt(rows, next), {p}))
            = Cardinality(Spots(rows, {p})) + (IF next \in {p} THEN 1 ELSE 0)
      BY <3>t, SpotsDealt
    <3> QED
      BY <2>1, <3>2 DEF Shows
  <2>3. Turns(p)' = Turns(p) - (IF p = next THEN 1 ELSE 0)
    BY <1>0, <2>1 DEF Turns
  <2> QED
    BY <1>t, <1>w, <2>1, <2>2, <2>3
<1>10. ASSUME ListenersCancelled PROVE Fewer
  <2>1. failures' = failures + 1 /\ UNCHANGED <<cache, listeners, asked, events, next, upto, rows>>
    BY <1>10 DEF ListenersCancelled, firebase, loop
  <2> QED
    BY <1>0, <1>t, <1>s, <1>w, <1>l, <2>1
<1>11. ASSUME UNCHANGED vars PROVE Same
  <2>1. UNCHANGED <<cache, listeners, asked, events, next, upto, rows, failures>>
    BY <1>11 DEF vars
  <2> QED
    BY <2>1, <1>t, <1>s, <1>w, <1>l
<1> HIDE DEF Same, Fewer, Learnt, Heard
<1> QED
  BY <1>1, <1>2, <1>3, <1>4, <1>5, <1>6, <1>7, <1>8, <1>9, <1>10, <1>11
     DEF Next, ClientStep, ScreenStep

\* The sums that a step makes.
LEMMA Times ==
    ASSUME NEW l \in Nat, NEW a \in Int, NEW b \in Int
    PROVE  /\ l * a \in Int /\ a * l = l * a
           /\ l * (a + b) = l * a + l * b
           /\ (l + 1) * a = l * a + a
           /\ a <= b => l * a <= l * b
OBVIOUS

\* Every step keeps the two bounds.
LEMMA StepCopyOK == IInv /\ CopyOK /\ [Next]_vars => CopyOK'
<1> SUFFICES ASSUME IInv, CopyOK, [Next]_vars PROVE CopyOK'
  OBVIOUS
<1>0. /\ TypeOK /\ cache \in Nat /\ listeners \in Nat /\ failures \in Nat
      /\ posts \in 0..MaxPosts /\ cache \in 0..MaxPosts
  BY BoundsAssumption DEF IInv, TypeOK
<1>1. \A p \in 1..MaxPosts : Copying(p) <= listeners * cache
  BY DEF CopyOK, MostOK
<1>2. failures = 0 => \A p \in 1..cache : Copying(p) >= listeners * (cache - p + 1)
  BY DEF CopyOK, LeastOK
<1>c. \A p \in 1..MaxPosts : Copying(p) \in Nat
  BY <1>0, CopyingType
<1>3. ASSUME NEW p \in 1..MaxPosts
      PROVE  /\ Copying(p)' <= listeners' * cache'
             /\ failures' = 0 /\ p <= cache' => Copying(p)' >= listeners' * (cache' - p + 1)
  <2>0. /\ Copying(p) \in Nat /\ p \in Nat /\ p >= 1 /\ Copying(p) <= listeners * cache
        /\ failures = 0 /\ p <= cache => Copying(p) >= listeners * (cache - p + 1)
    BY <1>0, <1>1, <1>2, <1>c, BoundsAssumption
  <2> DEFINE l == listeners
             c == cache
             N == cache'
             w == Copying(p)
             W == Copying(p)'
  <2>1. CASE UNCHANGED <<listeners, cache, failures>> /\ Copying(p)' = Copying(p)
    BY <2>0, <2>1
  <2>2. CASE /\ UNCHANGED <<listeners, cache>>
             /\ \/ p > cache /\ failures' = failures
                \/ failures' # 0
             /\ Copying(p)' \in {Copying(p) - 1, Copying(p)}
    <3>1. W <= l * c
      <4>1. l * c \in Int
        BY <1>0
      <4> QED
        BY <2>0, <2>2, <4>1
    <3>2. ~(failures' = 0 /\ p <= cache')
      BY <1>0, <2>0, <2>2
    <3> QED
      BY <2>2, <3>1, <3>2
  <2>3. CASE /\ UNCHANGED <<listeners, failures>>
             /\ cache' \in Nat /\ cache' > cache
             /\ \E h \in 0..listeners :
                   /\ failures = 0 => h = listeners
                   /\ Copying(p)' = Copying(p) + (cache' - cache) * h
    <3>h. PICK h \in 0..listeners :
             /\ failures = 0 => h = listeners
             /\ Copying(p)' = Copying(p) + (cache' - cache) * h
      BY <2>3
    <3>1. /\ l \in Nat /\ c \in Nat /\ N \in Nat /\ N - c \in Nat /\ c - p + 1 \in Int
          /\ w \in Nat /\ p \in Int /\ c < N /\ h \in Nat /\ h <= l
      <4>1. cache' \in Nat /\ cache' > cache
        BY <2>3, Zenon
      <4>2. Copying(p) \in Nat /\ p \in Nat
        BY <2>0
      <4>3. cache \in Nat /\ listeners \in Nat
        BY <1>0
      <4>4. h \in Nat /\ h <= listeners
        BY <4>3
      <4>5. l \in Nat /\ c \in Nat /\ N \in Nat /\ c < N
        BY <4>1, <4>3
      <4>6. c - p + 1 \in Int /\ p \in Int
        BY <4>2, <4>3
      <4>7. w \in Nat
        BY <4>2
      <4>8. N - c \in Nat
        <5> HIDE DEF l, c, N, w, W
        <5> QED
          BY <4>5
      <4> QED
        BY <4>4, <4>5, <4>6, <4>7, <4>8
    <3>w. W = w + (N - c) * h /\ (failures' = 0 => h = l)
      BY <2>3, <3>h
    <3> HIDE DEF l, c, N, w, W
    <3>2. /\ (N - c) * l = l * (N - c) /\ l * (N - c) \in Int /\ l * c \in Int
          /\ l * N = l * c + l * (N - c)
          /\ (N - c) * h \in Int /\ (N - c) * h <= (N - c) * l
      <4>1. c + (N - c) = N
        BY <3>1
      <4>2. l * (c + (N - c)) = l * c + l * (N - c)
        BY <3>1, Times
      <4>3. (N - c) * l = l * (N - c) /\ l * (N - c) \in Int /\ l * c \in Int
        BY <3>1, Times
      <4>4. (N - c) * h \in Int /\ (N - c) * h <= (N - c) * l
        BY <3>1, Times
      <4> QED
        BY <4>1, <4>2, <4>3, <4>4
    <3>3. W <= l * N
      <4>1. w <= l * c
        BY <2>0 DEF w, l, c
      <4> QED
        BY <3>1, <3>w, <3>2, <4>1
    <3>4. ASSUME failures' = 0, p <= N PROVE W >= l * (N - p + 1)
      <4>0. N - p + 1 \in Int /\ l * (N - p + 1) \in Int
        BY <3>1, Times
      <4>w. W = w + (N - c) * l
        BY <3>w, <3>4
      <4>1. CASE p <= c
        <5>1. w >= l * (c - p + 1) /\ l * (c - p + 1) \in Int
          BY <2>0, <2>3, <3>1, <3>4, <4>1, Times DEF w, l, c
        <5>2. (c - p + 1) + (N - c) = N - p + 1
          BY <3>1
        <5>3. l * ((c - p + 1) + (N - c)) = l * (c - p + 1) + l * (N - c)
          BY <3>1, Times
        <5>4. l * (N - p + 1) = l * (c - p + 1) + l * (N - c)
          BY <5>2, <5>3
        <5> QED
          BY <3>1, <4>w, <3>2, <4>0, <5>1, <5>4
      <4>2. CASE p > c
        <5>1. N - p + 1 <= N - c
          BY <3>1, <4>2
        <5>2. l * (N - p + 1) <= l * (N - c)
          BY <3>1, <4>0, <5>1, Times
        <5> QED
          BY <3>1, <4>w, <3>2, <4>0, <5>2
      <4> QED
        BY <3>1, <4>1, <4>2
    <3> QED
      BY <2>3, <3>3, <3>4 DEF l, N, W
  <2>4. CASE /\ UNCHANGED <<cache, failures>>
             /\ listeners' = listeners + 1
             /\ Copying(p)' = Copying(p) + cache
    <3>1. /\ l \in Nat /\ c \in Nat /\ c - p + 1 \in Int /\ w \in Nat /\ W = w + c
          /\ c - p + 1 <= c
      BY <1>0, <2>0, <2>4
    <3>2. (l + 1) * c = l * c + c /\ l * c \in Int
      BY <3>1, Times
    <3>3. (l + 1) * (c - p + 1) = l * (c - p + 1) + (c - p + 1) /\ l * (c - p + 1) \in Int
      BY <3>1, Times
    <3>4. W <= (l + 1) * c
      BY <2>0, <3>1, <3>2
    <3>5. ASSUME failures' = 0, p <= c PROVE W >= (l + 1) * (c - p + 1)
      <4>1. w >= l * (c - p + 1)
        BY <2>0, <2>4, <3>5
      <4> QED
        BY <3>1, <3>3, <4>1
    <3> QED
      BY <2>4, <3>4, <3>5
  <2> QED
    BY <2>1, <2>2, <2>3, <2>4, StepCopying
<1>4. MostOK'
  BY <1>3 DEF MostOK
<1>5. LeastOK'
  <2>1. cache' \in 0..MaxPosts
    <3>1. TypeOK'
      BY StepIInv DEF IInv
    <3> QED
      BY <3>1, BoundsAssumption DEF TypeOK
  <2>2. \A p \in 1..cache' : p \in 1..MaxPosts /\ p <= cache'
    BY <2>1, BoundsAssumption
  <2> QED
    BY <1>3, <2>2 DEF LeastOK
<1> QED
  BY <1>4, <1>5 DEF CopyOK

\* Before the screen is opened nothing is added.
LEMMA InitCopyOK == Init => CopyOK
<1> SUFFICES ASSUME Init PROVE CopyOK
  OBVIOUS
<1>1. \A p \in Nat \ {0} : Shows(p) = 0 /\ Waits(p) = 0 /\ Turns(p) = 0
  <2>1. rows = <<>> /\ events = <<>> /\ next = 1 /\ upto = 0
    BY DEF Init
  <2>2. \A S : Spots(<<>>, S) = {}
    BY DEF Spots
  <2>3. Cardinality({}) = 0
    BY FS_EmptySet
  <2>4. ASSUME NEW p \in Nat \ {0} PROVE Shows(p) = 0 /\ Waits(p) = 0 /\ Turns(p) = 0
    <3>1. Spots(rows, {p}) = {} /\ Spots(events, Adders(p)) = {}
      BY <2>1, <2>2
    <3>2. p \notin next..upto
      BY <2>1
    <3> QED
      BY <2>3, <3>1, <3>2 DEF Shows, Waits, Turns
  <2> QED
    BY <2>4
<1>2. \A p \in Nat \ {0} : Copying(p) = 0
  BY <1>1 DEF Copying, Init
<1>3. listeners = 0 /\ cache \in Nat
  BY BoundsAssumption DEF Init
<1>4. \A p \in 1..MaxPosts : p \in Nat \ {0}
  BY BoundsAssumption
<1>5. \A p \in 1..cache : p \in Nat \ {0}
  BY <1>3
<1>6. \A x \in Int : listeners * x = 0
  BY <1>3
<1>7. MostOK
  BY <1>2, <1>3, <1>4, <1>6 DEF MostOK
<1>8. LeastOK
  BY <1>2, <1>3, <1>5, <1>6 DEF LeastOK
<1> QED
  BY <1>7, <1>8 DEF CopyOK

\* CopiesPerPost: the rows of a post are no more than its additions done and to come,
\* and just as many once nothing is on its way, however often reads overlapped.
THEOREM CopiesCounted == Spec => []CopiesPerPost
<1>1. IInv /\ CopyOK => CopiesPerPost
  <2> SUFFICES ASSUME IInv, CopyOK, NEW p \in 1..posts
               PROVE  /\ Cardinality(Copies(p)) <= listeners * cache
                      /\ Settled /\ failures = 0 =>
                           Cardinality(Copies(p)) >= listeners * (posts - p + 1)
    BY DEF CopiesPerPost
  <2>1. posts \in 0..MaxPosts /\ p \in 1..MaxPosts /\ upto \in Int /\ next \in Int /\ TypeOK
    BY BoundsAssumption DEF IInv, TypeOK
  <2>2. Shows(p) = Cardinality(Copies(p))
    BY DEF Shows, Spots, Copies
  <2>3. /\ Shows(p) \in Nat /\ Waits(p) \in Nat /\ Turns(p) \in {0, 1} /\ asked \in Nat
        /\ Copying(p) = Shows(p) + Turns(p) + Waits(p) + asked
    <3>1. Shows(p) \in Nat /\ Waits(p) \in Nat /\ Turns(p) \in {0, 1} /\ asked \in Nat
      BY <2>1, CopyingType
    <3> QED
      BY <3>1 DEF Copying
  <2>4. Cardinality(Copies(p)) <= listeners * cache
    <3> DEFINE most == listeners * cache
    <3>1. most \in Int /\ Copying(p) <= most
      BY <2>1 DEF CopyOK, MostOK, TypeOK
    <3> HIDE DEF most
    <3>2. Shows(p) <= most
      BY <2>3, <3>1
    <3> QED
      BY <2>2, <3>2 DEF most
  <2>5. ASSUME Settled, failures = 0
        PROVE  Cardinality(Copies(p)) >= listeners * (posts - p + 1)
    <3>1. /\ cache = posts /\ asked = 0 /\ events = <<>> /\ next > upto
      BY <2>5 DEF Settled, Idle
    <3>2. Turns(p) = 0
      BY <2>1, <3>1 DEF Turns
    <3>3. Waits(p) = 0
      <4>1. Spots(events, Adders(p)) = {}
        BY <3>1 DEF Spots
      <4> QED
        BY <4>1, FS_EmptySet DEF Waits
    <3>4. Copying(p) = Cardinality(Copies(p))
      BY <2>2, <2>3, <3>1, <3>2, <3>3
    <3> QED
      BY <2>5, <3>1, <3>4 DEF CopyOK, LeastOK
  <2> QED
    BY <2>4, <2>5
<1>2. IInv /\ CopyOK /\ [Next]_vars => IInv' /\ CopyOK'
  BY StepIInv, StepCopyOK
<1>3. Spec => [](IInv /\ CopyOK)
  BY InitIInv, InitCopyOK, <1>2, PTL DEF Spec
<1> QED
  BY <1>1, <1>3, PTL
=============================================================================
