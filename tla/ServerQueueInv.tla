---------------------------- MODULE ServerQueueInv ---------------------------
(***************************************************************************)
(* The inductive invariant of the server's queues, and the steps of the    *)
(* main loop, which keep it.                                               *)
(*                                                                         *)
(* It says where a task may be (Placed) and which of its results there may *)
(* be (Answered).  A step moves tasks from place to place, without a       *)
(* result (MovedKeeps) or with one (SendKeeps); what remove_if leaves of a *)
(* queue is a part of it, in order.                                        *)
(***************************************************************************)
EXTENDS ServerQueue, FiniteSetTheorems, WellFoundedInduction, TLAPS

-----------------------------------------------------------------------------
(* Numbers                                                                  *)

\* A non-empty set of natural numbers has a least element.  Induction over a queue is
\* done with it: a least counterexample is refuted.
LEMMA LeastNumber ==
  ASSUME NEW T \in SUBSET Nat, T # {}
  PROVE  \E n \in T : \A m \in T : n <= m
<1> DEFINE R == OpToRel(<, Nat)
<1>1. \A m, n \in Nat : m < n => <<m, n>> \in R
  BY DEF OpToRel
<1>2. PICK n \in T : \A m \in T : ~ (<<m, n>> \in R)
  BY NatLessThanWellFounded, WFMin, Zenon
<1> HIDE DEF R
<1>3. \A m \in T : ~ (m < n)
  BY <1>1, <1>2, Zenon
<1> QED BY <1>3

-----------------------------------------------------------------------------
(* Queues                                                                   *)

\* how the elements in H are in a queue: at all, once, after all in A
Has(q, H)      == \E k \in DOMAIN q : q[k] \in H
Once(q, H)     == \A j, k \in DOMAIN q : q[j] \in H /\ q[k] \in H => j = k
After(q, A, H) == \A j, k \in DOMAIN q : q[j] \in A /\ q[k] \in H => j <= k

\* r consists of the elements of q at the indices in K, or of some of them, in order
Part(r, q, K) ==
  \E e \in [DOMAIN r -> K] : /\ \A i \in DOMAIN r : r[i] = q[e[i]]
                             /\ \A i, j \in DOMAIN r : i < j => e[i] < e[j]

\* What remains of a queue is in it once, or at the end, if it was.
LEMMA PartKeeps ==
  ASSUME NEW X, NEW q \in Seq(X), NEW r \in Seq(X), NEW K \in SUBSET DOMAIN q, Part(r, q, K)
  PROVE  /\ \A H : Has(r, H) => \E k \in K : q[k] \in H
         /\ \A H : Once(q, H) => Once(r, H)
         /\ \A A, H : After(q, A, H) => After(r, A, H)
<1>1. PICK e \in [DOMAIN r -> K] : /\ \A i \in DOMAIN r : r[i] = q[e[i]]
                                   /\ \A i, j \in DOMAIN r : i < j => e[i] < e[j]
  BY Zenon DEF Part
<1>2. \A i \in DOMAIN r : i \in Nat /\ e[i] \in Nat /\ e[i] \in DOMAIN q /\ e[i] \in K
  OBVIOUS
<1>3. ASSUME NEW H, Has(r, H) PROVE \E k \in K : q[k] \in H
  BY <1>1, <1>2, <1>3 DEF Has
<1>4. ASSUME NEW H, Once(q, H), NEW i \in DOMAIN r, NEW j \in DOMAIN r, r[i] \in H, r[j] \in H
      PROVE  i = j
  <2>1. e[i] = e[j]
    BY <1>1, <1>2, <1>4 DEF Once
  <2>2. ~ (i < j) /\ ~ (j < i)
    BY <1>1, <1>2, <2>1
  <2> QED BY <1>2, <2>2
<1>5. ASSUME NEW A, NEW H, After(q, A, H), NEW i \in DOMAIN r, NEW j \in DOMAIN r,
             r[i] \in A, r[j] \in H
      PROVE  i <= j
  <2>1. e[i] <= e[j]
    BY <1>1, <1>2, <1>5 DEF After
  <2>2. ~ (j < i)
    BY <1>1, <1>2, <2>1
  <2> QED BY <1>2, <2>2
<1> QED BY <1>3, <1>4, <1>5 DEF Once, After

\* The rest of a queue after its first element.
LEMMA TailPart ==
  ASSUME NEW X, NEW q \in Seq(X), q # <<>>
  PROVE  Tail(q) \in Seq(X) /\ Part(Tail(q), q, DOMAIN q \ {1})
<1>1. /\ Tail(q) \in Seq(X) /\ Len(Tail(q)) = Len(q) - 1
      /\ \A i \in 1 .. Len(q) - 1 : Tail(q)[i] = q[i + 1]
  OBVIOUS
<1> DEFINE e == [i \in DOMAIN Tail(q) |-> i + 1]
<1>2. e \in [DOMAIN Tail(q) -> DOMAIN q \ {1}]
  BY <1>1
<1>3. /\ \A i \in DOMAIN Tail(q) : Tail(q)[i] = q[e[i]]
      /\ \A i, j \in DOMAIN Tail(q) : i < j => e[i] < e[j]
  BY <1>1
<1> HIDE DEF e
<1> QED BY <1>1, <1>2, <1>3 DEF Part

\* The second of two queues that are joined comes after the first.
LEMMA JoinedAt ==
  ASSUME NEW X, NEW p \in Seq(X), NEW q \in Seq(X), NEW i \in 1 .. Len(q)
  PROVE  (p \o q)[i + Len(p)] = q[i]
  OBVIOUS

\* A queue without its k-th element.
LEMMA ErasePart ==
  ASSUME NEW X, NEW q \in Seq(X), NEW k \in DOMAIN q
  PROVE  Erase(q, k) \in Seq(X) /\ Part(Erase(q, k), q, DOMAIN q \ {k})
<1> DEFINE r == Erase(q, k)
           e == [i \in 1 .. Len(q) - 1 |-> IF i < k THEN i ELSE i + 1]
<1>0. k \in 1 .. Len(q) /\ Len(q) \in Nat
  OBVIOUS
<1>1. /\ SubSeq(q, 1, k - 1) \in Seq(X) /\ Len(SubSeq(q, 1, k - 1)) = k - 1
      /\ \A i \in 1 .. k - 1 : SubSeq(q, 1, k - 1)[i] = q[i]
  BY <1>0
<1>2. /\ SubSeq(q, k + 1, Len(q)) \in Seq(X) /\ Len(SubSeq(q, k + 1, Len(q))) = Len(q) - k
      /\ \A i \in 1 .. Len(q) - k : SubSeq(q, k + 1, Len(q))[i] = q[k + i]
  BY <1>0
<1>3. /\ r \in Seq(X) /\ Len(r) = Len(q) - 1
      /\ \A i \in 1 .. k - 1 : r[i] = q[i]
      /\ \A i \in k .. Len(q) - 1 : r[i] = q[i + 1]
  <2> DEFINE a == SubSeq(q, 1, k - 1)
             b == SubSeq(q, k + 1, Len(q))
  <2>1. r = a \o b
    BY DEF Erase
  <2> HIDE DEF a, b, r
  <2>2. /\ a \in Seq(X) /\ Len(a) = k - 1 /\ b \in Seq(X) /\ Len(b) = Len(q) - k
    BY <1>1, <1>2 DEF a, b
  <2>3. r \in Seq(X) /\ Len(r) = Len(q) - 1
    BY <1>0, <2>1, <2>2
  <2>4. ASSUME NEW i \in 1 .. k - 1 PROVE r[i] = q[i]
    <3>1. r[i] = a[i]
      BY <1>0, <2>1, <2>2
    <3> QED BY <1>1, <3>1 DEF a
  <2>5. ASSUME NEW i \in k .. Len(q) - 1 PROVE r[i] = q[i + 1]
    <3>1. PICK j \in 1 .. Len(q) - k : i = j + (k - 1) /\ i + 1 = k + j
      <4>1. i - (k - 1) \in 1 .. Len(q) - k /\ i = (i - (k - 1)) + (k - 1) /\ i + 1 = k + (i - (k - 1))
        BY <1>0
      <4> QED BY <4>1
    <3>2. (a \o b)[j + Len(a)] = b[j]
      <4>1. j \in 1 .. Len(b)
        BY <2>2
      <4> QED BY <2>2, <4>1, JoinedAt, Zenon
    <3>3. b[j] = q[k + j]
      BY <1>2, <3>1, Zenon DEF b
    <3> QED BY <2>1, <2>2, <3>1, <3>2, <3>3
  <2> QED BY <2>3, <2>4, <2>5
<1>4. /\ e \in [DOMAIN r -> DOMAIN q \ {k}]
      /\ \A i \in DOMAIN r : r[i] = q[e[i]]
      /\ \A i, j \in DOMAIN r : i < j => e[i] < e[j]
  <2> HIDE DEF r
  <2>1. DOMAIN r = 1 .. Len(q) - 1 /\ DOMAIN q = 1 .. Len(q)
    BY <1>3
  <2>2. \A i \in 1 .. Len(q) - 1 : e[i] = IF i < k THEN i ELSE i + 1
    OBVIOUS
  <2>3. e \in [DOMAIN r -> DOMAIN q \ {k}]
    BY <1>0, <2>1
  <2> HIDE DEF e
  <2>4. ASSUME NEW i \in DOMAIN r PROVE r[i] = q[e[i]]
    <3>1. CASE i < k
      BY <1>0, <1>3, <2>1, <2>2, <3>1
    <3>2. CASE ~ (i < k)
      BY <1>0, <1>3, <2>1, <2>2, <3>2
    <3> QED BY <3>1, <3>2
  <2>5. \A i, j \in DOMAIN r : i < j => e[i] < e[j]
    BY <1>0, <2>1, <2>2
  <2> QED BY <2>3, <2>4, <2>5
<1> HIDE DEF e, r
<1>5. Part(r, q, DOMAIN q \ {k})
  BY <1>4 DEF Part
<1> QED BY <1>3, <1>5 DEF r


\* Two queues in one: post() at either end.
LEMMA Joined ==
  ASSUME NEW X, NEW p \in Seq(X), NEW q \in Seq(X)
  PROVE  /\ p \o q \in Seq(X)
         /\ \A H : Has(p \o q, H) <=> Has(p, H) \/ Has(q, H)
         /\ \A H : Once(p, H) /\ Once(q, H) /\ ~ (Has(p, H) /\ Has(q, H)) => Once(p \o q, H)
         /\ \A A, H : After(p, A, H) /\ After(q, A, H) /\ ~ (Has(p, H) /\ Has(q, A))
                        => After(p \o q, A, H)
<1> DEFINE r == p \o q
           n == Len(p)
<1>1. /\ r \in Seq(X) /\ Len(r) = n + Len(q) /\ n \in Nat /\ Len(q) \in Nat
      /\ \A i \in 1 .. n : r[i] = p[i]
      /\ \A i \in n + 1 .. n + Len(q) : r[i] = q[i - n]
      /\ DOMAIN p = 1 .. n /\ DOMAIN q = 1 .. Len(q) /\ DOMAIN r = 1 .. n + Len(q)
  OBVIOUS
<1> HIDE DEF r, n
<1>2. ASSUME NEW i \in DOMAIN r
      PROVE  \/ i \in DOMAIN p /\ r[i] = p[i] /\ i <= n
             \/ i - n \in DOMAIN q /\ r[i] = q[i - n] /\ n < i
  <2>1. i \in 1 .. n + Len(q) /\ n \in Nat /\ Len(q) \in Nat
    BY <1>1
  <2>2. CASE i <= n
    BY <1>1, <2>1, <2>2
  <2>3. CASE n < i
    <3>1. i \in n + 1 .. n + Len(q) /\ i - n \in 1 .. Len(q)
      BY <2>1, <2>3
    <3> QED BY <1>1, <2>3, <3>1
  <2> QED BY <2>1, <2>2, <2>3
<1>3. ASSUME NEW i \in DOMAIN q PROVE i + n \in DOMAIN r /\ r[i + n] = q[i]
  BY <1>1
<1>4. ASSUME NEW i \in DOMAIN p PROVE i \in DOMAIN r /\ r[i] = p[i]
  BY <1>1
<1>5. ASSUME NEW H PROVE Has(r, H) <=> Has(p, H) \/ Has(q, H)
  BY <1>2, <1>3, <1>4 DEF Has
<1>6. ASSUME NEW H, Once(p, H), Once(q, H), ~ (Has(p, H) /\ Has(q, H)),
             NEW i \in DOMAIN r, NEW j \in DOMAIN r, r[i] \in H, r[j] \in H
      PROVE  i = j
  <2>1. i \in Nat /\ j \in Nat /\ n \in Nat
    BY <1>1
  <2>2. CASE i <= n
    <3>1. p[i] \in H /\ i \in DOMAIN p
      BY <1>2, <1>6, <2>1, <2>2
    <3>2. p[j] \in H /\ j \in DOMAIN p
      BY <1>2, <1>6, <3>1 DEF Has
    <3> QED BY <1>6, <3>1, <3>2 DEF Once
  <2>3. CASE n < i
    <3>1. q[i - n] \in H /\ i - n \in DOMAIN q
      BY <1>2, <1>6, <2>1, <2>3
    <3>2. q[j - n] \in H /\ j - n \in DOMAIN q
      BY <1>2, <1>6, <3>1 DEF Has
    <3>3. i - n = j - n
      BY <1>6, <3>1, <3>2 DEF Once
    <3> QED BY <2>1, <3>3
  <2> QED BY <2>1, <2>2, <2>3
<1>7. ASSUME NEW A, NEW H, After(p, A, H), After(q, A, H), ~ (Has(p, H) /\ Has(q, A)),
             NEW i \in DOMAIN r, NEW j \in DOMAIN r, r[i] \in A, r[j] \in H
      PROVE  i <= j
  <2>1. i \in Nat /\ j \in Nat /\ n \in Nat
    BY <1>1
  <2>2. CASE i <= n /\ j <= n
    <3>1. p[i] \in A /\ i \in DOMAIN p /\ p[j] \in H /\ j \in DOMAIN p
      BY <1>2, <1>7, <2>1, <2>2
    <3> QED BY <1>7, <3>1 DEF After
  <2>3. CASE n < i /\ n < j
    <3>1. q[i - n] \in A /\ i - n \in DOMAIN q /\ q[j - n] \in H /\ j - n \in DOMAIN q
      BY <1>2, <1>7, <2>1, <2>3
    <3>2. i - n <= j - n
      BY <1>7, <3>1 DEF After
    <3> QED BY <2>1, <3>2
  <2>4. CASE n < i /\ j <= n
    <3>1. q[i - n] \in A /\ i - n \in DOMAIN q /\ p[j] \in H /\ j \in DOMAIN p
      BY <1>2, <1>7, <2>1, <2>4, SMTT(30)
    <3> QED BY <1>7, <3>1 DEF Has
  <2> QED BY <2>1, <2>2, <2>3, <2>4
<1>8. /\ \A H : Once(p, H) /\ Once(q, H) /\ ~ (Has(p, H) /\ Has(q, H)) => Once(r, H)
      /\ \A A, H : After(p, A, H) /\ After(q, A, H) /\ ~ (Has(p, H) /\ Has(q, A))
                     => After(r, A, H)
  BY <1>6, <1>7, ZenonT(30) DEF Once, After
<1> QED BY <1>1, <1>5, <1>8 DEF r

\* A queue with one element.
LEMMA Single ==
  ASSUME NEW X, NEW e \in X
  PROVE  /\ <<e>> \in Seq(X)
         /\ \A H : (Has(<<e>>, H) <=> e \in H) /\ Once(<<e>>, H)
         /\ \A A, H : After(<<e>>, A, H)
<1>1. DOMAIN <<e>> = {1} /\ <<e>>[1] = e /\ <<e>> \in Seq(X)
  OBVIOUS
<1> QED BY <1>1 DEF Has, Once, After

\* push_back
LEMMA Appended ==
  ASSUME NEW X, NEW q \in Seq(X), NEW e \in X
  PROVE  /\ Append(q, e) \in Seq(X)
         /\ \A H : Has(Append(q, e), H) <=> Has(q, H) \/ e \in H
         /\ \A H : Once(q, H) /\ ~ (Has(q, H) /\ e \in H) => Once(Append(q, e), H)
         /\ \A A, H : After(q, A, H) /\ ~ (Has(q, H) /\ e \in A) => After(Append(q, e), A, H)
<1>1. Append(q, e) = q \o <<e>>
  OBVIOUS
<1>2. <<e>> \in Seq(X)
  OBVIOUS
<1> HIDE <1>1
<1>3. /\ q \o <<e>> \in Seq(X)
      /\ \A H : Has(q \o <<e>>, H) <=> Has(q, H) \/ Has(<<e>>, H)
      /\ \A H : Once(q, H) /\ Once(<<e>>, H) /\ ~ (Has(q, H) /\ Has(<<e>>, H)) => Once(q \o <<e>>, H)
      /\ \A A, H : After(q, A, H) /\ After(<<e>>, A, H) /\ ~ (Has(q, H) /\ Has(<<e>>, A))
                     => After(q \o <<e>>, A, H)
  BY <1>2, Joined, Zenon
<1>4. /\ \A H : (Has(<<e>>, H) <=> e \in H) /\ Once(<<e>>, H)
      /\ \A A, H : After(<<e>>, A, H)
  BY Single, Zenon
<1> QED BY <1>1, <1>3, <1>4, Zenon

\* What the loop of remove_if has kept of the first n elements.
Kept(g, q, gone, n) ==
  g = [k \in 0 .. n |-> IF k = 0 THEN <<>>
                        ELSE IF q[k] \in gone THEN g[k - 1] ELSE Append(g[k - 1], q[k])]

\* The loop keeps something, however long the queue.
LEMMA KeptExists ==
  ASSUME NEW q, NEW gone, NEW N \in Nat
  PROVE  \E g : Kept(g, q, gone, N)
<1> DEFINE Bad == {n \in Nat : ~ \E g : Kept(g, q, gone, n)}
<1> SUFFICES Bad = {}
  OBVIOUS
<1> SUFFICES ASSUME Bad # {} PROVE FALSE
  OBVIOUS
<1>1. Bad \in SUBSET Nat
  OBVIOUS
<1> HIDE DEF Bad
<1>2. PICK n \in Bad : \A m \in Bad : n <= m
  BY <1>1, LeastNumber, Zenon
<1>3. n \in Nat /\ ~ \E g : Kept(g, q, gone, n)
  BY <1>1, <1>2 DEF Bad
<1>4. CASE n = 0
  <2> DEFINE g == [k \in 0 .. 0 |-> <<>>]
  <2>1. \A k \in 0 .. 0 : k = 0
    OBVIOUS
  <2>2. Kept(g, q, gone, 0)
    BY <2>1 DEF Kept
  <2> QED BY <1>3, <1>4, <2>2
<1>5. CASE n # 0
  <2>1. n - 1 \in Nat /\ n - 1 \notin Bad
    BY <1>2, <1>3, <1>5
  <2>2. PICK g : Kept(g, q, gone, n - 1)
    BY <2>1 DEF Bad
  <2> DEFINE step(h, k) == IF k = 0 THEN <<>>
                           ELSE IF q[k] \in gone THEN h[k - 1] ELSE Append(h[k - 1], q[k])
             f == [k \in 0 .. n |-> IF k = n THEN step(g, n) ELSE g[k]]
  <2>3. \A k \in 0 .. n - 1 : g[k] = step(g, k)
    BY <2>2, Zenon DEF Kept
  <2>4. \A k \in 0 .. n : k # 0 => k - 1 \in 0 .. n /\ k - 1 # n
    BY <1>3
  <2>5. \A k \in 0 .. n : k # n => k \in 0 .. n - 1
    BY <1>3
  <2>6. ASSUME NEW k \in 0 .. n PROVE f[k] = step(f, k)
    <3>1. k # 0 => f[k - 1] = g[k - 1]
      BY <2>4
    <3>2. step(f, k) = step(g, k)
      BY <3>1
    <3>3. f[k] = step(g, k)
      BY <2>3, <2>5
    <3> QED BY <3>2, <3>3
  <2>7. f = [k \in 0 .. n |-> step(f, k)]
    <3> HIDE DEF step
    <3>1. f = [k \in 0 .. n |-> f[k]]
      OBVIOUS
    <3> HIDE DEF f
    <3> QED BY <2>6, <3>1, Zenon
  <2>8. Kept(f, q, gone, n)
    <3> HIDE DEF f
    <3> QED BY <2>7, Zenon DEF Kept
  <2> QED BY <1>3, <2>8
<1> QED BY <1>4, <1>5

\* remove_if keeps the elements that are not `gone', in order.
LEMMA RemoveIfPart ==
  ASSUME NEW X, NEW q \in Seq(X), NEW gone
  PROVE  /\ RemoveIf(q, gone) \in Seq(X)
         /\ Part(RemoveIf(q, gone), q, {k \in DOMAIN q : q[k] \notin gone})
<1> DEFINE K(n) == {k \in 1 .. n : q[k] \notin gone}
           g    == CHOOSE f : Kept(f, q, gone, Len(q))
           Bad  == {n \in 0 .. Len(q) : ~ (g[n] \in Seq(X) /\ Part(g[n], q, K(n)))}
<1>1. Len(q) \in Nat /\ DOMAIN q = 1 .. Len(q) /\ \A k \in 1 .. Len(q) : q[k] \in X
  OBVIOUS
<1>2. RemoveIf(q, gone) = g[Len(q)]
  BY DEF RemoveIf, Kept
<1>3. Kept(g, q, gone, Len(q))
  <2>1. \E f : Kept(f, q, gone, Len(q))
    BY <1>1, KeptExists, Zenon
  <2> QED BY <2>1, Zenon
<1> HIDE DEF g
<1>4. g[0] = <<>> /\ \A k \in 1 .. Len(q) : g[k] = IF q[k] \in gone THEN g[k - 1]
                                                   ELSE Append(g[k - 1], q[k])
  <2>1. \A k \in 0 .. Len(q) : g[k] = IF k = 0 THEN <<>>
                                      ELSE IF q[k] \in gone THEN g[k - 1] ELSE Append(g[k - 1], q[k])
    BY <1>3, Zenon DEF Kept
  <2>2. 0 \in 0 .. Len(q) /\ \A k \in 1 .. Len(q) : k \in 0 .. Len(q) /\ k # 0
    BY <1>1
  <2> QED BY <2>1, <2>2, Zenon
<1> SUFFICES Bad = {}
  <2>1. Len(q) \in 0 .. Len(q) /\ K(Len(q)) = {k \in DOMAIN q : q[k] \notin gone}
    BY <1>1
  <2>2. Bad = {} => g[Len(q)] \in Seq(X) /\ Part(g[Len(q)], q, K(Len(q)))
    <3> HIDE DEF K
    <3> QED BY <2>1, Zenon
  <2> HIDE DEF K, Bad
  <2> QED BY <1>2, <2>1, <2>2
<1> SUFFICES ASSUME Bad # {} PROVE FALSE
  BY Zenon
<1>5. Bad \in SUBSET Nat
  OBVIOUS
<1> HIDE DEF Bad
<1>6. PICK n \in Bad : \A m \in Bad : n <= m
  BY <1>5, LeastNumber, Zenon
<1>7. n \in 0 .. Len(q) /\ ~ (g[n] \in Seq(X) /\ Part(g[n], q, K(n)))
  BY <1>6 DEF Bad
<1> HIDE DEF K
<1>8. n # 0
  <2>1. <<>> \in Seq(X) /\ DOMAIN <<>> = {}
    OBVIOUS
  <2>2. [i \in {} |-> 0] \in [DOMAIN <<>> -> K(0)]
    BY <2>1
  <2>3. Part(<<>>, q, K(0))
    BY <2>1, <2>2, Zenon DEF Part
  <2> QED BY <1>4, <1>7, <2>1, <2>3, Zenon
<1>9. /\ n \in 1 .. Len(q) /\ n - 1 \in 0 .. Len(q)
      /\ g[n - 1] \in Seq(X) /\ Part(g[n - 1], q, K(n - 1))
  <2>1. n \in 1 .. Len(q) /\ n - 1 \in 0 .. Len(q) /\ ~ (n <= n - 1)
    BY <1>1, <1>7, <1>8
  <2>2. n - 1 \notin Bad
    BY <1>6, <2>1, Zenon
  <2> QED BY <2>1, <2>2 DEF Bad
<1> DEFINE p == g[n - 1]
<1>10. PICK e \in [DOMAIN p -> K(n - 1)] :
         /\ \A i \in DOMAIN p : p[i] = q[e[i]]
         /\ \A i, j \in DOMAIN p : i < j => e[i] < e[j]
  BY <1>9 DEF Part
<1>11. K(n - 1) \subseteq K(n) /\ \A k \in K(n - 1) : k < n /\ k \in Nat
  BY <1>1, <1>9 DEF K
<1>12. CASE q[n] \in gone
  <2>1. g[n] = p
    BY <1>4, <1>9, <1>12
  <2>2. e \in [DOMAIN p -> K(n)]
    BY <1>11
  <2>3. Part(p, q, K(n))
    BY <1>10, <2>2 DEF Part
  <2> QED BY <1>7, <1>9, <2>1, <2>3
<1>13. CASE q[n] \notin gone
  <2> DEFINE r == Append(p, q[n])
             f == [i \in DOMAIN r |-> IF i \in DOMAIN p THEN e[i] ELSE n]
  <2>1. g[n] = r
    BY <1>4, <1>9, <1>13, ZenonT(30)
  <2> HIDE DEF p
  <2>2. p \in Seq(X) /\ q[n] \in X
    BY <1>1, <1>9 DEF p
  <2>3. /\ r \in Seq(X) /\ DOMAIN p = 1 .. Len(p) /\ DOMAIN r = 1 .. Len(p) + 1 /\ Len(p) \in Nat
        /\ \A i \in 1 .. Len(p) : r[i] = p[i]
        /\ r[Len(p) + 1] = q[n]
    BY <2>2
  <2>4. n \in K(n)
    BY <1>1, <1>9, <1>13 DEF K
  <2> HIDE DEF r
  <2>5. f \in [DOMAIN r -> K(n)]
    BY <1>10, <1>11, <2>4
  <2>6. \A i \in DOMAIN r : (i \in DOMAIN p /\ f[i] = e[i] /\ i <= Len(p)) \/ (i = Len(p) + 1 /\ f[i] = n)
    BY <2>3
  <2> HIDE DEF f
  <2>7. \A i \in DOMAIN r : r[i] = q[f[i]]
    BY <1>10, <2>3, <2>6
  <2>8. \A i, j \in DOMAIN r : i < j => f[i] < f[j]
    BY <1>10, <1>11, <2>3, <2>6
  <2>9. Part(r, q, K(n))
    BY <2>5, <2>7, <2>8 DEF Part
  <2> QED BY <1>7, <2>1, <2>3, <2>9
<1> QED BY <1>12, <1>13

-----------------------------------------------------------------------------
(* The invariant.  It says of every task where it is, and of its results    *)
(* how they lie in queue_results.                                           *)

Entries == {Task(t) : t \in AllTasks} \cup {Cancel(i) : i \in TaskIds} \cup {NextResponse}
Results == [id : TaskIds, kind : Kinds]

\* the queue entries that hold task id, its results, and those that end it
Holders(id) == {Task(t) : t \in {u \in AllTasks : id \in IdsOf(u)}}
Sent(id)    == [id : {id}, kind : Kinds]
Ends(id)    == [id : {id}, kind : {"final", "error"}]

Queued(id)  == Has(queue_tasks, Holders(id))
Waits(id)   == Has(queue_tasks_deferred, Holders(id))
Current(id) == loop.cur \in Holders(id)
Released    == loop.at \in {"prompts_release", "sample_release", "fail_release"}

GotIt(id)   == \E r \in Readers : id \in Range(reader[r].got)
Ended(id)   == GotIt(id) \/ Has(queue_results, Ends(id))
Pending(id) == Has(queue_results, Sent(id))

\* the request with task id: not yet posted, no longer waiting, without results
OfRequest(id, P) == \E r \in Readers : id \in IdTasks(r) /\ reader[r].pc \in P
Fresh(id) == \E r \in Readers : id \in AllIds(r)
                                /\ reader[r].pc \in {"new", "sleepwait", "ready", "added"}
Left(id)  == OfRequest(id, {"purge", "cancel", "done"})
Over(id)  == OfRequest(id, {"cancel", "done"})

Ats    == {"take", "process", "update", "prompts", "prompts_release", "sample", "sample_release",
           "fail", "fail_release", "idle", "asleep", "ended", "aborted"}
States == {"idle", "started", "wait", "prompt", "gen"}
Pcs    == {"new", "sleepwait", "ready", "added", "recv", "stop", "purge", "cancel", "done"}

LoopStates   == [at : Ats, cur : Entries \cup {NoTask}, todo : SUBSET Slots, slot : Slots]
SlotStates   == [id : Int, kids : Seq(Nat), state : States, left : Int]
ReaderStates == [pc : Pcs, tasks : Seq(AllTasks), got : Seq(Nat)]

TypeOK ==
  /\ queue_tasks \in Seq(Entries) /\ queue_tasks_deferred \in Seq(Entries)
  /\ waiting_task_ids \in SUBSET TaskIds /\ queue_results \in Seq(Results)
  /\ loop \in LoopStates
  /\ slots \in [Slots -> SlotStates]
  /\ reader \in [Readers -> ReaderStates]
  /\ \A r \in Readers : reader[r].tasks \in Requests[r] \cup {<<>>}

\* a request has got results of its own tasks only, each once
GotOnce ==
  \A r \in Readers : Range(reader[r].got) \subseteq IdTasks(r) /\ IsInjective(reader[r].got)

\* task id is in one place at most, in none, or in none but the slot just released
Alone(id) ==
  /\ Once(queue_tasks, Holders(id)) /\ Once(queue_tasks_deferred, Holders(id))
  /\ Queued(id) => ~ Waits(id) /\ ~ Current(id) /\ SlotsOf(id) = {}
  /\ Waits(id) => ~ Current(id) /\ SlotsOf(id) = {}
  /\ Current(id) => SlotsOf(id) = {}
  /\ \A s, x \in SlotsOf(id) : s = x
Nowhere(id) == ~ Queued(id) /\ ~ Waits(id) /\ ~ Current(id) /\ SlotsOf(id) = {}
Leaving(id) == /\ ~ Queued(id) /\ ~ Waits(id) /\ ~ Current(id)
               /\ \A s \in SlotsOf(id) : Released /\ s = loop.slot

\* it is gone once its last result was sent, and not there before it is posted
Placed(id) ==
  /\ Alone(id)
  /\ Ended(id) => Leaving(id)
  /\ Fresh(id) => Nowhere(id) /\ ~ Pending(id) /\ ~ GotIt(id)

\* nothing follows the last result of task id, and nothing is left of it once it was
\* received, or once its request is over
Answered(id) ==
  /\ After(queue_results, Sent(id), Ends(id))
  /\ GotIt(id) => ~ Pending(id)
  /\ Left(id) => id \notin waiting_task_ids
  /\ Over(id) => ~ Pending(id)

IInv == /\ TypeOK /\ GotOnce
        /\ \A id \in TaskIds : Placed(id) /\ Answered(id)

-----------------------------------------------------------------------------
(* The tasks and their ids                                                  *)

\* What get_new_id() gives: the ids of a task are its own.
LEMMA TaskFacts ==
  ASSUME NEW t \in AllTasks
  PROVE  /\ t \in TaskRecords /\ IsInjective(<<t.id>> \o t.kids)
         /\ IdsOf(t) \subseteq TaskIds
<1>1. PICK r \in Readers : \E ts \in Requests[r] : t \in Range(ts)
  BY Zenon DEF AllTasks
<1>2. PICK ts \in Requests[r] : t \in Range(ts)
  BY <1>1
<1>3. PICK k \in DOMAIN ts : t = ts[k]
  BY <1>2 DEF Range
<1>4. ts \in Seq(TaskRecords) /\ IsInjective(<<t.id>> \o t.kids)
  BY <1>3, IdsAssumption, Zenon
<1>5. t \in TaskRecords
  <2> HIDE DEF TaskRecords
  <2> QED BY <1>3, <1>4
<1>6. IdsOf(t) \subseteq TaskIds
  <2>1. IdsOf(t) \subseteq PostIds(ts)
    BY <1>2, Zenon DEF PostIds
  <2>2. PostIds(ts) \subseteq AllIds(r)
    BY Zenon DEF AllIds
  <2>3. AllIds(r) \subseteq TaskIds
    BY Zenon DEF TaskIds
  <2> QED BY <2>1, <2>2, <2>3
<1> QED BY <1>4, <1>5, <1>6

\* The ids are numbers, and each is of one request.
LEMMA IdFacts ==
  /\ TaskIds \subseteq Nat
  /\ \A r \in Readers : AllIds(r) \subseteq TaskIds
  /\ \A r, q \in Readers : AllIds(r) \cap AllIds(q) # {} => r = q
  /\ \A r \in Readers : \A ts \in Requests[r] :
       PostIds(ts) \subseteq AllIds(r) /\ Range(ts) \subseteq AllTasks /\ ts \in Seq(AllTasks)
<1>1. \A r \in Readers : AllIds(r) \subseteq TaskIds
  BY Zenon DEF TaskIds
<1>2. \A r, q \in Readers : AllIds(r) \cap AllIds(q) # {} => r = q
  BY IdsAssumption, Zenon
<1>3. ASSUME NEW r \in Readers, NEW ts \in Requests[r]
      PROVE  PostIds(ts) \subseteq AllIds(r) /\ Range(ts) \subseteq AllTasks /\ ts \in Seq(AllTasks)
  <2>1. PostIds(ts) \subseteq AllIds(r) /\ Range(ts) \subseteq AllTasks
    BY Zenon DEF AllIds, AllTasks
  <2>2. ts \in Seq(TaskRecords)
    BY IdsAssumption, Zenon
  <2>3. \A k \in 1 .. Len(ts) : ts[k] \in AllTasks
    BY <2>1, <2>2 DEF Range
  <2> HIDE DEF TaskRecords, AllTasks
  <2>4. ts \in Seq(AllTasks)
    <3>1. Len(ts) \in Nat /\ DOMAIN ts = 1 .. Len(ts) /\ ts = [k \in 1 .. Len(ts) |-> ts[k]]
      BY <2>2
    <3> QED BY <2>3, <3>1
  <2> QED BY <2>1, <2>4
<1>4. ASSUME NEW id \in TaskIds PROVE id \in Nat
  <2>0. PICK r \in Readers : id \in AllIds(r)
    BY Zenon DEF TaskIds
  <2>1. PICK ts \in Requests[r] : id \in PostIds(ts)
    BY <2>0, Zenon DEF AllIds
  <2>2. PICK t \in AllTasks : id \in IdsOf(t)
    BY <1>3, <2>1, Zenon DEF PostIds
  <2>3. t \in TaskRecords
    BY TaskFacts, Zenon
  <2>4. t.id \in Nat /\ t.kids \in Seq(Nat)
    BY <2>3 DEF TaskRecords
  <2> QED BY <2>2, <2>4 DEF IdsOf, Range
<1> QED BY <1>1, <1>2, <1>3, <1>4

\* The entries that hold a task are those posted for it.
LEMMA HolderFacts ==
  ASSUME NEW id
  PROVE  /\ \A t \in AllTasks : Task(t) \in Holders(id) <=> id \in IdsOf(t)
         /\ \A i : Cancel(i) \notin Holders(id)
         /\ NextResponse \notin Holders(id) /\ NoTask \notin Holders(id)
         /\ \A e \in Entries \cup {NoTask} :
              e.type = "task" => \E t \in AllTasks : e = Task(t) /\ e.task = t
         /\ \A e \in Holders(id) : e.type = "task" /\ id \in IdsOf(e.task) /\ e.task \in AllTasks
<1>1. \A t : Task(t).type = "task" /\ Task(t).task = t
  BY DEF Task
<1>2. (\A i : Cancel(i).type = "cancel") /\ NextResponse.type = "next" /\ NoTask.type = "none"
  BY DEF Cancel, NextResponse, NoTask
<1>3. ASSUME NEW t \in AllTasks PROVE Task(t) \in Holders(id) <=> id \in IdsOf(t)
  <2>1. id \in IdsOf(t) => Task(t) \in Holders(id)
    BY Zenon DEF Holders
  <2>2. ASSUME Task(t) \in Holders(id) PROVE id \in IdsOf(t)
    <3>1. PICK u \in AllTasks : Task(t) = Task(u) /\ id \in IdsOf(u)
      BY <2>2, Zenon DEF Holders
    <3>2. t = u
      <4>1. Task(t).task = t /\ Task(u).task = u
        BY <1>1
      <4> HIDE DEF Task
      <4> QED BY <3>1, <4>1
    <3> QED BY <3>1, <3>2
  <2> QED BY <2>1, <2>2
<1>4. \A e \in Holders(id) : e.type = "task" /\ id \in IdsOf(e.task) /\ e.task \in AllTasks
  BY <1>1, Zenon DEF Holders
<1>5. /\ \A i : Cancel(i) \notin Holders(id)
      /\ NextResponse \notin Holders(id) /\ NoTask \notin Holders(id)
  BY <1>2, <1>4
<1>6. ASSUME NEW e \in Entries \cup {NoTask}, e.type = "task"
      PROVE  \E t \in AllTasks : e = Task(t) /\ e.task = t
  BY <1>1, <1>2, <1>6 DEF Entries
<1> QED BY <1>3, <1>4, <1>5, <1>6

\* The results of a task are those with its id.
LEMMA SentFacts ==
  ASSUME NEW id \in TaskIds
  PROVE  /\ \A x \in Results : (x \in Sent(id) <=> x.id = id)
                               /\ (x \in Ends(id) <=> x.id = id /\ x.kind # "partial")
         /\ Ends(id) \subseteq Sent(id)
         /\ \A kind \in Kinds : [id |-> id, kind |-> kind] \in Results
  BY DEF Results, Sent, Ends, Kinds


-----------------------------------------------------------------------------
(* What a step of the main loop may do to a task                            *)

\* task id goes from its place to another one, or away
Moved(id) ==
  /\ Alone(id)'
  /\ Nowhere(id) => Nowhere(id)'
  /\ Leaving(id) => Leaving(id)'

\* What the main loop does not change about the requests.
LEMMA ReadersSame ==
  ASSUME reader' = reader, NEW id
  PROVE  /\ GotIt(id)' <=> GotIt(id)
         /\ Fresh(id)' <=> Fresh(id)
         /\ Left(id)' <=> Left(id)
         /\ Over(id)' <=> Over(id)
         /\ GotOnce' <=> GotOnce
<1>1. \A r : IdTasks(r)' = IdTasks(r)
  BY DEF IdTasks
<1> QED BY <1>1 DEF GotIt, Fresh, Left, Over, OfRequest, GotOnce

\* A task that is moved, without a result, is where it should be.
LEMMA MovedKeeps ==
  ASSUME IInv, reader' = reader, UNCHANGED rvars, NEW id \in TaskIds, Moved(id)
  PROVE  Placed(id)' /\ Answered(id)'
<1>1. /\ GotIt(id)' <=> GotIt(id)
      /\ Fresh(id)' <=> Fresh(id)
      /\ Left(id)' <=> Left(id)
      /\ Over(id)' <=> Over(id)
  BY ReadersSame, Zenon
<1>2. Placed(id) /\ Answered(id)
  BY DEF IInv
<1>3. /\ Pending(id)' <=> Pending(id)
      /\ Ended(id)' <=> Ended(id)
  BY <1>1 DEF Pending, Ended, rvars
<1>4. Placed(id)'
  BY <1>1, <1>2, <1>3, Zenon DEF Moved, Placed
<1>5. Answered(id)'
  BY <1>1, <1>2, <1>3 DEF Answered, rvars
<1> QED BY <1>4, <1>5

\* A result may be sent of a task that is still somewhere; with its last one it leaves.
LEMMA SendKeeps ==
  ASSUME IInv, reader' = reader, NEW i, NEW kind \in Kinds, Send(i, kind),
         i \in TaskIds => ~ Leaving(i) /\ (kind # "partial" => Leaving(i)'),
         NEW id \in TaskIds, Moved(id)
  PROVE  Placed(id)' /\ Answered(id)'
<1>1. /\ GotIt(id)' <=> GotIt(id)
      /\ Fresh(id)' <=> Fresh(id)
      /\ Left(id)' <=> Left(id)
      /\ Over(id)' <=> Over(id)
  BY ReadersSame, Zenon
<1>2. Placed(id) /\ Answered(id)
  BY DEF IInv
<1>3. CASE i \notin waiting_task_ids
  <2>1. UNCHANGED rvars
    BY <1>3 DEF Send, rvars
  <2> QED BY <2>1, MovedKeeps, Zenon
<1>4. CASE i \in waiting_task_ids
  <2> DEFINE x == [id |-> i, kind |-> kind]
  <2>1. /\ queue_results' = Append(queue_results, x) /\ waiting_task_ids' = waiting_task_ids
        /\ queue_results \in Seq(Results) /\ i \in TaskIds
    BY <1>4 DEF Send, IInv, TypeOK
  <2>2. x \in Results /\ x.id = i /\ x.kind = kind
    BY <2>1 DEF Results
  <2>3. (x \in Sent(id) <=> i = id) /\ (x \in Ends(id) <=> i = id /\ kind # "partial")
    <3> HIDE DEF x
    <3> QED BY <2>2, SentFacts
  <2> HIDE DEF x
  <2>4. /\ \A H : Has(queue_results', H) <=> Has(queue_results, H) \/ x \in H
        /\ \A A, H : After(queue_results, A, H) /\ ~ (Has(queue_results, H) /\ x \in A)
                       => After(queue_results', A, H)
    BY <2>1, <2>2, Appended, Zenon
  <2>5. CASE i = id
    <3>1. ~ Ended(id) /\ ~ Fresh(id) /\ ~ GotIt(id) /\ ~ Left(id) /\ ~ Over(id)
      BY <1>2, <1>4, <2>1, <2>5 DEF Placed, Nowhere, Leaving, Answered, Ended, Left, Over, OfRequest
    <3>2. ~ Has(queue_results, Ends(id))
      BY <3>1 DEF Ended
    <3>3. Ended(id)' => kind # "partial"
      BY <1>1, <2>3, <2>4, <2>5, <3>1, <3>2 DEF Ended
    <3>4. Placed(id)'
      BY <1>1, <2>1, <2>5, <3>1, <3>3, Zenon DEF Placed, Moved
    <3>5. After(queue_results', Sent(id), Ends(id))
      BY <1>2, <2>4, <3>2 DEF Answered
    <3>6. Answered(id)'
      BY <1>1, <3>1, <3>5 DEF Answered
    <3> QED BY <3>4, <3>6, SMTT(30)
  <2>6. CASE i # id
    <3>1. Pending(id)' <=> Pending(id)
      BY <2>3, <2>4, <2>6 DEF Pending
    <3>2. Ended(id)' <=> Ended(id)
      BY <1>1, <2>3, <2>4, <2>6 DEF Ended
    <3>3. Placed(id)'
      BY <1>1, <1>2, <3>1, <3>2, Zenon DEF Placed, Moved
    <3>4. Answered(id)'
      BY <1>1, <1>2, <2>1, <2>3, <2>4, <2>6, <3>1 DEF Answered
    <3> QED BY <3>3, <3>4
  <2> QED BY <2>5, <2>6
<1> QED BY <1>3, <1>4


\* A step that leaves the task where it is, or takes it away, outside a release.
LEMMA FewerPlaces ==
  ASSUME IInv, ~ Released, NEW id \in TaskIds,
         Once(queue_tasks', Holders(id)), Once(queue_tasks_deferred', Holders(id)),
         Queued(id)' => Queued(id), Waits(id)' => Waits(id), Current(id)' => Current(id),
         SlotsOf(id)' \subseteq SlotsOf(id)
  PROVE  Moved(id)
<1>1. Alone(id)
  BY DEF IInv, Placed
<1>2. Alone(id)'
  BY <1>1 DEF Alone
<1>3. Nowhere(id) => Nowhere(id)'
  BY DEF Nowhere
<1>4. Leaving(id) => Nowhere(id)
  BY DEF Leaving, Nowhere
<1>5. Nowhere(id)' => Leaving(id)'
  BY DEF Leaving, Nowhere
<1> QED BY <1>2, <1>3, <1>4, <1>5 DEF Moved

\* Most steps of the main loop leave the queues alone, and the ids in the slots.
LEMMA SamePlaces ==
  ASSUME IInv, ~ Released, UNCHANGED <<queue_tasks, queue_tasks_deferred>>,
         loop'.cur \in {loop.cur, NoTask}, \A s \in Slots : slots'[s].id = slots[s].id,
         NEW id \in TaskIds
  PROVE  Moved(id)
<1>1. Once(queue_tasks', Holders(id)) /\ Once(queue_tasks_deferred', Holders(id))
  BY DEF IInv, Placed, Alone
<1>2. (Queued(id)' => Queued(id)) /\ (Waits(id)' => Waits(id))
  BY DEF Queued, Waits
<1>3. Current(id)' => Current(id)
  BY HolderFacts DEF Current
<1>4. SlotsOf(id)' \subseteq SlotsOf(id)
  BY DEF SlotsOf
<1> QED BY <1>1, <1>2, <1>3, <1>4, FewerPlaces, Zenon

\* start_loop() takes the first task of the queue.
LEMMA TakeMoves ==
  ASSUME IInv, Take, NEW id \in TaskIds
  PROVE  Moved(id)
<1>0. ~ Released
  BY DEF Take, At, Released
<1>1. loop \in LoopStates
  BY DEF IInv, TypeOK
<1>2. CASE UNCHANGED queue_tasks /\ loop'.cur = loop.cur
  <2>1. UNCHANGED <<queue_tasks, queue_tasks_deferred>> /\ slots' = slots
    BY <1>2 DEF Take
  <2>2. loop'.cur \in {loop.cur, NoTask} /\ \A s \in Slots : slots'[s].id = slots[s].id
    BY <1>2, <2>1
  <2> QED BY <1>0, <2>1, <2>2, SamePlaces, Zenon
<1>3. CASE /\ queue_tasks # <<>> /\ queue_tasks' = Tail(queue_tasks)
           /\ loop'.cur = Head(queue_tasks) /\ loop'.at = "process"
  <2>1. /\ queue_tasks_deferred' = queue_tasks_deferred /\ slots' = slots
        /\ queue_tasks \in Seq(Entries)
    BY DEF Take, IInv, TypeOK
  <2>2. queue_tasks' \in Seq(Entries) /\ Part(queue_tasks', queue_tasks, DOMAIN queue_tasks \ {1})
    BY <1>3, <2>1, TailPart
  <2>3. /\ \A H : Has(queue_tasks', H) => \E k \in DOMAIN queue_tasks \ {1} : queue_tasks[k] \in H
        /\ \A H : Once(queue_tasks, H) => Once(queue_tasks', H)
    <3>1. DOMAIN queue_tasks \ {1} \in SUBSET DOMAIN queue_tasks
      OBVIOUS
    <3> QED BY <2>1, <2>2, <3>1, PartKeeps
  <2>4. 1 \in DOMAIN queue_tasks /\ Head(queue_tasks) = queue_tasks[1]
    BY <1>3, <2>1
  <2>5. Alone(id)
    BY DEF IInv, Placed
  <2>6. Queued(id)' => Queued(id)
    BY <2>3 DEF Queued, Has
  <2>7. Current(id)' => Queued(id) /\ ~ Queued(id)'
    BY <1>3, <2>3, <2>4, <2>5 DEF Current, Queued, Has, Alone, Once
  <2>8. (Waits(id)' <=> Waits(id)) /\ SlotsOf(id)' = SlotsOf(id)
    BY <2>1 DEF Waits, SlotsOf
  <2>9. Once(queue_tasks', Holders(id)) /\ Once(queue_tasks_deferred', Holders(id))
    BY <2>1, <2>3, <2>5 DEF Alone
  <2>10. Alone(id)'
    BY <2>5, <2>6, <2>7, <2>8, <2>9 DEF Alone
  <2>11. Nowhere(id) => Nowhere(id)'
    BY <2>6, <2>7, <2>8 DEF Nowhere
  <2>12. Leaving(id) => Leaving(id)'
    BY <1>0, <2>6, <2>7, <2>8 DEF Leaving
  <2> QED BY <2>10, <2>11, <2>12 DEF Moved
<1>4. \/ UNCHANGED queue_tasks /\ loop'.cur = loop.cur
      \/ /\ queue_tasks # <<>> /\ queue_tasks' = Tail(queue_tasks)
         /\ loop'.cur = Head(queue_tasks) /\ loop'.at = "process"
  BY <1>1, Zenon DEF Take, Move, LoopStates
<1> QED BY <1>2, <1>3, <1>4


\* pop_deferred_task() takes a task that is there.
LEMMA DeferredFacts ==
  ASSUME NEW s, queue_tasks_deferred \in Seq(Entries), queue_tasks_deferred # <<>>
  PROVE  Deferred(s) \in DOMAIN queue_tasks_deferred
<1> DEFINE same == {k \in DOMAIN queue_tasks_deferred : queue_tasks_deferred[k].task.kind = "gen"
                                               /\ queue_tasks_deferred[k].task.id_slot = s}
<1>1. DOMAIN queue_tasks_deferred \subseteq Nat /\ 1 \in DOMAIN queue_tasks_deferred
  OBVIOUS
<1>2. same \in SUBSET Nat /\ same \subseteq DOMAIN queue_tasks_deferred
  BY <1>1
<1>3. Deferred(s) = IF same = {} THEN 1 ELSE CHOOSE k \in same : \A j \in same : k <= j
  BY DEF Deferred
<1> HIDE DEF same
<1>4. same # {} => \E k \in same : \A j \in same : k <= j
  BY <1>2, LeastNumber, Zenon
<1> QED BY <1>1, <1>2, <1>3, <1>4, ZenonT(30)

\* pop_deferred_task() moves a task from one queue to the other.
LEMMA PopFacts ==
  ASSUME IInv, NEW s, PopDeferred(s)
  PROVE  /\ queue_tasks' \in Seq(Entries) /\ queue_tasks_deferred' \in Seq(Entries)
         /\ \A H : /\ Has(queue_tasks', H) => Has(queue_tasks, H) \/ Has(queue_tasks_deferred, H)
                   /\ Has(queue_tasks_deferred', H) => Has(queue_tasks_deferred, H)
                   /\ Once(queue_tasks, H) /\ Once(queue_tasks_deferred, H)
                        /\ ~ (Has(queue_tasks, H) /\ Has(queue_tasks_deferred, H))
                      => /\ Once(queue_tasks', H) /\ Once(queue_tasks_deferred', H)
                         /\ ~ (Has(queue_tasks', H) /\ Has(queue_tasks_deferred', H))
<1>1. queue_tasks \in Seq(Entries) /\ queue_tasks_deferred \in Seq(Entries)
  BY DEF IInv, TypeOK
<1>2. CASE queue_tasks_deferred = <<>>
  <2>1. queue_tasks' = queue_tasks /\ queue_tasks_deferred' = queue_tasks_deferred
    BY <1>2 DEF PopDeferred
  <2> QED BY <1>1, <2>1
<1>3. CASE queue_tasks_deferred # <<>>
  <2> DEFINE k == Deferred(s)
             d == queue_tasks_deferred
             e == d[k]
  <2>1. k \in DOMAIN d
    BY <1>1, <1>3, DeferredFacts
  <2>2. queue_tasks' = <<e>> \o queue_tasks /\ queue_tasks_deferred' = Erase(d, k)
    BY <1>3 DEF PopDeferred
  <2> HIDE DEF k
  <2>3. e \in Entries
    BY <1>1, <2>1
  <2> HIDE DEF e
  <2>4. <<e>> \in Seq(Entries) /\ \A H : (Has(<<e>>, H) <=> e \in H) /\ Once(<<e>>, H)
    BY <2>3, Single, Zenon
  <2>5. /\ queue_tasks' \in Seq(Entries)
        /\ \A H : Has(queue_tasks', H) <=> Has(<<e>>, H) \/ Has(queue_tasks, H)
        /\ \A H : Once(<<e>>, H) /\ Once(queue_tasks, H) /\ ~ (Has(<<e>>, H) /\ Has(queue_tasks, H))
                    => Once(queue_tasks', H)
    BY <1>1, <2>2, <2>4, Joined, Zenon
  <2>6. /\ queue_tasks_deferred' \in Seq(Entries)
        /\ Part(queue_tasks_deferred', queue_tasks_deferred, DOMAIN queue_tasks_deferred \ {k})
    BY <1>1, <2>1, <2>2, ErasePart, Zenon
  <2>7. /\ \A H : Has(queue_tasks_deferred', H) => \E j \in DOMAIN queue_tasks_deferred \ {k} : d[j] \in H
        /\ \A H : Once(d, H) => Once(queue_tasks_deferred', H)
    <3>1. DOMAIN d \ {k} \in SUBSET DOMAIN d
      OBVIOUS
    <3> QED BY <1>1, <2>6, <3>1, PartKeeps
  <2>8. ASSUME NEW H
        PROVE  /\ e \in H => Has(d, H)
               /\ Has(queue_tasks_deferred', H) => Has(d, H)
               /\ Once(d, H) /\ e \in H => ~ Has(queue_tasks_deferred', H)
    BY <2>1, <2>7 DEF Has, Once, e
  <2> HIDE DEF d
  <2>9. queue_tasks_deferred = d
    BY DEF d
  <2> QED BY <2>4, <2>5, <2>6, <2>7, <2>8, <2>9, Zenon
<1> QED BY <1>2, <1>3

\* A slot is released and a deferred task popped: release(), and the cancel task.
LEMMA ReleaseMoves ==
  ASSUME IInv, NEW s, NEW x \in Slots, PopDeferred(s), slots' = [slots EXCEPT ![x] = IdleSlot],
         loop'.cur \in {loop.cur, NoTask}, Released => x = loop.slot, NEW id \in TaskIds
  PROVE  Moved(id)
<1> DEFINE H == Holders(id)
<1>1. Alone(id)
  BY DEF IInv, Placed
<1>2. /\ Has(queue_tasks', H) => Has(queue_tasks, H) \/ Has(queue_tasks_deferred, H)
      /\ Has(queue_tasks_deferred', H) => Has(queue_tasks_deferred, H)
      /\ Once(queue_tasks, H) /\ Once(queue_tasks_deferred, H)
           /\ ~ (Has(queue_tasks, H) /\ Has(queue_tasks_deferred, H))
         => /\ Once(queue_tasks', H) /\ Once(queue_tasks_deferred', H)
            /\ ~ (Has(queue_tasks', H) /\ Has(queue_tasks_deferred', H))
  BY PopFacts, Zenon
<1>3. /\ Queued(id)' => Queued(id) \/ Waits(id)
      /\ Waits(id)' => Waits(id)
      /\ Once(queue_tasks', H) /\ Once(queue_tasks_deferred', H)
      /\ ~ (Queued(id)' /\ Waits(id)')
  BY <1>1, <1>2 DEF Alone, Queued, Waits
<1>4. Current(id)' => Current(id)
  BY HolderFacts DEF Current
<1>5. SlotsOf(id)' \subseteq SlotsOf(id) \ {x}
  <2>1. IdleSlot.id # id
    BY IdFacts, SMTT(30) DEF IdleSlot, NoId
  <2> HIDE DEF IdleSlot
  <2> QED BY <2>1 DEF SlotsOf, IInv, TypeOK, SlotStates
<1>6. Alone(id)'
  BY <1>1, <1>3, <1>4, <1>5 DEF Alone
<1>7. Nowhere(id) => Nowhere(id)'
  <2>1. SlotsOf(id) = {} => SlotsOf(id)' = {}
    BY <1>5, Zenon
  <2> QED BY <1>3, <1>4, <2>1, Zenon DEF Nowhere
<1>8. Leaving(id) => Leaving(id)'
  <2>1. Leaving(id) => \A y \in SlotsOf(id) : y = x
    BY Zenon DEF Leaving
  <2>2. Leaving(id) => SlotsOf(id)' = {}
    BY <1>5, <2>1, Zenon
  <2> QED BY <1>3, <1>4, <2>2, Zenon DEF Leaving
<1> QED BY <1>6, <1>7, <1>8 DEF Moved


\* The task process_single_task() works on.
LEMMA CurrentTask ==
  ASSUME IInv, loop.cur.type = "task"
  PROVE  /\ loop.cur.task \in AllTasks /\ loop.cur \in Entries
         /\ \A id : Current(id) <=> id \in IdsOf(loop.cur.task)
<1>1. loop.cur \in Entries \cup {NoTask} /\ loop.cur # NoTask
  BY DEF IInv, TypeOK, NoTask, LoopStates
<1>2. PICK t \in AllTasks : loop.cur = Task(t) /\ loop.cur.task = t
  BY <1>1, HolderFacts
<1>3. \A id : Task(t) \in Holders(id) <=> id \in IdsOf(t)
  BY HolderFacts
<1> QED BY <1>1, <1>2, <1>3, Zenon DEF Current

\* defer() moves the current task to the other queue.
LEMMA DeferMoves ==
  ASSUME IInv, ProcessDefer, NEW id \in TaskIds
  PROVE  Moved(id)
<1> DEFINE H == Holders(id)
<1>0. ~ Released /\ loop.cur \in Entries
  BY CurrentTask DEF ProcessDefer, At, Released
<1>1. /\ queue_tasks' = queue_tasks /\ slots' = slots /\ loop'.cur = NoTask
      /\ queue_tasks_deferred' = Append(queue_tasks_deferred, loop.cur)
      /\ queue_tasks_deferred \in Seq(Entries)
  BY DEF ProcessDefer, Defer, Processed, IInv, TypeOK, LoopStates
<1>2. Alone(id)
  BY DEF IInv, Placed
<1>3. /\ Has(queue_tasks_deferred', H) <=> Has(queue_tasks_deferred, H) \/ loop.cur \in H
      /\ Once(queue_tasks_deferred, H) /\ ~ (Has(queue_tasks_deferred, H) /\ loop.cur \in H)
           => Once(queue_tasks_deferred', H)
  BY <1>0, <1>1, Appended, Zenon
<1>4. /\ Waits(id)' <=> Waits(id) \/ Current(id)
      /\ Once(queue_tasks_deferred', H)
  BY <1>2, <1>3 DEF Waits, Current, Alone
<1>5. /\ Queued(id)' <=> Queued(id)
      /\ ~ Current(id)'
      /\ SlotsOf(id)' = SlotsOf(id)
  BY <1>1, HolderFacts DEF Queued, Current, SlotsOf
<1>6. Alone(id)'
  BY <1>1, <1>2, <1>4, <1>5 DEF Alone
<1>7. Nowhere(id) => Nowhere(id)'
  BY <1>4, <1>5 DEF Nowhere
<1>8. Leaving(id) => Leaving(id)'
  BY <1>0, <1>4, <1>5 DEF Leaving
<1> QED BY <1>6, <1>7, <1>8 DEF Moved

\* get_free_slots() gives each free slot once.
LEMMA RankInjective ==
  ASSUME NEW s, NEW x \in FreeSlots \ {s}, NEW y \in FreeSlots \ {s}, Rank(s, x) = Rank(s, y)
  PROVE  x = y
<1>0. FreeSlots \subseteq Slots /\ Slots \subseteq Int
  BY ServerAssumption DEF FreeSlots, Slots
<1>1. ASSUME NEW u \in FreeSlots \ {s}, NEW v \in FreeSlots \ {s}, u < v
      PROVE  Rank(s, u) # Rank(s, v)
  <2> DEFINE U == {z \in FreeSlots \ {s} : z <= u}
             V == {z \in FreeSlots \ {s} : z <= v}
  <2>0. u \in Int /\ v \in Int /\ \A z \in FreeSlots \ {s} : z \in Int
    BY <1>0
  <2>1. U \subseteq V /\ v \in V /\ v \notin U
    <3>1. v <= v /\ ~ (v <= u) /\ \A z \in Int : z <= u => z <= v
      BY <1>1, <2>0
    <3> QED BY <2>0, <3>1, Zenon
  <2>2. IsFiniteSet(V)
    <3>1. IsFiniteSet(0 .. NSlots - 1)
      BY ServerAssumption, FS_Interval
    <3>2. V \subseteq 0 .. NSlots - 1
      BY <1>0, Zenon DEF Slots
    <3> QED BY <3>1, <3>2, FS_Subset, Zenon
  <2>3. Rank(s, u) = Cardinality(U) /\ Rank(s, v) = Cardinality(V)
    BY DEF Rank
  <2> HIDE DEF U, V
  <2>4. Cardinality(U) = Cardinality(V) => U = V
    BY <2>1, <2>2, FS_Subset
  <2> QED BY <2>1, <2>3, <2>4
<1>2. x \in Int /\ y \in Int
  BY <1>0
<1>3. ~ (x < y) /\ ~ (y < x)
  BY <1>1
<1> QED BY <1>2, <1>3


\* launch_slot_with_task() and launch_slots_with_parent_task() put the current task and
\* its children into slots, each into one.
LEMMA LaunchMoves ==
  ASSUME IInv, ProcessLaunch, NEW id \in TaskIds
  PROVE  Moved(id)
<1> DEFINE t == loop.cur.task
<1>0. /\ ~ Released /\ t \in AllTasks /\ (Current(id) <=> id \in IdsOf(t))
  BY CurrentTask DEF ProcessLaunch, At, Released
<1>1. /\ queue_tasks' = queue_tasks /\ queue_tasks_deferred' = queue_tasks_deferred
      /\ loop'.cur = NoTask
  BY DEF ProcessLaunch, Processed, qvars, IInv, TypeOK, LoopStates
<1>2. PICK s \in Slots : slots' = Launch(t, s)
  BY DEF ProcessLaunch
<1> HIDE DEF t
<1>3. /\ IsInjective(<<t.id>> \o t.kids) /\ t.kids \in Seq(Nat)
      /\ \A i \in DOMAIN t.kids : t.kids[i] \in IdsOf(t)
      /\ t.id \in IdsOf(t)
  BY <1>0, TaskFacts DEF TaskRecords, IdsOf, Range
<1> DEFINE kid(x) == x \in FreeSlots /\ Rank(s, x) \in DOMAIN t.kids
<1>4. ASSUME NEW x \in SlotsOf(id)'
      PROVE  /\ x \in Slots
             /\ \/ x = s /\ id = t.id
                \/ x # s /\ kid(x) /\ id = t.kids[Rank(s, x)]
                \/ x \in SlotsOf(id)
  BY <1>2 DEF SlotsOf, Launch, Started
<1>5. Alone(id)
  BY DEF IInv, Placed
<1>6. Once(queue_tasks', Holders(id)) /\ Once(queue_tasks_deferred', Holders(id))
  BY <1>1, <1>5, SMTT(30) DEF Alone
<1>7. /\ Queued(id)' <=> Queued(id)
      /\ Waits(id)' <=> Waits(id)
      /\ ~ Current(id)'
  BY <1>1, HolderFacts DEF Queued, Waits, Current
<1>8. CASE ~ Current(id)
  <2>1. SlotsOf(id)' \subseteq SlotsOf(id)
    BY <1>0, <1>3, <1>4, <1>8
  <2> QED BY <1>0, <1>6, <1>7, <2>1, FewerPlaces, Zenon
<1>9. CASE Current(id)
  <2>1. ~ Queued(id) /\ ~ Waits(id) /\ SlotsOf(id) = {}
    BY <1>5, <1>9 DEF Alone
  <2> DEFINE ids == <<t.id>> \o t.kids
  <2>2. /\ DOMAIN t.kids = 1 .. Len(t.kids) /\ Len(t.kids) \in Nat
        /\ DOMAIN ids = 1 .. Len(t.kids) + 1 /\ ids[1] = t.id
        /\ \A i \in 1 .. Len(t.kids) : ids[i + 1] = t.kids[i]
    <3>1. t.id \in Nat
      BY <1>0, TaskFacts, Zenon DEF TaskRecords
    <3> QED BY <1>3, <3>1
  <2>3. \A i, j \in DOMAIN ids : ids[i] = ids[j] => i = j
    BY <1>3, Zenon DEF IsInjective
  <2> HIDE DEF ids
  <2>4. /\ \A i \in DOMAIN t.kids : t.kids[i] # t.id
        /\ \A i, j \in DOMAIN t.kids : t.kids[i] = t.kids[j] => i = j
    <3>1. ASSUME NEW i \in DOMAIN t.kids
          PROVE  ids[i + 1] = t.kids[i] /\ i + 1 \in DOMAIN ids /\ 1 \in DOMAIN ids /\ i + 1 # 1 /\ i \in Int
      BY <2>2
    <3>2. ASSUME NEW i \in DOMAIN t.kids PROVE t.kids[i] # t.id
      BY <2>2, <2>3, <3>1
    <3>3. ASSUME NEW i \in DOMAIN t.kids, NEW j \in DOMAIN t.kids, t.kids[i] = t.kids[j] PROVE i = j
      <4>1. i + 1 = j + 1
        BY <2>3, <3>1, <3>3, Zenon
      <4> QED BY <3>1, <4>1
    <3> QED BY <3>2, <3>3
  <2>5. ASSUME NEW x \in SlotsOf(id)', NEW y \in SlotsOf(id)' PROVE x = y
    <3>1. /\ (x = s /\ id = t.id) \/ (x # s /\ kid(x) /\ id = t.kids[Rank(s, x)])
          /\ (y = s /\ id = t.id) \/ (y # s /\ kid(y) /\ id = t.kids[Rank(s, y)])
      BY <1>4, <2>1
    <3>2. CASE x = s
      BY <2>4, <3>1, <3>2
    <3>3. CASE x # s
      <4>1. y # s
        BY <2>4, <3>1, <3>3, SMTT(30)
      <4>2. Rank(s, x) = Rank(s, y) /\ x \in FreeSlots \ {s} /\ y \in FreeSlots \ {s}
        BY <2>4, <3>1, <3>3, <4>1, SMTT(30)
      <4> QED BY <4>2, RankInjective, Zenon
    <3> QED BY <3>2, <3>3, SMTT(30)
  <2>6. Alone(id)'
    BY <1>6, <1>7, <2>1, <2>5 DEF Alone
  <2>7. ~ Nowhere(id) /\ ~ Leaving(id)
    BY <1>9 DEF Nowhere, Leaving
  <2> QED BY <2>6, <2>7 DEF Moved
<1> QED BY <1>8, <1>9, SMTT(30)

-----------------------------------------------------------------------------
(* The steps of the main loop                                               *)

\* what a step does to the queues and the results, as far as their types go
QueuesKept ==
  /\ queue_tasks' \in Seq(Entries) /\ queue_tasks_deferred' \in Seq(Entries)
  /\ queue_results' \in Seq(Results)

\* send() adds a result of a task that is waited for.
LEMMA SendType ==
  ASSUME TypeOK, NEW i, NEW kind \in Kinds, Send(i, kind)
  PROVE  queue_results' \in Seq(Results) /\ waiting_task_ids' = waiting_task_ids
<1>1. CASE i \notin waiting_task_ids
  BY <1>1 DEF Send, TypeOK
<1>2. CASE i \in waiting_task_ids
  <2> DEFINE x == [id |-> i, kind |-> kind]
  <2>1. queue_results' = Append(queue_results, x) /\ queue_results \in Seq(Results)
    BY <1>2 DEF Send, TypeOK
  <2>2. x \in Results
    BY <1>2 DEF TypeOK, Results
  <2> HIDE DEF x
  <2>3. queue_results' \in Seq(Results)
    BY <2>1, <2>2
  <2> QED BY <2>3, SMTT(30) DEF Send
<1> QED BY <1>1, <1>2, SMTT(30)

\* The main loop keeps the types of what it shares with the requests.
LEMMA MainQueues ==
  ASSUME IInv, MainLoop \/ Sleep
  PROVE  QueuesKept /\ waiting_task_ids' = waiting_task_ids /\ reader' = reader
<1> USE DEF QueuesKept
<1>0. /\ queue_tasks \in Seq(Entries) /\ queue_tasks_deferred \in Seq(Entries)
      /\ queue_results \in Seq(Results) /\ TypeOK /\ loop.cur \in Entries \cup {NoTask}
  BY Zenon DEF IInv, TypeOK, LoopStates
<1>1. CASE Take
  <2>1. queue_tasks # <<>> => Tail(queue_tasks) \in Seq(Entries)
    BY <1>0
  <2> QED BY <1>0, <1>1, <2>1, SMTT(30) DEF Take, rvars
<1>2. CASE ProcessDefer
  <2>1. loop.cur \in Entries
    BY <1>2, CurrentTask DEF ProcessDefer
  <2>2. Append(queue_tasks_deferred, loop.cur) \in Seq(Entries)
    <3>1. ASSUME NEW S, NEW q \in Seq(S), NEW e \in S PROVE Append(q, e) \in Seq(S)
      OBVIOUS
    <3> QED BY <1>0, <2>1, <3>1, Zenon
  <2> QED BY <1>0, <1>2, <2>2 DEF ProcessDefer, Defer, rvars
<1>3. CASE ProcessLaunch
  <2>1. UNCHANGED <<qvars, rvars, reader>>
    BY <1>3, Zenon DEF ProcessLaunch
  <2>2. /\ queue_tasks' = queue_tasks /\ queue_tasks_deferred' = queue_tasks_deferred
        /\ queue_results' = queue_results /\ waiting_task_ids' = waiting_task_ids /\ reader' = reader
    BY <2>1 DEF qvars, rvars
  <2> QED BY <1>0, <2>2, Zenon
<1>4. CASE ProcessRefuse
  BY <1>0, <1>4, SendType, Zenon DEF ProcessRefuse, qvars, Kinds
<1>5. CASE ProcessOp
  BY <1>0, <1>5, SendType, SMTT(30) DEF ProcessOp, qvars, Kinds
<1>6. CASE ProcessCancel
  BY <1>0, <1>6, PopFacts DEF ProcessCancel, rvars
<1>7. CASE ProcessNext
  BY <1>0, <1>7 DEF ProcessNext, qvars, rvars
<1>8. CASE Update
  <2>1. Append(queue_tasks, NextResponse) \in Seq(Entries)
    BY <1>0 DEF Entries
  <2> QED BY <1>0, <1>8, <2>1, ZenonT(30) DEF Update, rvars
<1>9. CASE Release
  BY <1>0, <1>9, PopFacts DEF Release, rvars
<1>10. CASE DecodeEmpty \/ DecodeDone \/ DecodeFails \/ UpdateEnds \/ WaitEnds
  BY <1>0, <1>10, SMTT(30) DEF DecodeEmpty, DecodeDone, DecodeFails, UpdateEnds, WaitEnds, qvars, rvars
<1>11. CASE Wake \/ Sleep
  BY <1>0, <1>11 DEF Wake, Sleep, rvars
<1>12. ASSUME NEW s \in Slots, NEW kind \in Kinds, SendAndRelease(s, kind)
       PROVE  QueuesKept /\ waiting_task_ids' = waiting_task_ids /\ reader' = reader
  BY <1>0, <1>12, SendType DEF SendAndRelease, qvars
<1>13. ASSUME NEW s \in Slots, Prompt(s)
       PROVE  QueuesKept /\ waiting_task_ids' = waiting_task_ids /\ reader' = reader
  BY <1>0, <1>12, <1>13 DEF Prompt, qvars, rvars, Kinds
<1>14. ASSUME NEW s \in Slots, FailSlot(s)
       PROVE  QueuesKept /\ waiting_task_ids' = waiting_task_ids /\ reader' = reader
  BY <1>12, <1>14 DEF FailSlot, Kinds
<1>15. ASSUME NEW s \in Slots, Sample(s)
       PROVE  QueuesKept /\ waiting_task_ids' = waiting_task_ids /\ reader' = reader
  BY <1>0, <1>12, <1>15, SendType DEF Sample, qvars, rvars, Kinds
<1> QED
  BY <1>1, <1>2, <1>3, <1>4, <1>5, <1>6, <1>7, <1>8, <1>9, <1>10, <1>11, <1>13, <1>14, <1>15, SMTT(30)
  DEF MainLoop


\* The main loop keeps the types of its own state.
LEMMA MainStates ==
  ASSUME IInv, MainLoop \/ Sleep
  PROVE  loop' \in LoopStates /\ slots' \in [Slots -> SlotStates]
<1> DEFINE G == loop' \in LoopStates /\ slots' \in [Slots -> SlotStates]
<1>0. /\ loop \in LoopStates /\ slots \in [Slots -> SlotStates] /\ TypeOK
      /\ queue_tasks \in Seq(Entries) /\ 0 \in Slots
  BY ServerAssumption DEF IInv, TypeOK, Slots
<1>a. ASSUME NEW a \in Ats PROVE [loop EXCEPT !.at = a] \in LoopStates
  BY <1>0 DEF LoopStates
<1>b. ASSUME NEW a \in Ats, NEW T \in SUBSET Slots
      PROVE  [loop EXCEPT !.at = a, !.todo = T] \in LoopStates
  BY <1>0 DEF LoopStates
<1>c. [loop EXCEPT !.at = "take", !.cur = NoTask] \in LoopStates
  <2>1. "take" \in Ats
    BY DEF Ats
  <2> QED BY <1>0, <2>1 DEF LoopStates
<1>d. IdleSlot \in SlotStates
  <2>1. <<>> \in Seq(Nat) /\ "idle" \in States /\ NoId \in Int
    BY DEF NoId, States
  <2> QED BY <2>1 DEF IdleSlot, SlotStates
<1>e. {"ended", "update", "idle", "prompts", "aborted", "fail", "take", "asleep", "sample"} \subseteq Ats
  BY DEF Ats
<1>1. CASE Take
  <2>1. queue_tasks # <<>> => Head(queue_tasks) \in Entries
    BY <1>0
  <2>2. queue_tasks # <<>> => [loop EXCEPT !.at = "process", !.cur = Head(queue_tasks)] \in LoopStates
    <3>1. "process" \in Ats
      BY DEF Ats
    <3> QED BY <1>0, <2>1, <3>1 DEF LoopStates
  <2> QED BY <1>0, <1>1, <1>a, <1>e, <2>2 DEF Take, Move
<1>2. CASE ProcessDefer \/ ProcessRefuse \/ ProcessOp \/ ProcessNext
  BY <1>0, <1>2, <1>c DEF ProcessDefer, ProcessRefuse, ProcessOp, ProcessNext, Processed
<1>3. CASE ProcessLaunch
  <2> DEFINE t == loop.cur.task
  <2>1. t \in AllTasks
    BY <1>3, CurrentTask, SMTT(30) DEF ProcessLaunch
  <2>2. PICK s \in Slots : slots' = Launch(t, s)
    BY <1>3 DEF ProcessLaunch
  <2> HIDE DEF t
  <2>3. t.id \in Nat /\ t.kids \in Seq(Nat)
    BY <2>1, TaskFacts, ZenonT(30) DEF TaskRecords
  <2>4. \A id \in Nat, kids \in Seq(Nat), st \in States : Started(id, kids, st) \in SlotStates
    BY ServerAssumption DEF Started, SlotStates
  <2>5. <<>> \in Seq(Nat) /\ \A i \in DOMAIN t.kids : t.kids[i] \in Nat
    BY <2>3
  <2>6. slots' \in [Slots -> SlotStates]
    <3> HIDE DEF SlotStates
    <3>0. "started" \in States /\ "wait" \in States
      BY DEF States
    <3>1. Started(t.id, t.kids, "started") \in SlotStates
      BY <2>3, <2>4, <3>0, Zenon
    <3>2. \A i \in DOMAIN t.kids : Started(t.kids[i], <<>>, "wait") \in SlotStates
      BY <2>4, <2>5, <3>0, Zenon
    <3> QED BY <1>0, <2>2, <3>1, <3>2 DEF Launch
  <2> QED BY <1>3, <1>c, <2>6, SMTT(30) DEF ProcessLaunch, Processed
<1>4. CASE ProcessCancel
  <2>1. slots' = slots \/ \E s \in Slots : slots' = [slots EXCEPT ![s] = IdleSlot]
    BY <1>4 DEF ProcessCancel, SlotsOf
  <2>2. slots' \in [Slots -> SlotStates]
    <3> HIDE DEF SlotStates, IdleSlot
    <3> QED BY <1>0, <1>d, <2>1
  <2> QED BY <1>4, <1>c, <2>2 DEF ProcessCancel, Processed
<1>5. CASE Update
  <2>1. "prompts" \in Ats /\ "idle" \in Ats /\ InState({"started"}) \in SUBSET Slots
    BY <1>e DEF InState
  <2>2. [loop EXCEPT !.at = "prompts", !.todo = InState({"started"})] \in LoopStates
    BY <1>b, <2>1, Zenon
  <2>3. [loop EXCEPT !.at = "idle"] \in LoopStates
    BY <1>a, <2>1, Zenon
  <2> QED BY <1>0, <1>5, <2>2, <2>3 DEF Update, Move
<1>6. CASE Release
  <2>1. slots' = [slots EXCEPT ![loop.slot] = IdleSlot] /\ loop.slot \in Slots
    BY <1>0, <1>6 DEF Release, LoopStates
  <2>2. slots' \in [Slots -> SlotStates]
    <3> HIDE DEF SlotStates, IdleSlot
    <3> QED BY <1>0, <1>d, <2>1, SMTT(30)
  <2>3. \E a \in Ats : loop' = [loop EXCEPT !.slot = 0, !.at = a]
    <3>1. \E a \in {"prompts", "sample", "fail"} : loop' = [loop EXCEPT !.slot = 0, !.at = a]
      BY <1>6, ZenonT(30) DEF Release
    <3> QED BY <1>e, <3>1, ZenonT(30)
  <2>4. loop' \in LoopStates
    BY <1>0, <2>3 DEF LoopStates
  <2> QED BY <2>2, <2>4
<1>7. CASE DecodeEmpty \/ UpdateEnds \/ WaitEnds \/ Wake \/ Sleep
  <2>1. \A a \in {"aborted", "idle", "take", "asleep"} : [loop EXCEPT !.at = a] \in LoopStates
    BY <1>a, <1>e
  <2> QED BY <1>0, <1>7, <2>1 DEF DecodeEmpty, UpdateEnds, WaitEnds, Wake, Sleep, Move
<1>14. CASE DecodeFails
  <2>1. "fail" \in Ats /\ Slots \ FreeSlots \in SUBSET Slots
    BY <1>e
  <2>2. [loop EXCEPT !.at = "fail", !.todo = Slots \ FreeSlots] \in LoopStates
    BY <1>b, <2>1, Zenon
  <2> QED BY <1>0, <1>14, <2>2 DEF DecodeFails
<1>8. CASE DecodeDone
  <2>1. slots' \in [Slots -> SlotStates]
    <3>1. ASSUME NEW s \in Slots PROVE [slots[s] EXCEPT !.state = "gen"] \in SlotStates
      <4>1. slots[s] \in SlotStates /\ "gen" \in States
        BY <1>0, SMTT(30) DEF States
      <4> QED BY <4>1 DEF SlotStates
    <3> HIDE DEF SlotStates
    <3> QED BY <1>0, <1>8, <3>1 DEF DecodeDone
  <2>2. \E T \in SUBSET Slots : loop' = [loop EXCEPT !.at = "sample", !.todo = T]
    BY <1>8, Zenon DEF DecodeDone
  <2>3. "sample" \in Ats
    BY <1>e
  <2>4. loop' \in LoopStates
    BY <1>b, <2>2, <2>3, Zenon
  <2> QED BY <2>1, <2>4
<1>9. ASSUME NEW s \in Slots, NEW kind, SendAndRelease(s, kind),
             loop.at \in {"prompts", "sample", "fail"}
      PROVE  G
  <2>1. Releasing(loop.at) \in Ats
    <3>1. Releasing(loop.at) \in {"prompts_release", "sample_release", "fail_release"}
      BY <1>9 DEF Releasing
    <3>2. {"prompts_release", "sample_release", "fail_release"} \subseteq Ats
      BY DEF Ats
    <3> QED BY <3>1, <3>2
  <2>2. loop' = [loop EXCEPT !.todo = loop.todo \ {s}, !.slot = s, !.at = Releasing(loop.at)]
    BY <1>9 DEF SendAndRelease
  <2>3. loop' \in LoopStates
    BY <1>0, <2>1, <2>2 DEF LoopStates
  <2> QED BY <1>0, <1>9, <2>3 DEF SendAndRelease
<1>10. \A s \in Slots : [loop EXCEPT !.todo = loop.todo \ {s}] \in LoopStates
  BY <1>0 DEF LoopStates
<1>11. ASSUME NEW s \in Slots, Prompt(s) PROVE G
  <2>1. CASE slots' = [slots EXCEPT ![s].state = "prompt"] /\ loop' = [loop EXCEPT !.todo = @ \ {s}]
    <3>1. [slots[s] EXCEPT !.state = "prompt"] \in SlotStates
      <4>1. slots[s] \in SlotStates /\ "prompt" \in States
        BY <1>0 DEF States
      <4> QED BY <4>1 DEF SlotStates
    <3>2. slots' \in [Slots -> SlotStates]
      <4> HIDE DEF SlotStates
      <4> QED BY <1>0, <2>1, <3>1
    <3> QED BY <1>10, <2>1, <3>2
  <2> QED BY <1>9, <1>11, <2>1 DEF Prompt, At
<1>12. ASSUME NEW s \in Slots, FailSlot(s) PROVE G
  BY <1>9, <1>12 DEF FailSlot, At
<1>13. ASSUME NEW s \in Slots, Sample(s) PROVE G
  <2>1. CASE slots' = [slots EXCEPT ![s].left = @ - 1] /\ loop' = [loop EXCEPT !.todo = @ \ {s}]
    <3>1. [slots[s] EXCEPT !.left = slots[s].left - 1] \in SlotStates
      <4>1. slots[s] \in SlotStates
        BY <1>0
      <4> QED BY <4>1 DEF SlotStates
    <3>2. slots' \in [Slots -> SlotStates]
      <4> HIDE DEF SlotStates
      <4> QED BY <1>0, <2>1, <3>1
    <3> QED BY <1>10, <2>1, <3>2
  <2> QED BY <1>9, <1>13, <2>1 DEF Sample, At
<1> QED
  BY <1>1, <1>2, <1>3, <1>4, <1>5, <1>6, <1>7, <1>8, <1>11, <1>12, <1>13, <1>14, SMTT(30)
  DEF MainLoop


\* A slot whose task gets its last result is released next.
LEMMA SendReleaseKeeps ==
  ASSUME IInv, NEW s \in Slots, NEW kind \in {"final", "error"}, SendAndRelease(s, kind),
         loop.at \in {"prompts", "sample", "fail"}, NEW id \in TaskIds
  PROVE  Placed(id)' /\ Answered(id)'
<1>0. PICK i : i = slots[s].id
  OBVIOUS
<1>1. /\ UNCHANGED <<queue_tasks, queue_tasks_deferred>> /\ slots' = slots /\ reader' = reader
      /\ Send(i, kind) /\ kind \in Kinds
  BY <1>0 DEF SendAndRelease, qvars, Kinds
<1>2. /\ ~ Released /\ loop'.cur = loop.cur /\ loop'.slot = s
      /\ loop'.at \in {"prompts_release", "sample_release", "fail_release"}
  BY DEF SendAndRelease, Released, Releasing, IInv, TypeOK, LoopStates
<1>3. Moved(id)
  <2>1. loop'.cur \in {loop.cur, NoTask} /\ \A x \in Slots : slots'[x].id = slots[x].id
    BY <1>1, <1>2, SMTT(30)
  <2> QED BY <1>1, <1>2, <2>1, SamePlaces, Zenon
<1>4. ASSUME i \in TaskIds PROVE ~ Leaving(i) /\ Leaving(i)'
  <2>1. s \in SlotsOf(i) /\ SlotsOf(i)' = SlotsOf(i)
    BY <1>0, <1>1 DEF SlotsOf
  <2>2. Alone(i)
    BY <1>4 DEF IInv, Placed
  <2>3. ~ Queued(i) /\ ~ Waits(i) /\ ~ Current(i) /\ SlotsOf(i) = {s}
    BY <2>1, <2>2 DEF Alone
  <2>4. ~ Queued(i)' /\ ~ Waits(i)' /\ ~ Current(i)' /\ Released'
    BY <1>1, <1>2, <2>3 DEF Queued, Waits, Current, Released
  <2> QED BY <1>2, <2>1, <2>3, <2>4 DEF Leaving
<1> QED BY <1>1, <1>3, <1>4, SendKeeps, Zenon

\* A task that process_single_task() answers at once is in no place afterwards.
LEMMA SendCurrentKeeps ==
  ASSUME IInv, At("process"), loop.cur.type = "task", NEW i \in IdsOf(loop.cur.task),
         NEW kind \in Kinds, Send(i, kind), Processed, UNCHANGED qvars, UNCHANGED slots,
         reader' = reader, NEW id \in TaskIds
  PROVE  Placed(id)' /\ Answered(id)'
<1>1. /\ UNCHANGED <<queue_tasks, queue_tasks_deferred>> /\ ~ Released
      /\ loop'.cur = NoTask
  BY DEF qvars, At, Released, Processed, IInv, TypeOK, LoopStates
<1>2. Moved(id)
  <2>1. loop'.cur \in {loop.cur, NoTask} /\ \A x \in Slots : slots'[x].id = slots[x].id
    BY <1>1, SMTT(30)
  <2> QED BY <1>1, <2>1, SamePlaces, Zenon
<1>3. ASSUME i \in TaskIds PROVE ~ Leaving(i) /\ Leaving(i)'
  <2>1. Current(i)
    BY CurrentTask, Zenon
  <2>2. Alone(i)
    BY <1>3, Zenon DEF IInv, Placed
  <2>3. ~ Queued(i) /\ ~ Waits(i) /\ SlotsOf(i) = {}
    BY <2>1, <2>2, Zenon DEF Alone
  <2>4. ~ Queued(i)' /\ ~ Waits(i)' /\ ~ Current(i)' /\ SlotsOf(i)' = {}
    BY <1>1, <2>3, HolderFacts DEF Queued, Waits, Current, SlotsOf
  <2> QED BY <2>1, <2>4, Zenon DEF Leaving
<1> QED BY <1>2, <1>3, SendKeeps, Zenon

\* Whatever the main loop does, every task and its results are where they should be.
LEMMA MainKeeps ==
  ASSUME IInv, MainLoop \/ Sleep, NEW id \in TaskIds
  PROVE  Placed(id)' /\ Answered(id)'
<1> DEFINE G == Placed(id)' /\ Answered(id)'
<1>0. reader' = reader /\ loop \in LoopStates /\ slots \in [Slots -> SlotStates]
  BY MainQueues DEF IInv, TypeOK
<1>m. ASSUME UNCHANGED rvars, Moved(id) PROVE G
  BY <1>0, <1>m, MovedKeeps, Zenon
<1>s. ASSUME ~ Released, UNCHANGED <<queue_tasks, queue_tasks_deferred>>,
             loop'.cur \in {loop.cur, NoTask}, \A s \in Slots : slots'[s].id = slots[s].id
      PROVE  Moved(id)
  BY <1>s, SamePlaces, Zenon
<1>1. CASE Take
  BY <1>1, <1>m, TakeMoves, SMTT(30) DEF Take
<1>2. CASE ProcessDefer
  BY <1>2, <1>m, DeferMoves, SMTT(30) DEF ProcessDefer
<1>3. CASE ProcessLaunch
  BY <1>3, <1>m, LaunchMoves DEF ProcessLaunch
<1>4. CASE ProcessRefuse
  <2>a. PICK t : t = loop.cur.task
    OBVIOUS
  <2>b. PICK i : i = IF t.kids = <<>> THEN t.id ELSE t.kids[1]
    BY SMTT(30)
  <2>1. /\ At("process") /\ loop.cur.type = "task" /\ Processed /\ UNCHANGED qvars
        /\ UNCHANGED slots /\ Send(i, "error") /\ "error" \in Kinds
    BY <1>4, <2>a, <2>b, SMTT(30) DEF ProcessRefuse, Kinds
  <2>2. t \in AllTasks
    BY <2>1, <2>a, CurrentTask
  <2>3. t.kids \in Seq(Nat)
    BY <2>2, TaskFacts, Zenon DEF TaskRecords
  <2>4. i \in IdsOf(t)
    BY <2>3, <2>b DEF IdsOf, Range
  <2>5. i \in IdsOf(loop.cur.task)
    BY <2>4, <2>a
  <2> QED BY <1>0, <2>1, <2>5, SendCurrentKeeps, Zenon
<1>5. CASE ProcessOp
  <2>1. PICK kind \in {"final", "error"} : Send(loop.cur.task.id, kind)
    BY <1>5 DEF ProcessOp
  <2>2. /\ At("process") /\ loop.cur.type = "task" /\ Processed /\ UNCHANGED qvars
        /\ UNCHANGED slots /\ kind \in Kinds /\ loop.cur.task.id \in IdsOf(loop.cur.task)
    BY <1>5 DEF ProcessOp, Kinds, IdsOf
  <2> QED BY <1>0, <2>1, <2>2, SendCurrentKeeps, Zenon
<1>6. CASE ProcessCancel
  <2>1. loop'.cur = NoTask /\ ~ Released /\ UNCHANGED rvars
    BY <1>0, <1>6 DEF ProcessCancel, Processed, At, Released, LoopStates
  <2>2. CASE UNCHANGED <<slots, queue_tasks, queue_tasks_deferred>>
    BY <1>m, <1>s, <2>1, <2>2
  <2>3. ASSUME NEW s \in Slots, slots' = [slots EXCEPT ![s] = IdleSlot], PopDeferred(s)
        PROVE  G
    <3>1. loop'.cur \in {loop.cur, NoTask} /\ (Released => s = loop.slot)
      BY <2>1
    <3>2. Moved(id)
      BY <2>3, <3>1, ReleaseMoves, Zenon
    <3> QED BY <1>m, <2>1, <3>2
  <2> QED BY <1>6, <2>2, <2>3 DEF ProcessCancel, SlotsOf
<1>7. CASE Release
  <2>1. /\ slots' = [slots EXCEPT ![loop.slot] = IdleSlot] /\ PopDeferred(loop.slot)
        /\ UNCHANGED rvars /\ loop'.cur \in {loop.cur, NoTask} /\ loop.slot \in Slots
    BY <1>0, <1>7 DEF Release, LoopStates
  <2>2. Released => loop.slot = loop.slot
    OBVIOUS
  <2>3. Moved(id)
    BY <2>1, <2>2, ReleaseMoves, Zenon
  <2> QED BY <1>m, <2>1, <2>3
<1>8. CASE Update
  <2>1. /\ ~ Released /\ UNCHANGED rvars /\ queue_tasks_deferred' = queue_tasks_deferred
        /\ slots' = slots /\ loop'.cur = loop.cur
    BY <1>0, <1>8, Zenon DEF Update, At, Released, Move, LoopStates
  <2>2. CASE queue_tasks' = queue_tasks
    BY <1>m, <1>s, <2>1, <2>2
  <2>3. CASE queue_tasks' = Append(queue_tasks, NextResponse)
    <3>1. queue_tasks \in Seq(Entries) /\ NextResponse \in Entries /\ Alone(id)
      BY DEF IInv, TypeOK, Entries, Placed
    <3>2. /\ \A H : Has(queue_tasks', H) <=> Has(queue_tasks, H) \/ NextResponse \in H
          /\ \A H : Once(queue_tasks, H) /\ ~ (Has(queue_tasks, H) /\ NextResponse \in H)
                      => Once(queue_tasks', H)
      BY <2>3, <3>1, Appended, Zenon
    <3>3. NextResponse \notin Holders(id)
      BY HolderFacts, SMTT(30)
    <3>4. /\ Once(queue_tasks', Holders(id)) /\ Once(queue_tasks_deferred', Holders(id))
          /\ Queued(id)' => Queued(id)
          /\ Waits(id)' => Waits(id)
          /\ Current(id)' => Current(id)
          /\ SlotsOf(id)' \subseteq SlotsOf(id)
      BY <2>1, <3>1, <3>2, <3>3 DEF Alone, Queued, Waits, Current, SlotsOf
    <3>5. Moved(id)
      BY <2>1, <3>4, FewerPlaces, Zenon
    <3> QED BY <1>m, <2>1, <3>5, Zenon
  <2> QED BY <1>8, <2>2, <2>3 DEF Update
<1>9. CASE ProcessNext \/ DecodeEmpty \/ DecodeFails \/ UpdateEnds \/ WaitEnds \/ Wake \/ Sleep
  <2>1. /\ ~ Released /\ UNCHANGED rvars /\ UNCHANGED <<queue_tasks, queue_tasks_deferred>>
        /\ slots' = slots
    BY <1>9 DEF ProcessNext, DecodeEmpty, DecodeFails, UpdateEnds, WaitEnds, Wake, Sleep, At,
                Released, qvars
  <2>2. loop'.cur \in {loop.cur, NoTask}
    BY <1>0, <1>9, ZenonT(30) DEF ProcessNext, DecodeEmpty, DecodeFails, UpdateEnds, WaitEnds, Wake, Sleep,
                      Move, Processed, LoopStates
  <2> QED BY <1>m, <1>s, <2>1, <2>2, SMTT(30)
<1>10. CASE DecodeDone
  <2>1. /\ ~ Released /\ UNCHANGED rvars /\ UNCHANGED <<queue_tasks, queue_tasks_deferred>>
        /\ loop'.cur = loop.cur
    BY <1>0, <1>10 DEF DecodeDone, At, Released, qvars, LoopStates
  <2>2. \A s \in Slots : slots'[s].id = slots[s].id
    BY <1>0, <1>10 DEF DecodeDone, SlotStates
  <2> QED BY <1>m, <1>s, <2>1, <2>2
<1>11. ASSUME NEW s \in Slots, Prompt(s) PROVE G
  <2>1. CASE \E kind \in {"final", "error"} : SendAndRelease(s, kind)
    BY <1>11, <2>1, SendReleaseKeeps DEF Prompt, At
  <2>2. CASE /\ slots' = [slots EXCEPT ![s].state = "prompt"]
             /\ loop' = [loop EXCEPT !.todo = @ \ {s}]
             /\ UNCHANGED <<qvars, rvars, n_empty_consecutive, reader>>
    <3>1. /\ ~ Released /\ UNCHANGED rvars /\ UNCHANGED <<queue_tasks, queue_tasks_deferred>>
          /\ loop'.cur = loop.cur
      BY <1>0, <1>11, <2>2 DEF Prompt, At, Released, qvars, LoopStates
    <3>2. \A x \in Slots : slots'[x].id = slots[x].id
      BY <1>0, <2>2 DEF SlotStates
    <3> QED BY <1>m, <1>s, <3>1, <3>2
  <2> QED BY <1>11, <2>1, <2>2 DEF Prompt
<1>12. ASSUME NEW s \in Slots, FailSlot(s) PROVE G
  BY <1>12, SendReleaseKeeps DEF FailSlot, At
<1>13. ASSUME NEW s \in Slots, Sample(s) PROVE G
  <2>1. CASE SendAndRelease(s, "final")
    BY <1>13, <2>1, SendReleaseKeeps DEF Sample, At
  <2>2. CASE /\ slots' = [slots EXCEPT ![s].left = @ - 1]
             /\ loop' = [loop EXCEPT !.todo = @ \ {s}]
             /\ IF slots[s].id \in StreamedIds THEN Send(slots[s].id, "partial") ELSE UNCHANGED rvars
             /\ UNCHANGED <<qvars, n_empty_consecutive, reader>>
    <3>1. /\ ~ Released /\ UNCHANGED <<queue_tasks, queue_tasks_deferred>> /\ loop'.cur = loop.cur
      BY <1>0, <1>13, <2>2 DEF Sample, At, Released, qvars, LoopStates
    <3>2. \A x \in Slots : slots'[x].id = slots[x].id
      BY <1>0, <2>2 DEF SlotStates
    <3>3. Moved(id)
      BY <1>s, <3>1, <3>2, SMTT(30)
    <3>4. CASE UNCHANGED rvars
      BY <1>m, <3>3, <3>4
    <3>5. CASE Send(slots[s].id, "partial")
      <4>0. PICK i : i = slots[s].id
        OBVIOUS
      <4>1. ~ Leaving(i) /\ "partial" \in Kinds /\ Send(i, "partial")
        BY <3>1, <3>5, <4>0, SMTT(30) DEF Leaving, SlotsOf, Kinds
      <4>2. i \in TaskIds => ~ Leaving(i) /\ ("partial" # "partial" => Leaving(i)')
        BY <4>1
      <4> QED BY <1>0, <3>3, <4>1, <4>2, SendKeeps, Zenon
    <3> QED BY <2>2, <3>4, <3>5
  <2> QED BY <1>13, <2>1, <2>2 DEF Sample
<1> QED
  BY <1>1, <1>2, <1>3, <1>4, <1>5, <1>6, <1>7, <1>8, <1>9, <1>10, <1>11, <1>12, <1>13, SMTT(30)
  DEF MainLoop
==============================================================================
