--------------------------- MODULE EventBus_proofs ---------------------------
(***************************************************************************)
(* Proofs about the event bus: the queues keep asyncio.Queue's protocol,   *)
(* and what is published is delivered in order and to everyone; and about  *)
(* the date replay, which runs on a bus of its own: its workers and its    *)
(* handlers keep their order.                                              *)
(*                                                                         *)
(* The lemmas on sequences go by induction over the naturals               *)
(* (FiniteInduction).                                                      *)
(***************************************************************************)
EXTENDS EventBus, DateReplay, FiniteInduction

-----------------------------------------------------------------------------
(* The helpers of the model *)

\* The recursion of without(): f[n] is what is left of the first n entries.
Leaves(f, seq, S) ==
  /\ f[0] = <<>>
  /\ \A n \in 0 .. Len(seq) - 1 :
       f[n + 1] = IF seq[n + 1] \in S THEN f[n] ELSE Append(f[n], seq[n + 1])

\* without() computes that function.
LEMMA WithoutUnfolds ==
  ASSUME NEW T, NEW seq \in Seq(T), NEW S
  PROVE  \E f \in [0 .. Len(seq) -> Seq(T)] :
           without(seq, S) = f[Len(seq)] /\ Leaves(f, seq, S)
<1> DEFINE B(f, i) == IF i = 0 THEN <<>> ELSE IF seq[i] \in S THEN f[i - 1] ELSE Append(f[i - 1], seq[i])
           Def(f) == [i \in 0 .. Len(seq) |-> B(f, i)]
           g == CHOOSE f : f = Def(f)
           Upto(n) == \E h \in [0 .. n -> Seq(T)] : \A i \in 0 .. n : h[i] = B(h, i)
           N == {n \in Nat : n <= Len(seq) => Upto(n)}
<1>1. without(seq, S) = g[Len(seq)]
  BY DEF without
<1>2. 0 \in N
  <2>1. [i \in 0 .. 0 |-> <<>>] \in [0 .. 0 -> Seq(T)]
    OBVIOUS
  <2>2. \A i \in 0 .. 0 : i = 0
    OBVIOUS
  <2>3. Upto(0)
    <3> DEFINE h == [i \in 0 .. 0 |-> <<>>]
    <3>1. \A i \in 0 .. 0 : h[i] = B(h, i)
      BY <2>2
    <3> HIDE DEF B
    <3> QED  BY <2>1, <3>1
  <2> HIDE DEF Upto
  <2> QED  BY <2>3
<1>3. ASSUME NEW n \in N  PROVE n + 1 \in N
  <2> HIDE DEF Upto
  <2> SUFFICES ASSUME n + 1 <= Len(seq)  PROVE Upto(n + 1)
    OBVIOUS
  <2>0. n \in Nat /\ Upto(n)
    OBVIOUS
  <2> USE DEF Upto
  <2> HIDE DEF N
  <2>1. PICK h \in [0 .. n -> Seq(T)] : \A i \in 0 .. n : h[i] = B(h, i)
    BY <2>0, Zenon
  <2> DEFINE v == IF seq[n + 1] \in S THEN h[n] ELSE Append(h[n], seq[n + 1])
             k == [i \in 0 .. (n + 1) |-> IF i = n + 1 THEN v ELSE h[i]]
  <2>2. n \in Nat /\ n \in 0 .. n /\ n + 1 \in 1 .. Len(seq)
    BY <2>0
  <2>3. v \in Seq(T)
    <3>1. h[n] \in Seq(T) /\ seq[n + 1] \in T
      BY <2>1, <2>2
    <3> QED  BY <3>1
  <2> HIDE DEF v
  <2>4. k \in [0 .. (n + 1) -> Seq(T)]
    BY <2>1, <2>2, <2>3
  <2>5. ASSUME NEW i \in 0 .. n  PROVE k[i] = B(k, i)
    <3>1. k[i] = h[i] /\ (i # 0 => k[i - 1] = h[i - 1])
      BY <2>2
    <3>2. h[i] = B(h, i)
      BY <2>1
    <3> QED  BY <3>1, <3>2
  <2>6. k[n + 1] = B(k, n + 1)
    BY <2>2 DEF v
  <2>7. \A i \in 0 .. (n + 1) : i \in 0 .. n \/ i = n + 1
    BY <2>2
  <2> HIDE DEF k, B
  <2>8. \A i \in 0 .. (n + 1) : k[i] = B(k, i)
    BY <2>5, <2>6, <2>7
  <2> QED  BY <2>4, <2>8, Zenon
<1>4. N = Nat
  <2> HIDE DEF N
  <2>1. N \in SUBSET Nat
    BY DEF N
  <2> QED  BY <1>2, <1>3, <2>1, SetInduction
<1>5. PICK h \in [0 .. Len(seq) -> Seq(T)] : \A i \in 0 .. Len(seq) : h[i] = B(h, i)
  <2> HIDE DEF Upto
  <2>1. Len(seq) \in N
    BY <1>4
  <2>2. Upto(Len(seq))
    BY <2>1
  <2> QED  BY <2>2, Zenon DEF Upto
<1>6. h = Def(h)
  BY <1>5
<1>7. g = Def(g)
  <2> HIDE DEF Def
  <2> QED  BY <1>6, Zenon
<1>8. \A i \in 0 .. Len(seq) : g[i] = B(g, i)
  <2> HIDE DEF g, B
  <2> QED  BY <1>7
<1> HIDE DEF g
<1>9. ASSUME NEW n \in 0 .. Len(seq) - 1
      PROVE  g[n + 1] = IF seq[n + 1] \in S THEN g[n] ELSE Append(g[n], seq[n + 1])
  BY <1>8
<1>10. g[0] = <<>>
  BY <1>8
<1>11. \A n \in 0 .. Len(seq) : g[n] \in Seq(T)
  <2> DEFINE M == {n \in Nat : n <= Len(seq) => g[n] \in Seq(T)}
  <2>1. 0 \in M
    <3>1. g[0] \in Seq(T)
      BY <1>10
    <3> QED  BY <3>1
  <2>2. ASSUME NEW n \in M  PROVE n + 1 \in M
    <3> SUFFICES ASSUME n + 1 <= Len(seq)  PROVE g[n + 1] \in Seq(T)
      OBVIOUS
    <3>1. n \in 0 .. Len(seq) - 1 /\ g[n] \in Seq(T) /\ seq[n + 1] \in T
      OBVIOUS
    <3>2. g[n + 1] = g[n] \/ g[n + 1] = Append(g[n], seq[n + 1])
      BY <3>1, <1>9
    <3>3. Append(g[n], seq[n + 1]) \in Seq(T)
      BY <3>1
    <3> QED  BY <3>1, <3>2, <3>3, Zenon
  <2>3. M = Nat
    <3> HIDE DEF M
    <3>1. M \in SUBSET Nat
      BY DEF M
    <3> QED  BY <2>1, <2>2, <3>1, SetInduction
  <2> QED  BY <2>3
<1>12. g \in [0 .. Len(seq) -> Seq(T)]
  <2>1. g = [i \in 0 .. Len(seq) |-> B(g, i)]
    BY <1>7, Zenon
  <2> HIDE DEF B
  <2> QED  BY <1>11, <2>1
<1>13. Leaves(g, seq, S)
  BY <1>9, <1>10 DEF Leaves
<1> HIDE DEF Def, B
<1> QED  BY <1>1, <1>12, <1>13, Zenon

\* r is what is left of a deque without the puts of S: those that were in it
\* and are not of S, each once.
IsLeft(r, seq, S) ==
  /\ Len(r) <= Len(seq)
  /\ \A i \in 1 .. Len(r) : \E j \in 1 .. Len(seq) : r[i] = seq[j] /\ seq[j] \notin S
  /\ \A j \in 1 .. Len(seq) : seq[j] \notin S => \E i \in 1 .. Len(r) : r[i] = seq[j]
  /\ IsInjective(seq) => IsInjective(r)

\* without() leaves that.
LEMMA WithoutKeeps ==
  ASSUME NEW T, NEW seq \in Seq(T), NEW S
  PROVE  without(seq, S) \in Seq(T) /\ IsLeft(without(seq, S), seq, S)
<1>0. PICK f \in [0 .. Len(seq) -> Seq(T)] :
        without(seq, S) = f[Len(seq)] /\ Leaves(f, seq, S)
  BY WithoutUnfolds, Zenon
<1>1. /\ without(seq, S) = f[Len(seq)]
      /\ f[0] = <<>>
      /\ \A n \in 0 .. Len(seq) - 1 :
           f[n + 1] = IF seq[n + 1] \in S THEN f[n] ELSE Append(f[n], seq[n + 1])
  BY <1>0 DEF Leaves
<1> DEFINE From(r, n) == \A i \in 1 .. Len(r) : \E j \in 1 .. n : r[i] = seq[j] /\ seq[j] \notin S
           Kept(r, n) == \A j \in 1 .. n : seq[j] \notin S => \E i \in 1 .. Len(r) : r[i] = seq[j]
           Once(r) == IsInjective(seq) => \A a, b \in 1 .. Len(r) : r[a] = r[b] => a = b
           Good(n) == n <= Len(seq) => /\ Len(f[n]) <= n /\ From(f[n], n)
                                    /\ Kept(f[n], n) /\ Once(f[n])
           M == {n \in Nat : Good(n)}
<1>2. 0 \in M
  BY <1>1
<1>3. ASSUME NEW n \in M  PROVE n + 1 \in M
  <2> SUFFICES ASSUME n + 1 <= Len(seq)
               PROVE  /\ Len(f[n + 1]) <= n + 1 /\ From(f[n + 1], n + 1)
                      /\ Kept(f[n + 1], n + 1) /\ Once(f[n + 1])
    <3>1. n \in Nat
      OBVIOUS
    <3>2. Good(n + 1) => n + 1 \in M
      <4> HIDE DEF Good
      <4> QED  BY <3>1
    <3> HIDE DEF From, Kept, Once, M
    <3> QED  BY <3>2
  <2> DEFINE r == f[n]  x == seq[n + 1]
  <2>1. /\ n \in Nat /\ n \in 0 .. Len(seq) - 1 /\ n + 1 \in 1 .. Len(seq)
        /\ r \in Seq(T) /\ x \in T
        /\ Len(r) <= n /\ From(r, n) /\ Kept(r, n) /\ Once(r)
    <3>1. n \in Nat /\ Good(n)
      <4> HIDE DEF Good
      <4> QED  OBVIOUS
    <3>2. n \in 0 .. Len(seq) - 1 /\ n + 1 \in 1 .. Len(seq)
      BY <3>1
    <3>3. r \in Seq(T) /\ x \in T
      BY <3>2
    <3> HIDE DEF M, From, Kept, Once
    <3> QED  BY <3>1, <3>2, <3>3
  <2>2. f[n + 1] = IF x \in S THEN r ELSE Append(r, x)
    BY <1>1, <2>1
  <2> HIDE DEF r, x, M
  <2>3. CASE x \in S
    <3>1. f[n + 1] = r /\ \A j \in 1 .. n + 1 : j \in 1 .. n \/ seq[j] = x
      BY <2>1, <2>2, <2>3 DEF x
    <3>2. Kept(r, n + 1)
      BY <2>1, <2>3, <3>1
    <3>3. Len(r) <= n + 1
      BY <2>1
    <3>4. From(r, n + 1)
      <4>1. \A j \in 1 .. n : j \in 1 .. n + 1
        BY <2>1
      <4> QED  BY <2>1, <4>1
    <3> HIDE DEF From, Kept, Once
    <3> QED  BY <2>1, <3>1, <3>2, <3>3, <3>4
  <2>4. CASE x \notin S
    <3>1. f[n + 1] = Append(r, x)
      BY <2>2, <2>4
    <3>2. /\ Len(Append(r, x)) = Len(r) + 1 /\ Append(r, x)[Len(r) + 1] = x
          /\ \A i \in 1 .. Len(r) : Append(r, x)[i] = r[i]
      BY <2>1
    <3>3. Len(f[n + 1]) <= n + 1
      BY <3>1, <3>2, <2>1
    <3>4. From(Append(r, x), n + 1)
      <4> SUFFICES ASSUME NEW i \in 1 .. Len(r) + 1
                   PROVE  \E j \in 1 .. n + 1 : Append(r, x)[i] = seq[j] /\ seq[j] \notin S
        BY <3>2
      <4>1. CASE i = Len(r) + 1
        <5>1. Append(r, x)[i] = seq[n + 1] /\ seq[n + 1] \notin S /\ n + 1 \in 1 .. n + 1
          BY <4>1, <3>2, <2>1, <2>4 DEF x
        <5> QED  BY <5>1
      <4>2. CASE i # Len(r) + 1
        <5>1. i \in 1 .. Len(r)
          BY <4>2, <2>1
        <5>2. PICK j \in 1 .. n : r[i] = seq[j] /\ seq[j] \notin S
          BY <5>1, <2>1
        <5>3. j \in 1 .. n + 1
          BY <2>1
        <5> QED  BY <5>1, <5>2, <5>3, <3>2
      <4> QED  BY <4>1, <4>2
    <3>5. Once(Append(r, x))
      <4> SUFFICES ASSUME IsInjective(seq)
                   PROVE  \A a, b \in 1 .. Len(r) + 1 :
                            Append(r, x)[a] = Append(r, x)[b] => a = b
        BY <3>2
      <4>1. \A a \in 1 .. Len(r) : r[a] # x
        <5> SUFFICES ASSUME NEW a \in 1 .. Len(r)  PROVE r[a] # x
          OBVIOUS
        <5>1. PICK j \in 1 .. n : r[a] = seq[j]
          BY <2>1
        <5>2. j \in DOMAIN seq /\ n + 1 \in DOMAIN seq /\ j # n + 1
          BY <2>1
        <5>3. seq[j] # seq[n + 1]
          BY <5>2 DEF IsInjective
        <5> QED  BY <5>1, <5>3 DEF x
      <4>2. \A a \in 1 .. Len(r) + 1 : a \in 1 .. Len(r) \/ a = Len(r) + 1
        BY <2>1
      <4>3. \A a, b \in 1 .. Len(r) : r[a] = r[b] => a = b
        BY <2>1
      <4> HIDE DEF Once, From, Kept
      <4> QED  BY <4>1, <4>2, <4>3, <3>2
    <3>6. Kept(Append(r, x), n + 1)
      <4> SUFFICES ASSUME NEW j \in 1 .. n + 1, seq[j] \notin S
                   PROVE  \E i \in 1 .. Len(r) + 1 : Append(r, x)[i] = seq[j]
        BY <3>2
      <4>1. CASE j = n + 1
        <5>1. Len(r) + 1 \in 1 .. Len(r) + 1
          BY <2>1
        <5> QED  BY <4>1, <5>1, <3>2 DEF x
      <4>2. CASE j # n + 1
        <5>1. j \in 1 .. n
          BY <4>2, <2>1
        <5>2. PICK i \in 1 .. Len(r) : r[i] = seq[j]
          BY <5>1, <2>1
        <5>3. i \in 1 .. Len(r) + 1
          BY <2>1
        <5> QED  BY <5>2, <5>3, <3>2
      <4> QED  BY <4>1, <4>2
    <3> HIDE DEF From, Kept, Once
    <3> QED  BY <3>1, <3>3, <3>4, <3>5, <3>6
  <2> QED  BY <2>3, <2>4
<1>4. M = Nat
  <2> HIDE DEF M
  <2>1. M \in SUBSET Nat
    BY DEF M
  <2> QED  BY <1>2, <1>3, <2>1, SetInduction
<1>5. LET r == without(seq, S)
      IN  r \in Seq(T) /\ Len(r) <= Len(seq) /\ From(r, Len(seq)) /\ Kept(r, Len(seq)) /\ Once(r)
  <2> HIDE DEF From, Kept, Once
  <2>1. Len(seq) \in M
    BY <1>4
  <2> QED  BY <2>1, <1>1
<1>6. DOMAIN without(seq, S) = 1 .. Len(without(seq, S))
  BY <1>5
<1>7. IsInjective(seq) => IsInjective(without(seq, S))
  BY <1>5, <1>6 DEF IsInjective
<1> QED  BY <1>5, <1>7 DEF IsLeft

\* r is a list without an entry x: those before it stay, those behind it move up.
IsRemoved(r, seq, x) ==
  r = seq \/ \E i \in 1 .. Len(seq) :
    /\ seq[i] = x /\ Len(r) = Len(seq) - 1
    /\ \A k \in 1 .. Len(seq) - 1 : r[k] = IF k < i THEN seq[k] ELSE seq[k + 1]

\* list.remove does that.
LEMMA RemovedKeeps ==
  ASSUME NEW T, NEW seq \in Seq(T), NEW x
  PROVE  removed(seq, x) \in Seq(T) /\ IsRemoved(removed(seq, x), seq, x)
<1>1. CASE ~\E i \in DOMAIN seq : seq[i] = x
  BY <1>1 DEF removed, IsRemoved
<1>2. CASE \E i \in DOMAIN seq : seq[i] = x
  <2> DEFINE i == CHOOSE i \in DOMAIN seq : seq[i] = x
  <2>1. i \in 1 .. Len(seq) /\ seq[i] = x
    BY <1>2
  <2>2. removed(seq, x) = SubSeq(seq, 1, i - 1) \o SubSeq(seq, i + 1, Len(seq))
    BY <1>2 DEF removed, RemoveAt
  <2> HIDE DEF i
  <2> DEFINE a == SubSeq(seq, 1, i - 1)  b == SubSeq(seq, i + 1, Len(seq))
  <2>3. /\ a \in Seq(T) /\ Len(a) = i - 1
        /\ \A k \in 1 .. i - 1 : a[k] = seq[k]
    BY <2>1
  <2>4. /\ b \in Seq(T) /\ Len(b) = Len(seq) - i
        /\ \A k \in 1 .. Len(seq) - i : b[k] = seq[i + k]
    BY <2>1
  <2> HIDE DEF a, b
  <2>5. /\ a \o b \in Seq(T) /\ Len(a \o b) = Len(a) + Len(b)
        /\ \A k \in 1 .. Len(a) + Len(b) : (a \o b)[k] = IF k <= Len(a) THEN a[k] ELSE b[k - Len(a)]
    <3>1. a \in Seq(T) /\ b \in Seq(T)
      BY <2>3, <2>4
    <3> QED  BY <3>1
  <2>6. ASSUME NEW k \in 1 .. Len(seq) - 1
        PROVE  (a \o b)[k] = IF k < i THEN seq[k] ELSE seq[k + 1]
    <3>1. CASE k < i
      <4>1. k \in 1 .. i - 1 /\ k <= Len(a)
        BY <3>1, <2>1, <2>3
      <4> QED  BY <4>1, <3>1, <2>1, <2>3, <2>4, <2>5
    <3>2. CASE ~(k < i)
      <4>1. k - (i - 1) \in 1 .. Len(seq) - i /\ i + (k - (i - 1)) = k + 1 /\ ~(k <= Len(a))
        BY <3>2, <2>1, <2>3
      <4>2. k \in 1 .. Len(a) + Len(b)
        BY <2>1, <2>3, <2>4
      <4>3. (a \o b)[k] = b[k - (i - 1)]
        BY <4>1, <4>2, <2>3, <2>5
      <4>4. b[k - (i - 1)] = seq[k + 1]
        BY <4>1, <2>4
      <4> QED  BY <4>3, <4>4, <3>2
    <3> QED  BY <3>1, <3>2
  <2>7. removed(seq, x) = a \o b
    BY <2>2 DEF a, b
  <2>8. Len(a) + Len(b) = Len(seq) - 1
    BY <2>1, <2>3, <2>4
  <2> QED  BY <2>1, <2>5, <2>6, <2>7, <2>8 DEF IsRemoved
<1> QED  BY <1>1, <1>2

\* min() of two numbers.
LEMMA MinOfTwo ==
  ASSUME NEW a \in Nat, NEW b \in Nat
  PROVE  Min({a, b}) \in {a, b} /\ Min({a, b}) <= a /\ Min({a, b}) <= b
<1>1. {a, b} \in SUBSET Nat /\ {a, b} # {}
  OBVIOUS
<1>2. Min({a, b}) \in {a, b} /\ \A y \in {a, b} : Min({a, b}) <= y
  BY <1>1, LeastNat, Zenon
<1> QED  BY <1>2

\* There are finitely many tasks, hence of any kind of them.
LEMMA FiniteTasks == IsFiniteSet(Procs) /\ \A X \in SUBSET Procs : IsFiniteSet(X) /\ Cardinality(X) \in Nat
<1>1. IsFiniteSet(Subs)
  <2>1. Subs = {SubscribeOrder[i] : i \in 1 .. Len(SubscribeOrder)}
    BY BusConstants DEF Subs, Range
  <2>2. IsFiniteSet(1 .. Len(SubscribeOrder))
    <3>1. Len(SubscribeOrder) \in Int /\ 1 \in Int
      BY BusConstants
    <3> QED  BY <3>1, FS_Interval
  <2>3. SubscribeOrder \in Surjection(1 .. Len(SubscribeOrder), Subs)
    BY <2>1, BusConstants DEF Surjection
  <2> QED  BY <2>2, <2>3, FS_Surjection, Zenon
<1>2. IsFiniteSet(Procs)
  BY <1>1, BusConstants, FS_Union DEF Procs
<1> QED  BY <1>2, FS_Subset, FS_CardinalityType

-----------------------------------------------------------------------------
(* The inductive invariant *)

\* The events at a subscription: the one its handler has, or had last, and the
\* queue behind it.
At(s) == Range(queue[s]) \cup ({handling[s]} \ {NoEvent})

\* The subscriptions made so far.
Made == {SubscribeOrder[i] : i \in 1 .. made}

\* The lists hold the subscriptions made, each once and under its type; nothing
\* has reached a subscription before it is made.
Wired ==
  /\ \A t \in Types : IsInjective(subs[t])
  /\ \A t \in Types : \A i \in 1 .. Len(subs[t]) : subs[t][i] \in Made /\ TypeOf[subs[t][i]] = t
  /\ \A s \in Subs \ Made : queue[s] = <<>> /\ handling[s] = NoEvent
  /\ \A p \in Procs : call[p] # NoCall => call[p].sub \in Made
  /\ \A s \in Subs : worker[s] \in {"busy", "emitted"} => handling[s] \in Events

\* asyncio.Queue's putters: a suspended publish() is in the deque of its queue,
\* once, or has been woken.
Suspended ==
  /\ \A p \in woken : call[p] # NoCall
  /\ \A s \in Subs : IsInjective(putters[s])
  /\ \A s \in Subs : \A i \in 1 .. Len(putters[s]) :
       LET p == putters[s][i] IN call[p] # NoCall /\ call[p].sub = s /\ p \notin woken

\* While a put sleeps, every free slot of its queue has a woken put coming for it.
WokenAt(s) == {p \in woken : call[p].sub = s}
WakeupsOut ==
  \A s \in Subs : putters[s] # <<>> => Cardinality(WokenAt(s)) + Len(queue[s]) >= QueueSize

\* Publishers number their events, and an event in a suspended publish() has not
\* reached the subscription it waits for, nor those behind it in the list.
Before(p) ==
  LET c == call[p]  list == subs[c.ev.type]
  IN  /\ c.ev.src = p /\ c.ev.n = sent[p]
      /\ \A x \in At(c.sub) : x.src = p => x.n < sent[p]
      /\ \A k \in 1 .. Len(list) : k > c.idx =>
           /\ list[k] # c.sub
           /\ \A x \in At(list[k]) : x.src = p => x.n < sent[p]
Numbered ==
  /\ \A s \in Subs : \A e \in At(s) : e.n <= sent[e.src]
  /\ \A p \in Procs : call[p] # NoCall => Before(p)

\* Each publisher's events are in order, and the newest one put is the last.
InOrder ==
  \A s \in Subs :
    /\ \A i, j \in 1 .. Len(queue[s]) :
         i < j /\ queue[s][i].src = queue[s][j].src => queue[s][i].n < queue[s][j].n
    /\ handling[s] # NoEvent =>
         \A j \in 1 .. Len(queue[s]) :
           queue[s][j].src = handling[s].src => handling[s].n < queue[s][j].n
    /\ queue[s] # <<>> => newest[s] = queue[s][Len(queue[s])]
    /\ queue[s] = <<>> /\ newest[s] # NoEvent => newest[s] = handling[s]

BusInv == BusTypeOK /\ Wired /\ Suspended /\ WakeupsOut /\ Numbered /\ InOrder

-----------------------------------------------------------------------------
(* Putting an event *)

\* A publish() in progress is told from none.
LEMMA IsACall == \A e, i, s : [ev |-> e, idx |-> i, sub |-> s] # NoCall
<1> SUFFICES ASSUME NEW e, NEW i, NEW s  PROVE DOMAIN [ev |-> e, idx |-> i, sub |-> s] # DOMAIN NoCall
  OBVIOUS
<1>1. DOMAIN [ev |-> e, idx |-> i, sub |-> s] = {"ev", "idx", "sub"}
  OBVIOUS
<1>2. DOMAIN NoCall = {"sub"}
  BY DEF NoCall
<1> QED  BY <1>1, <1>2

\* The put of an event in a queue that has room or evicts: the event is last,
\* the others are as they were, or all but the oldest of them.
LEMMA EnqueueKeeps ==
  ASSUME BusTypeOK, NEW s \in Subs, NEW e \in Events, ~full(s) \/ s \in DropIfFull
  PROVE  LET q == queue[s]  r == Enqueue(s, e)
         IN  /\ r \in Seq(Events) /\ Len(r) <= QueueSize /\ Len(r) >= Len(q) /\ Len(r) \in Nat \ {0}
             /\ r[Len(r)] = e
             /\ \/ \A i \in 1 .. Len(r) - 1 : i \in 1 .. Len(q) /\ r[i] = q[i]
                \/ \A i \in 1 .. Len(r) - 1 : i + 1 \in 1 .. Len(q) /\ r[i] = q[i + 1]
             /\ Len(r) <= Len(q) + 1
<1> DEFINE q == queue[s]
<1>1. q \in Seq(Events) /\ Len(q) \in Nat /\ Len(q) <= QueueSize
  BY DEF BusTypeOK
<1>2. CASE full(s)
  <2>1. Len(q) = QueueSize /\ q # <<>> /\ s \in DropIfFull
    BY <1>1, <1>2, BusConstants DEF full
  <2>2. Tail(q) \in Seq(Events) /\ Len(Tail(q)) = Len(q) - 1
        /\ \A i \in 1 .. Len(q) - 1 : Tail(q)[i] = q[i + 1]
    BY <1>1, <2>1
  <2>3. Enqueue(s, e) = Append(Tail(q), e)
    BY <1>2, <2>1 DEF Enqueue
  <2> DEFINE t == Tail(q)
  <2> HIDE DEF q, t
  <2>4. t \in Seq(Events) /\ Len(t) = Len(q) - 1 /\ \A i \in 1 .. Len(q) - 1 : t[i] = q[i + 1]
    BY <2>2 DEF t
  <2>5. /\ Append(t, e) \in Seq(Events) /\ Len(Append(t, e)) = Len(t) + 1
        /\ Append(t, e)[Len(t) + 1] = e /\ \A i \in 1 .. Len(t) : Append(t, e)[i] = t[i]
    BY <2>4
  <2> QED  BY <1>1, <2>1, <2>3, <2>4, <2>5, BusConstants DEF t, q
<1>3. CASE ~full(s)
  <2>1. Len(q) < QueueSize /\ Enqueue(s, e) = Append(q, e)
    BY <1>1, <1>3, BusConstants DEF full, Enqueue
  <2> HIDE DEF q
  <2>2. /\ Append(q, e) \in Seq(Events) /\ Len(Append(q, e)) = Len(q) + 1
        /\ Append(q, e)[Len(q) + 1] = e /\ \A i \in 1 .. Len(q) : Append(q, e)[i] = q[i]
    BY <1>1
  <2> QED  BY <1>1, <2>1, <2>2, BusConstants DEF q
<1> QED  BY <1>2, <1>3

\* What publish() does to the queues from list index `from` on: every matching
\* subscription it reaches gets the event, up to the end of the list or to the
\* full queue it suspends at.
Routed(p, e, from, also, cut, reach) ==
  LET tgt == subs[e.type]
  IN  /\ reach = also \cup {tgt[j] : j \in {k \in from .. cut - 1 : Matches(tgt[k], e)}}
      /\ \A s \in reach : ~full(s) \/ s \in DropIfFull
      /\ \A k \in 1 .. Len(tgt) : from <= k /\ k < cut /\ Matches(tgt[k], e) => tgt[k] \in reach
      /\ \A s \in reach : s \in also \/ \E k \in 1 .. Len(tgt) : from <= k /\ k < cut /\ tgt[k] = s
      /\ queue' = [s \in Subs |-> IF s \in reach THEN Enqueue(s, e) ELSE queue[s]]
      /\ newest' = [s \in Subs |-> IF s \in reach THEN e ELSE newest[s]]
      /\ \/ /\ cut = Len(tgt) + 1
            /\ call' = [call EXCEPT ![p] = NoCall]
            /\ putters' = putters
         \/ /\ cut \in 1 .. Len(tgt) /\ from <= cut
            /\ full(tgt[cut]) /\ tgt[cut] \notin DropIfFull /\ Matches(tgt[cut], e)
            /\ call' = [call EXCEPT ![p] = [ev |-> e, idx |-> cut, sub |-> tgt[cut]]]
            /\ putters' = [putters EXCEPT ![tgt[cut]] = Append(putters[tgt[cut]], p)]

\* One turn of publish() hands the event to the subscribers it reaches before
\* the next full queue; who is still owed it is the rest of the list, or nobody
\* when the call has come to its end.
LEMMA RouteSplits ==
  ASSUME BusTypeOK, NEW p \in Procs, NEW e \in Events, NEW from \in Nat \ {0},
         NEW also \in SUBSET Subs, \A s \in also : ~full(s), Route(p, e, from, also)
  PROVE  \E cut \in Nat, reach \in SUBSET Subs :
           /\ Routed(p, e, from, also, cut, reach)
           /\ owed' = (owed \ {<<e, s>> : s \in reach})
                   \cup (IF also # {} THEN {}
                         ELSE {<<e, s>> : s \in {x \in Range(subs[e.type]) : Matches(x, e)} \ reach})
<1> DEFINE tgt   == subs[e.type]
           stops == {j \in from .. Len(tgt) : Blocks(tgt[j], e)}
           cut  == IF stops = {} THEN Len(tgt) + 1 ELSE Min(stops)
           reach == also \cup {tgt[j] : j \in {k \in from .. cut - 1 : Matches(tgt[k], e)}}
<1>1. e.type \in Types /\ tgt \in Seq(Subs) /\ Len(tgt) \in Nat
  BY DEF BusTypeOK, Events
<1>2. stops = {} \/ (cut \in stops /\ \A j \in stops : cut <= j)
  <2>1. stops \in SUBSET Nat
    BY <1>1
  <2> HIDE DEF stops
  <2> QED  BY <2>1, LeastNat
<1>3. cut \in Nat /\ cut <= Len(tgt) + 1
  <2>1. CASE stops = {}
    BY <1>1, <2>1
  <2>2. CASE stops # {}
    <3>1. cut \in stops
      BY <1>2, <2>2
    <3> HIDE DEF cut
    <3> QED  BY <1>1, <3>1
  <2> QED  BY <2>1, <2>2
<1>4. \A j \in from .. cut - 1 : j \in 1 .. Len(tgt) /\ tgt[j] \in Subs /\ ~Blocks(tgt[j], e)
  <2> SUFFICES ASSUME NEW j \in from .. cut - 1
               PROVE  j \in 1 .. Len(tgt) /\ tgt[j] \in Subs /\ ~Blocks(tgt[j], e)
    OBVIOUS
  <2> HIDE DEF cut
  <2>1. j \in 1 .. Len(tgt) /\ j \in from .. Len(tgt) /\ j < cut
    BY <1>1, <1>3
  <2>2. j \notin stops
    <3>1. CASE stops = {}
      BY <3>1
    <3>2. CASE stops # {}
      <4> HIDE DEF stops
      <4> QED  BY <3>2, <1>2, <1>3, <2>1
    <3> QED  BY <3>1, <3>2
  <2> QED  BY <1>1, <2>1, <2>2
<1>5. /\ queue' = [s \in Subs |-> IF s \in reach THEN Enqueue(s, e) ELSE queue[s]]
      /\ newest' = [s \in Subs |-> IF s \in reach THEN e ELSE newest[s]]
      /\ IF stops = {}
         THEN call' = [call EXCEPT ![p] = NoCall] /\ UNCHANGED putters
         ELSE /\ call' = [call EXCEPT ![p] = [ev |-> e, idx |-> cut, sub |-> tgt[cut]]]
              /\ putters' = [putters EXCEPT ![tgt[cut]] = Append(@, p)]
      /\ owed' = (owed \ {<<e, s>> : s \in reach})
                   \cup (IF also # {} THEN {}
                         ELSE {<<e, s>> : s \in {x \in Range(tgt) : Matches(x, e)} \ reach})
  BY Zenon DEF Route
<1>6. reach \in SUBSET Subs /\ \A s \in reach : ~full(s) \/ s \in DropIfFull
  <2> HIDE DEF cut, tgt
  <2> QED  BY <1>4 DEF Blocks
<1>7. \A k \in 1 .. Len(tgt) : from <= k /\ k < cut /\ Matches(tgt[k], e) => tgt[k] \in reach
  <2> HIDE DEF cut, tgt
  <2> QED  BY <1>1, <1>3
<1>8. \A s \in reach : s \in also \/ \E k \in 1 .. Len(tgt) : from <= k /\ k < cut /\ tgt[k] = s
  <2> HIDE DEF cut, tgt
  <2> QED  BY <1>1, <1>3, <1>4
<1>9. \/ stops = {} /\ cut = Len(tgt) + 1
      \/ /\ stops # {} /\ cut \in 1 .. Len(tgt) /\ from <= cut
         /\ full(tgt[cut]) /\ tgt[cut] \notin DropIfFull /\ Matches(tgt[cut], e)
  <2>1. CASE stops = {}
    BY <2>1
  <2>2. CASE stops # {}
    <3>1. cut \in stops
      BY <1>2, <2>2
    <3> HIDE DEF cut
    <3> QED  BY <1>1, <3>1, <2>2 DEF Blocks
  <2> QED  BY <2>1, <2>2
<1>10. Routed(p, e, from, also, cut, reach)
  <2> HIDE DEF cut, stops, tgt
  <2>1. reach = also \cup {tgt[j] : j \in {k \in from .. cut - 1 : Matches(tgt[k], e)}}
    OBVIOUS
  <2> HIDE DEF reach
  <2> QED  BY <2>1, <1>5, <1>6, <1>7, <1>8, <1>9, Zenon DEF Routed, tgt
<1> HIDE DEF cut, reach, stops
<1> QED  BY <1>3, <1>5, <1>6, <1>10, Zenon

\* A task p is about to route its event e from list index `from` on, having been
\* let through to the queue `also` if it was suspended there.
Ready(p, e, from, also) ==
  /\ e \in Events /\ e.src = p /\ from \in Nat \ {0}
  /\ also \subseteq Made /\ \A s \in also : ~full(s)
  /\ \A s \in Subs : \A x \in At(s) : x.src = p => x.n <= e.n
  /\ \A s \in also : \A x \in At(s) : x.src = p => x.n < e.n
  /\ \A k \in 1 .. Len(subs[e.type]) : from <= k =>
       /\ subs[e.type][k] \notin also
       /\ \A x \in At(subs[e.type][k]) : x.src = p => x.n < e.n
  /\ sent' = [sent EXCEPT ![p] = e.n]
  /\ \A s \in Subs : \A i \in 1 .. Len(putters[s]) : putters[s][i] # p
  /\ woken' = woken \ {p}
  /\ p \in woken => call[p].sub \in also

\* The rest of a step that routes.
Beside ==
  /\ UNCHANGED <<running, made, subs, handling, flushing, joined>>
  /\ worker' \in [Subs -> {"none", "idle", "busy", "emitted", "cancelled"}]
  /\ \A s \in Subs : worker'[s] \in {"busy", "emitted"} => worker[s] \in {"busy", "emitted"}

\* Which events are at a subscription after a step that routes.
LEMMA RoutedAt ==
  ASSUME BusTypeOK, NEW p, NEW e \in Events, NEW from, NEW also, NEW cut, NEW reach,
         Routed(p, e, from, also, cut, reach), handling' = handling, NEW s \in Subs
  PROVE  /\ s \in reach => At(s)' \subseteq At(s) \cup {e}
         /\ s \notin reach => At(s)' = At(s)
<1>1. CASE s \notin reach
  BY <1>1 DEF Routed, At
<1>2. CASE s \in reach
  <2>1. queue'[s] = Enqueue(s, e) /\ (~full(s) \/ s \in DropIfFull)
    BY <1>2 DEF Routed
  <2>2. queue[s] \in Seq(Events) /\ Len(queue[s]) \in Nat
    BY DEF BusTypeOK
  <2> DEFINE r == Enqueue(s, e)
  <2>3. /\ r \in Seq(Events) /\ Len(r) \in Nat \ {0} /\ r[Len(r)] = e
        /\ \A i \in 1 .. Len(r) - 1 : \E j \in 1 .. Len(queue[s]) : r[i] = queue[s][j]
    <3> HIDE DEF r
    <3>1. /\ r \in Seq(Events) /\ Len(r) \in Nat \ {0} /\ r[Len(r)] = e
          /\ \/ \A i \in 1 .. Len(r) - 1 : i \in 1 .. Len(queue[s]) /\ r[i] = queue[s][i]
             \/ \A i \in 1 .. Len(r) - 1 : i + 1 \in 1 .. Len(queue[s]) /\ r[i] = queue[s][i + 1]
      BY <2>1, EnqueueKeeps DEF r
    <3> QED  BY <3>1
  <2> HIDE DEF r
  <2>4. DOMAIN r = 1 .. Len(r) /\ DOMAIN queue[s] = 1 .. Len(queue[s])
    BY <2>2, <2>3
  <2>5. \A i \in 1 .. Len(r) : i \in 1 .. Len(r) - 1 \/ i = Len(r)
    BY <2>3
  <2>6. Range(r) \subseteq Range(queue[s]) \cup {e}
    BY <2>3, <2>4, <2>5 DEF Range
  <2> QED  BY <1>2, <2>1, <2>6 DEF At, r
<1> QED  BY <1>1, <1>2

\* Routing keeps the invariant.
LEMMA RouteKeeps ==
  ASSUME BusInv, NEW p \in Procs, NEW e, NEW from, NEW also, NEW cut \in Nat, NEW reach \in SUBSET Subs,
         Ready(p, e, from, also), Routed(p, e, from, also, cut, reach), Beside
  PROVE  BusInv'
<1> DEFINE tgt == subs[e.type]
<1>1. /\ e \in Events /\ e.type \in Types /\ e.src = p /\ e.n \in Nat
      /\ tgt \in Seq(Subs) /\ Len(tgt) \in Nat
      /\ \A k \in 1 .. Len(tgt) : tgt[k] \in Subs /\ tgt[k] \in Made
  BY DEF BusInv, BusTypeOK, Wired, Ready, Events
<1>2. \/ call' = [call EXCEPT ![p] = NoCall] /\ putters' = putters
      \/ /\ cut \in 1 .. Len(tgt) /\ from <= cut
         /\ full(tgt[cut]) /\ tgt[cut] \notin reach
         /\ call' = [call EXCEPT ![p] = [ev |-> e, idx |-> cut, sub |-> tgt[cut]]]
         /\ putters' = [putters EXCEPT ![tgt[cut]] = Append(putters[tgt[cut]], p)]
  BY DEF Routed
<1>3. \A s \in Subs : /\ queue'[s] = IF s \in reach THEN Enqueue(s, e) ELSE queue[s]
                      /\ newest'[s] = IF s \in reach THEN e ELSE newest[s]
  BY DEF Routed
<1>4. \A s \in reach : ~full(s) \/ s \in DropIfFull
  BY DEF Routed
<1>5. \A s \in reach : s \in Made /\ (s \in also \/ \E k \in 1 .. Len(tgt) : from <= k /\ k < cut /\ tgt[k] = s)
  BY <1>1 DEF Routed, Ready
<1>6. \A q \in Procs : q # p => call'[q] = call[q]
  BY <1>2 DEF BusInv, BusTypeOK
<1>7. call'[p] = NoCall \/ call'[p] = [ev |-> e, idx |-> cut, sub |-> tgt[cut]]
  BY <1>2 DEF BusInv, BusTypeOK
<1>8. \A s \in Subs : (s \in reach => At(s)' \subseteq At(s) \cup {e}) /\ (s \notin reach => At(s)' = At(s))
  <2>1. BusTypeOK /\ handling' = handling
    BY DEF BusInv, Beside
  <2> QED  BY <1>1, <2>1, RoutedAt
<1>9. ASSUME NEW s \in reach
      PROVE  \A x \in At(s) : x.src = p => x.n < e.n
  BY <1>5 DEF Ready
<1> HIDE DEF tgt
<1>10. BusTypeOK'
  <2>1. ASSUME NEW s \in Subs
        PROVE  queue'[s] \in Seq(Events) /\ Len(queue'[s]) <= QueueSize /\ newest'[s] \in Events \cup {NoEvent}
    <3>1. CASE s \in reach
      BY <1>1, <1>3, <1>4, <3>1, EnqueueKeeps DEF BusInv
    <3>2. CASE s \notin reach
      BY <1>3, <3>2 DEF BusInv, BusTypeOK
    <3> QED  BY <3>1, <3>2
  <2>2. queue' \in [Subs -> Seq(Events)] /\ newest' \in [Subs -> Events \cup {NoEvent}]
    <3>1. queue' = [s \in Subs |-> queue'[s]] /\ newest' = [s \in Subs |-> newest'[s]]
      BY DEF Routed
    <3> QED  BY <3>1, <2>1
  <2>3. call' \in [Procs -> Calls \cup {NoCall}] /\ putters' \in [Subs -> Seq(Procs)]
    <3>1. CASE call' = [call EXCEPT ![p] = NoCall] /\ putters' = putters
      BY <3>1 DEF BusInv, BusTypeOK
    <3>2. CASE /\ cut \in 1 .. Len(tgt)
               /\ call' = [call EXCEPT ![p] = [ev |-> e, idx |-> cut, sub |-> tgt[cut]]]
               /\ putters' = [putters EXCEPT ![tgt[cut]] = Append(putters[tgt[cut]], p)]
      <4>1. [ev |-> e, idx |-> cut, sub |-> tgt[cut]] \in Calls
        BY <1>1, <3>2 DEF Calls
      <4>2. Append(putters[tgt[cut]], p) \in Seq(Procs)
        BY <1>1, <3>2 DEF BusInv, BusTypeOK
      <4> QED  BY <4>1, <4>2, <3>2 DEF BusInv, BusTypeOK
    <3> QED  BY <1>2, <3>1, <3>2
  <2>4. sent' \in [Procs -> Nat] /\ woken' \subseteq Procs
    BY <1>1 DEF BusInv, BusTypeOK, Ready
  <2> QED  BY <2>1, <2>2, <2>3, <2>4 DEF BusInv, BusTypeOK, Beside
<1>11. Wired'
  <2>1. \A s \in Subs : worker'[s] \in {"busy", "emitted"} => handling'[s] \in Events
    BY DEF BusInv, Wired, Beside
  <2>2. UNCHANGED <<subs, made, handling>> /\ Made' = Made
    BY DEF Beside, Made
  <2>3. \A s \in Subs \ Made : queue'[s] = queue[s]
    BY <1>3, <1>5
  <2>4. \A q \in Procs : call'[q] # NoCall => call'[q].sub \in Made
    <3>1. call'[p] # NoCall => call'[p].sub \in Made
      BY <1>1, <1>2, <1>7 DEF BusInv, BusTypeOK
    <3> QED  BY <3>1, <1>6 DEF BusInv, Wired
  <2> QED  BY <2>1, <2>2, <2>3, <2>4 DEF BusInv, Wired
<1>12. Suspended'
  <2>1. woken' = woken \ {p} /\ \A s \in Subs : \A i \in 1 .. Len(putters[s]) : putters[s][i] # p
    BY DEF Ready
  <2>2. \A q \in woken' : call'[q] # NoCall
    BY <2>1, <1>6 DEF BusInv, BusTypeOK, Suspended
  <2>3. ASSUME NEW s \in Subs, putters'[s] = putters[s]
        PROVE  /\ IsInjective(putters'[s])
               /\ \A i \in 1 .. Len(putters'[s]) :
                    LET q == putters'[s][i] IN call'[q] # NoCall /\ call'[q].sub = s /\ q \notin woken'
    <3>1. putters[s] \in Seq(Procs) /\ \A i \in 1 .. Len(putters[s]) : putters[s][i] \in Procs
      BY DEF BusInv, BusTypeOK
    <3> QED  BY <3>1, <2>1, <2>3, <1>6 DEF BusInv, Suspended
  <2>4. CASE putters' = putters
    BY <2>2, <2>3, <2>4 DEF Suspended
  <2>5. CASE /\ cut \in 1 .. Len(tgt)
             /\ call' = [call EXCEPT ![p] = [ev |-> e, idx |-> cut, sub |-> tgt[cut]]]
             /\ putters' = [putters EXCEPT ![tgt[cut]] = Append(putters[tgt[cut]], p)]
    <3> DEFINE t == tgt[cut]  d == putters[t]
    <3>1. t \in Subs /\ d \in Seq(Procs) /\ putters'[t] = Append(d, p)
      BY <1>1, <2>5 DEF BusInv, BusTypeOK
    <3>2. \A s \in Subs \ {t} : putters'[s] = putters[s]
      BY <1>1, <2>5 DEF BusInv, BusTypeOK
    <3>3. call'[p] # NoCall /\ call'[p].sub = t
      <4>1. call'[p] = [ev |-> e, idx |-> cut, sub |-> t]
        BY <2>5 DEF BusInv, BusTypeOK
      <4> HIDE DEF t
      <4> QED  BY <4>1, IsACall
    <3> HIDE DEF t
    <3>4. \A i \in 1 .. Len(d) : d[i] \in Procs /\ d[i] # p /\ call[d[i]] # NoCall /\ call[d[i]].sub = t
                                 /\ d[i] \notin woken
      BY <2>1, <3>1 DEF BusInv, Suspended
    <3>5. IsInjective(d) /\ DOMAIN d = 1 .. Len(d)
      BY <3>1 DEF BusInv, Suspended
    <3> HIDE DEF d
    <3>6. /\ Len(Append(d, p)) = Len(d) + 1 /\ DOMAIN Append(d, p) = 1 .. Len(d) + 1
          /\ Append(d, p)[Len(d) + 1] = p /\ \A i \in 1 .. Len(d) : Append(d, p)[i] = d[i]
          /\ \A i \in 1 .. Len(d) + 1 : i \in 1 .. Len(d) \/ i = Len(d) + 1
      BY <3>1
    <3>7. IsInjective(Append(d, p))
      BY <3>4, <3>5, <3>6 DEF IsInjective
    <3>8. \A i \in 1 .. Len(d) + 1 : LET q == Append(d, p)[i]
                                     IN  call'[q] # NoCall /\ call'[q].sub = t /\ q \notin woken'
      BY <2>1, <3>3, <3>4, <3>6, <1>6
    <3>9. ASSUME NEW s \in Subs
          PROVE  /\ IsInjective(putters'[s])
                 /\ \A i \in 1 .. Len(putters'[s]) :
                      LET q == putters'[s][i] IN call'[q] # NoCall /\ call'[q].sub = s /\ q \notin woken'
      <4>1. CASE s = t
        BY <4>1, <3>1, <3>6, <3>7, <3>8
      <4>2. CASE s # t
        BY <4>2, <3>2, <2>3
      <4> QED  BY <4>1, <4>2
    <3> QED  BY <2>2, <3>9 DEF Suspended
  <2> QED  BY <1>2, <2>4, <2>5
<1>13. WakeupsOut'
  <2> SUFFICES ASSUME NEW s \in Subs, putters'[s] # <<>>
               PROVE  Cardinality(WokenAt(s)') + Len(queue'[s]) >= QueueSize
    BY DEF WakeupsOut
  <2>1. WokenAt(s)' = WokenAt(s) \ {p}
    <3>1. woken' = woken \ {p} /\ woken \subseteq Procs
      BY DEF BusInv, BusTypeOK, Ready
    <3> QED  BY <3>1, <1>6 DEF WokenAt
  <2>2. IsFiniteSet(WokenAt(s)) /\ Cardinality(WokenAt(s)) \in Nat /\ Cardinality(WokenAt(s)') \in Nat
    <3>1. WokenAt(s) \subseteq Procs /\ WokenAt(s)' \subseteq Procs
      BY <2>1 DEF BusInv, BusTypeOK, WokenAt
    <3> QED  BY <3>1, FiniteTasks
  <2>3. queue[s] \in Seq(Events) /\ Len(queue[s]) \in Nat /\ Len(queue'[s]) \in Nat
    BY <1>10 DEF BusInv, BusTypeOK
  <2>4. Len(queue'[s]) >= Len(queue[s]) /\ (s \in reach /\ ~full(s) => Len(queue'[s]) = Len(queue[s]) + 1)
    <3>1. CASE s \in reach
      <4>1. Len(Enqueue(s, e)) >= Len(queue[s])
        BY <3>1, <1>1, <1>4, EnqueueKeeps DEF BusInv
      <4>2. ~full(s) => Len(Enqueue(s, e)) = Len(queue[s]) + 1
        BY <2>3, <1>1 DEF Enqueue
      <4> QED  BY <3>1, <4>1, <4>2, <1>3
    <3>2. CASE s \notin reach
      BY <3>2, <1>3, <2>3
    <3> QED  BY <3>1, <3>2
  <2>5. CASE full(s)
    BY <2>5, <2>2, <2>3, <2>4, BusConstants DEF full
  <2>6. CASE ~full(s)
    <3>1. putters'[s] = putters[s]
      BY <1>1, <1>2, <2>6 DEF BusInv, BusTypeOK
    <3>2. Cardinality(WokenAt(s)) + Len(queue[s]) >= QueueSize
      BY <3>1 DEF BusInv, WakeupsOut
    <3>3. CASE p \in WokenAt(s)
      <4>1. s \in reach
        BY <3>3 DEF WokenAt, Ready, Routed
      <4>2. Cardinality(WokenAt(s)') = Cardinality(WokenAt(s)) - 1
        BY <3>3, <2>1, <2>2, FS_RemoveElement
      <4> QED  BY <4>1, <4>2, <3>2, <2>2, <2>3, <2>4, <2>6, BusConstants
    <3>4. CASE p \notin WokenAt(s)
      <4>1. WokenAt(s)' = WokenAt(s)
        BY <3>4, <2>1
      <4> QED  BY <4>1, <3>2, <2>2, <2>3, <2>4, BusConstants
    <3> QED  BY <3>3, <3>4
  <2> QED  BY <2>5, <2>6
<1>14. Numbered'
  <2>1. sent' = [sent EXCEPT ![p] = e.n] /\ sent \in [Procs -> Nat]
    BY DEF BusInv, BusTypeOK, Ready
  <2>2. \A s \in Subs : At(s) \subseteq Events
    BY DEF BusInv, BusTypeOK, At, Range
  <2>3. \A s \in Subs : \A x \in At(s)' : x.n <= sent'[x.src]
    <3> SUFFICES ASSUME NEW s \in Subs, NEW x \in At(s)'  PROVE x.n <= sent'[x.src]
      OBVIOUS
    <3>1. CASE x = e
      BY <3>1, <2>1, <1>1
    <3>2. CASE x \in At(s)
      <4>1. x \in Events /\ x.src \in Procs /\ x.n <= sent[x.src] /\ (x.src = p => x.n <= e.n)
        BY <3>2, <2>2 DEF BusInv, Numbered, Ready, Events
      <4> QED  BY <4>1, <2>1
    <3> QED  BY <3>1, <3>2, <1>8
  <2>4. subs' = subs
    BY DEF Beside
  <2>5. ASSUME NEW q \in Procs, q # p, call'[q] # NoCall  PROVE Before(q)'
    <3>1. call'[q] = call[q] /\ sent'[q] = sent[q]
      BY <2>1, <2>5, <1>6
    <3>2. \A s \in Subs : \A x \in At(s)' : x.src = q => x \in At(s)
      BY <2>5, <1>1, <1>8
    <3>3. call[q] \in Calls
      BY <2>5, <3>1 DEF BusInv, BusTypeOK
    <3>4. call[q].sub \in Subs /\ \A k \in 1 .. Len(subs[call[q].ev.type]) : subs[call[q].ev.type][k] \in Subs
      BY <3>3 DEF Calls, Events, BusInv, BusTypeOK
    <3>5. Before(q)
      BY <2>5, <3>1 DEF BusInv, Numbered
    <3> QED  BY <2>4, <3>1, <3>2, <3>4, <3>5 DEF Before, At
  <2>6. ASSUME call'[p] # NoCall  PROVE Before(p)'
    <3>1. call'[p] = [ev |-> e, idx |-> cut, sub |-> tgt[cut]]
      BY <2>6, <1>7
    <3>2. cut \in 1 .. Len(tgt) /\ from <= cut /\ tgt[cut] \notin reach
      BY <2>6, <1>2 DEF BusInv, BusTypeOK
    <3>3. sent'[p] = e.n
      BY <2>1
    <3>4. from \in Nat \ {0} /\ IsInjective(tgt) /\ DOMAIN tgt = 1 .. Len(tgt)
      BY <1>1 DEF Ready, BusInv, Wired, tgt
    <3>5. ASSUME NEW k \in 1 .. Len(tgt), cut <= k
          PROVE  (\A x \in At(tgt[k])' : x.src = p => x.n < e.n) /\ (k > cut => tgt[k] # tgt[cut])
      <4>1. from <= k
        BY <3>2, <3>4, <3>5
      <4>2. tgt[k] \notin also /\ \A x \in At(tgt[k]) : x.src = p => x.n < e.n
        BY <4>1 DEF Ready, tgt
      <4>3. \A j \in 1 .. Len(tgt) : tgt[j] = tgt[k] => j = k
        BY <3>4 DEF IsInjective
      <4>4. tgt[k] \notin reach
        BY <4>2, <4>3, <1>5, <3>5
      <4>5. \A s \in Subs : s \notin reach => Range(queue[s])' = Range(queue[s]) /\ handling'[s] = handling[s]
        BY <1>3 DEF Beside
      <4>6. \A x \in At(tgt[k])' : x.src = p => x.n < e.n
        <5>1. tgt[k] \in Subs /\ tgt' = tgt
          BY <1>1, <2>4 DEF tgt
        <5> QED  BY <4>2, <4>4, <4>5, <5>1 DEF At
      <4>7. k > cut => tgt[k] # tgt[cut]
        BY <4>3, <3>2
      <4> QED  BY <4>6, <4>7
    <3>6. \A x \in At(tgt[cut])' : x.src = p => x.n < e.n
      BY <3>2, <3>5
    <3>7. tgt' = tgt
      BY <2>4 DEF tgt
    <3>8. \A k \in 1 .. Len(tgt) : k > cut =>
            tgt[k] # tgt[cut] /\ \A x \in Range(queue'[tgt[k]]) \cup ({handling'[tgt[k]]} \ {NoEvent}) : x.src = p => x.n < e.n
      BY <3>2, <3>5, <3>7 DEF At
    <3>9. \A x \in Range(queue'[tgt[cut]]) \cup ({handling'[tgt[cut]]} \ {NoEvent}) : x.src = p => x.n < e.n
      BY <3>6, <3>7 DEF At
    <3> QED  BY <1>1, <2>4, <3>1, <3>3, <3>8, <3>9 DEF Before, At, tgt
  <2> QED  BY <2>3, <2>5, <2>6 DEF Numbered
<1>15. InOrder'
  <2> SUFFICES ASSUME NEW s \in Subs
               PROVE  /\ \A i, j \in 1 .. Len(queue'[s]) :
                           i < j /\ queue'[s][i].src = queue'[s][j].src => queue'[s][i].n < queue'[s][j].n
                      /\ handling'[s] # NoEvent =>
                           \A j \in 1 .. Len(queue'[s]) :
                             queue'[s][j].src = handling'[s].src => handling'[s].n < queue'[s][j].n
                      /\ queue'[s] # <<>> => newest'[s] = queue'[s][Len(queue'[s])]
                      /\ queue'[s] = <<>> /\ newest'[s] # NoEvent => newest'[s] = handling'[s]
    BY DEF InOrder
  <2>1. handling' = handling
    BY DEF Beside
  <2>2. CASE s \notin reach
    BY <2>1, <2>2, <1>3 DEF BusInv, InOrder
  <2>3. CASE s \in reach
    <3> DEFINE q == queue[s]  r == Enqueue(s, e)
    <3>1. queue'[s] = r /\ newest'[s] = e /\ q \in Seq(Events) /\ Len(q) \in Nat
      BY <2>3, <1>3 DEF BusInv, BusTypeOK
    <3>2. /\ r \in Seq(Events) /\ Len(r) \in Nat \ {0} /\ r[Len(r)] = e
          /\ \/ \A i \in 1 .. Len(r) - 1 : i \in 1 .. Len(q) /\ r[i] = q[i]
             \/ \A i \in 1 .. Len(r) - 1 : i + 1 \in 1 .. Len(q) /\ r[i] = q[i + 1]
      BY <2>3, <1>1, <1>4, EnqueueKeeps DEF BusInv
    <3>3. /\ \A i, j \in 1 .. Len(q) : i < j /\ q[i].src = q[j].src => q[i].n < q[j].n
          /\ handling[s] # NoEvent => \A j \in 1 .. Len(q) : q[j].src = handling[s].src => handling[s].n < q[j].n
      BY DEF BusInv, InOrder
    <3>4. \A i \in 1 .. Len(q) : q[i].src = p => q[i].n < e.n
      <4>1. \A i \in 1 .. Len(q) : q[i] \in At(s)
        BY <3>1 DEF At, Range
      <4> QED  BY <4>1, <2>3, <1>9
    <3>5. handling[s] # NoEvent /\ handling[s].src = p => handling[s].n < e.n
      BY <2>3, <1>9 DEF At
    <3> HIDE DEF q, r
    <3>6. \A i \in 1 .. Len(r) : i \in 1 .. Len(r) - 1 \/ i = Len(r)
      BY <3>2
    <3>7. ASSUME NEW i \in 1 .. Len(r), NEW j \in 1 .. Len(r), i < j, r[i].src = r[j].src
          PROVE  r[i].n < r[j].n
      <4>1. i \in 1 .. Len(r) - 1
        BY <3>2, <3>7
      <4>2. CASE j = Len(r)
        BY <4>1, <4>2, <3>2, <3>4, <3>7, <1>1
      <4>3. CASE j \in 1 .. Len(r) - 1
        <5>1. CASE \A k \in 1 .. Len(r) - 1 : k \in 1 .. Len(q) /\ r[k] = q[k]
          BY <4>1, <4>3, <5>1, <3>3, <3>7
        <5>2. CASE \A k \in 1 .. Len(r) - 1 : k + 1 \in 1 .. Len(q) /\ r[k] = q[k + 1]
          <6>1. i + 1 < j + 1
            BY <3>7
          <6> QED  BY <4>1, <4>3, <5>2, <6>1, <3>3, <3>7
        <5> QED  BY <5>1, <5>2, <3>2
      <4> QED  BY <4>2, <4>3, <3>6
    <3>8. ASSUME handling[s] # NoEvent, NEW j \in 1 .. Len(r), r[j].src = handling[s].src
          PROVE  handling[s].n < r[j].n
      <4>1. CASE j = Len(r)
        BY <4>1, <3>2, <3>5, <3>8, <1>1
      <4>2. CASE j \in 1 .. Len(r) - 1
        BY <4>2, <3>1, <3>2, <3>3, <3>8
      <4> QED  BY <4>1, <4>2, <3>6
    <3>9. r # <<>>
      BY <3>2
    <3> QED  BY <2>1, <3>1, <3>2, <3>7, <3>8, <3>9
  <2> QED  BY <2>2, <2>3
<1> QED  BY <1>10, <1>11, <1>12, <1>13, <1>14, <1>15 DEF BusInv

-----------------------------------------------------------------------------
(* One lemma per action *)

\* A call of publish(), by a source or by a handler.
LEMMA PublishKeeps ==
  ASSUME BusInv, NEW p \in Procs, NEW type \in Types, NEW sym \in UNION {Wants[s] : s \in Subs},
         publish(p, type, sym), Beside, woken' = woken
  PROVE  BusInv'
<1> DEFINE e == [src |-> p, n |-> sent[p] + 1, type |-> type, sym |-> sym]
<1>1. e \in Events /\ e.src = p /\ e.n = sent[p] + 1 /\ e.type = type /\ sent[p] \in Nat
  BY DEF BusInv, BusTypeOK, Events
<1>2. call[p] = NoCall /\ sent' = [sent EXCEPT ![p] = e.n]
      /\ IF running THEN Route(p, e, 1, {}) ELSE UNCHANGED pubVars
  BY Zenon DEF publish
<1> HIDE DEF e
<1>3. \A s \in Subs : \A x \in At(s) : x \in Events /\ (x.src = p => x.n < e.n)
  <2>1. \A s \in Subs : At(s) \subseteq Events
    BY DEF BusInv, BusTypeOK, At, Range
  <2>2. \A s \in Subs : \A x \in At(s) : x.src = p => x.n <= sent[p]
    BY DEF BusInv, Numbered
  <2> QED  BY <1>1, <2>1, <2>2 DEF Events
<1>4. p \notin woken /\ \A s \in Subs : \A i \in 1 .. Len(putters[s]) : putters[s][i] # p
  BY <1>2 DEF BusInv, Suspended
<1>5. CASE running
  <2>1. \A k \in 1 .. Len(subs[e.type]) : subs[e.type][k] \in Subs
    BY <1>1 DEF BusInv, BusTypeOK
  <2>2. Ready(p, e, 1, {})
    <3>1. woken' = woken \ {p}
      BY <1>4
    <3>2. \A s \in Subs : \A x \in At(s) : x.src = p => x.n <= e.n
      BY <1>1, <1>3 DEF Events
    <3> QED  BY <1>1, <1>2, <1>3, <1>4, <2>1, <3>1, <3>2 DEF Ready
  <2>3. Route(p, e, 1, {}) /\ BusTypeOK
    BY <1>2, <1>5 DEF BusInv
  <2>4. PICK cut \in Nat, reach \in SUBSET Subs : Routed(p, e, 1, {}, cut, reach)
    BY <1>1, <2>3, RouteSplits
  <2> QED  BY <2>2, <2>4, RouteKeeps
<1>6. CASE ~running
  <2>1. UNCHANGED <<queue, call, putters, newest, woken>>
    BY <1>2, <1>6 DEF pubVars
  <2>2. UNCHANGED <<running, made, subs, handling, flushing, joined>>
    BY DEF Beside
  <2>3. BusTypeOK'
    BY <1>1, <1>2, <2>1, <2>2 DEF BusInv, BusTypeOK, Beside
  <2>4. Wired'
    BY <2>1, <2>2 DEF BusInv, Wired, Made, Beside
  <2>5. Suspended' /\ WakeupsOut'
    BY <2>1, <2>2 DEF BusInv, Suspended, WakeupsOut, WokenAt
  <2>6. Numbered'
    <3>1. sent \in [Procs -> Nat] /\ sent' = [sent EXCEPT ![p] = sent[p] + 1]
      BY <1>1, <1>2 DEF BusInv, BusTypeOK
    <3>2. \A s \in Subs : At(s)' = At(s)
      BY <2>1, <2>2 DEF At
    <3>3. \A s \in Subs : \A x \in At(s) : x \in Events /\ x.n <= sent'[x.src]
      BY <1>3, <3>1 DEF BusInv, Numbered, Events
    <3>4. ASSUME NEW q \in Procs, call'[q] # NoCall  PROVE Before(q)'
      <4>1. q # p /\ call[q] # NoCall
        BY <1>2, <2>1, <3>4
      <4>2. Before(q) /\ sent'[q] = sent[q]
        BY <3>1, <4>1 DEF BusInv, Numbered
      <4> QED  BY <2>1, <2>2, <4>2 DEF Before, At
    <3> QED  BY <3>2, <3>3, <3>4 DEF Numbered
  <2>7. InOrder'
    BY <2>1, <2>2 DEF BusInv, InOrder
  <2> QED  BY <2>3, <2>4, <2>5, <2>6, <2>7 DEF BusInv
<1> QED  BY <1>5, <1>6

\* A task outside the bus publishes its next event.
LEMMA SourcePublishKeeps ==
  ASSUME BusInv, NEW p \in Sources, SourcePublish(p)
  PROVE  BusInv'
<1>1. PICK f \in Feeds[p] : publish(p, f[1], f[2])
  BY DEF SourcePublish
<1>2. p \in Procs /\ f[1] \in Types /\ f[2] \in UNION {Wants[s] : s \in Subs}
  BY BusConstants DEF Procs
<1>3. Beside /\ woken' = woken
  BY DEF SourcePublish, Beside, BusInv, BusTypeOK
<1> QED  BY <1>1, <1>2, <1>3, PublishKeeps

\* A handler publishes from inside the event it is handling.
LEMMA HandlerEmitKeeps ==
  ASSUME BusInv, NEW s \in Subs, HandlerEmit(s)
  PROVE  BusInv'
<1>1. PICK t \in Emits[s] : publish(s, t, handling[s].sym)
  BY DEF HandlerEmit
<1>2. s \in Procs /\ t \in Types /\ handling[s].sym \in UNION {Wants[x] : x \in Subs}
  BY BusConstants DEF Procs, HandlerEmit, BusInv, Wired, Events
<1>3. Beside /\ woken' = woken
  BY DEF HandlerEmit, Beside, BusInv, BusTypeOK
<1> QED  BY <1>1, <1>2, <1>3, PublishKeeps

\* A woken put runs: it goes on, or waits again at the end of the deque.
LEMMA ResumePutKeeps ==
  ASSUME BusInv, NEW p \in Procs, ResumePut(p)
  PROVE  BusInv'
<1> DEFINE s == call[p].sub  e == call[p].ev  from == call[p].idx + 1
<1>1. p \in woken /\ woken' = woken \ {p}
      /\ UNCHANGED <<running, made, subs, worker, handling, sent, flushing, joined>>
  BY DEF ResumePut
<1>2. call[p] # NoCall /\ call[p] \in Calls /\ Before(p)
  BY <1>1 DEF BusInv, BusTypeOK, Suspended, Numbered
<1>3. s \in Subs /\ s \in Made /\ e \in Events /\ e.type \in Types /\ from \in Nat \ {0}
      /\ call[p].idx \in Nat
  BY <1>2 DEF Calls, Events, BusInv, Wired
<1>4. \A t \in Subs : \A i \in 1 .. Len(putters[t]) : putters[t][i] # p
  BY <1>1 DEF BusInv, Suspended
<1>5. IF full(s)
      THEN /\ putters' = [putters EXCEPT ![s] = Append(putters[s], p)]
           /\ UNCHANGED <<queue, call, newest, owed>>
      ELSE Route(p, e, from, {s})
  BY DEF ResumePut
<1>6. CASE ~full(s)
  <2>1. Ready(p, e, from, {s})
    <3>1. \A t \in Subs : \A x \in At(t) : x.src = p => x.n <= e.n
      BY <1>2 DEF BusInv, Numbered, Before
    <3>2. \A x \in At(s) : x.src = p => x.n < e.n
      BY <1>2 DEF Before
    <3>3. \A k \in 1 .. Len(subs[e.type]) : from <= k =>
            subs[e.type][k] # s /\ \A x \in At(subs[e.type][k]) : x.src = p => x.n < e.n
      <4>1. \A k \in 1 .. Len(subs[e.type]) : from <= k => k > call[p].idx
        BY <1>3
      <4> QED  BY <4>1, <1>2 DEF Before
    <3>4. sent' = [sent EXCEPT ![p] = e.n]
      BY <1>1, <1>2 DEF Before, BusInv, BusTypeOK
    <3>5. e.src = p
      BY <1>2 DEF Before
    <3> HIDE DEF s, e, from
    <3>6. call[p].sub \in {s}
      BY DEF s
    <3> QED  BY <1>1, <1>3, <1>4, <1>6, <3>1, <3>2, <3>3, <3>4, <3>5, <3>6 DEF Ready
  <2>2. Beside
    BY <1>1 DEF Beside, BusInv, BusTypeOK
  <2>3. PICK cut \in Nat, reach \in SUBSET Subs : Routed(p, e, from, {s}, cut, reach)
    <3> HIDE DEF s, e, from
    <3>1. Route(p, e, from, {s}) /\ BusTypeOK
      BY <1>5, <1>6 DEF BusInv
    <3>2. {s} \in SUBSET Subs /\ \A t \in {s} : ~full(t)
      BY <1>3, <1>6
    <3> QED  BY <1>3, <3>1, <3>2, RouteSplits
  <2> HIDE DEF s, e, from
  <2> QED  BY <2>1, <2>2, <2>3, RouteKeeps
<1>7. CASE full(s)
  <2> DEFINE d == putters[s]
  <2>1. UNCHANGED <<queue, call, newest>> /\ putters' = [putters EXCEPT ![s] = Append(d, p)]
    BY <1>5, <1>7
  <2>2. d \in Seq(Procs) /\ putters'[s] = Append(d, p) /\ \A t \in Subs \ {s} : putters'[t] = putters[t]
    BY <1>3, <2>1 DEF BusInv, BusTypeOK
  <2>3. BusTypeOK'
    BY <1>1, <1>3, <2>1, <2>2 DEF BusInv, BusTypeOK
  <2>4. Wired'
    BY <1>1, <2>1 DEF BusInv, Wired, Made
  <2>5. Numbered' /\ InOrder'
    BY <1>1, <2>1 DEF BusInv, Numbered, Before, InOrder, At
  <2>6. Suspended'
    <3>1. /\ IsInjective(d) /\ DOMAIN d = 1 .. Len(d)
          /\ \A i \in 1 .. Len(d) : call[d[i]] # NoCall /\ call[d[i]].sub = s /\ d[i] \notin woken /\ d[i] # p
      BY <1>3, <1>4, <2>2 DEF BusInv, Suspended
    <3>2. call[p] # NoCall /\ call[p].sub = s
      BY <1>2
    <3> HIDE DEF d, s
    <3>3. /\ Len(Append(d, p)) = Len(d) + 1 /\ DOMAIN Append(d, p) = 1 .. Len(d) + 1
          /\ Append(d, p)[Len(d) + 1] = p /\ \A i \in 1 .. Len(d) : Append(d, p)[i] = d[i]
          /\ \A i \in 1 .. Len(d) + 1 : i \in 1 .. Len(d) \/ i = Len(d) + 1
      BY <2>2
    <3>4. IsInjective(Append(d, p))
      BY <3>1, <3>3 DEF IsInjective
    <3>5. ASSUME NEW t \in Subs
          PROVE  /\ IsInjective(putters'[t])
                 /\ \A i \in 1 .. Len(putters'[t]) :
                      LET q == putters'[t][i] IN call'[q] # NoCall /\ call'[q].sub = t /\ q \notin woken'
      <4>1. CASE t = s
        <5>1. \A i \in 1 .. Len(d) + 1 : LET q == Append(d, p)[i]
                                         IN  call[q] # NoCall /\ call[q].sub = s /\ q \notin woken'
          BY <1>1, <3>1, <3>2, <3>3
        <5>2. putters'[t] = Append(d, p) /\ call' = call
          BY <4>1, <2>1, <2>2
        <5> QED  BY <4>1, <3>3, <3>4, <5>1, <5>2
      <4>2. CASE t # s
        <5>1. putters'[t] = putters[t] /\ call' = call /\ woken' \subseteq woken
          BY <4>2, <1>1, <2>1, <2>2
        <5> QED  BY <5>1 DEF BusInv, Suspended
      <4> QED  BY <4>1, <4>2
    <3> QED  BY <1>1, <2>1, <3>5 DEF BusInv, Suspended
  <2>7. WakeupsOut'
    <3> SUFFICES ASSUME NEW t \in Subs, putters'[t] # <<>>
                 PROVE  Cardinality(WokenAt(t)') + Len(queue'[t]) >= QueueSize
      BY DEF WakeupsOut
    <3>1. CASE t = s
      <4>1. WokenAt(t)' \subseteq Procs
        BY <2>3 DEF WokenAt, BusTypeOK
      <4>2. Cardinality(WokenAt(t)') \in Nat
        BY <4>1, FiniteTasks
      <4>3. Len(queue[s]) \in Nat /\ queue' = queue
        BY <1>3, <2>1 DEF BusInv, BusTypeOK
      <4> QED  BY <3>1, <4>2, <4>3, <1>7, BusConstants DEF full
    <3>2. CASE t # s
      <4>1. WokenAt(t)' = WokenAt(t)
        BY <3>2, <1>1, <2>1 DEF WokenAt
      <4> QED  BY <3>2, <4>1, <2>1, <2>2 DEF BusInv, WakeupsOut
    <3> QED  BY <3>1, <3>2
  <2> QED  BY <2>3, <2>4, <2>5, <2>6, <2>7 DEF BusInv
<1> QED  BY <1>6, <1>7

\* _drain takes the next event; the first suspended put is woken.
LEMMA DrainGetKeeps ==
  ASSUME BusInv, NEW s \in Subs, DrainGet(s)
  PROVE  BusInv'
<1> DEFINE q == queue[s]  d == putters[s]
<1>1. /\ worker[s] = "idle" /\ q # <<>>
      /\ handling' = [handling EXCEPT ![s] = Head(q)]
      /\ queue' = [queue EXCEPT ![s] = Tail(q)]
      /\ worker' = [worker EXCEPT ![s] = "busy"]
      /\ woken' = woken \cup wakeup_next(s)
      /\ putters' = [putters EXCEPT ![s] = IF d = <<>> THEN d ELSE Tail(d)]
      /\ UNCHANGED <<running, made, subs, call, sent, flushing, joined, newest>>
  BY DEF DrainGet
<1>2. q \in Seq(Events) /\ Len(q) \in Nat \ {0} /\ d \in Seq(Procs) /\ Len(q) <= QueueSize
  BY <1>1 DEF BusInv, BusTypeOK
<1>3. queue'[s] = Tail(q) /\ handling'[s] = Head(q) /\ \A t \in Subs \ {s} :
        queue'[t] = queue[t] /\ handling'[t] = handling[t] /\ putters'[t] = putters[t]
  BY <1>1 DEF BusInv, BusTypeOK
<1> HIDE DEF q
<1>4. /\ Head(q) = q[1] /\ Head(q) \in Events /\ Tail(q) \in Seq(Events) /\ Len(Tail(q)) = Len(q) - 1
      /\ \A i \in 1 .. Len(q) - 1 : i + 1 \in 1 .. Len(q) /\ Tail(q)[i] = q[i + 1]
      /\ 1 \in 1 .. Len(q)
  <2>1. q # <<>>
    BY <1>1
  <2> QED  BY <1>2, <2>1
<1>5. IF d = <<>> THEN wakeup_next(s) = {} /\ putters'[s] = <<>>
      ELSE wakeup_next(s) = {Head(d)} /\ putters'[s] = Tail(d)
  BY <1>1 DEF wakeup_next, BusInv, BusTypeOK
<1>6. d # <<>> =>
        /\ Head(d) = d[1] /\ Head(d) \in Procs /\ Tail(d) \in Seq(Procs) /\ Len(Tail(d)) = Len(d) - 1
        /\ \A i \in 1 .. Len(d) - 1 : i + 1 \in 1 .. Len(d) /\ Tail(d)[i] = d[i + 1]
        /\ 1 \in 1 .. Len(d)
  BY <1>2
<1>7. /\ IsInjective(d) /\ DOMAIN d = 1 .. Len(d) /\ Len(d) \in Nat
      /\ \A i \in 1 .. Len(d) : call[d[i]] # NoCall /\ call[d[i]].sub = s /\ d[i] \notin woken
  BY <1>2 DEF BusInv, Suspended
<1>8. \A t \in Subs : At(t)' \subseteq At(t)
  <2>1. \A t \in Subs \ {s} : At(t)' = At(t)
    BY <1>3 DEF At
  <2>2. Range(Tail(q)) \cup {Head(q)} \subseteq Range(q)
    <3>1. DOMAIN q = 1 .. Len(q) /\ DOMAIN Tail(q) = 1 .. Len(q) - 1
      BY <1>2, <1>4
    <3> QED  BY <1>4, <3>1 DEF Range
  <2>3. At(s)' \subseteq At(s)
    BY <1>3, <2>2 DEF At, q
  <2> QED  BY <2>1, <2>3
<1>9. BusTypeOK'
  <2>1. queue' \in [Subs -> Seq(Events)] /\ \A t \in Subs : Len(queue'[t]) <= QueueSize
    BY <1>1, <1>2, <1>3, <1>4, BusConstants DEF BusInv, BusTypeOK
  <2>2. handling' \in [Subs -> Events \cup {NoEvent}]
    BY <1>1, <1>4 DEF BusInv, BusTypeOK
  <2>3. putters' \in [Subs -> Seq(Procs)] /\ woken' \subseteq Procs
    BY <1>1, <1>2, <1>5, <1>6 DEF BusInv, BusTypeOK
  <2> QED  BY <1>1, <2>1, <2>2, <2>3 DEF BusInv, BusTypeOK
<1>10. Wired'
  <2>1. s \in Made
    BY <1>1, <1>2 DEF BusInv, Wired, q
  <2>2. \A t \in Subs : worker'[t] \in {"busy", "emitted"} => handling'[t] \in Events
    BY <1>1, <1>3, <1>4 DEF BusInv, BusTypeOK, Wired
  <2> QED  BY <1>1, <1>3, <2>1, <2>2 DEF BusInv, Wired, Made
<1>11. Suspended'
  <2>1. call' = call /\ woken' = woken \cup wakeup_next(s)
    BY <1>1
  <2>2. \A p \in woken' : call'[p] # NoCall
    BY <2>1, <1>5, <1>6, <1>7 DEF BusInv, Suspended
  <2>3. ASSUME NEW t \in Subs
        PROVE  /\ IsInjective(putters'[t])
               /\ \A i \in 1 .. Len(putters'[t]) :
                    call'[putters'[t][i]] # NoCall /\ call'[putters'[t][i]].sub = t /\ putters'[t][i] \notin woken'
    <3>1. CASE t # s
      <4>1. putters'[t] = putters[t] /\ \A i \in 1 .. Len(putters[t]) : call[putters[t][i]].sub = t
        BY <3>1, <1>3 DEF BusInv, Suspended
      <4>2. \A p \in wakeup_next(s) : call[p].sub = s
        BY <1>5, <1>6, <1>7
      <4> QED  BY <2>1, <3>1, <4>1, <4>2 DEF BusInv, Suspended
    <3>2. CASE t = s /\ d = <<>>
      BY <3>2, <1>5 DEF IsInjective
    <3>3. CASE t = s /\ d # <<>>
      <4>1. \A i \in 1 .. Len(d) : d[i] = d[1] => i = 1
        BY <1>6, <1>7, <3>3 DEF IsInjective
      <4>2. putters'[t] = Tail(d) /\ DOMAIN Tail(d) = 1 .. Len(d) - 1 /\ wakeup_next(s) = {d[1]}
        BY <1>5, <1>6, <3>3
      <4>3. IsInjective(Tail(d))
        <5> HIDE DEF d
        <5>1. ASSUME NEW i \in 1 .. Len(d) - 1, NEW j \in 1 .. Len(d) - 1, Tail(d)[i] = Tail(d)[j]
              PROVE  i = j
          <6>1. d[i + 1] = d[j + 1] /\ i + 1 \in DOMAIN d /\ j + 1 \in DOMAIN d
            BY <1>6, <1>7, <3>3, <5>1
          <6>2. i + 1 = j + 1
            BY <1>7, <6>1 DEF IsInjective
          <6> QED  BY <6>2
        <5> QED  BY <4>2, <5>1 DEF IsInjective
      <4>4. \A i \in 1 .. Len(d) - 1 : Tail(d)[i] # d[1]
        BY <1>6, <1>7, <3>3, <4>1
      <4> HIDE DEF d
      <4> QED  BY <1>6, <1>7, <2>1, <3>3, <4>2, <4>3, <4>4
    <3> QED  BY <3>1, <3>2, <3>3
  <2> QED  BY <2>2, <2>3 DEF Suspended
<1>12. WakeupsOut'
  <2> SUFFICES ASSUME NEW t \in Subs, putters'[t] # <<>>
               PROVE  Cardinality(WokenAt(t)') + Len(queue'[t]) >= QueueSize
    BY DEF WakeupsOut
  <2>1. CASE t # s
    <3>1. \A p \in wakeup_next(s) : call[p].sub = s
      BY <1>5, <1>6, <1>7
    <3>2. WokenAt(t)' = WokenAt(t)
      BY <1>1, <2>1, <3>1 DEF WokenAt
    <3> QED  BY <1>3, <2>1, <3>2 DEF BusInv, WakeupsOut
  <2>2. CASE t = s
    <3>1. d # <<>> /\ wakeup_next(s) = {d[1]} /\ call[d[1]].sub = s /\ d[1] \notin woken
      BY <1>5, <1>6, <1>7, <2>2
    <3>2. WokenAt(s)' = WokenAt(s) \cup {d[1]} /\ d[1] \notin WokenAt(s)
      BY <1>1, <3>1 DEF WokenAt
    <3>3. IsFiniteSet(WokenAt(s)) /\ Cardinality(WokenAt(s)) \in Nat
      <4>1. WokenAt(s) \subseteq Procs
        BY DEF BusInv, BusTypeOK, WokenAt
      <4> QED  BY <4>1, FiniteTasks
    <3>4. Cardinality(WokenAt(s)') = Cardinality(WokenAt(s)) + 1
      BY <3>2, <3>3, FS_AddElement
    <3>5. Cardinality(WokenAt(s)) + Len(q) >= QueueSize
      BY <3>1 DEF BusInv, WakeupsOut, q
    <3> QED  BY <1>2, <1>3, <1>4, <2>2, <3>3, <3>4, <3>5, BusConstants
  <2> QED  BY <2>1, <2>2
<1>13. Numbered'
  <2>1. \A t \in Subs : At(t) \subseteq Events
    BY DEF BusInv, BusTypeOK, At, Range
  <2>2. \A t \in Subs : \A e \in At(t)' : e.n <= sent'[e.src]
    BY <1>1, <1>8 DEF BusInv, Numbered
  <2>3. ASSUME NEW p \in Procs, call'[p] # NoCall  PROVE Before(p)'
    <3>1. Before(p) /\ call'[p] \in Calls
      BY <1>1, <2>3, <1>9 DEF BusInv, Numbered, BusTypeOK
    <3>2. call[p].sub \in Subs /\ \A k \in 1 .. Len(subs[call[p].ev.type]) : subs[call[p].ev.type][k] \in Subs
      BY <3>1, <1>1 DEF Calls, Events, BusInv, BusTypeOK
    <3>3. UNCHANGED <<subs, call, sent>>
      BY <1>1
    <3>4. \A t \in Subs : Range(queue'[t]) \cup ({handling'[t]} \ {NoEvent}) \subseteq At(t)
      BY <1>8 DEF At
    <3>5. \A x \in Range(queue'[call[p].sub]) \cup ({handling'[call[p].sub]} \ {NoEvent}) :
            x.src = p => x.n < sent[p]
      BY <3>1, <3>2, <3>4 DEF Before
    <3>6. \A k \in 1 .. Len(subs[call[p].ev.type]) : k > call[p].idx =>
            \A x \in Range(queue'[subs[call[p].ev.type][k]])
                    \cup ({handling'[subs[call[p].ev.type][k]]} \ {NoEvent}) :
              x.src = p => x.n < sent[p]
      BY <3>1, <3>2, <3>4 DEF Before
    <3> QED  BY <3>1, <3>3, <3>5, <3>6 DEF Before, At
  <2> QED  BY <2>2, <2>3 DEF Numbered
<1>14. InOrder'
  <2> SUFFICES ASSUME NEW t \in Subs
               PROVE  /\ \A i, j \in 1 .. Len(queue'[t]) :
                           i < j /\ queue'[t][i].src = queue'[t][j].src => queue'[t][i].n < queue'[t][j].n
                      /\ handling'[t] # NoEvent =>
                           \A j \in 1 .. Len(queue'[t]) :
                             queue'[t][j].src = handling'[t].src => handling'[t].n < queue'[t][j].n
                      /\ queue'[t] # <<>> => newest'[t] = queue'[t][Len(queue'[t])]
                      /\ queue'[t] = <<>> /\ newest'[t] # NoEvent => newest'[t] = handling'[t]
    BY DEF InOrder
  <2>1. newest' = newest
    BY <1>1
  <2>2. CASE t # s
    BY <1>3, <2>1, <2>2 DEF BusInv, InOrder
  <2>3. CASE t = s
    <3>1. /\ \A i, j \in 1 .. Len(q) : i < j /\ q[i].src = q[j].src => q[i].n < q[j].n
          /\ newest[s] = q[Len(q)]
      BY <1>1 DEF BusInv, InOrder, q
    <3>2. ASSUME NEW i \in 1 .. Len(q) - 1, NEW j \in 1 .. Len(q) - 1, i < j,
                 Tail(q)[i].src = Tail(q)[j].src
          PROVE  Tail(q)[i].n < Tail(q)[j].n
      <4>1. i + 1 < j + 1
        BY <3>2
      <4> QED  BY <1>2, <1>4, <3>1, <3>2, <4>1
    <3>3. ASSUME NEW j \in 1 .. Len(q) - 1, Tail(q)[j].src = Head(q).src
          PROVE  Head(q).n < Tail(q)[j].n
      <4>1. 1 < j + 1
        BY <1>2
      <4> QED  BY <1>2, <1>4, <3>1, <3>3, <4>1
    <3>4. Tail(q) # <<>> => newest[s] = Tail(q)[Len(Tail(q))]
      <4> SUFFICES ASSUME Tail(q) # <<>>  PROVE newest[s] = Tail(q)[Len(q) - 1]
        BY <1>4
      <4>1. Len(q) - 1 \in 1 .. Len(q) - 1 /\ (Len(q) - 1) + 1 = Len(q)
        BY <1>2, <1>4
      <4> QED  BY <1>4, <3>1, <4>1
    <3>5. Tail(q) = <<>> => newest[s] = Head(q)
      <4> SUFFICES ASSUME Tail(q) = <<>>  PROVE newest[s] = Head(q)
        OBVIOUS
      <4>1. Len(Tail(q)) = 0 /\ Len(Tail(q)) = Len(q) - 1
        BY <1>4
      <4>2. Len(q) = 1
        BY <1>2, <4>1
      <4> QED  BY <1>4, <3>1, <4>2
    <3>6. queue'[t] = Tail(q) /\ handling'[t] = Head(q) /\ Len(queue'[t]) = Len(q) - 1 /\ newest'[t] = newest[s]
      BY <1>3, <1>4, <2>1, <2>3
    <3>7. \A i, j \in 1 .. Len(queue'[t]) :
            i < j /\ queue'[t][i].src = queue'[t][j].src => queue'[t][i].n < queue'[t][j].n
      BY <3>2, <3>6
    <3>8. \A j \in 1 .. Len(queue'[t]) :
            queue'[t][j].src = handling'[t].src => handling'[t].n < queue'[t][j].n
      BY <3>3, <3>6
    <3> QED  BY <3>4, <3>5, <3>6, <3>7, <3>8
  <2> QED  BY <2>2, <2>3
<1> QED  BY <1>9, <1>10, <1>11, <1>12, <1>13, <1>14 DEF BusInv

\* The steps that only move a worker or a flush() on: task_done(), the joins.
LEMMA OthersKeep ==
  ASSUME BusInv, UNCHANGED <<running, made, subs, handling, woken, sent, pubVars>>,
         worker' \in [Subs -> {"none", "idle", "busy", "emitted", "cancelled"}],
         \A s \in Subs : worker'[s] \in {"busy", "emitted"} => worker[s] \in {"busy", "emitted"},
         flushing' \in [Flushers -> Nat], joined' \subseteq Flushers
  PROVE  BusInv'
<1>1. UNCHANGED <<queue, call, putters, newest>>
  BY DEF pubVars
<1>2. BusTypeOK'
  BY <1>1 DEF BusInv, BusTypeOK
<1>3. Wired'
  BY <1>1 DEF BusInv, Wired, Made
<1>4. Suspended'
  BY <1>1 DEF BusInv, Suspended
<1>5. WakeupsOut'
  BY <1>1 DEF BusInv, WakeupsOut, WokenAt
<1>6. Numbered' /\ InOrder'
  BY <1>1 DEF BusInv, Numbered, Before, At, InOrder
<1> QED  BY <1>2, <1>3, <1>4, <1>5, <1>6 DEF BusInv

\* task_done(): the last one lets a flush() that waits in join() go on.
LEMMA HandlerDoneKeeps ==
  ASSUME BusInv, NEW s \in Subs, HandlerDone(s)
  PROVE  BusInv'
<1>1. Joining(s) \subseteq Flushers
  BY DEF Joining
<1>2. joined' \subseteq Flushers
  BY <1>1 DEF HandlerDone, BusInv, BusTypeOK
<1>3. /\ worker' \in [Subs -> {"none", "idle", "busy", "emitted", "cancelled"}]
      /\ \A x \in Subs : worker'[x] \in {"busy", "emitted"} => worker[x] \in {"busy", "emitted"}
      /\ flushing' \in [Flushers -> Nat]
  BY DEF HandlerDone, BusInv, BusTypeOK
<1>4. UNCHANGED <<running, made, subs, handling, woken, sent, pubVars>>
  BY DEF HandlerDone
<1> QED  BY <1>2, <1>3, <1>4, OthersKeep

\* flush() starts, or goes on after a join that was woken.
LEMMA JoinFromKeeps ==
  ASSUME BusInv, NEW p \in Flushers, NEW from \in Nat, JoinFrom(p, from), joined' \subseteq joined,
         UNCHANGED <<running, made, subs, worker, handling, woken, sent, pubVars>>
  PROVE  BusInv'
<1> DEFINE waits == {j \in from .. Len(FlushSeq) : unfinished(FlushSeq[j]) > 0}
<1>1. flushing' = [flushing EXCEPT ![p] = IF waits = {} THEN 0 ELSE Min(waits)]
  BY DEF JoinFrom
<1>2. waits = {} \/ Min(waits) \in Nat
  <2>1. waits \in SUBSET Nat
    OBVIOUS
  <2> HIDE DEF waits
  <2> QED  BY <2>1, LeastNat
<1> HIDE DEF waits
<1>3. flushing' \in [Flushers -> Nat]
  BY <1>1, <1>2 DEF BusInv, BusTypeOK
<1>4. joined' \subseteq Flushers
  BY DEF BusInv, BusTypeOK
<1>5. /\ worker' \in [Subs -> {"none", "idle", "busy", "emitted", "cancelled"}]
      /\ \A x \in Subs : worker'[x] \in {"busy", "emitted"} => worker[x] \in {"busy", "emitted"}
  BY DEF BusInv, BusTypeOK
<1> QED  BY <1>3, <1>4, <1>5, OthersKeep

\* subscribe() puts the next subscription at the end of its type's list.
LEMMA SubscribeKeeps ==
  ASSUME BusInv, subscribe
  PROVE  BusInv'
<1> DEFINE s == SubscribeOrder[made + 1]  l == subs[TypeOf[s]]
<1>1. /\ made < Len(SubscribeOrder) /\ made' = made + 1
      /\ subs' = [subs EXCEPT ![TypeOf[s]] = Append(l, s)]
      /\ worker' = [worker EXCEPT ![s] = "idle"]
      /\ UNCHANGED <<running, handling, woken, sent, flushing, joined, queue, call, putters, newest>>
  BY DEF subscribe, pubVars
<1>2. made \in Nat /\ made + 1 \in DOMAIN SubscribeOrder /\ DOMAIN SubscribeOrder = 1 .. Len(SubscribeOrder)
      /\ Len(SubscribeOrder) \in Nat /\ \A i \in 1 .. made : i \in DOMAIN SubscribeOrder /\ i # made + 1
  BY <1>1, BusConstants DEF BusInv, BusTypeOK
<1>3. s \in Subs /\ s \notin Made /\ TypeOf[s] \in Types
  <2>1. s \in Subs
    BY <1>2, BusConstants DEF Subs, Range
  <2>2. s \notin Made
    BY <1>2, BusConstants DEF Made, IsInjective
  <2> QED  BY <2>1, <2>2, BusConstants
<1>4. Made' = Made \cup {s}
  <2>1. 1 .. made' = 1 .. made \cup {made + 1}
    BY <1>1, <1>2
  <2> QED  BY <2>1 DEF Made
<1> HIDE DEF s
<1>5. l \in Seq(Subs) /\ Len(l) \in Nat /\ subs'[TypeOf[s]] = Append(l, s)
      /\ \A t \in Types \ {TypeOf[s]} : subs'[t] = subs[t]
  BY <1>1, <1>3 DEF BusInv, BusTypeOK
<1>6. /\ IsInjective(l) /\ DOMAIN l = 1 .. Len(l)
      /\ \A i \in 1 .. Len(l) : l[i] \in Made /\ TypeOf[l[i]] = TypeOf[s]
  BY <1>3, <1>5 DEF BusInv, Wired
<1> HIDE DEF l
<1>7. /\ Append(l, s) \in Seq(Subs)
      /\ Len(Append(l, s)) = Len(l) + 1 /\ DOMAIN Append(l, s) = 1 .. Len(l) + 1
      /\ Append(l, s)[Len(l) + 1] = s /\ \A i \in 1 .. Len(l) : Append(l, s)[i] = l[i]
      /\ \A i \in 1 .. Len(l) + 1 : i \in 1 .. Len(l) \/ i = Len(l) + 1
  BY <1>3, <1>5
<1>8. BusTypeOK'
  <2>1. made' \in 0 .. Len(SubscribeOrder)
    BY <1>1, <1>2
  <2>2. subs' \in [Types -> Seq(Subs)]
    BY <1>1, <1>3, <1>7 DEF BusInv, BusTypeOK
  <2>3. worker' \in [Subs -> {"none", "idle", "busy", "emitted", "cancelled"}]
    BY <1>1 DEF BusInv, BusTypeOK
  <2> QED  BY <1>1, <2>1, <2>2, <2>3 DEF BusInv, BusTypeOK
<1>9. Wired'
  <2>1. \A t \in Types : IsInjective(subs'[t]) /\ \A i \in 1 .. Len(subs'[t]) :
                            subs'[t][i] \in Made' /\ TypeOf[subs'[t][i]] = t
    <3>1. IsInjective(Append(l, s))
      BY <1>3, <1>6, <1>7 DEF IsInjective
    <3>2. \A i \in 1 .. Len(l) + 1 : Append(l, s)[i] \in Made' /\ TypeOf[Append(l, s)[i]] = TypeOf[s]
      BY <1>4, <1>6, <1>7
    <3>3. \A t \in Types \ {TypeOf[s]} : IsInjective(subs'[t]) /\ \A i \in 1 .. Len(subs'[t]) :
                            subs'[t][i] \in Made' /\ TypeOf[subs'[t][i]] = t
      BY <1>4, <1>5 DEF BusInv, Wired
    <3> QED  BY <1>5, <1>7, <3>1, <3>2, <3>3
  <2>2. \A x \in Subs : worker'[x] \in {"busy", "emitted"} => handling'[x] \in Events
    BY <1>1, <1>3 DEF BusInv, BusTypeOK, Wired
  <2> QED  BY <1>1, <1>4, <2>1, <2>2 DEF BusInv, Wired
<1>10. Suspended'
  BY <1>1 DEF BusInv, Suspended
<1>11. WakeupsOut'
  BY <1>1 DEF BusInv, WakeupsOut, WokenAt
<1>12. Numbered'
  <2>1. \A x \in Subs : Range(queue[x]) \cup ({handling[x]} \ {NoEvent}) = At(x) /\ At(x)' = At(x)
    BY <1>1 DEF At
  <2>2. At(s) = {}
    BY <1>3 DEF At, Range, BusInv, Wired
  <2>3. ASSUME NEW p \in Procs, call'[p] # NoCall  PROVE Before(p)'
    <3>1. Before(p) /\ call[p] \in Calls /\ call[p].sub \in Made
      BY <1>1, <2>3 DEF BusInv, BusTypeOK, Wired, Numbered
    <3>2. call[p].ev.type \in Types /\ call[p].sub # s
      BY <1>3, <3>1 DEF Calls, Events
    <3>3. CASE call[p].ev.type # TypeOf[s]
      <4>1. subs'[call[p].ev.type] = subs[call[p].ev.type]
        BY <1>5, <3>2, <3>3
      <4> QED  BY <1>1, <3>1, <4>1 DEF Before, At
    <3>4. CASE call[p].ev.type = TypeOf[s]
      <4>1. subs'[call[p].ev.type] = Append(l, s) /\ subs[call[p].ev.type] = l
        BY <1>5, <3>4 DEF l
      <4>2. \A k \in 1 .. Len(l) : k > call[p].idx =>
              l[k] # call[p].sub /\ \A x \in At(l[k]) : x.src = p => x.n < sent[p]
        BY <3>1, <4>1 DEF Before
      <4>3. \A k \in 1 .. Len(l) + 1 : k > call[p].idx =>
              /\ Append(l, s)[k] # call[p].sub
              /\ \A x \in At(Append(l, s)[k]) : x.src = p => x.n < sent[p]
        BY <1>7, <2>2, <3>2, <4>2
      <4> QED  BY <1>1, <1>7, <3>1, <4>1, <4>3 DEF Before, At
    <3> QED  BY <3>3, <3>4
  <2>4. \A x \in Subs : \A e \in At(x)' : e.n <= sent'[e.src]
    BY <1>1, <2>1 DEF BusInv, Numbered
  <2> QED  BY <2>3, <2>4 DEF Numbered
<1>13. InOrder'
  BY <1>1 DEF BusInv, InOrder
<1> QED  BY <1>8, <1>9, <1>10, <1>11, <1>12, <1>13 DEF BusInv

\* The wake-ups that cancelled puts hand over: to puts that are not cancelled,
\* one for each woken put that is, or to all that are left.
LEMMA HandoverKeeps ==
  ASSUME BusInv, NEW S \in SUBSET Subs, NEW x \in Subs
  PROVE  LET rest == without(putters[x], S)
             lost == {p \in S \cap woken : call[p].sub = x}
             H    == Handover(S, x)
         IN  /\ \A p \in H : p \notin S /\ \E j \in 1 .. Len(putters[x]) : p = putters[x][j]
             /\ ~full(x) => \/ Cardinality(H) = Cardinality(lost)
                            \/ \A j \in 1 .. Len(putters[x]) : putters[x][j] \in S \cup H
<1> DEFINE rest == without(putters[x], S)
           lost == {p \in S \cap woken : call[p].sub = x}
           m == Min({Len(rest), Cardinality(lost)})
           H == Handover(S, x)
<1>1. H = IF full(x) THEN {} ELSE {rest[j] : j \in 1 .. m}
  BY Zenon DEF Handover
<1>2. putters[x] \in Seq(Procs) /\ IsInjective(putters[x])
  BY DEF BusInv, BusTypeOK, Suspended
<1>3. /\ rest \in Seq(Procs) /\ IsInjective(rest)
      /\ \A i \in 1 .. Len(rest) : \E j \in 1 .. Len(putters[x]) : rest[i] = putters[x][j] /\ putters[x][j] \notin S
      /\ \A j \in 1 .. Len(putters[x]) : putters[x][j] \notin S => \E i \in 1 .. Len(rest) : rest[i] = putters[x][j]
  <2>1. rest \in Seq(Procs) /\ IsLeft(rest, putters[x], S)
    BY <1>2, WithoutKeeps
  <2> HIDE DEF rest
  <2> QED  BY <1>2, <2>1 DEF IsLeft
<1>4. Cardinality(lost) \in Nat
  <2>1. lost \subseteq Procs
    BY DEF Procs
  <2> QED  BY <2>1, FiniteTasks
<1> HIDE DEF rest, lost
<1>5. Len(rest) \in Nat /\ DOMAIN rest = 1 .. Len(rest)
  BY <1>3
<1>6. m \in Nat /\ m <= Len(rest) /\ (m = Len(rest) \/ m = Cardinality(lost))
  <2>1. m \in {Len(rest), Cardinality(lost)} /\ m <= Len(rest) /\ m <= Cardinality(lost)
    BY <1>4, <1>5, MinOfTwo
  <2> HIDE DEF m
  <2> QED  BY <1>4, <1>5, <2>1
<1> HIDE DEF m, H
<1>7. \A p \in H : p \notin S /\ \E j \in 1 .. Len(putters[x]) : p = putters[x][j]
  <2>1. \A j \in 1 .. m : j \in 1 .. Len(rest)
    <3>1. m \in Nat /\ Len(rest) \in Nat /\ m <= Len(rest)
      BY <1>5, <1>6
    <3> QED  BY <3>1
  <2> QED  BY <1>1, <1>3, <2>1
<1>8. ASSUME ~full(x), m = Len(rest)
      PROVE  \A j \in 1 .. Len(putters[x]) : putters[x][j] \in S \cup H
  BY <1>1, <1>3, <1>8
<1>9. ASSUME ~full(x), m = Cardinality(lost)
      PROVE  Cardinality(H) = Cardinality(lost)
  <2>1. H = {rest[j] : j \in 1 .. m} /\ \A j \in 1 .. m : j \in DOMAIN rest
    BY <1>1, <1>5, <1>6, <1>9
  <2> DEFINE f == [j \in 1 .. m |-> rest[j]]
  <2>2. f \in Bijection(1 .. m, H)
    BY <1>3, <2>1 DEF Bijection, Injection, Surjection, IsInjective
  <2>3. IsFiniteSet(1 .. m) /\ Cardinality(1 .. m) = m
    BY <1>6, FS_Interval
  <2>4. ExistsBijection(1 .. m, H)
    BY <2>2 DEF ExistsBijection
  <2>5. Cardinality(H) = m
    BY <2>3, <2>4, FS_Bijection
  <2> QED  BY <1>9, <2>5
<1> QED  BY <1>6, <1>7, <1>8, <1>9 DEF H, lost

\* Cancelling workers, in stop() and unsubscribe(), while the lists only lose
\* entries: no entry moves down.
LEMMA CancelKeeps ==
  ASSUME BusInv, NEW S \in SUBSET Subs, CancelWorkers(S),
         UNCHANGED <<made, queue, handling, sent, flushing, newest>>,
         running' \in BOOLEAN, subs' \in [Types -> Seq(Subs)],
         \A t \in Types : /\ IsInjective(subs'[t])
                          /\ \A k \in 1 .. Len(subs'[t]) :
                               \E j \in 1 .. Len(subs[t]) : j >= k /\ subs'[t][k] = subs[t][j]
  PROVE  BusInv'
<1> DEFINE H(x) == Handover(S, x)
<1>1. /\ worker' = [s \in Subs |-> IF s \in S THEN "cancelled" ELSE worker[s]]
      /\ call' = [p \in Procs |-> IF p \in S THEN NoCall ELSE call[p]]
      /\ putters' = [x \in Subs |-> without(putters[x], S \cup H(x))]
      /\ woken' = (woken \ S) \cup UNION {H(x) : x \in Subs}
      /\ joined' = joined \cup UNION {Joining(s) : s \in {x \in S : queue[x] = <<>>}}
  BY Zenon DEF CancelWorkers
<1>2. \A x \in Subs : \A p \in H(x) : p \notin S /\ \E j \in 1 .. Len(putters[x]) : p = putters[x][j]
  BY HandoverKeeps
<1>3. ASSUME NEW x \in Subs
      PROVE  /\ putters[x] \in Seq(Procs) /\ IsInjective(putters[x])
             /\ \A j \in 1 .. Len(putters[x]) :
                  LET p == putters[x][j]
                  IN  p \in Procs /\ call[p] # NoCall /\ call[p].sub = x /\ p \notin woken
  <2>1. putters[x] \in Seq(Procs) /\ IsInjective(putters[x])
    BY DEF BusInv, BusTypeOK, Suspended
  <2>2. \A j \in 1 .. Len(putters[x]) : putters[x][j] \in Procs
    BY <2>1
  <2> QED  BY <2>1, <2>2 DEF BusInv, Suspended
<1> HIDE DEF H
<1>4. \A x \in Subs : \A p \in H(x) : /\ p \in Procs /\ p \notin S /\ call[p] # NoCall
                                       /\ call[p].sub = x /\ p \notin woken
  BY <1>2, <1>3
<1>5. ASSUME NEW x \in Subs
      PROVE  /\ putters'[x] \in Seq(Procs) /\ IsInjective(putters'[x])
             /\ \A i \in 1 .. Len(putters'[x]) :
                  \E j \in 1 .. Len(putters[x]) :
                    putters'[x][i] = putters[x][j] /\ putters[x][j] \notin S \cup H(x)
  <2>1. putters'[x] = without(putters[x], S \cup H(x))
    BY <1>1
  <2>2. putters'[x] \in Seq(Procs) /\ IsLeft(putters'[x], putters[x], S \cup H(x))
    BY <1>3, <2>1, WithoutKeeps
  <2> QED  BY <1>3, <2>2 DEF IsLeft
<1>6. BusTypeOK'
  <2>1. woken' \subseteq Procs
    BY <1>1, <1>4 DEF BusInv, BusTypeOK
  <2>2. putters' \in [Subs -> Seq(Procs)]
    BY <1>1, <1>5
  <2>3. joined' \subseteq Flushers
    BY <1>1 DEF Joining, BusInv, BusTypeOK
  <2>4. call' \in [Procs -> Calls \cup {NoCall}]
    BY <1>1 DEF BusInv, BusTypeOK
  <2>5. worker' \in [Subs -> {"none", "idle", "busy", "emitted", "cancelled"}]
    BY <1>1 DEF BusInv, BusTypeOK
  <2> QED  BY <2>1, <2>2, <2>3, <2>4, <2>5 DEF BusInv, BusTypeOK
<1>7. Wired'
  <2>1. \A t \in Types : \A i \in 1 .. Len(subs'[t]) : subs'[t][i] \in Made /\ TypeOf[subs'[t][i]] = t
    BY DEF BusInv, Wired
  <2>2. \A p \in Procs : call'[p] # NoCall => call'[p].sub \in Made
    BY <1>1 DEF BusInv, Wired
  <2>3. \A s \in Subs : worker'[s] \in {"busy", "emitted"} => handling'[s] \in Events
    BY <1>1 DEF BusInv, Wired
  <2> QED  BY <2>1, <2>2, <2>3 DEF BusInv, Wired, Made
<1>8. Suspended'
  <2>1. \A p \in woken' : call'[p] # NoCall
    BY <1>1, <1>4 DEF BusInv, BusTypeOK, Suspended
  <2>2. ASSUME NEW x \in Subs, NEW i \in 1 .. Len(putters'[x])
        PROVE  LET p == putters'[x][i] IN call'[p] # NoCall /\ call'[p].sub = x /\ p \notin woken'
    <3> DEFINE p == putters'[x][i]
    <3>1. p \in Procs /\ call[p] # NoCall /\ call[p].sub = x /\ p \notin woken /\ p \notin S /\ p \notin H(x)
      BY <1>3, <1>5
    <3> HIDE DEF p
    <3>2. call'[p] = call[p]
      BY <1>1, <3>1
    <3>3. \A y \in Subs : p \notin H(y)
      BY <1>4, <3>1
    <3>4. p \notin woken'
      BY <1>1, <3>1, <3>3
    <3> QED  BY <3>1, <3>2, <3>4 DEF p
  <2> QED  BY <1>5, <2>1, <2>2 DEF Suspended
<1>9. WakeupsOut'
  <2> SUFFICES ASSUME NEW x \in Subs, putters'[x] # <<>>
               PROVE  Cardinality(WokenAt(x)') + Len(queue'[x]) >= QueueSize
    BY DEF WakeupsOut
  <2> DEFINE lost == {p \in S \cap woken : call[p].sub = x}
  <2>1. Len(queue[x]) \in Nat /\ Len(queue'[x]) = Len(queue[x])
    BY DEF BusInv, BusTypeOK
  <2>2. 1 \in 1 .. Len(putters'[x])
    BY <1>5
  <2>3. PICK j \in 1 .. Len(putters[x]) : putters[x][j] \notin S \cup H(x)
    BY <1>5, <2>2
  <2>4. Cardinality(WokenAt(x)) + Len(queue[x]) >= QueueSize
    <3>1. putters[x] # <<>>
      BY <1>3, <2>3
    <3> QED  BY <3>1 DEF BusInv, WakeupsOut
  <2>5. WokenAt(x) \subseteq Procs /\ lost \subseteq WokenAt(x) /\ H(x) \subseteq Procs
        /\ WokenAt(x)' \subseteq Procs
    BY <1>4, <1>6 DEF WokenAt, BusInv, BusTypeOK
  <2>6. WokenAt(x)' = (WokenAt(x) \ lost) \cup H(x) /\ (WokenAt(x) \ lost) \cap H(x) = {}
    <3>1. ASSUME NEW p \in woken', call'[p].sub = x  PROVE p \in (WokenAt(x) \ lost) \cup H(x)
      <4>1. CASE p \in woken \ S
        <5>1. call'[p] = call[p]
          BY <1>1, <4>1 DEF BusInv, BusTypeOK
        <5> QED  BY <3>1, <4>1, <5>1 DEF WokenAt
      <4>2. CASE p \notin woken \ S
        <5>1. PICK y \in Subs : p \in H(y)
          BY <1>1, <4>2
        <5>2. p \in Procs /\ p \notin S /\ call[p].sub = y
          BY <1>4, <5>1
        <5>3. call'[p] = call[p]
          BY <1>1, <5>2
        <5> QED  BY <3>1, <5>1, <5>2, <5>3
      <4> QED  BY <4>1, <4>2
    <3>2. ASSUME NEW p \in WokenAt(x) \ lost  PROVE p \in woken' /\ call'[p].sub = x
      <4>1. p \in woken /\ p \notin S /\ call[p].sub = x
        BY <3>2 DEF WokenAt
      <4>2. call'[p] = call[p]
        BY <1>1, <4>1 DEF BusInv, BusTypeOK
      <4> QED  BY <1>1, <4>1, <4>2
    <3>3. ASSUME NEW p \in H(x)  PROVE p \in woken' /\ call'[p].sub = x /\ p \notin WokenAt(x)
      <4>1. p \in Procs /\ p \notin S /\ call[p].sub = x /\ p \notin woken
        BY <1>4
      <4>2. call'[p] = call[p]
        BY <1>1, <4>1
      <4> QED  BY <1>1, <4>1, <4>2 DEF WokenAt
    <3>4. WokenAt(x)' = {p \in woken' : call'[p].sub = x}
      BY DEF WokenAt
    <3> HIDE DEF lost
    <3> QED  BY <3>1, <3>2, <3>3, <3>4
  <2>7. /\ IsFiniteSet(WokenAt(x)) /\ Cardinality(WokenAt(x)) \in Nat
        /\ IsFiniteSet(H(x)) /\ Cardinality(H(x)) \in Nat /\ Cardinality(lost) \in Nat
        /\ Cardinality(WokenAt(x)') \in Nat
    <3>1. lost \subseteq Procs
      BY <2>5
    <3> QED  BY <2>5, <3>1, FiniteTasks
  <2>8. CASE full(x)
    BY <2>1, <2>7, <2>8, BusConstants DEF full
  <2>9. CASE ~full(x)
    <3>1. Cardinality(H(x)) = Cardinality(lost)
      <4>1. \/ Cardinality(H(x)) = Cardinality(lost)
            \/ \A i \in 1 .. Len(putters[x]) : putters[x][i] \in S \cup H(x)
        BY <2>9, HandoverKeeps DEF H
      <4> QED  BY <4>1, <2>3
    <3> HIDE DEF lost
    <3>2. WokenAt(x) \cap lost = lost
      BY <2>5
    <3>3. IsFiniteSet(WokenAt(x) \ lost)
          /\ Cardinality(WokenAt(x) \ lost) = Cardinality(WokenAt(x)) - Cardinality(lost)
      BY <2>7, <3>2, FS_Difference
    <3>4. Cardinality({}) = 0
      BY FS_EmptySet
    <3> DEFINE A == WokenAt(x) \ lost  B == H(x)
    <3>5. A \cap B = {} /\ WokenAt(x)' = A \cup B /\ IsFiniteSet(A) /\ IsFiniteSet(B)
      BY <2>6, <2>7, <3>3
    <3>6. Cardinality(A \cup B) = Cardinality(A) + Cardinality(B) - 0
      <4> HIDE DEF A, B
      <4>1. Cardinality(A \cup B) = Cardinality(A) + Cardinality(B) - Cardinality(A \cap B)
        BY <3>5, FS_Union
      <4> QED  BY <3>4, <3>5, <4>1
    <3>7. Cardinality(WokenAt(x)') = Cardinality(A) + Cardinality(B) - 0
      BY <3>5, <3>6
    <3> QED  BY <2>1, <2>4, <2>7, <3>1, <3>3, <3>7, BusConstants
  <2> QED  BY <2>8, <2>9
<1>10. Numbered'
  <2>1. \A s \in Subs : At(s)' = At(s)
    BY DEF At
  <2>2. ASSUME NEW p \in Procs, call'[p] # NoCall  PROVE Before(p)'
    <3>1. call'[p] = call[p] /\ call[p] # NoCall
      BY <1>1, <2>2
    <3>2. Before(p) /\ call[p] \in Calls
      BY <3>1 DEF BusInv, BusTypeOK, Numbered
    <3>3. call[p].ev.type \in Types /\ call[p].idx \in Nat
      BY <3>2 DEF Calls, Events
    <3> DEFINE new == subs'[call[p].ev.type]  old == subs[call[p].ev.type]
    <3>4. Len(new) \in Nat /\ Len(old) \in Nat
      BY <3>3 DEF BusInv, BusTypeOK
    <3>5. ASSUME NEW k \in 1 .. Len(new), k > call[p].idx
          PROVE  new[k] # call[p].sub /\ \A x \in At(new[k]) : x.src = p => x.n < sent[p]
      <4>1. PICK j \in 1 .. Len(old) : j >= k /\ new[k] = old[j]
        BY <3>3
      <4>2. j > call[p].idx
        BY <3>3, <3>4, <3>5, <4>1
      <4> QED  BY <3>2, <4>1, <4>2 DEF Before
    <3> QED  BY <3>1, <3>2, <3>5 DEF Before, At
  <2>3. \A s \in Subs : \A e \in At(s)' : e.n <= sent'[e.src]
    BY <2>1 DEF BusInv, Numbered
  <2> QED  BY <2>2, <2>3 DEF Numbered
<1>11. InOrder'
  BY DEF BusInv, InOrder
<1> QED  BY <1>6, <1>7, <1>8, <1>9, <1>10, <1>11 DEF BusInv

\* stop() cancels every drain task and clears the lists.
LEMMA StopKeeps ==
  ASSUME BusInv, stop
  PROVE  BusInv'
<1>1. CancelWorkers({s \in Subs : worker[s] # "none"}) /\ running' \in BOOLEAN
      /\ UNCHANGED <<made, subs, queue, handling, sent, flushing, newest>>
  BY DEF stop
<1>2. subs' \in [Types -> Seq(Subs)]
  BY <1>1 DEF BusInv, BusTypeOK
<1>3. \A t \in Types : /\ IsInjective(subs'[t])
                       /\ \A k \in 1 .. Len(subs'[t]) :
                            \E j \in 1 .. Len(subs[t]) : j >= k /\ subs'[t][k] = subs[t][j]
  BY <1>1 DEF BusInv, Wired
<1>4. {s \in Subs : worker[s] # "none"} \in SUBSET Subs
  OBVIOUS
<1> QED  BY <1>1, <1>2, <1>3, <1>4, CancelKeeps

\* unsubscribe() cancels one drain task and takes one entry off a list.
LEMMA UnsubscribeKeeps ==
  ASSUME BusInv, NEW s \in Subs, unsubscribe(s)
  PROVE  BusInv'
<1> DEFINE l == subs[TypeOf[s]]
<1>1. CancelWorkers({s}) /\ subs' = [subs EXCEPT ![TypeOf[s]] = removed(l, s)]
      /\ UNCHANGED <<running, made, queue, handling, sent, flushing, newest>>
  BY DEF unsubscribe
<1>2. TypeOf[s] \in Types /\ l \in Seq(Subs) /\ Len(l) \in Nat /\ IsInjective(l) /\ DOMAIN l = 1 .. Len(l)
  BY BusConstants DEF BusInv, BusTypeOK, Wired
<1> DEFINE r == removed(l, s)
<1> HIDE DEF l
<1>3. r \in Seq(Subs) /\ (r = l \/ \E i \in 1 .. Len(l) :
        l[i] = s /\ Len(r) = Len(l) - 1 /\ \A k \in 1 .. Len(l) - 1 : r[k] = IF k < i THEN l[k] ELSE l[k + 1])
  <2>1. r \in Seq(Subs) /\ IsRemoved(r, l, s)
    BY <1>2, RemovedKeeps
  <2> HIDE DEF r
  <2> QED  BY <2>1 DEF IsRemoved
<1> HIDE DEF r
<1>4. IsInjective(r) /\ \A k \in 1 .. Len(r) : \E j \in 1 .. Len(l) : j >= k /\ r[k] = l[j]
  <2>1. CASE r = l
    BY <1>2, <2>1
  <2>2. ASSUME NEW i \in 1 .. Len(l), Len(r) = Len(l) - 1,
               \A k \in 1 .. Len(l) - 1 : r[k] = IF k < i THEN l[k] ELSE l[k + 1]
        PROVE  IsInjective(r) /\ \A k \in 1 .. Len(r) : \E j \in 1 .. Len(l) : j >= k /\ r[k] = l[j]
    <3> DEFINE at(k) == IF k < i THEN k ELSE k + 1
    <3>1. \A k \in 1 .. Len(r) : at(k) \in 1 .. Len(l) /\ at(k) >= k /\ r[k] = l[at(k)]
      BY <1>2, <2>2
    <3>2. \A a, b \in 1 .. Len(r) : at(a) = at(b) => a = b
      BY <1>2, <2>2
    <3>3. DOMAIN r = 1 .. Len(r)
      BY <1>3
    <3> HIDE DEF at
    <3>4. IsInjective(r)
      BY <1>2, <3>1, <3>2, <3>3 DEF IsInjective
    <3> QED  BY <3>1, <3>4
  <2> QED  BY <1>3, <2>1, <2>2
<1>5. subs' \in [Types -> Seq(Subs)] /\ running' \in BOOLEAN
  BY <1>1, <1>3 DEF BusInv, BusTypeOK, r
<1>6. \A t \in Types : /\ IsInjective(subs'[t])
                       /\ \A k \in 1 .. Len(subs'[t]) :
                            \E j \in 1 .. Len(subs[t]) : j >= k /\ subs'[t][k] = subs[t][j]
  <2>1. subs'[TypeOf[s]] = r /\ \A t \in Types \ {TypeOf[s]} : subs'[t] = subs[t]
    BY <1>1, <1>2 DEF BusInv, BusTypeOK, r
  <2>2. ASSUME NEW t \in Types, t # TypeOf[s]
        PROVE  /\ IsInjective(subs'[t])
               /\ \A k \in 1 .. Len(subs'[t]) :
                    \E j \in 1 .. Len(subs[t]) : j >= k /\ subs'[t][k] = subs[t][j]
    <3>1. subs'[t] = subs[t] /\ IsInjective(subs[t]) /\ Len(subs[t]) \in Nat
      BY <2>1, <2>2 DEF BusInv, BusTypeOK, Wired
    <3>2. \A k \in 1 .. Len(subs[t]) : k >= k
      BY <3>1
    <3> QED  BY <3>1, <3>2
  <2> QED  BY <1>4, <2>1, <2>2 DEF l
<1>7. {s} \in SUBSET Subs
  OBVIOUS
<1> QED  BY <1>1, <1>5, <1>6, <1>7, CancelKeeps

-----------------------------------------------------------------------------
(* The invariant of every execution *)

\* The wiring starts from an empty bus.
LEMMA BusInvInit == Init => BusInv
<1> SUFFICES ASSUME Init  PROVE BusInv
  OBVIOUS
<1>1. \A s \in Subs : queue[s] = <<>> /\ handling[s] = NoEvent /\ putters[s] = <<>> /\ newest[s] = NoEvent
  BY DEF Init
<1>2. \A p \in Procs : call[p] = NoCall
  BY DEF Init
<1>3. BusTypeOK
  <2>1. made \in 0 .. Len(SubscribeOrder)
    BY BusConstants DEF Init
  <2> QED  BY <2>1, BusConstants DEF Init, BusTypeOK
<1>4. Wired
  <2>1. \A t \in Types : subs[t] = <<>>
    BY DEF Init
  <2> QED  BY <1>1, <1>2, <2>1 DEF Init, Wired, IsInjective
<1>5. Suspended /\ WakeupsOut
  BY <1>1 DEF Init, Suspended, WakeupsOut, IsInjective
<1>6. Numbered
  <2>1. \A s \in Subs : At(s) = {}
    BY <1>1 DEF At, Range
  <2> QED  BY <1>2, <2>1 DEF Numbered
<1>7. InOrder
  BY <1>1 DEF InOrder
<1> QED  BY <1>3, <1>4, <1>5, <1>6, <1>7 DEF BusInv

\* Every step keeps it: one case per action.
LEMMA BusInvStep == BusInv /\ [Next]_vars => BusInv'
<1> SUFFICES ASSUME BusInv, [Next]_vars  PROVE BusInv'
  OBVIOUS
<1>1. CASE \E p \in Sources : SourcePublish(p)
  BY <1>1, SourcePublishKeeps
<1>2. CASE \E p \in Procs : ResumePut(p)
  BY <1>2, ResumePutKeeps
<1>3. CASE \E s \in Subs : Work(s)
  BY <1>3, DrainGetKeeps, HandlerEmitKeeps, HandlerDoneKeeps DEF Work
<1>4. ASSUME NEW p \in Flushers, FlushCall(p)  PROVE BusInv'
  <2>1. JoinFrom(p, 1) /\ joined' \subseteq joined
        /\ UNCHANGED <<running, made, subs, worker, handling, woken, sent, pubVars>>
    BY <1>4 DEF FlushCall
  <2> QED  BY <2>1, JoinFromKeeps
<1>5. ASSUME NEW p \in Flushers, FlushResume(p)  PROVE BusInv'
  <2>1. JoinFrom(p, flushing[p] + 1) /\ joined' \subseteq joined
        /\ UNCHANGED <<running, made, subs, worker, handling, woken, sent, pubVars>>
    BY <1>5 DEF FlushResume
  <2>2. flushing[p] + 1 \in Nat
    BY DEF BusInv, BusTypeOK
  <2> QED  BY <2>1, <2>2, JoinFromKeeps
<1>6. CASE subscribe
  BY <1>6, SubscribeKeeps
<1>7. CASE \E s \in Removable : unsubscribe(s)
  BY <1>7, UnsubscribeKeeps, BusConstants
<1>8. CASE stop
  BY <1>8, StopKeeps
<1>9. CASE UNCHANGED vars
  <2>1. UNCHANGED <<running, made, subs, handling, woken, sent, pubVars>> /\ UNCHANGED <<worker, flushing, joined>>
    BY <1>9 DEF vars, pubVars
  <2> QED  BY <2>1, OthersKeep DEF BusInv, BusTypeOK
<1> QED  BY <1>1, <1>2, <1>3, <1>4, <1>5, <1>6, <1>7, <1>8, <1>9 DEF Next

\* So it holds in every reachable state.
LEMMA BusInvAlways == Spec => []BusInv
BY BusInvInit, BusInvStep, PTL DEF Spec

-----------------------------------------------------------------------------
(* The theorems *)

\* publish() and the workers keep asyncio.Queue's protocol, for any number of
\* tasks, queues and slots: no queue grows past maxsize, whatever publishers
\* resume in which order, and no put sleeps while its queue has room.
THEOREM QueueProtocol == Spec => []QueueProtocolHolds
<1>1. BusInv => QueueProtocolHolds
  <2> SUFFICES ASSUME BusInv  PROVE NoLostWakeup
    BY DEF QueueProtocolHolds, BusInv
  <2> SUFFICES ASSUME NEW s \in Subs, putters[s] # <<>>, ~full(s)
               PROVE  Cardinality({p \in woken : call[p].sub = s})
                        >= Min({Len(putters[s]), QueueSize - Len(queue[s])})
    BY DEF NoLostWakeup
  <2> DEFINE free == QueueSize - Len(queue[s])  m == Min({Len(putters[s]), free})
  <2>1. free \in Nat /\ Len(putters[s]) \in Nat /\ Len(queue[s]) \in Nat
    BY BusConstants DEF BusInv, BusTypeOK, full
  <2>2. Cardinality(WokenAt(s)) \in Nat /\ Cardinality(WokenAt(s)) + Len(queue[s]) >= QueueSize
    <3>1. WokenAt(s) \subseteq Procs
      BY DEF BusInv, BusTypeOK, WokenAt
    <3> QED  BY <3>1, FiniteTasks DEF BusInv, WakeupsOut
  <2>3. Cardinality(WokenAt(s)) >= free
    BY <2>1, <2>2, BusConstants
  <2> HIDE DEF free
  <2>4. m \in {Len(putters[s]), free} /\ m <= free
    BY <2>1, MinOfTwo
  <2> HIDE DEF m
  <2>5. Cardinality(WokenAt(s)) >= m
    BY <2>1, <2>2, <2>3, <2>4
  <2> QED  BY <2>5 DEF m, free, WokenAt
<1> QED  BY <1>1, BusInvAlways, PTL

\* What a subscription gets from one publisher is in the order it was published:
\* the handler's event and the queue behind it.
LEMMA OrderIsKept == BusInv => PublisherOrder
<1> SUFFICES ASSUME BusInv, NEW s \in Subs
             PROVE  LET line == (IF handling[s] = NoEvent THEN <<>> ELSE <<handling[s]>>) \o queue[s]
                    IN  \A i, j \in 1 .. Len(line) :
                          (i < j /\ line[i].src = line[j].src) => line[i].n < line[j].n
  BY DEF PublisherOrder
<1> DEFINE q == queue[s]
<1>1. q \in Seq(Events) /\ Len(q) \in Nat
  BY DEF BusInv, BusTypeOK
<1>2. \A i, j \in 1 .. Len(q) : i < j /\ q[i].src = q[j].src => q[i].n < q[j].n
  BY DEF BusInv, InOrder
<1>3. handling[s] # NoEvent => \A j \in 1 .. Len(q) : q[j].src = handling[s].src => handling[s].n < q[j].n
  BY DEF BusInv, InOrder
<1>4. CASE handling[s] = NoEvent
  <2> HIDE DEF q
  <2>1. <<>> \o q = q
    BY <1>1
  <2> QED  BY <1>2, <1>4, <2>1 DEF q
<1>5. CASE handling[s] # NoEvent
  <2> DEFINE h == handling[s]  line == <<h>> \o q
  <2>1. h \in Events
    BY <1>5 DEF BusInv, BusTypeOK
  <2> HIDE DEF q, h
  <2>2. line \in Seq(Events) /\ Len(line) = Len(q) + 1 /\ line[1] = h
        /\ \A i \in 2 .. Len(q) + 1 : line[i] = q[i - 1]
    BY <1>1, <2>1
  <2> HIDE DEF line
  <2>3. ASSUME NEW i \in 1 .. Len(line), NEW j \in 1 .. Len(line), i < j, line[i].src = line[j].src
        PROVE  line[i].n < line[j].n
    <3>1. j - 1 \in 1 .. Len(q) /\ line[j] = q[j - 1]
      BY <1>1, <2>2, <2>3
    <3>2. CASE i = 1
      BY <1>3, <1>5, <2>2, <2>3, <3>1, <3>2 DEF h
    <3>3. CASE i # 1
      <4>1. i - 1 \in 1 .. Len(q) /\ line[i] = q[i - 1] /\ i - 1 < j - 1
        BY <1>1, <2>2, <2>3, <3>3
      <4> QED  BY <1>2, <2>3, <3>1, <4>1
    <3> QED  BY <3>2, <3>3
  <2> QED  BY <1>5, <2>3 DEF line, h, q
<1> QED  BY <1>4, <1>5

\* drop_if_full evicts the oldest event, never the latest.
LEMMA LatestIsKept == BusInv => LatestValueKept
<1> SUFFICES ASSUME BusInv, NEW s \in DropIfFull, newest[s] # NoEvent
             PROVE  newest[s] \in Range(queue[s]) \cup {handling[s]}
  BY DEF LatestValueKept
<1>1. s \in Subs /\ queue[s] \in Seq(Events)
  BY BusConstants DEF BusInv, BusTypeOK
<1>2. CASE queue[s] = <<>>
  BY <1>1, <1>2 DEF BusInv, InOrder
<1>3. CASE queue[s] # <<>>
  <2>1. newest[s] = queue[s][Len(queue[s])] /\ Len(queue[s]) \in DOMAIN queue[s]
    BY <1>1, <1>3 DEF BusInv, InOrder
  <2> QED  BY <2>1 DEF Range
<1> QED  BY <1>2, <1>3

-----------------------------------------------------------------------------
(* Everyone gets it *)

\* Who unsubscribes is the last of its event type to have subscribed: the list
\* index of a suspended publish() survives, because no entry moves up.
RemovedLast ==
  \A i, j \in 1 .. Len(SubscribeOrder) :
    i < j /\ SubscribeOrder[i] \in Removable => TypeOf[SubscribeOrder[i]] # TypeOf[SubscribeOrder[j]]

\* The event of o is in the suspended publish() of its source, and the
\* subscription of o is the one it waits for or one further down the list.
Ahead(o) ==
  LET c == call[o[1].src]
  IN  /\ c # NoCall /\ c.ev = o[1]
      /\ \/ o[2] = c.sub
         \/ \E k \in 1 .. Len(subs[o[1].type]) : k > c.idx /\ subs[o[1].type][k] = o[2]

Owing ==
  /\ \A t \in Types : \A i \in 1 .. Len(subs[t]) : i < Len(subs[t]) => subs[t][i] \notin Removable
  /\ owed \subseteq Events \X Subs
  /\ \A o \in owed : Matches(o[2], o[1]) /\ Ahead(o)

\* Routing pays what it reaches, and owes what is behind the full queue.
LEMMA RouteOwes ==
  ASSUME BusInv, Owing, NEW p \in Procs, NEW e \in Events, e.src = p, NEW from \in Nat \ {0},
         NEW also \in SUBSET Subs, \A s \in also : ~full(s), Route(p, e, from, also), subs' = subs,
         \/ from = 1 /\ also = {} /\ call[p] = NoCall
         \/ from = call[p].idx + 1 /\ also = {call[p].sub} /\ e = call[p].ev
  PROVE  Owing'
<1> DEFINE tgt == subs[e.type]
           new == IF also # {} THEN {} ELSE {x \in Range(tgt) : Matches(x, e)}
<1>1. PICK cut \in Nat, reach \in SUBSET Subs :
        /\ Routed(p, e, from, also, cut, reach)
        /\ owed' = (owed \ {<<e, s>> : s \in reach})
                   \cup (IF also # {} THEN {}
                         ELSE {<<e, s>> : s \in {x \in Range(subs[e.type]) : Matches(x, e)} \ reach})
  BY RouteSplits DEF BusInv
<1>2. owed' \subseteq (owed \ {<<e, s>> : s \in reach}) \cup {<<e, s>> : s \in new \ reach}
  BY <1>1
<1>3. e.type \in Types /\ tgt \in Seq(Subs) /\ Len(tgt) \in Nat /\ DOMAIN tgt = 1 .. Len(tgt)
      /\ \A k \in 1 .. Len(tgt) : tgt[k] \in Subs
  BY DEF BusInv, BusTypeOK, Events
<1>4. new \subseteq Subs /\ \A s \in new : also = {} /\ Matches(s, e) /\ \E k \in 1 .. Len(tgt) : tgt[k] = s
  <2> HIDE DEF tgt
  <2> QED  BY <1>3 DEF Range
<1>5. /\ also \subseteq reach
      /\ \A k \in 1 .. Len(tgt) : from <= k /\ k < cut /\ Matches(tgt[k], e) => tgt[k] \in reach
      /\ \/ /\ cut = Len(tgt) + 1
            /\ call' = [call EXCEPT ![p] = NoCall]
         \/ /\ cut \in 1 .. Len(tgt)
            /\ call' = [call EXCEPT ![p] = [ev |-> e, idx |-> cut, sub |-> tgt[cut]]]
  BY <1>1, Zenon DEF Routed
<1>6. call \in [Procs -> Calls \cup {NoCall}]
  BY DEF BusInv, BusTypeOK
<1> HIDE DEF new, tgt
\* A subscription further down that was not reached is owed rightly.
<1>7. ASSUME NEW s \in Subs, NEW k \in 1 .. Len(tgt), tgt[k] = s, from <= k, Matches(s, e), s \notin reach
      PROVE  Ahead(<<e, s>>)'
  <2>1. k >= cut
    BY <1>1, <1>3, <1>5, <1>7
  <2>2. cut \in 1 .. Len(tgt) /\ call'[p] = [ev |-> e, idx |-> cut, sub |-> tgt[cut]]
    BY <1>1, <1>3, <1>5, <1>6, <2>1
  <2>3. call'[p] # NoCall
    BY <2>2, IsACall
  <2>4. s = tgt[cut] \/ k > cut
    BY <1>1, <1>7, <2>1
  <2> QED  BY <1>7, <2>2, <2>3, <2>4 DEF Ahead, tgt
<1>8. ASSUME NEW o \in owed'  PROVE o \in Events \X Subs /\ Matches(o[2], o[1]) /\ Ahead(o)'
  <2>1. CASE o \in {<<e, s>> : s \in new \ reach}
    <3>1. PICK s \in new \ reach : o = <<e, s>>
      BY <2>1
    <3>2. also = {} /\ s \in Subs /\ Matches(s, e) /\ \E k \in 1 .. Len(tgt) : tgt[k] = s
      BY <1>4
    <3>3. from = 1
      BY <3>2
    <3>4. Ahead(<<e, s>>)'
      BY <1>7, <3>2, <3>3
    <3> QED  BY <3>1, <3>2, <3>4
  <2>2. CASE o \in owed /\ ~(\E s \in reach : o = <<e, s>>)
    <3>1. o \in Events \X Subs /\ Matches(o[2], o[1]) /\ Ahead(o) /\ o = <<o[1], o[2]>>
      BY <2>2 DEF Owing
    <3>2. CASE o[1].src # p
      <4>1. o[1].src \in Procs /\ call'[o[1].src] = call[o[1].src]
        BY <1>5, <1>6, <3>1, <3>2 DEF Events
      <4> QED  BY <3>1, <4>1 DEF Ahead
    <3>3. CASE o[1].src = p
      <4>1. call[p] # NoCall /\ call[p].ev = o[1]
        BY <3>1, <3>3 DEF Ahead
      <4>2. from = call[p].idx + 1 /\ also = {call[p].sub} /\ o[1] = e /\ call[p].idx \in Nat
        BY <1>6, <4>1 DEF Calls
      <4>3. o[2] \in Subs /\ o = <<e, o[2]>> /\ o[2] \notin reach
        BY <2>2, <3>1, <4>2
      <4>4. PICK k \in 1 .. Len(tgt) : k > call[p].idx /\ tgt[k] = o[2]
        BY <1>5, <3>1, <3>3, <4>2, <4>3 DEF Ahead, tgt
      <4>5. from <= k
        BY <4>2, <4>4
      <4>6. Ahead(<<e, o[2]>>)'
        BY <1>7, <3>1, <4>2, <4>3, <4>4, <4>5
      <4> QED  BY <3>1, <4>3, <4>6
    <3> QED  BY <3>2, <3>3
  <2> QED  BY <1>2, <2>1, <2>2
<1>9. \A t \in Types : \A i \in 1 .. Len(subs'[t]) : i < Len(subs'[t]) => subs'[t][i] \notin Removable
  BY DEF Owing
<1> QED  BY <1>8, <1>9 DEF Owing, Matches

\* A step that leaves publish(), the lists and the debts alone.
LEMMA OwingBeside ==
  ASSUME Owing, UNCHANGED <<call, subs, owed>>
  PROVE  Owing'
BY DEF Owing, Ahead, Matches

\* A call of publish(): the bus routes, or has been stopped.
LEMMA PublishOwes ==
  ASSUME BusInv, Owing, NEW p \in Procs, NEW type \in Types, NEW sym \in UNION {Wants[s] : s \in Subs},
         publish(p, type, sym), subs' = subs
  PROVE  Owing'
<1> DEFINE e == [src |-> p, n |-> sent[p] + 1, type |-> type, sym |-> sym]
<1>1. e \in Events /\ e.src = p
  BY DEF BusInv, BusTypeOK, Events
<1>2. call[p] = NoCall /\ IF running THEN Route(p, e, 1, {}) ELSE UNCHANGED pubVars
  BY Zenon DEF publish
<1> HIDE DEF e
<1>3. CASE running
  <2>1. Route(p, e, 1, {}) /\ {} \in SUBSET Subs /\ \A s \in {} : ~full(s)
    BY <1>2, <1>3
  <2> QED  BY <1>1, <1>2, <2>1, RouteOwes
<1>4. CASE ~running
  BY <1>2, <1>4, OwingBeside DEF pubVars
<1> QED  BY <1>3, <1>4

\* The sources and the handlers publish.
LEMMA PublishersOwe ==
  ASSUME BusInv, Owing,
         (\E p \in Sources : SourcePublish(p)) \/ (\E s \in Subs : HandlerEmit(s))
  PROVE  Owing'
<1>1. ASSUME NEW p \in Sources, SourcePublish(p)  PROVE Owing'
  <2>1. PICK f \in Feeds[p] : publish(p, f[1], f[2])
    BY <1>1 DEF SourcePublish
  <2>2. p \in Procs /\ f[1] \in Types /\ f[2] \in UNION {Wants[s] : s \in Subs}
    BY BusConstants DEF Procs
  <2> QED  BY <1>1, <2>1, <2>2, PublishOwes DEF SourcePublish
<1>2. ASSUME NEW s \in Subs, HandlerEmit(s)  PROVE Owing'
  <2>1. PICK t \in Emits[s] : publish(s, t, handling[s].sym)
    BY <1>2 DEF HandlerEmit
  <2>2. s \in Procs /\ t \in Types /\ handling[s].sym \in UNION {Wants[x] : x \in Subs}
    BY <1>2, BusConstants DEF Procs, HandlerEmit, BusInv, Wired, Events
  <2> QED  BY <1>2, <2>1, <2>2, PublishOwes DEF HandlerEmit
<1> QED  BY <1>1, <1>2

\* A woken put runs.
LEMMA ResumePutOwes ==
  ASSUME BusInv, Owing, NEW p \in Procs, ResumePut(p)
  PROVE  Owing'
<1> DEFINE s == call[p].sub  e == call[p].ev  from == call[p].idx + 1
<1>1. call[p] \in Calls /\ e.src = p /\ subs' = subs
  BY DEF ResumePut, BusInv, BusTypeOK, Suspended, Numbered, Before
<1>2. s \in Subs /\ e \in Events /\ from \in Nat \ {0}
  BY <1>1 DEF Calls
<1>3. IF full(s) THEN UNCHANGED <<queue, call, newest, owed>> ELSE Route(p, e, from, {s})
  BY DEF ResumePut
<1>4. CASE full(s)
  BY <1>1, <1>3, <1>4, OwingBeside
<1>5. CASE ~full(s)
  <2>1. Route(p, e, from, {s}) /\ {s} \in SUBSET Subs /\ \A t \in {s} : ~full(t)
    BY <1>2, <1>3, <1>5
  <2>2. from = call[p].idx + 1 /\ {s} = {call[p].sub} /\ e = call[p].ev
    OBVIOUS
  <2> HIDE DEF s, e, from
  <2> QED  BY <1>1, <1>2, <2>1, <2>2, RouteOwes
<1> QED  BY <1>4, <1>5

\* A subscription is appended: those of its type before it stay for good.
LEMMA SubscribeOwes ==
  ASSUME BusInv, Owing, RemovedLast, subscribe
  PROVE  Owing'
<1> DEFINE s == SubscribeOrder[made + 1]  l == subs[TypeOf[s]]
<1>1. /\ made < Len(SubscribeOrder) /\ subs' = [subs EXCEPT ![TypeOf[s]] = Append(l, s)]
      /\ UNCHANGED <<call, owed>>
  BY DEF subscribe, pubVars
<1>2. made \in Nat /\ made + 1 \in 1 .. Len(SubscribeOrder) /\ \A i \in 1 .. made : i \in 1 .. Len(SubscribeOrder) /\ i < made + 1
  BY <1>1, BusConstants DEF BusInv, BusTypeOK
<1>3. s \in Subs /\ TypeOf[s] \in Types
  BY <1>2, BusConstants DEF Subs, Range
<1>4. \A x \in Made \cap Removable : TypeOf[x] # TypeOf[s]
  BY <1>2 DEF Made, RemovedLast
<1>5. subs \in [Types -> Seq(Subs)] /\ l \in Seq(Subs) /\ Len(l) \in Nat
  BY <1>3 DEF BusInv, BusTypeOK
<1>6. \A i \in 1 .. Len(l) : l[i] \in Made /\ TypeOf[l[i]] = TypeOf[s]
  BY <1>3 DEF BusInv, Wired
<1> HIDE DEF s, l
<1>7. Len(Append(l, s)) = Len(l) + 1 /\ \A i \in 1 .. Len(l) : Append(l, s)[i] = l[i]
  BY <1>3, <1>5
<1>8. \A t \in Types : Len(subs'[t]) >= Len(subs[t]) /\ \A k \in 1 .. Len(subs[t]) : subs'[t][k] = subs[t][k]
  <2>1. \A t \in Types \ {TypeOf[s]} : subs'[t] = subs[t] /\ Len(subs[t]) \in Nat
    BY <1>1, <1>5
  <2>2. subs'[TypeOf[s]] = Append(l, s)
    BY <1>1, <1>3, <1>5
  <2> QED  BY <1>5, <1>7, <2>1, <2>2 DEF l
<1>9. \A t \in Types : \A i \in 1 .. Len(subs'[t]) : i < Len(subs'[t]) => subs'[t][i] \notin Removable
  <2> SUFFICES ASSUME NEW t \in Types, NEW i \in 1 .. Len(subs'[t]), i < Len(subs'[t])
               PROVE  subs'[t][i] \notin Removable
    OBVIOUS
  <2>1. CASE t # TypeOf[s]
    BY <1>1, <1>5, <2>1 DEF Owing
  <2>2. CASE t = TypeOf[s]
    <3>1. subs'[t] = Append(l, s)
      BY <1>1, <1>3, <1>5, <2>2
    <3>2. i \in 1 .. Len(l) /\ subs'[t][i] = l[i]
      BY <1>5, <1>7, <3>1
    <3> QED  BY <1>4, <1>6, <3>2
  <2> QED  BY <2>1, <2>2
<1>10. ASSUME NEW o \in owed  PROVE Ahead(o)'
  <2>1. o[1].type \in Types /\ Ahead(o) /\ Len(subs[o[1].type]) \in Nat
    BY <1>5 DEF Owing, Events
  <2>2. Len(subs'[o[1].type]) \in Nat
    <3>1. subs'[o[1].type] = subs[o[1].type] \/ subs'[o[1].type] = Append(l, s)
      BY <1>1, <1>5, <2>1
    <3> QED  BY <1>5, <1>7, <2>1, <3>1
  <2> QED  BY <1>1, <1>8, <2>1, <2>2 DEF Ahead
<1> QED  BY <1>1, <1>9, <1>10 DEF Owing, Matches

\* Workers are cancelled: their debts go with them, and those to them.
LEMMA CancelOwes ==
  ASSUME BusInv, Owing, NEW S \in SUBSET Subs, CancelWorkers(S),
         \A t \in Types : \A i \in 1 .. Len(subs'[t]) : i < Len(subs'[t]) => subs'[t][i] \notin Removable,
         \A t \in Types : \A k \in 1 .. Len(subs[t]) :
           subs[t][k] \notin S => k \in 1 .. Len(subs'[t]) /\ subs'[t][k] = subs[t][k]
  PROVE  Owing'
<1>1. /\ call' = [p \in Procs |-> IF p \in S THEN NoCall ELSE call[p]]
      /\ owed' = {o \in owed : o[1].src \notin S /\ o[2] \notin S}
  BY DEF CancelWorkers
<1>2. ASSUME NEW o \in owed'
      PROVE  o \in Events \X Subs /\ Matches(o[2], o[1]) /\ Ahead(o)'
  <2>1. o \in Events \X Subs /\ Matches(o[2], o[1]) /\ Ahead(o) /\ o[1].src \notin S /\ o[2] \notin S
    BY <1>1 DEF Owing
  <2>2. o[1].src \in Procs /\ o[1].type \in Types
    BY <2>1 DEF Events
  <2>3. call'[o[1].src] = call[o[1].src]
    BY <1>1, <2>1, <2>2
  <2> QED  BY <2>1, <2>2, <2>3 DEF Ahead
<1> QED  BY <1>2 DEF Owing, Matches

\* unsubscribe() takes the last entry of the list, where it takes one at all.
LEMMA UnsubscribeOwes ==
  ASSUME BusInv, Owing, NEW s \in Removable, unsubscribe(s)
  PROVE  Owing'
<1> DEFINE l == subs[TypeOf[s]]  r == removed(l, s)
<1>1. CancelWorkers({s}) /\ subs' = [subs EXCEPT ![TypeOf[s]] = r]
  BY DEF unsubscribe
<1>2. s \in Subs /\ TypeOf[s] \in Types /\ subs \in [Types -> Seq(Subs)] /\ l \in Seq(Subs) /\ Len(l) \in Nat
  BY BusConstants DEF BusInv, BusTypeOK
<1>3. \A i \in 1 .. Len(l) : i < Len(l) => l[i] # s /\ l[i] \notin Removable
  BY <1>2 DEF Owing
<1> HIDE DEF l
<1>4. r \in Seq(Subs) /\ (r = l \/ \E i \in 1 .. Len(l) :
        l[i] = s /\ Len(r) = Len(l) - 1 /\ \A k \in 1 .. Len(l) - 1 : r[k] = IF k < i THEN l[k] ELSE l[k + 1])
  <2>1. r \in Seq(Subs) /\ IsRemoved(r, l, s)
    BY <1>2, RemovedKeeps
  <2> HIDE DEF r
  <2> QED  BY <2>1 DEF IsRemoved
<1> HIDE DEF r
<1>5. r = l \/ (Len(l) > 0 /\ l[Len(l)] = s /\ Len(r) = Len(l) - 1 /\ \A k \in 1 .. Len(l) - 1 : r[k] = l[k])
  <2>1. CASE r = l
    BY <2>1
  <2>2. ASSUME NEW i \in 1 .. Len(l), l[i] = s, Len(r) = Len(l) - 1,
               \A k \in 1 .. Len(l) - 1 : r[k] = IF k < i THEN l[k] ELSE l[k + 1]
        PROVE  Len(l) > 0 /\ l[Len(l)] = s /\ Len(r) = Len(l) - 1 /\ \A k \in 1 .. Len(l) - 1 : r[k] = l[k]
    <3>1. i = Len(l)
      BY <1>2, <1>3, <2>2
    <3> QED  BY <1>2, <2>2, <3>1
  <2> QED  BY <1>4, <2>1, <2>2
<1>6. subs'[TypeOf[s]] = r /\ \A t \in Types \ {TypeOf[s]} : subs'[t] = subs[t]
  BY <1>1, <1>2
<1>7. ASSUME NEW t \in Types
      PROVE  /\ \A i \in 1 .. Len(subs'[t]) : i < Len(subs'[t]) => subs'[t][i] \notin Removable
             /\ \A k \in 1 .. Len(subs[t]) :
                  subs[t][k] \notin {s} => k \in 1 .. Len(subs'[t]) /\ subs'[t][k] = subs[t][k]
  <2>1. CASE t # TypeOf[s]
    BY <1>6, <2>1 DEF Owing
  <2>2. CASE t = TypeOf[s]
    <3>1. subs'[t] = r /\ subs[t] = l
      BY <1>6, <2>2 DEF l
    <3>2. CASE r = l
      BY <1>3, <3>1, <3>2
    <3>3. CASE Len(l) > 0 /\ l[Len(l)] = s /\ Len(r) = Len(l) - 1 /\ \A k \in 1 .. Len(l) - 1 : r[k] = l[k]
      <4>1. \A i \in 1 .. Len(r) : i \in 1 .. Len(l) - 1 /\ i \in 1 .. Len(l) /\ i < Len(l)
        BY <1>2, <3>3
      <4>2. \A k \in 1 .. Len(l) : k # Len(l) => k \in 1 .. Len(r)
        BY <1>2, <3>3
      <4> QED  BY <1>3, <3>1, <3>3, <4>1, <4>2
    <3> QED  BY <1>5, <3>2, <3>3
  <2> QED  BY <2>1, <2>2
<1>8. {s} \in SUBSET Subs
  BY <1>2
<1> QED  BY <1>1, <1>7, <1>8, CancelOwes

\* stop() leaves the lists as they are.
LEMMA StopOwes ==
  ASSUME BusInv, Owing, stop
  PROVE  Owing'
<1>1. CancelWorkers({s \in Subs : worker[s] # "none"}) /\ subs' = subs
  BY DEF stop
<1>2. {s \in Subs : worker[s] # "none"} \in SUBSET Subs
  OBVIOUS
<1>3. \A t \in Types : \A i \in 1 .. Len(subs'[t]) : i < Len(subs'[t]) => subs'[t][i] \notin Removable
  BY <1>1 DEF Owing
<1>4. \A t \in Types : \A k \in 1 .. Len(subs[t]) : k \in 1 .. Len(subs'[t]) /\ subs'[t][k] = subs[t][k]
  BY <1>1
<1> QED  BY <1>1, <1>2, <1>3, <1>4, CancelOwes

\* Every step keeps the debts to what a suspended publish() has before it.
LEMMA OwingStep == RemovedLast /\ BusInv /\ Owing /\ [Next]_vars => Owing'
<1> SUFFICES ASSUME RemovedLast, BusInv, Owing, [Next]_vars  PROVE Owing'
  OBVIOUS
<1>1. CASE \/ \E s \in Subs : DrainGet(s) \/ HandlerDone(s)
           \/ \E p \in Flushers : FlushCall(p) \/ FlushResume(p)
           \/ UNCHANGED vars
  <2>1. UNCHANGED <<call, subs, owed>>
    BY <1>1 DEF DrainGet, HandlerDone, FlushCall, FlushResume, vars, pubVars
  <2> QED  BY <2>1, OwingBeside
<1>2. CASE (\E p \in Sources : SourcePublish(p)) \/ (\E s \in Subs : HandlerEmit(s))
  BY <1>2, PublishersOwe
<1>3. CASE \E p \in Procs : ResumePut(p)
  BY <1>3, ResumePutOwes
<1>4. CASE subscribe
  BY <1>4, SubscribeOwes
<1>5. CASE \E s \in Removable : unsubscribe(s)
  BY <1>5, UnsubscribeOwes
<1>6. CASE stop
  BY <1>6, StopOwes
<1> QED  BY <1>1, <1>2, <1>3, <1>4, <1>5, <1>6 DEF Next, Work

\* What was published arrives, for any number of tasks, queues and slots: in the
\* order of its publisher, the latest value even where a full queue drops, and
\* at every matching subscriber, as long as the subscription that unsubscribes
\* is the last of its event type.
THEOREM Delivery ==
  ASSUME RemovedLast
  PROVE  Spec => []DeliveryIsFaithful
<1>1. Init => Owing
  <2> SUFFICES ASSUME Init  PROVE Owing
    OBVIOUS
  <2>1. owed = {} /\ \A t \in Types : Len(subs[t]) = 0
    BY DEF Init
  <2> QED  BY <2>1 DEF Owing
<1>2. BusInv /\ Owing /\ [Next]_vars => Owing'
  BY OwingStep
<1>3. BusInv /\ Owing => DeliveryIsFaithful
  <2> SUFFICES ASSUME BusInv, Owing  PROVE RoutesToAll
    BY OrderIsKept, LatestIsKept DEF DeliveryIsFaithful
  <2>1. \A o \in owed : o[1].src \in Procs /\ call[o[1].src] # NoCall /\ call[o[1].src].ev = o[1]
    BY DEF Owing, Ahead, Events
  <2> QED  BY <2>1 DEF RoutesToAll
<1>4. Spec => []Owing
  BY <1>1, <1>2, BusInvAlways, PTL DEF Spec
<1> QED  BY <1>3, <1>4, BusInvAlways, PTL

-----------------------------------------------------------------------------
(* The date replay: its workers                                               *)

\* The fields of a worker's record, and its four queues.
Fields == {"date", "at", "want", "todo", "plan", "bars", "ready", "q", "snap", "state",
           "ctx", "prev", "states"}
Handlers == {"feature", "market", "setup", "collect"}

IsWorker(w) ==
  /\ w = [f \in Fields |-> w[f]]
  /\ w.q = [t \in Handlers |-> w.q[t]]
  /\ w.date \in Requested
  /\ w.at \in {"queued", "connect", "download", "replay", "join", "ended"}
  /\ w.todo \in SUBSET (0 .. w.date)

\* The workers and the jobs agree: a job runs for as long as its one worker does.
WorkersInv ==
  /\ IsSeq(workers)
  /\ \A i \in DOMAIN workers : IsWorker(workers[i])
  /\ jobs = [d \in Dates |-> jobs[d]]
  /\ OneWorkerPerDate

\* A worker that was never beside another one has everything on disk once, and what it
\* is going to download is not there yet.
DiskInv ==
  /\ disk = [d \in Dates |-> disk[d]]
  /\ ~overlap =>
       /\ \A i, j \in AtWork : i = j
       /\ \A d \in Dates : IsInjective(disk[d])
       /\ \A i \in AtWork :
            /\ workers[i].at = "queued" => workers[i].want = workers[i].date
            /\ workers[i].at \in {"connect", "download"} /\ workers[i].want \in Dates =>
                 disk[workers[i].want] = <<>>

\* The queues of a worker's tasks, each empty or with the bar b.
Queues(w, f, m, s, c) ==
  w.q.feature = f /\ w.q.market = m /\ w.q.setup = s /\ w.q.collect = c

\* How far the handlers have got with the last bar published: the tasks that are ready,
\* what their queues hold and which of them have seen the bar.
Quietly(w)  == w.at = "replay" /\ w.ready = <<"worker">> /\ Queues(w, <<>>, <<>>, <<>>, <<>>)
Behind(w, c, b) ==
  /\ w.at = "replay" /\ w.ready = <<"collect", "feature", "market", "setup", "worker">>
  /\ Queues(w, <<b>>, <<b>>, <<b>>, <<c>>)
Given(w, b) ==
  /\ w.at = "replay" /\ w.ready = <<"feature", "market", "setup", "worker">>
  /\ Queues(w, <<b>>, <<b>>, <<b>>, <<>>)
Measured(w, b) ==
  /\ w.at = "replay" /\ w.ready = <<"market", "setup", "worker">>
  /\ Queues(w, <<>>, <<b>>, <<b>>, <<>>) /\ w.snap = b
Judged(w, b) ==
  /\ w.at = "replay" /\ w.ready = <<"setup", "worker", "collect">>
  /\ Queues(w, <<>>, <<>>, <<b>>, <<b>>) /\ w.snap = b /\ w.state = b
Skipped(w, b) ==
  /\ w.at = "replay" /\ w.ready = <<"setup", "worker">>
  /\ Queues(w, <<>>, <<>>, <<b>>, <<>>) /\ w.snap = NoBar
Scanned(w, b) ==
  w.at = "replay" /\ w.ready = <<"worker", "collect">> /\ Queues(w, <<>>, <<>>, <<>>, <<b>>)
Waiting(w, b) ==
  w.at = "join" /\ w.ready = <<"collect">> /\ Queues(w, <<>>, <<>>, <<>>, <<b>>)

InStep(w) ==
  \/ Quietly(w)
  \/ \E b : Given(w, b) \/ Measured(w, b) \/ Judged(w, b) \/ Skipped(w, b)
             \/ Scanned(w, b) \/ Waiting(w, b)
  \/ \E b, c : Behind(w, c, b)

\* Every setup of a context met the snapshot and the state of its bar.
Met(c) ==
  c # NoContext =>
    /\ c = [g \in {"session", "seen"} |-> c[g]] /\ IsSeq(c.seen)
    /\ \A k \in DOMAIN c.seen : c.seen[k].snap = c.seen[k].bar /\ c.seen[k].state = c.seen[k].bar

\* The replay of a worker is in step, and has not begun before the bars are there.
InPlace(w) ==
  /\ w.at \in {"queued", "connect", "download"} => Queues(w, <<>>, <<>>, <<>>, <<>>)
  /\ w.at \in {"replay", "join"} => InStep(w)
  /\ Met(w.ctx) /\ Met(w.prev)

StepInv ==
  /\ \A i \in DOMAIN workers : InPlace(workers[i])
  /\ saved = [d \in Dates |-> saved[d]]
  /\ SetupsMeetTheirBar

-----------------------------------------------------------------------------
(* One job, one worker *)

\* A function over the first n numbers is a sequence.
LEMMA SeqMade ==
  ASSUME NEW n \in Nat, NEW f, f = [j \in 1 .. n |-> f[j]]
  PROVE  IsSeq(f) /\ Len(f) = n /\ DOMAIN f = 1 .. n
<1> DEFINE R == {f[j] : j \in 1 .. n}
<1>1. f \in [1 .. n -> R]
  BY Zenon
<1>2. DOMAIN f = 1 .. n /\ {f[j] : j \in DOMAIN f} = R
  BY Zenon
<1> HIDE DEF R
<1>3. f \in Seq(R) /\ Len(f) = n
  BY <1>1
<1> QED  BY <1>2, <1>3, Zenon DEF IsSeq

\* A step that changes one worker, and its job with it.
LEMMA WorkerMoves ==
  ASSUME WorkersInv, NEW i \in AtWork, NEW w, IsWorker(w), w.date = workers[i].date,
         workers' = [workers EXCEPT ![i] = w], jobs' = [d \in Dates |-> jobs'[d]],
         \A d \in Dates : d # w.date => jobs'[d] = jobs[d],
         (jobs'[w.date] \in Running) = (w.at # "ended")
  PROVE  /\ WorkersInv' /\ DOMAIN workers' = DOMAIN workers
         /\ \A j \in DOMAIN workers : workers'[j] = IF j = i THEN w ELSE workers[j]
<1>1. i \in DOMAIN workers /\ IsWorker(workers[i]) /\ workers[i].at # "ended" /\ w.date \in Dates
  BY DateReplayAssumption DEF WorkersInv, AtWork, IsWorker
<1>2. Len(workers) \in Nat /\ DOMAIN workers = 1 .. Len(workers)
  BY SeqShape DEF WorkersInv
<1>3. /\ IsSeq(workers') /\ DOMAIN workers' = DOMAIN workers
      /\ \A j \in DOMAIN workers : workers'[j] = IF j = i THEN w ELSE workers[j]
  <2>1. /\ DOMAIN workers' = DOMAIN workers
        /\ \A j \in DOMAIN workers : workers'[j] = IF j = i THEN w ELSE workers[j]
    BY <1>1
  <2>2. workers \in Seq({workers[j] : j \in DOMAIN workers})
    BY DEF WorkersInv, IsSeq
  <2>3. workers = [j \in 1 .. Len(workers) |-> workers[j]]
    BY <2>2, <1>2
  <2>4. workers' = [j \in 1 .. Len(workers) |-> workers'[j]]
    BY <2>3, <1>2, <2>1
  <2> QED  BY <2>1, <2>4, <1>2, SeqMade
<1>4. /\ \A j, k \in AtWork : workers[j].date = workers[k].date => j = k
      /\ \A d \in Dates : (jobs[d] \in Running) = (\E j \in AtWork : workers[j].date = d)
  BY DEF WorkersInv, OneWorkerPerDate
<1>5. /\ \A j : j # i => ((j \in AtWork') = (j \in AtWork))
      /\ (i \in AtWork') = (w.at # "ended")
      /\ \A j \in AtWork' : workers'[j].date = workers[j].date
  BY <1>1, <1>3 DEF AtWork
<1>6. \A j, k \in AtWork' : workers'[j].date = workers'[k].date => j = k
  BY <1>4, <1>5
<1>7. ASSUME NEW d \in Dates
      PROVE  (jobs'[d] \in Running) = (\E j \in AtWork' : workers'[j].date = d)
  <2>1. CASE d = w.date /\ w.at # "ended"
    BY <2>1, <1>3, <1>5
  <2>2. CASE d = w.date /\ w.at = "ended"
    <3>1. \A j \in AtWork' : workers'[j].date # d
      BY <2>2, <1>4, <1>5
    <3> QED  BY <3>1, <2>2
  <2>3. CASE d # w.date
    <3>1. (\E j \in AtWork' : workers'[j].date = d) = (\E j \in AtWork : workers[j].date = d)
      BY <2>3, <1>5
    <3> QED  BY <3>1, <2>3, <1>4
  <2> QED  BY <2>1, <2>2, <2>3
<1>8. \A j \in DOMAIN workers' : IsWorker(workers'[j])
  BY <1>3 DEF WorkersInv
<1>9. OneWorkerPerDate'
  BY <1>6, <1>7, Zenon DEF OneWorkerPerDate
<1> QED  BY <1>3, <1>8, <1>9 DEF WorkersInv

\* The records of the workers: a new one, one that is done, one at its replay.
LEMMA WorkerStarts ==
  ASSUME NEW d \in Requested
  PROVE  /\ IsWorker(NewWorker(d)) /\ NewWorker(d).date = d /\ NewWorker(d).at = "queued"
         /\ NewWorker(d).want = d /\ NewWorker(d).ctx = NoContext /\ NewWorker(d).prev = NoContext
<1>1. prior_dates(d) \in SUBSET (0 .. d)
  <2>1. d \in Nat /\ d - 1 \in Nat /\ Trading \subseteq Nat
    BY DateReplayAssumption
  <2>2. \A t \in warmup(d) : t \in Trading /\ t < d
    BY DEF warmup
  <2>3. ASSUME NEW t \in prior_dates(d)  PROVE t \in 0 .. d
    <3>1. t = d - 1 \/ t \in warmup(d)
      BY DEF prior_dates
    <3>2. CASE t = d - 1
      BY <2>1, <3>2
    <3>3. CASE t \in warmup(d)
      <4>1. t \in Trading /\ t < d
        BY <2>2, <3>3
      <4> QED  BY <2>1, <4>1
    <3> QED  BY <3>1, <3>2, <3>3
  <2> QED  BY <2>3
<1>2. Range(Tasks) = Handlers
  BY DEF Range, Tasks, Handlers
<1>3. NewWorker(d) = [f \in Fields |-> NewWorker(d)[f]]
  BY DEF NewWorker, Fields
<1> QED  BY <1>1, <1>2, <1>3 DEF NewWorker, IsWorker

LEMMA WorkerLeaves ==
  ASSUME NEW w, w.date \in Requested
  PROVE  /\ IsWorker(Leave(w)) /\ Leave(w).date = w.date /\ Leave(w).at = "ended"
         /\ Leave(w).ctx = NoContext /\ Leave(w).prev = NoContext
<1>1. /\ IsWorker(NewWorker(w.date)) /\ NewWorker(w.date).date = w.date
      /\ NewWorker(w.date).ctx = NoContext /\ NewWorker(w.date).prev = NoContext
  BY WorkerStarts
<1> HIDE DEF NewWorker
<1> QED  BY <1>1 DEF Leave, IsWorker, Fields

LEMMA ReplayStarts ==
  ASSUME NEW w, IsWorker(w)
  PROVE  /\ IsWorker(StartReplay(w)) /\ StartReplay(w).date = w.date
         /\ StartReplay(w).at = "replay" /\ StartReplay(w).ready = <<"worker">>
         /\ StartReplay(w).q = w.q /\ StartReplay(w).ctx = w.ctx /\ StartReplay(w).prev = w.prev
BY DEF StartReplay, IsWorker, Fields

-----------------------------------------------------------------------------
(* The handlers in step *)

\* Both records are the same but for their queues, what is ready, the bars, what the
\* handlers have seen and the phase.
SameJob(v, w) == v.date = w.date /\ v.ctx = w.ctx /\ v.prev = w.prev

\* A bar put into the queue of a handler that is idle.
LEMMA PutWakes ==
  ASSUME NEW w, IsWorker(w), NEW t \in Handlers, NEW b, Idle(w, t), w.q[t] = <<>>
  PROVE  /\ IsWorker(Put(w, t, b)) /\ SameJob(Put(w, t, b), w) /\ Put(w, t, b).at = w.at
         /\ Put(w, t, b).ready = Append(w.ready, t) /\ Put(w, t, b).q[t] = <<b>>
         /\ \A s \in Handlers : s # t => Put(w, t, b).q[s] = w.q[s]
<1> DEFINE v == Put(w, t, b)
<1>1. v = [f \in Fields |-> IF f = "q" THEN [w.q EXCEPT ![t] = Append(@, b)]
                            ELSE IF f = "ready" THEN Append(w.ready, t) ELSE w[f]]
  BY DEF Put, IsWorker, Fields
<1>2. v.q = [s \in Handlers |-> IF s = t THEN <<b>> ELSE w.q[s]]
  <2>1. Append(w.q[t], b) = <<b>>
    OBVIOUS
  <2>2. v.q = [w.q EXCEPT ![t] = Append(@, b)]
    BY <1>1 DEF Fields
  <2> QED  BY <2>1, <2>2 DEF IsWorker
<1> HIDE DEF v
<1>3. IsWorker(v)
  BY <1>1, <1>2 DEF IsWorker, Fields
<1> QED  BY <1>1, <1>2, <1>3 DEF v, SameJob, Fields

\* What is ready, and who is idle, from the tasks one by one.
LEMMA IdleIn ==
  ASSUME NEW w, NEW t
  PROVE  /\ w.ready = <<>> => Idle(w, t)
         /\ \A a : w.ready = <<a>> /\ a # t => Idle(w, t)
         /\ \A a, b : w.ready = <<a, b>> /\ t \notin {a, b} => Idle(w, t)
         /\ \A a, b, c : w.ready = <<a, b, c>> /\ t \notin {a, b, c} => Idle(w, t)
BY DEF Idle

\* What is appended to a few tasks.
LEMMA AppendsTo ==
  ASSUME NEW e
  PROVE  /\ Append(<<>>, e) = <<e>>
         /\ \A a : Append(<<a>>, e) = <<a, e>>
         /\ \A a, b : Append(<<a, b>>, e) = <<a, b, e>>
         /\ \A a, b, c : Append(<<a, b, c>>, e) = <<a, b, c, e>>
         /\ \A a, b, c, d : Append(<<a, b, c, d>>, e) = <<a, b, c, d, e>>
<1>1. Append(<<>>, e) = <<e>>
  OBVIOUS
<1>2. ASSUME NEW a  PROVE Append(<<a>>, e) = <<a, e>>
  <2> DEFINE f == Append(<<a>>, e)
  <2>1. <<a>> \in Seq({a, e}) /\ Len(<<a>>) = 1 /\ e \in {a, e}
    OBVIOUS
  <2>2. f \in Seq({a, e}) /\ Len(f) = 2 /\ f[1] = a /\ f[2] = e
    BY <2>1
  <2>3. f = [i \in 1 .. 2 |-> f[i]]
    BY <2>2
  <2> HIDE DEF f
  <2>4. f = <<a, e>>
    BY <2>2, <2>3
  <2> QED  BY <2>4 DEF f
<1>3. ASSUME NEW a, NEW b  PROVE Append(<<a, b>>, e) = <<a, b, e>>
  <2> DEFINE f == Append(<<a, b>>, e)
  <2>1. <<a, b>> \in Seq({a, b, e}) /\ Len(<<a, b>>) = 2 /\ e \in {a, b, e}
    OBVIOUS
  <2>2. f \in Seq({a, b, e}) /\ Len(f) = 3 /\ f[1] = a /\ f[2] = b /\ f[3] = e
    BY <2>1
  <2>3. f = [i \in 1 .. 3 |-> f[i]]
    BY <2>2
  <2> HIDE DEF f
  <2>4. f = <<a, b, e>>
    BY <2>2, <2>3
  <2> QED  BY <2>4 DEF f
<1>4. ASSUME NEW a, NEW b, NEW c  PROVE Append(<<a, b, c>>, e) = <<a, b, c, e>>
  <2> DEFINE f == Append(<<a, b, c>>, e)
  <2>1. <<a, b, c>> \in Seq({a, b, c, e}) /\ Len(<<a, b, c>>) = 3 /\ e \in {a, b, c, e}
    OBVIOUS
  <2>2. f \in Seq({a, b, c, e}) /\ Len(f) = 4 /\ f[1] = a /\ f[2] = b /\ f[3] = c /\ f[4] = e
    BY <2>1
  <2>3. f = [i \in 1 .. 4 |-> f[i]]
    BY <2>2
  <2> HIDE DEF f
  <2>4. f = <<a, b, c, e>>
    BY <2>2, <2>3
  <2> QED  BY <2>4 DEF f
<1>5. ASSUME NEW a, NEW b, NEW c, NEW d  PROVE Append(<<a, b, c, d>>, e) = <<a, b, c, d, e>>
  <2> DEFINE f == Append(<<a, b, c, d>>, e)
  <2>1. <<a, b, c, d>> \in Seq({a, b, c, d, e}) /\ Len(<<a, b, c, d>>) = 4 /\ e \in {a, b, c, d, e}
    OBVIOUS
  <2>2. f \in Seq({a, b, c, d, e}) /\ Len(f) = 5 /\ f[1] = a /\ f[2] = b /\ f[3] = c /\ f[4] = d /\ f[5] = e
    BY <2>1
  <2>3. f = [i \in 1 .. 5 |-> f[i]]
    BY <2>2
  <2> HIDE DEF f
  <2>4. f = <<a, b, c, d, e>>
    BY <2>2, <2>3
  <2> QED  BY <2>4 DEF f
<1> QED  BY <1>1, <1>2, <1>3, <1>4, <1>5

\* The publisher's turn: it hands the bar to three handlers that have nothing to do.
LEMMA PublishHandsOut ==
  ASSUME NEW w, IsWorker(w), w.at = "replay",
         \/ w.ready = <<"worker">> /\ w.q.collect = <<>>
         \/ w.ready = <<"worker", "collect">> /\ \E c : w.q.collect = <<c>>,
         w.q.feature = <<>>, w.q.market = <<>>, w.q.setup = <<>>
  PROVE  /\ IsWorker(publish_bar(w)) /\ SameJob(publish_bar(w), w)
         /\ publish_bar(w).at = "replay" /\ InStep(publish_bar(w))
<1> DEFINE b == Head(w.bars)
           n == Next1(w)
           f == Put(n, "feature", Head(n.bars))
           m == Put(f, "market", Head(n.bars))
           s == Put(m, "setup", Head(n.bars))
           v == publish_bar(w)
<1>1. /\ IsWorker(n) /\ SameJob(n, w) /\ n.at = "replay" /\ n.q = w.q
      /\ \/ n.ready = <<>> /\ w.q.collect = <<>>
         \/ n.ready = <<"collect">> /\ \E c : w.q.collect = <<c>>
  <2>1. n = [g \in Fields |-> IF g = "ready" THEN Tail(w.ready) ELSE w[g]]
    BY DEF Next1, IsWorker, Fields
  <2>2. Tail(<<"worker">>) = <<>> /\ Tail(<<"worker", "collect">>) = <<"collect">>
    OBVIOUS
  <2> HIDE DEF n
  <2>3. IsWorker(n) /\ SameJob(n, w) /\ n.at = "replay" /\ n.q = w.q /\ n.ready = Tail(w.ready)
    BY <2>1 DEF IsWorker, SameJob, Fields
  <2> QED  BY <2>2, <2>3
<1> HIDE DEF n
<1>2. /\ IsWorker(f) /\ SameJob(f, w) /\ f.at = "replay"
      /\ f.q.feature = <<Head(n.bars)>> /\ f.q.market = <<>> /\ f.q.setup = <<>> /\ f.q.collect = w.q.collect
      /\ \/ f.ready = <<"feature">> /\ w.q.collect = <<>>
         \/ f.ready = <<"collect", "feature">> /\ \E c : w.q.collect = <<c>>
  <2>1. Idle(n, "feature")
    BY <1>1, IdleIn
  <2> QED  BY <1>1, <2>1, PutWakes, AppendsTo DEF Handlers, SameJob
<1> HIDE DEF f
<1>3. /\ IsWorker(m) /\ SameJob(m, w) /\ m.at = "replay"
      /\ m.q.feature = <<Head(n.bars)>> /\ m.q.market = <<Head(n.bars)>> /\ m.q.setup = <<>>
      /\ m.q.collect = w.q.collect
      /\ \/ m.ready = <<"feature", "market">> /\ w.q.collect = <<>>
         \/ m.ready = <<"collect", "feature", "market">> /\ \E c : w.q.collect = <<c>>
  <2>1. Idle(f, "market")
    BY <1>2, IdleIn
  <2>2. /\ IsWorker(m) /\ SameJob(m, f) /\ m.at = f.at /\ m.ready = Append(f.ready, "market")
        /\ m.q.market = <<Head(n.bars)>> /\ \A t \in Handlers : t # "market" => m.q[t] = f.q[t]
    BY <1>2, <2>1, PutWakes DEF Handlers
  <2>3. /\ Append(<<"feature">>, "market") = <<"feature", "market">>
        /\ Append(<<"collect", "feature">>, "market") = <<"collect", "feature", "market">>
    BY AppendsTo
  <2> QED  BY <1>2, <2>2, <2>3 DEF Handlers, SameJob
<1> HIDE DEF m
<1>4. /\ IsWorker(s) /\ SameJob(s, w) /\ s.at = "replay"
      /\ s.q.feature = <<Head(n.bars)>> /\ s.q.market = <<Head(n.bars)>> /\ s.q.setup = <<Head(n.bars)>>
      /\ s.q.collect = w.q.collect
      /\ \/ s.ready = <<"feature", "market", "setup">> /\ w.q.collect = <<>>
         \/ s.ready = <<"collect", "feature", "market", "setup">> /\ \E c : w.q.collect = <<c>>
  <2>1. Idle(m, "setup")
    BY <1>3, IdleIn
  <2>2. /\ IsWorker(s) /\ SameJob(s, m) /\ s.at = m.at /\ s.ready = Append(m.ready, "setup")
        /\ s.q.setup = <<Head(n.bars)>> /\ \A t \in Handlers : t # "setup" => s.q[t] = m.q[t]
    BY <1>3, <2>1, PutWakes DEF Handlers
  <2>3. /\ Append(<<"feature", "market">>, "setup") = <<"feature", "market", "setup">>
        /\ Append(<<"collect", "feature", "market">>, "setup") = <<"collect", "feature", "market", "setup">>
    BY AppendsTo
  <2> QED  BY <1>3, <2>2, <2>3 DEF Handlers, SameJob
<1>5. v = [[s EXCEPT !.bars = Tail(@)] EXCEPT !.ready = Append(@, "worker")]
  BY DEF publish_bar, Publish, n, f, m
<1> HIDE DEF s, v
<1>6. v = [g \in Fields |-> IF g = "bars" THEN Tail(s.bars)
                            ELSE IF g = "ready" THEN Append(s.ready, "worker") ELSE s[g]]
  BY <1>4, <1>5 DEF IsWorker, Fields
<1>7. IsWorker(v) /\ SameJob(v, w) /\ v.at = "replay" /\ v.q = s.q /\ v.ready = Append(s.ready, "worker")
  BY <1>4, <1>6 DEF IsWorker, SameJob, Fields
<1>8. InStep(v)
  <2>1. CASE s.ready = <<"feature", "market", "setup">> /\ w.q.collect = <<>>
    <3>0. v.ready = <<"feature", "market", "setup", "worker">>
      BY <1>7, <2>1, AppendsTo
    <3>1. Given(v, Head(n.bars))
      BY <3>0, <1>4, <1>7, <2>1 DEF Given, Queues
    <3> QED  BY <3>1 DEF InStep
  <2>2. CASE s.ready = <<"collect", "feature", "market", "setup">> /\ \E c : w.q.collect = <<c>>
    <3>1. PICK c : w.q.collect = <<c>>
      BY <2>2
    <3>2. v.ready = <<"collect", "feature", "market", "setup", "worker">>
      BY <1>7, <2>2, AppendsTo
    <3>3. Behind(v, c, Head(n.bars))
      BY <3>2, <1>4, <1>7, <2>2, <3>1 DEF Behind, Queues
    <3> QED  BY <3>3 DEF InStep
  <2> QED  BY <1>4, <2>1, <2>2
<1> QED  BY <1>7, <1>8 DEF v

\* Whose turn it is tells how far the handlers have got.
LEMMA TurnsInStep ==
  ASSUME NEW w, InStep(w)
  PROVE  /\ Head(w.ready) = "worker" => Quietly(w) \/ \E b : Scanned(w, b)
         /\ Head(w.ready) = "feature" => \E b : Given(w, b)
         /\ Head(w.ready) = "market" => \E b : Measured(w, b)
         /\ Head(w.ready) = "setup" => \E b : Judged(w, b) \/ Skipped(w, b)
         /\ Head(w.ready) = "collect" => \E b : Waiting(w, b) \/ \E c : Behind(w, c, b)
<1>1. Quietly(w) => Head(w.ready) = "worker"
  BY DEF Quietly
<1>2. ASSUME NEW b
      PROVE  /\ Given(w, b) => Head(w.ready) = "feature"
             /\ Measured(w, b) => Head(w.ready) = "market"
             /\ Judged(w, b) \/ Skipped(w, b) => Head(w.ready) = "setup"
             /\ Scanned(w, b) => Head(w.ready) = "worker"
             /\ Waiting(w, b) => Head(w.ready) = "collect"
  BY DEF Given, Measured, Judged, Skipped, Scanned, Waiting
<1>3. ASSUME NEW b, NEW c  PROVE Behind(w, c, b) => Head(w.ready) = "collect"
  BY DEF Behind
<1> QED  BY <1>1, <1>2, <1>3 DEF InStep

\* The record at the turn of its first task.
LEMMA TurnTaken ==
  ASSUME NEW w, IsWorker(w)
  PROVE  /\ IsWorker(Next1(w)) /\ SameJob(Next1(w), w) /\ Next1(w).ready = Tail(w.ready)
         /\ Next1(w).q = w.q /\ Next1(w).at = w.at /\ Next1(w).snap = w.snap /\ Next1(w).state = w.state
<1>1. Next1(w) = [g \in Fields |-> IF g = "ready" THEN Tail(w.ready) ELSE w[g]]
  BY DEF Next1, IsWorker, Fields
<1> QED  BY <1>1 DEF IsWorker, SameJob, Fields

\* A handler whose worker is not waiting for it leaves the phase as it is.
LEMMA NotJoined ==
  ASSUME NEW w, w.at = "replay"
  PROVE  Joined(w) = w
BY DEF Joined

\* The feature engine measures the bar.
LEMMA FeatureInStep ==
  ASSUME NEW w, IsWorker(w), NEW b, Given(w, b)
  PROVE  LET v == Joined(handle_feature(Next1(w)))
         IN  IsWorker(v) /\ SameJob(v, w) /\ v.at = "replay" /\ Measured(v, b)
<1> DEFINE h == Next1(w)
           v == handle_feature(h)
<1>1. /\ IsWorker(h) /\ SameJob(h, w) /\ h.at = "replay" /\ h.ready = <<"market", "setup", "worker">>
      /\ h.q = w.q
  <2>1. Tail(<<"feature", "market", "setup", "worker">>) = <<"market", "setup", "worker">>
    OBVIOUS
  <2> QED  BY <2>1, TurnTaken DEF Given
<1>2. h.q.feature = <<b>> /\ h.q.market = <<b>> /\ h.q.setup = <<b>> /\ h.q.collect = <<>>
  BY <1>1 DEF Given, Queues
<1> HIDE DEF h
<1>3. Last(h.q.feature) = b
  BY <1>2 DEF Last
<1>4. v = [g \in Fields |-> IF g = "snap" THEN b ELSE IF g = "q" THEN [h.q EXCEPT !.feature = <<>>] ELSE h[g]]
  BY <1>1, <1>3 DEF handle_feature, IsWorker, Fields
<1>5. h.q = [t \in Handlers |-> h.q[t]]
  BY <1>1 DEF IsWorker
<1> HIDE DEF v
<1>6. v.q = [t \in Handlers |-> IF t = "feature" THEN <<>> ELSE h.q[t]]
  BY <1>4, <1>5 DEF Fields, Handlers
<1>7. IsWorker(v) /\ SameJob(v, w) /\ v.at = "replay" /\ v.ready = h.ready /\ v.snap = b
  BY <1>1, <1>4, <1>6 DEF IsWorker, SameJob, Fields
<1>8. Measured(v, b)
  BY <1>1, <1>2, <1>6, <1>7 DEF Measured, Queues, Handlers
<1> QED  BY <1>7, <1>8, NotJoined DEF v, h

\* The market state engine judges it, or there is nothing to judge.
LEMMA MarketInStep ==
  ASSUME NEW w, IsWorker(w), NEW b, Measured(w, b)
  PROVE  LET v == Joined(handle_market(Next1(w)))
         IN  IsWorker(v) /\ SameJob(v, w) /\ v.at = "replay" /\ (Judged(v, b) \/ Skipped(v, b))
<1> DEFINE h == Next1(w)
           v == handle_market(h)
<1>1. /\ IsWorker(h) /\ SameJob(h, w) /\ h.at = "replay" /\ h.ready = <<"setup", "worker">>
      /\ h.q = w.q /\ h.snap = b
  <2>1. Tail(<<"market", "setup", "worker">>) = <<"setup", "worker">>
    OBVIOUS
  <2> QED  BY <2>1, TurnTaken DEF Measured
<1>2. h.q.feature = <<>> /\ h.q.market = <<b>> /\ h.q.setup = <<b>> /\ h.q.collect = <<>>
  BY <1>1 DEF Measured, Queues
<1>3. h.q = [t \in Handlers |-> h.q[t]]
  BY <1>1 DEF IsWorker
<1> HIDE DEF h
<1>4. CASE b = NoBar
  <2>1. v = [g \in Fields |-> IF g = "q" THEN [h.q EXCEPT !.market = <<>>] ELSE h[g]]
    BY <1>1, <1>4 DEF handle_market, IsWorker, Fields
  <2> HIDE DEF v
  <2>2. v.q = [t \in Handlers |-> IF t = "market" THEN <<>> ELSE h.q[t]]
    BY <2>1, <1>3 DEF Fields, Handlers
  <2>3. IsWorker(v) /\ SameJob(v, w) /\ v.at = "replay" /\ v.ready = h.ready /\ v.snap = NoBar
    BY <1>1, <1>4, <2>1, <2>2 DEF IsWorker, SameJob, Fields
  <2>4. Skipped(v, b)
    BY <1>1, <1>2, <2>2, <2>3 DEF Skipped, Queues, Handlers
  <2> QED  BY <2>3, <2>4, NotJoined DEF v, h
<1>5. CASE b # NoBar
  <2>1. Idle(h, "collect")
    BY <1>1, IdleIn
  <2>2. Append(h.ready, "collect") = <<"setup", "worker", "collect">>
    BY <1>1, AppendsTo
  <2>3. h.q.collect \o [k \in DOMAIN h.q.market |-> h.snap] = <<b>>
    <3>1. [k \in DOMAIN <<b>> |-> b] = <<b>>
      OBVIOUS
    <3>2. <<>> \o <<b>> = <<b>>
      OBVIOUS
    <3> QED  BY <3>1, <3>2, <1>1, <1>2
  <2> DEFINE x == [h EXCEPT !.q.market = <<>>]
  <2>4. x = [g \in Fields |-> IF g = "q" THEN [h.q EXCEPT !.market = <<>>] ELSE h[g]]
    BY <1>1 DEF IsWorker, Fields
  <2>5. v = [x EXCEPT !.state = h.snap,
                      !.q.collect = @ \o [k \in DOMAIN h.q.market |-> h.snap],
                      !.ready = IF Idle(h, "collect") THEN Append(@, "collect") ELSE @]
    BY <1>1, <1>5 DEF handle_market
  <2> HIDE DEF x, v
  <2>6. x.q = [t \in Handlers |-> IF t = "market" THEN <<>> ELSE h.q[t]] /\ x.ready = h.ready
    BY <2>4, <1>3 DEF Fields, Handlers
  <2>7. v = [g \in Fields |-> IF g = "state" THEN b ELSE IF g = "ready" THEN <<"setup", "worker", "collect">>
                              ELSE IF g = "q" THEN [x.q EXCEPT !.collect = <<b>>] ELSE x[g]]
    <3>1. x.q.collect = h.q.collect
      BY <2>6 DEF Handlers
    <3>2. x.q.collect \o [k \in DOMAIN h.q.market |-> h.snap] = <<b>>
          /\ (IF Idle(h, "collect") THEN Append(x.ready, "collect") ELSE x.ready)
                = <<"setup", "worker", "collect">>
      BY <3>1, <2>1, <2>2, <2>3, <2>6
    <3> DEFINE c == x.q.collect \o [k \in DOMAIN h.q.market |-> h.snap]
               r == IF Idle(h, "collect") THEN Append(x.ready, "collect") ELSE x.ready
    <3>3. DOMAIN x = Fields
      BY <2>4
    <3>4. v = [x EXCEPT !.state = h.snap, !.q.collect = c, !.ready = r]
      BY <2>5, <3>3 DEF Fields
    <3>5. c = <<b>> /\ r = <<"setup", "worker", "collect">>
      BY <3>2
    <3> HIDE DEF c, r
    <3>6. v = [x EXCEPT !.state = b, !.q.collect = <<b>>, !.ready = <<"setup", "worker", "collect">>]
      BY <3>4, <3>5, <1>1
    <3>7. x = [g \in Fields |-> x[g]]
      BY <2>4
    <3> QED  BY <3>6, <3>7 DEF Fields
  <2>8. v.q = [t \in Handlers |-> IF t = "collect" THEN <<b>> ELSE x.q[t]]
    BY <2>6, <2>7 DEF Fields, Handlers
  <2>9. /\ IsWorker(v) /\ SameJob(v, w) /\ v.at = "replay" /\ v.snap = b /\ v.state = b
        /\ v.ready = <<"setup", "worker", "collect">>
    BY <1>1, <2>4, <2>7, <2>8 DEF IsWorker, SameJob, Fields
  <2>10. Judged(v, b)
    BY <1>2, <2>6, <2>8, <2>9 DEF Judged, Queues, Handlers
  <2> QED  BY <2>9, <2>10, NotJoined DEF v, h
<1> QED  BY <1>4, <1>5

\* One bar is one call of the scan.
LEMMA FoldOfOne ==
  ASSUME NEW w, NEW b
  PROVE  FoldLeft(detect, w, <<b>>) = detect(w, b)
<1> DEFINE B(g, s) == IF s = {} THEN w
                      ELSE LET x == Max(s)
                           IN  detect(g[s \ {x}], <<b>>[x])
           Def(g) == [s \in SUBSET DOMAIN <<b>> |-> B(g, s)]
           g == CHOOSE g : g = Def(g)
<1>1. FoldLeft(detect, w, <<b>>) = g[DOMAIN <<b>>]
  BY DEF FoldLeft, MapThenFoldSet
<1>2. DOMAIN <<b>> = {1} /\ <<b>>[1] = b
  OBVIOUS
<1>3. Max({1}) = 1
  BY DEF Max
<1> DEFINE h == [s \in SUBSET {1} |-> IF s = {} THEN w ELSE detect(w, b)]
<1>4. h = Def(h)
  <2>1. ASSUME NEW s \in SUBSET {1}  PROVE h[s] = B(h, s)
    <3>1. CASE s = {}
      BY <3>1
    <3>2. CASE s # {}
      <4>1. s = {1} /\ s \ {1} = {} /\ h[{}] = w /\ h[s] = detect(w, b)
        BY <3>2
      <4> HIDE DEF h
      <4> QED  BY <4>1, <1>2, <1>3
    <3> QED  BY <3>1, <3>2
  <2>2. h = [s \in SUBSET {1} |-> h[s]]
    OBVIOUS
  <2> HIDE DEF h, B
  <2> QED  BY <2>1, <2>2, <1>2
<1>5. g = Def(g)
  <2> HIDE DEF Def, h
  <2> QED  BY <1>4
<1>6. g[{}] = w /\ g[{1}] = detect(w, b)
  <2> HIDE DEF g, h
  <2>1. \A s \in SUBSET {1} : g[s] = B(g, s)
    BY <1>5, <1>2, Zenon
  <2>2. g[{}] = w
    BY <2>1
  <2>3. {1} \ {1} = {} /\ {1} # {} /\ {1} \in SUBSET {1}
    OBVIOUS
  <2>4. g[{1}] = detect(g[{1} \ {1}], <<b>>[1])
    BY <2>1, <2>3, <1>3
  <2> QED  BY <2>2, <2>3, <2>4, <1>2
<1> HIDE DEF g
<1> QED  BY <1>1, <1>2, <1>6

\* A bar is scanned: the session rolls, and the setup that is recorded has the
\* snapshot and the state of now.
LEMMA ScanKeeps ==
  ASSUME NEW w, IsWorker(w), NEW b, Met(w.ctx), Met(w.prev),
         w.snap = NoBar \/ (w.snap = b /\ w.state = b)
  PROVE  LET v == detect(w, b)
         IN  /\ IsWorker(v) /\ v.date = w.date /\ v.at = w.at /\ v.q = w.q /\ v.ready = w.ready
             /\ Met(v.ctx) /\ Met(v.prev)
<1> DEFINE x == roll(w, b)
           fresh == [session |-> Session(b), seen |-> <<>>]
           entry == [bar |-> b, snap |-> w.snap, state |-> w.state]
           v == detect(w, b)
<1>1. Met(fresh)
  BY SeqShort DEF Met
<1>2. /\ x = [g \in Fields |-> x[g]] /\ \A g \in Fields \ {"ctx", "prev"} : x[g] = w[g]
      /\ Met(x.ctx) /\ Met(x.prev)
  <2>1. CASE w.ctx.session = Session(b)
    <3>1. x = w
      BY <2>1 DEF roll
    <3> QED  BY <3>1 DEF IsWorker
  <2>2. CASE w.ctx.session # Session(b)
    <3> DEFINE p == IF w.ctx = NoContext THEN w.prev ELSE w.ctx
    <3>1. x = [g \in Fields |-> IF g = "prev" THEN p ELSE IF g = "ctx" THEN fresh ELSE w[g]]
      BY <2>2 DEF roll, IsWorker, Fields
    <3>2. Met(p)
      OBVIOUS
    <3> HIDE DEF x, fresh, p
    <3> QED  BY <1>1, <3>1, <3>2 DEF Fields
  <2> QED  BY <2>1, <2>2
<1> HIDE DEF x
<1>3. CASE w.snap = NoBar \/ w.state = NoBar
  <2>1. v = x
    BY <1>3 DEF detect, x
  <2> QED  BY <1>2, <2>1 DEF IsWorker, Fields
<1>4. CASE w.snap # NoBar /\ w.state # NoBar
  <2> DEFINE c == [x.ctx EXCEPT !.seen = Append(@, entry)]
  <2>1. v = [x EXCEPT !.ctx = c]
    BY <1>2, <1>4 DEF detect, x, Fields
  <2>2. entry.snap = entry.bar /\ entry.state = entry.bar
    BY <1>4
  <2>3. Met(c)
    <3>1. CASE x.ctx = NoContext
      <4>1. c = NoContext
        BY <3>1 DEF NoContext
      <4> QED  BY <4>1 DEF Met
    <3>2. CASE x.ctx # NoContext
      <4>1. x.ctx = [g \in {"session", "seen"} |-> x.ctx[g]] /\ IsSeq(x.ctx.seen)
            /\ \A k \in DOMAIN x.ctx.seen : x.ctx.seen[k].snap = x.ctx.seen[k].bar
                                           /\ x.ctx.seen[k].state = x.ctx.seen[k].bar
        BY <1>2, <3>2 DEF Met
      <4>2. c = [g \in {"session", "seen"} |-> IF g = "seen" THEN Append(x.ctx.seen, entry) ELSE x.ctx[g]]
        BY <4>1
      <4> DEFINE s == x.ctx.seen
                 a == Append(s, entry)
      <4> HIDE DEF entry
      <4>3. IsSeq(s) /\ Len(s) \in Nat /\ DOMAIN s = 1 .. Len(s)
        BY <4>1, SeqShape
      <4>4. /\ IsSeq(a) /\ DOMAIN a = 1 .. Len(s) + 1
            /\ \A k \in 1 .. Len(s) + 1 : a[k] = IF k = Len(s) + 1 THEN entry ELSE s[k]
        BY <4>3, SeqAppend
      <4>5. \A k \in DOMAIN a : a[k].snap = a[k].bar /\ a[k].state = a[k].bar
        <5>1. ASSUME NEW k \in 1 .. Len(s) + 1, k # Len(s) + 1  PROVE k \in DOMAIN s
          BY <4>3, <5>1
        <5> QED  BY <5>1, <4>1, <4>4, <2>2
      <4> HIDE DEF a, c
      <4>6. c.seen = a /\ c = [g \in {"session", "seen"} |-> c[g]]
        BY <4>2 DEF a
      <4> QED  BY <4>4, <4>5, <4>6 DEF Met
    <3> QED  BY <3>1, <3>2
  <2> HIDE DEF c, v
  <2>4. v = [g \in Fields |-> IF g = "ctx" THEN c ELSE x[g]]
    BY <2>1, <1>2 DEF Fields
  <2>5. v.date = w.date /\ v.at = w.at /\ v.q = w.q /\ v.ready = w.ready /\ v.todo = w.todo
        /\ v.ctx = c /\ v.prev = x.prev
    BY <2>4, <1>2 DEF Fields
  <2>6. IsWorker(v)
    BY <2>4, <2>5 DEF IsWorker
  <2> QED  BY <1>2, <2>3, <2>5, <2>6 DEF v
<1> QED  BY <1>3, <1>4

\* The setup engine scans the bar last.
LEMMA SetupInStep ==
  ASSUME NEW w, IsWorker(w), NEW b, Judged(w, b) \/ Skipped(w, b), Met(w.ctx), Met(w.prev)
  PROVE  LET v == Joined(handle_setup(Next1(w)))
         IN  /\ IsWorker(v) /\ v.date = w.date /\ v.at = "replay" /\ Met(v.ctx) /\ Met(v.prev)
             /\ Quietly(v) \/ Scanned(v, b)
<1> DEFINE h == Next1(w)
           x == detect(h, b)
           v == handle_setup(h)
<1>1. /\ IsWorker(h) /\ SameJob(h, w) /\ h.at = "replay" /\ h.q = w.q
      /\ h.q.feature = <<>> /\ h.q.market = <<>> /\ h.q.setup = <<b>>
      /\ \/ h.ready = <<"worker", "collect">> /\ h.q.collect = <<b>>
         \/ h.ready = <<"worker">> /\ h.q.collect = <<>>
      /\ h.snap = NoBar \/ (h.snap = b /\ h.state = b)
  <2>1. /\ Tail(<<"setup", "worker", "collect">>) = <<"worker", "collect">>
        /\ Tail(<<"setup", "worker">>) = <<"worker">>
    OBVIOUS
  <2>2. /\ IsWorker(h) /\ SameJob(h, w) /\ h.at = w.at /\ h.q = w.q /\ h.ready = Tail(w.ready)
        /\ h.snap = w.snap /\ h.state = w.state
    BY TurnTaken
  <2> HIDE DEF h
  <2> QED  BY <2>1, <2>2 DEF Judged, Skipped, Queues
<1> HIDE DEF h
<1>2. /\ IsWorker(x) /\ x.date = h.date /\ x.at = h.at /\ x.q = h.q /\ x.ready = h.ready
      /\ Met(x.ctx) /\ Met(x.prev)
  BY <1>1, ScanKeeps DEF SameJob
<1>3. v = [x EXCEPT !.q.setup = <<>>]
  BY <1>1, FoldOfOne DEF handle_setup
<1> HIDE DEF x, v
<1>4. v = [g \in Fields |-> IF g = "q" THEN [x.q EXCEPT !.setup = <<>>] ELSE x[g]]
  BY <1>2, <1>3 DEF IsWorker, Fields
<1>5. x.q = [t \in Handlers |-> x.q[t]]
  BY <1>2 DEF IsWorker
<1>6. v.q = [t \in Handlers |-> IF t = "setup" THEN <<>> ELSE x.q[t]]
  BY <1>4, <1>5 DEF Fields, Handlers
<1>7. /\ IsWorker(v) /\ v.date = w.date /\ v.at = "replay" /\ v.ready = h.ready
      /\ Met(v.ctx) /\ Met(v.prev)
  BY <1>1, <1>2, <1>4, <1>6 DEF IsWorker, SameJob, Fields
<1>8. Quietly(v) \/ Scanned(v, b)
  BY <1>1, <1>2, <1>6, <1>7 DEF Quietly, Scanned, Queues, Handlers
<1> QED  BY <1>7, <1>8, NotJoined DEF v, h

\* The market state is collected, beside the next bar or before the queues are joined.
LEMMA CollectInStep ==
  ASSUME NEW w, IsWorker(w), NEW b, Waiting(w, b) \/ \E c : Behind(w, c, b)
  PROVE  LET v == Joined(collect_market_state(Next1(w)))
         IN  IsWorker(v) /\ SameJob(v, w) /\ v.at = "replay" /\ InStep(v)
<1> DEFINE h == Next1(w)
           x == collect_market_state(h)
           v == Joined(x)
<1>1. /\ IsWorker(h) /\ SameJob(h, w) /\ h.at = w.at /\ h.q = w.q /\ h.ready = Tail(w.ready)
  BY TurnTaken
<1> HIDE DEF h
<1>2. x = [g \in Fields |-> IF g = "states" THEN h.states \cup Range(h.q.collect)
                            ELSE IF g = "q" THEN [h.q EXCEPT !.collect = <<>>] ELSE h[g]]
  BY <1>1 DEF collect_market_state, IsWorker, Fields
<1>3. h.q = [t \in Handlers |-> h.q[t]]
  BY <1>1 DEF IsWorker
<1> HIDE DEF x
<1>4. x.q = [t \in Handlers |-> IF t = "collect" THEN <<>> ELSE h.q[t]]
  BY <1>2, <1>3 DEF Fields, Handlers
<1>5. IsWorker(x) /\ SameJob(x, w) /\ x.at = w.at /\ x.ready = Tail(w.ready)
  BY <1>1, <1>2, <1>4 DEF IsWorker, SameJob, Fields
<1>6. CASE \E c : Behind(w, c, b)
  <2>1. Tail(<<"collect", "feature", "market", "setup", "worker">>) = <<"feature", "market", "setup", "worker">>
    OBVIOUS
  <2>2. x.at = "replay" /\ Given(x, b)
    BY <1>1, <1>4, <1>5, <1>6, <2>1 DEF Behind, Given, Queues, Handlers
  <2> QED  BY <1>5, <2>2, NotJoined DEF InStep, x, h
<1>7. CASE Waiting(w, b)
  <2>1. Tail(<<"collect">>) = <<>> /\ Append(<<>>, "worker") = <<"worker">>
    OBVIOUS
  <2>2. x.at = "join" /\ x.ready = <<>> /\ Queues(x, <<>>, <<>>, <<>>, <<>>)
    BY <1>1, <1>4, <1>5, <1>7, <2>1 DEF Waiting, Queues, Handlers
  <2>3. Drained(x)
    BY <2>2 DEF Drained, Queues, Range, Tasks
  <2>4. v = [x EXCEPT !.at = "replay", !.ready = Append(@, "worker")]
    BY <2>2, <2>3 DEF Joined
  <2>5. v = [g \in Fields |-> IF g = "at" THEN "replay" ELSE IF g = "ready" THEN <<"worker">> ELSE x[g]]
    BY <1>5, <2>1, <2>2, <2>4 DEF IsWorker, Fields
  <2> HIDE DEF v
  <2>6. IsWorker(v) /\ SameJob(v, w) /\ v.at = "replay" /\ v.ready = <<"worker">> /\ v.q = x.q
    BY <1>5, <2>5 DEF IsWorker, SameJob, Fields
  <2>7. Quietly(v)
    BY <2>2, <2>6 DEF Quietly, Queues
  <2> QED  BY <2>6, <2>7 DEF InStep, v, x, h
<1> QED  BY <1>6, <1>7

\* The publisher waits for the queues to drain, or loads the bars of the next date.
LEMMA LoadInStep ==
  ASSUME NEW w, IsWorker(w), Quietly(w) \/ \E b : Scanned(w, b)
  PROVE  /\ IsWorker(flush_and_load(w)) /\ SameJob(flush_and_load(w), w)
         /\ flush_and_load(w).at \in {"replay", "join"} /\ InStep(flush_and_load(w))
<1> DEFINE v == flush_and_load(w)
<1>1. CASE \E b : Scanned(w, b)
  <2>1. PICK b : Scanned(w, b)
    BY <1>1
  <2>2. ~Drained(w)
    <3>1. w.q.collect # <<>> /\ "collect" \in Range(Tasks)
      BY <2>1 DEF Scanned, Queues, Range, Tasks
    <3> QED  BY <3>1 DEF Drained
  <2> DEFINE h == Next1(w)
  <2>3. v = [h EXCEPT !.at = "join"]
    BY <2>2 DEF flush_and_load
  <2>4. Tail(<<"worker", "collect">>) = <<"collect">>
    OBVIOUS
  <2>5. IsWorker(h) /\ SameJob(h, w) /\ h.ready = <<"collect">> /\ h.q = w.q
    BY <2>1, <2>4, TurnTaken DEF Scanned
  <2> HIDE DEF h
  <2>6. v = [g \in Fields |-> IF g = "at" THEN "join" ELSE h[g]]
    BY <2>3, <2>5 DEF IsWorker, Fields
  <2> HIDE DEF v
  <2>7. IsWorker(v) /\ SameJob(v, w) /\ v.at = "join" /\ v.ready = <<"collect">> /\ v.q = w.q
    BY <2>5, <2>6 DEF IsWorker, SameJob, Fields
  <2>8. Waiting(v, b)
    BY <2>1, <2>7 DEF Scanned, Waiting, Queues
  <2> QED  BY <2>7, <2>8 DEF InStep, v
<1>2. CASE Quietly(w)
  <2>1. Drained(w)
    BY <1>2 DEF Quietly, Queues, Drained, Range, Tasks
  <2>2. v = [w EXCEPT !.plan = @ \ {Min(@)}, !.bars = by_time(disk[Min(w.plan)])]
    BY <2>1 DEF flush_and_load
  <2> DEFINE rows == by_time(disk[Min(w.plan)])
             rest == w.plan \ {Min(w.plan)}
  <2>3. v = [g \in Fields |-> IF g = "plan" THEN rest ELSE IF g = "bars" THEN rows ELSE w[g]]
    BY <2>2 DEF IsWorker, Fields
  <2> HIDE DEF v, rows, rest
  <2>4. IsWorker(v) /\ SameJob(v, w) /\ v.at = w.at /\ v.ready = w.ready /\ v.q = w.q
    BY <2>3 DEF IsWorker, SameJob, Fields
  <2>5. Quietly(v) /\ v.at = "replay"
    BY <1>2, <2>4 DEF Quietly, Queues
  <2> QED  BY <2>4, <2>5 DEF InStep, v
<1> QED  BY <1>1, <1>2

\* A worker's turn in its replay.
LEMMA ReplayInStep ==
  ASSUME NEW w, IsWorker(w), InStep(w), Met(w.ctx), Met(w.prev), NEW v,
         LET t == Head(w.ready)
             h == Next1(w)
         IN  \/ t = "worker" /\ w.bars # <<>> /\ v = publish_bar(w)
             \/ t = "worker" /\ w.bars = <<>> /\ (~Drained(w) \/ w.plan # {}) /\ v = flush_and_load(w)
             \/ t = "feature" /\ v = Joined(handle_feature(h))
             \/ t = "market"  /\ v = Joined(handle_market(h))
             \/ t = "setup"   /\ v = Joined(handle_setup(h))
             \/ t = "collect" /\ v = Joined(collect_market_state(h))
  PROVE  IsWorker(v) /\ v.date = w.date /\ v.at \in {"replay", "join"} /\ InPlace(v)
<1> DEFINE h == Next1(w)
<1> HIDE DEF h
<1>1. CASE Head(w.ready) = "worker" /\ v = publish_bar(w)
  <2>1. Quietly(w) \/ \E b : Scanned(w, b)
    BY <1>1, TurnsInStep
  <2>2. /\ w.at = "replay" /\ w.q.feature = <<>> /\ w.q.market = <<>> /\ w.q.setup = <<>>
        /\ \/ w.ready = <<"worker">> /\ w.q.collect = <<>>
           \/ w.ready = <<"worker", "collect">> /\ \E c : w.q.collect = <<c>>
    BY <2>1 DEF Quietly, Scanned, Queues
  <2> QED  BY <2>2, <1>1, PublishHandsOut DEF SameJob, InPlace
<1>2. CASE Head(w.ready) = "worker" /\ v = flush_and_load(w)
  <2>1. Quietly(w) \/ \E b : Scanned(w, b)
    BY <1>2, TurnsInStep
  <2> QED  BY <2>1, <1>2, LoadInStep DEF SameJob, InPlace
<1>3. CASE Head(w.ready) = "feature" /\ v = Joined(handle_feature(h))
  <2>1. PICK b : Given(w, b)
    BY <1>3, TurnsInStep
  <2>2. IsWorker(v) /\ SameJob(v, w) /\ v.at = "replay" /\ Measured(v, b)
    BY <2>1, <1>3, FeatureInStep DEF h
  <2> QED  BY <2>2 DEF SameJob, InPlace, InStep
<1>4. CASE Head(w.ready) = "market" /\ v = Joined(handle_market(h))
  <2>1. PICK b : Measured(w, b)
    BY <1>4, TurnsInStep
  <2>2. IsWorker(v) /\ SameJob(v, w) /\ v.at = "replay" /\ (Judged(v, b) \/ Skipped(v, b))
    BY <2>1, <1>4, MarketInStep DEF h
  <2> QED  BY <2>2 DEF SameJob, InPlace, InStep
<1>5. CASE Head(w.ready) = "setup" /\ v = Joined(handle_setup(h))
  <2>1. PICK b : Judged(w, b) \/ Skipped(w, b)
    BY <1>5, TurnsInStep
  <2>2. /\ IsWorker(v) /\ v.date = w.date /\ v.at = "replay" /\ Met(v.ctx) /\ Met(v.prev)
        /\ Quietly(v) \/ Scanned(v, b)
    BY <2>1, <1>5, SetupInStep DEF h
  <2> QED  BY <2>2 DEF InPlace, InStep
<1>6. CASE Head(w.ready) = "collect" /\ v = Joined(collect_market_state(h))
  <2>1. PICK b : Waiting(w, b) \/ \E c : Behind(w, c, b)
    BY <1>6, TurnsInStep
  <2>2. IsWorker(v) /\ SameJob(v, w) /\ v.at = "replay" /\ InStep(v)
    BY <2>1, <1>6, CollectInStep DEF h
  <2> QED  BY <2>2 DEF SameJob, InPlace
<1> QED  BY <1>1, <1>2, <1>3, <1>4, <1>5, <1>6 DEF h

\* A step of worker i that leaves the record v.
Moves(i, v) ==
  /\ IsWorker(v) /\ v.date = workers[i].date /\ InPlace(v)
  /\ workers' = [workers EXCEPT ![i] = v] /\ jobs' = [d \in Dates |-> jobs'[d]]
  /\ \A d \in Dates : d # v.date => jobs'[d] = jobs[d]
  /\ (jobs'[v.date] \in Running) = (v.at # "ended")

LEMMA MovesInStep ==
  ASSUME WorkersInv, StepInv, NEW i \in AtWork, NEW v, Moves(i, v),
         saved' = [d \in Dates |-> saved'[d]], SetupsMeetTheirBar'
  PROVE  WorkersInv' /\ StepInv'
<1>1. /\ WorkersInv' /\ DOMAIN workers' = DOMAIN workers
      /\ \A j \in DOMAIN workers : workers'[j] = IF j = i THEN v ELSE workers[j]
  BY WorkerMoves DEF Moves
<1>2. \A j \in DOMAIN workers' : InPlace(workers'[j])
  BY <1>1 DEF StepInv, Moves
<1> QED  BY <1>1, <1>2 DEF StepInv

\* The exception, and the worker's return.
LEMMA FailMoves ==
  ASSUME WorkersInv, NEW i \in AtWork, fail(i)
  PROVE  Moves(i, Leave(workers[i])) /\ Leave(workers[i]).at = "ended"
<1>1. i \in DOMAIN workers /\ IsWorker(workers[i]) /\ workers[i].date \in Dates
  BY DateReplayAssumption DEF WorkersInv, AtWork, IsWorker
<1> DEFINE v == Leave(workers[i])
<1>2. /\ IsWorker(v) /\ v.date = workers[i].date /\ v.at = "ended"
      /\ v.ctx = NoContext /\ v.prev = NoContext
  BY <1>1, WorkerLeaves DEF IsWorker
<1>3. workers' = [workers EXCEPT ![i] = v]
  BY DEF fail
<1> HIDE DEF v
<1>4. InPlace(v)
  BY <1>2 DEF InPlace, Met
<1>5. jobs' = [jobs EXCEPT ![workers[i].date] = "error"] /\ jobs = [d \in Dates |-> jobs[d]]
  BY DEF fail, WorkersInv
<1> QED  BY <1>1, <1>2, <1>3, <1>4, <1>5 DEF Moves, Running, v

\* The prior dates are looked at: one more download, or the replay.
LEMMA EnsureMoves ==
  ASSUME WorkersInv, StepInv, NEW i \in AtWork, NEW d, ensure_prior_bars(i, d),
         workers[i].at \in {"queued", "connect", "download"}
  PROVE  \E v : /\ Moves(i, v)
                /\ v.at = "replay" \/ (v.at = "connect" /\ LET m == {p \in workers[i].todo : d[p] = <<>>}
                                                           IN  m \ Imports # {} /\ v.want = Max(m \ Imports))
<1> DEFINE w == workers[i]
           missing == {p \in w.todo : d[p] = <<>>}
           remote == missing \ Imports
<1>1. i \in DOMAIN workers /\ IsWorker(w) /\ w.date \in Dates /\ InPlace(w)
  BY DateReplayAssumption DEF WorkersInv, AtWork, IsWorker, StepInv
<1>2. /\ jobs = [e \in Dates |-> jobs[e]] /\ jobs[w.date] \in Running
  BY <1>1 DEF WorkersInv, OneWorkerPerDate
<1>3. Queues(w, <<>>, <<>>, <<>>, <<>>) /\ Met(w.ctx) /\ Met(w.prev)
  BY <1>1 DEF InPlace
<1>4. CASE remote = {}
  <2> DEFINE v == StartReplay(w)
  <2>1. workers' = [workers EXCEPT ![i] = v] /\ jobs' = [jobs EXCEPT ![w.date] = "detecting_setups"]
    BY <1>4 DEF ensure_prior_bars
  <2>2. /\ IsWorker(v) /\ v.date = w.date /\ v.at = "replay" /\ v.ready = <<"worker">>
        /\ v.q = w.q /\ v.ctx = w.ctx /\ v.prev = w.prev
    BY <1>1, ReplayStarts
  <2> HIDE DEF v, w, missing
  <2>3. Quietly(v)
    BY <1>3, <2>2 DEF Quietly, Queues
  <2>4. InPlace(v)
    BY <1>3, <2>2, <2>3 DEF InPlace, InStep
  <2>5. Moves(i, v)
    BY <1>1, <1>2, <2>1, <2>2, <2>4 DEF Moves, Running, w
  <2> QED  BY <2>2, <2>5
<1>5. CASE remote # {}
  <2> DEFINE rest == {p \in missing : p < Max(remote)}
             v == [w EXCEPT !.at = "connect", !.want = Max(remote), !.todo = rest]
  <2>1. workers' = [workers EXCEPT ![i] = v] /\ jobs' = jobs
    BY <1>5 DEF ensure_prior_bars
  <2>2. rest \in SUBSET w.todo
    OBVIOUS
  <2> HIDE DEF rest
  <2>3. v = [g \in Fields |-> IF g = "at" THEN "connect" ELSE IF g = "want" THEN Max(remote)
                              ELSE IF g = "todo" THEN rest ELSE w[g]]
    <3> HIDE DEF w, remote
    <3> QED  BY <1>1 DEF IsWorker, Fields
  <2> HIDE DEF v, w, remote
  <2>4. /\ v.date = w.date /\ v.at = "connect" /\ v.want = Max(remote) /\ v.todo = rest
        /\ v.q = w.q /\ v.ctx = w.ctx /\ v.prev = w.prev
    BY <2>3 DEF Fields
  <2>5. IsWorker(v)
    BY <1>1, <2>2, <2>3, <2>4 DEF IsWorker
  <2>6. InPlace(v)
    BY <1>3, <2>4 DEF InPlace, Queues
  <2>7. Moves(i, v)
    BY <1>1, <1>2, <2>1, <2>4, <2>5, <2>6 DEF Moves, w
  <2> QED  BY <1>5, <2>4, <2>7 DEF remote, w
<1> QED  BY <1>4, <1>5

-----------------------------------------------------------------------------
(* The partitions *)

\* A non-empty set of numbers up to n has a greatest one.
LEMMA GreatestUpto ==
  ASSUME NEW n \in Nat, NEW S \in SUBSET (0 .. n), S # {}
  PROVE  Max(S) \in S /\ \A y \in S : y <= Max(S)
<1> DEFINE T == {k \in Nat : k <= n /\ n - k \in S}
<1>1. T \in SUBSET Nat /\ T # {}
  <2>1. PICK x \in S : TRUE
    OBVIOUS
  <2>2. n - x \in Nat /\ n - x <= n /\ n - (n - x) = x
    OBVIOUS
  <2> QED  BY <2>2
<1>2. Min(T) \in T /\ \A y \in T : Min(T) <= y
  <2> HIDE DEF T
  <2> QED  BY <1>1, LeastNat
<1> DEFINE m == n - Min(T)
<1>3. m \in S
  BY <1>2
<1>4. \A y \in S : m >= y
  <2> SUFFICES ASSUME NEW y \in S  PROVE m >= y
    OBVIOUS
  <2>1. n - y \in T /\ y \in Nat
    <3>1. n - y \in Nat /\ n - y <= n /\ n - (n - y) = y /\ y \in Nat
      OBVIOUS
    <3> QED  BY <3>1
  <2> HIDE DEF T
  <2>2. Min(T) <= n - y
    BY <1>2, <2>1
  <2>3. Min(T) \in Nat
    BY <1>1, <1>2
  <2> QED  BY <2>1, <2>2, <2>3
<1> HIDE DEF m, T
<1>5. \E x \in S : \A y \in S : x >= y
  BY <1>3, <1>4
<1>6. Max(S) \in S /\ \A y \in S : Max(S) >= y
  BY <1>5 DEF Max
<1> QED  BY <1>6

\* The bars of a date are different, also when they are the first to be appended.
LEMMA BarsApart ==
  ASSUME NEW d \in Dates
  PROVE  IsInjective(Bars(d)) /\ <<>> \o Bars(d) = Bars(d)
<1>1. Len(Tape[d]) \in Nat
  BY DateReplayAssumption
<1>2. IsInjective(Bars(d))
  BY DEF IsInjective, Bars
<1>3. \A i \in 1 .. Len(Tape[d]) : Bars(d)[i] = <<d, i>>
  BY DEF Bars
<1>4. Bars(d) = [i \in 1 .. Len(Tape[d]) |-> Bars(d)[i]]
  BY DEF Bars
<1>5. IsSeq(Bars(d))
  BY <1>1, <1>4, SeqMade
<1> HIDE DEF Bars
<1>6. <<>> \o Bars(d) = Bars(d)
  BY <1>5 DEF IsSeq
<1> QED  BY <1>2, <1>6

LEMMA NothingApart == IsInjective(<<>>)
BY DEF IsInjective

\* What the prior dates leave on disk.
LEMMA EnsureWrites ==
  ASSUME NEW i, IsWorker(workers[i]), NEW d, ensure_prior_bars(i, d),
         NEW m, m = {p \in workers[i].todo : d[p] = <<>>} \ Imports
  PROVE  /\ disk' = [p \in Dates |-> disk'[p]]
         /\ (\A p \in Dates : IsInjective(d[p])) => \A p \in Dates : IsInjective(disk'[p])
         /\ m # {} /\ Max(m) \in Dates => disk'[Max(m)] = <<>>
<1> DEFINE w == workers[i]
           missing == {p \in w.todo : d[p] = <<>>}
           files == IF m = {} THEN missing ELSE {p \in missing : p > Max(m)}
<1>1. disk' = [p \in Dates |-> IF p \in files THEN Bars(p) ELSE d[p]]
  BY DEF ensure_prior_bars
<1>2. (\A p \in Dates : IsInjective(d[p])) => \A p \in Dates : IsInjective(disk'[p])
  <2> HIDE DEF files
  <2> QED  BY <1>1, BarsApart
<1>3. ASSUME m # {}, Max(m) \in Dates  PROVE disk'[Max(m)] = <<>>
  <2>1. w.date \in Nat /\ m \in SUBSET (0 .. w.date)
    BY DateReplayAssumption DEF IsWorker
  <2>2. Max(m) \in m
    <3> QED  BY <1>3, <2>1, GreatestUpto
  <2>3. Max(m) \in Nat
    BY <2>1, <2>2
  <2>4. Max(m) \notin files /\ d[Max(m)] = <<>>
    <3>1. d[Max(m)] = <<>>
      BY <2>2
    <3>2. ~(Max(m) > Max(m))
      BY <2>3
    <3> QED  BY <1>3, <3>1, <3>2
  <2> HIDE DEF files
  <2> QED  BY <1>1, <1>3, <2>4
<1>4. disk' = [p \in Dates |-> disk'[p]]
  <2> HIDE DEF files
  <2> QED  BY <1>1
<1> QED  BY <1>2, <1>3, <1>4

\* A step of worker i: the disk stays whole while it is alone.
LEMMA MovesOnDisk ==
  ASSUME WorkersInv, DiskInv, NEW i \in AtWork, NEW v, Moves(i, v), v.at # "queued",
         overlap' = overlap, disk' = [d \in Dates |-> disk'[d]],
         ~overlap => /\ \A d \in Dates : IsInjective(disk'[d])
                     /\ v.at \in {"connect", "download"} /\ v.want \in Dates => disk'[v.want] = <<>>
  PROVE  DiskInv'
<1>1. /\ DOMAIN workers' = DOMAIN workers
      /\ \A j \in DOMAIN workers : workers'[j] = IF j = i THEN v ELSE workers[j]
  BY WorkerMoves DEF Moves
<1>2. AtWork' \in SUBSET AtWork
  BY <1>1 DEF AtWork
<1>3. ASSUME ~overlap  PROVE \A j \in AtWork' : j = i /\ workers'[j] = v
  BY <1>1, <1>2, <1>3 DEF DiskInv, AtWork
<1>4. ASSUME ~overlap'
      PROVE  /\ \A j, k \in AtWork' : j = k
             /\ \A d \in Dates : IsInjective(disk'[d])
             /\ \A j \in AtWork' :
                  /\ workers'[j].at = "queued" => workers'[j].want = workers'[j].date
                  /\ workers'[j].at \in {"connect", "download"} /\ workers'[j].want \in Dates =>
                       disk'[workers'[j].want] = <<>>
  BY <1>3, <1>4
<1> QED  BY <1>4 DEF DiskInv

-----------------------------------------------------------------------------
(* The steps *)

ReplayInv == WorkersInv /\ StepInv /\ DiskInv

LEMMA SavedStays ==
  ASSUME StepInv, saved' = saved
  PROVE  saved' = [d \in Dates |-> saved'[d]] /\ SetupsMeetTheirBar'
BY DEF StepInv, SetupsMeetTheirBar

LEMMA FailKeeps ==
  ASSUME ReplayInv, NEW i \in AtWork, fail(i), UNCHANGED <<disk, saved, overlap>>
  PROVE  ReplayInv'
<1> DEFINE v == Leave(workers[i])
<1>1. Moves(i, v) /\ v.at = "ended"
  BY FailMoves DEF ReplayInv
<1> HIDE DEF v
<1>2. disk' = [d \in Dates |-> disk'[d]] /\ (~overlap => \A d \in Dates : IsInjective(disk'[d]))
  BY DEF ReplayInv, DiskInv
<1>3. WorkersInv' /\ StepInv'
  BY <1>1, SavedStays, MovesInStep DEF ReplayInv
<1>4. DiskInv'
  BY <1>1, <1>2, MovesOnDisk DEF ReplayInv
<1> QED  BY <1>3, <1>4 DEF ReplayInv

LEMMA EnsureKeeps ==
  ASSUME ReplayInv, NEW i \in AtWork, workers[i].at \in {"queued", "connect", "download"},
         NEW d, ensure_prior_bars(i, d), ~overlap => \A p \in Dates : IsInjective(d[p]),
         UNCHANGED <<saved, overlap>>
  PROVE  ReplayInv'
<1> DEFINE m == {p \in workers[i].todo : d[p] = <<>>} \ Imports
<1>1. PICK v : Moves(i, v) /\ (v.at = "replay" \/ (v.at = "connect" /\ m # {} /\ v.want = Max(m)))
  BY EnsureMoves DEF ReplayInv
<1>2. IsWorker(workers[i])
  BY DEF ReplayInv, WorkersInv, AtWork
<1>3. /\ disk' = [p \in Dates |-> disk'[p]]
      /\ ~overlap => \A p \in Dates : IsInjective(disk'[p])
      /\ m # {} /\ Max(m) \in Dates => disk'[Max(m)] = <<>>
  <2>1. /\ disk' = [p \in Dates |-> disk'[p]]
        /\ (\A p \in Dates : IsInjective(d[p])) => \A p \in Dates : IsInjective(disk'[p])
        /\ m # {} /\ Max(m) \in Dates => disk'[Max(m)] = <<>>
    BY <1>2, EnsureWrites
  <2> HIDE DEF m
  <2> QED  BY <2>1
<1> HIDE DEF m
<1>4. WorkersInv' /\ StepInv'
  BY <1>1, SavedStays, MovesInStep DEF ReplayInv
<1>5. DiskInv'
  BY <1>1, <1>3, MovesOnDisk DEF ReplayInv
<1> QED  BY <1>4, <1>5 DEF ReplayInv

\* The bars of a date are written where there are none.
LEMMA RowsApart ==
  ASSUME NEW p, p \in Dates => disk[p] = <<>>, disk = [d \in Dates |-> disk[d]],
         \A d \in Dates : IsInjective(disk[d])
  PROVE  \A d \in Dates : IsInjective([disk EXCEPT ![p] = @ \o Bars(p)][d])
<1> SUFFICES ASSUME NEW d \in Dates  PROVE IsInjective([disk EXCEPT ![p] = @ \o Bars(p)][d])
  OBVIOUS
<1>1. CASE d = p
  <2>1. [disk EXCEPT ![p] = @ \o Bars(p)][d] = <<>> \o Bars(d)
    BY <1>1
  <2> QED  BY <2>1, BarsApart
<1>2. CASE d # p
  <2>1. [disk EXCEPT ![p] = @ \o Bars(p)][d] = disk[d]
    BY <1>2
  <2> QED  BY <2>1
<1> QED  BY <1>1, <1>2

LEMMA BackfillKeeps ==
  ASSUME ReplayInv, NEW i \in DOMAIN workers, run_date_backfill(i)
  PROVE  ReplayInv'
<1> DEFINE d == workers[i].date
           w == workers[i]
<1>1. i \in AtWork /\ w.at = "queued" /\ UNCHANGED <<saved, overlap>>
  BY DEF run_date_backfill, AtWork
<1>2. IsWorker(w) /\ InPlace(w) /\ d \in Dates /\ jobs[d] \in Running /\ jobs = [e \in Dates |-> jobs[e]]
  BY <1>1, DateReplayAssumption
  DEF ReplayInv, WorkersInv, StepInv, IsWorker, OneWorkerPerDate
<1>3. CASE has_bars(d)
  <2>1. ensure_prior_bars(i, disk)
    BY <1>3 DEF run_date_backfill
  <2>2. ~overlap => \A p \in Dates : IsInjective(disk[p])
    BY DEF ReplayInv, DiskInv
  <2> QED  BY <1>1, <2>1, <2>2, EnsureKeeps
<1>4. CASE ~has_bars(d) /\ d \in Imports /\ Tape[d] # <<>>
  <2> DEFINE e == [disk EXCEPT ![d] = @ \o Bars(d)]
  <2>1. ensure_prior_bars(i, e)
    BY <1>4 DEF run_date_backfill
  <2>2. ~overlap => \A p \in Dates : IsInjective(e[p])
    BY <1>4, RowsApart DEF ReplayInv, DiskInv, has_bars
  <2> HIDE DEF e
  <2> QED  BY <1>1, <2>1, <2>2, EnsureKeeps
<1>5. CASE ~has_bars(d) /\ d \in Imports /\ Tape[d] = <<>>
  <2>1. fail(i) /\ disk' = disk
    BY <1>5 DEF run_date_backfill
  <2> QED  BY <1>1, <2>1, FailKeeps
<1>6. CASE ~has_bars(d) /\ d \notin Imports
  <2> DEFINE v == [w EXCEPT !.at = "connect"]
  <2>1. jobs' = [jobs EXCEPT ![d] = "fetching_bars"] /\ workers' = [workers EXCEPT ![i] = v] /\ disk' = disk
    BY <1>6 DEF run_date_backfill
  <2>2. v = [g \in Fields |-> IF g = "at" THEN "connect" ELSE w[g]]
    BY <1>2 DEF IsWorker, Fields
  <2> HIDE DEF v, w
  <2>3. IsWorker(v) /\ v.date = w.date /\ v.at = "connect" /\ v.q = w.q /\ v.ctx = w.ctx /\ v.prev = w.prev
        /\ v.want = w.want
    BY <1>2, <2>2 DEF IsWorker, Fields
  <2>4. InPlace(v)
    BY <1>1, <1>2, <2>3 DEF InPlace, Queues
  <2>5. Moves(i, v)
    BY <1>1, <1>2, <2>1, <2>3, <2>4 DEF Moves, Running, w
  <2>6. WorkersInv' /\ StepInv'
    BY <1>1, <2>5, SavedStays, MovesInStep DEF ReplayInv
  <2>7. ~overlap => /\ \A p \in Dates : IsInjective(disk'[p])
                    /\ v.want \in Dates => disk'[v.want] = <<>>
    BY <1>1, <1>6, <2>1, <2>3 DEF ReplayInv, DiskInv, has_bars, w
  <2>8. disk' = [p \in Dates |-> disk'[p]]
    BY <2>1 DEF ReplayInv, DiskInv
  <2>9. DiskInv'
    BY <1>1, <2>3, <2>5, <2>7, <2>8, MovesOnDisk DEF ReplayInv
  <2> QED  BY <2>6, <2>9 DEF ReplayInv
<1> QED  BY <1>3, <1>4, <1>5, <1>6

LEMMA ConnectKeeps ==
  ASSUME ReplayInv, NEW i \in DOMAIN workers, connect(i)
  PROVE  ReplayInv'
<1> DEFINE w == workers[i]
           v == [w EXCEPT !.at = "download"]
<1>1. i \in AtWork /\ w.at = "connect" /\ UNCHANGED <<jobs, disk, saved, overlap>> /\ workers' = [workers EXCEPT ![i] = v]
  BY DEF connect, AtWork
<1>2. /\ IsWorker(w) /\ InPlace(w) /\ w.date \in Dates
      /\ jobs[w.date] \in Running /\ jobs = [e \in Dates |-> jobs[e]]
  BY <1>1, DateReplayAssumption
  DEF ReplayInv, WorkersInv, StepInv, IsWorker, OneWorkerPerDate
<1>3. v = [g \in Fields |-> IF g = "at" THEN "download" ELSE w[g]]
  BY <1>2 DEF IsWorker, Fields
<1> HIDE DEF v, w
<1>4. /\ IsWorker(v) /\ v.date = w.date /\ v.at = "download" /\ v.q = w.q /\ v.ctx = w.ctx /\ v.prev = w.prev
      /\ v.want = w.want
  BY <1>2, <1>3 DEF IsWorker, Fields
<1>5. InPlace(v)
  BY <1>1, <1>2, <1>4 DEF InPlace, Queues
<1>6. Moves(i, v)
  BY <1>1, <1>2, <1>4, <1>5 DEF Moves, w
<1>7. WorkersInv' /\ StepInv'
  BY <1>1, <1>6, SavedStays, MovesInStep DEF ReplayInv
<1>8. /\ disk' = [p \in Dates |-> disk'[p]]
      /\ ~overlap => /\ \A p \in Dates : IsInjective(disk'[p])
                     /\ v.want \in Dates => disk'[v.want] = <<>>
  BY <1>1, <1>4 DEF ReplayInv, DiskInv, w
<1>9. DiskInv'
  BY <1>1, <1>4, <1>6, <1>8, MovesOnDisk DEF ReplayInv
<1> QED  BY <1>7, <1>9 DEF ReplayInv

LEMMA NoBarsKeep ==
  ASSUME ReplayInv, NEW i \in AtWork, workers[i].at \in {"connect", "download"}, without_bars(i),
         UNCHANGED <<saved, overlap>>
  PROVE  ReplayInv'
<1>1. ~overlap => \A p \in Dates : IsInjective(disk[p])
  BY DEF ReplayInv, DiskInv
<1>2. CASE fail(i) /\ disk' = disk
  BY <1>2, FailKeeps
<1>3. CASE ensure_prior_bars(i, disk)
  BY <1>1, <1>3, EnsureKeeps
<1> QED  BY <1>2, <1>3 DEF without_bars

LEMMA FetchKeeps ==
  ASSUME ReplayInv, NEW i \in DOMAIN workers,
         connect_fails(i) \/ \E ok \in BOOLEAN : fetch_bars_from_ibkr(i, ok)
  PROVE  ReplayInv'
<1>1. i \in AtWork /\ workers[i].at \in {"connect", "download"} /\ UNCHANGED <<saved, overlap>>
  BY DEF connect_fails, fetch_bars_from_ibkr, AtWork
<1>2. CASE without_bars(i)
  BY <1>1, <1>2, NoBarsKeep
<1>3. CASE ensure_prior_bars(i, [disk EXCEPT ![workers[i].want] = @ \o Bars(workers[i].want)])
  <2> DEFINE p == workers[i].want
             e == [disk EXCEPT ![p] = @ \o Bars(p)]
  <2>1. ~overlap => \A d \in Dates : IsInjective(e[d])
    <3>1. ~overlap => /\ p \in Dates => disk[p] = <<>>
                      /\ \A d \in Dates : IsInjective(disk[d])
      BY <1>1 DEF ReplayInv, DiskInv
    <3>2. disk = [d \in Dates |-> disk[d]]
      BY DEF ReplayInv, DiskInv
    <3> QED  BY <3>1, <3>2, RowsApart
  <2> HIDE DEF e
  <2> QED  BY <1>1, <1>3, <2>1, EnsureKeeps DEF e
<1> QED  BY <1>2, <1>3 DEF connect_fails, fetch_bars_from_ibkr, fetch_bars

LEMMA TurnKeeps ==
  ASSUME ReplayInv, NEW i \in DOMAIN workers, replay_step(i)
  PROVE  ReplayInv'
<1> DEFINE w == workers[i]
           v == workers'[i]
<1>1. i \in AtWork /\ w.at \in {"replay", "join"} /\ UNCHANGED <<jobs, disk, saved, overlap>>
  BY DEF replay_step, AtWork
<1>2. /\ IsWorker(w) /\ InPlace(w) /\ w.date \in Dates
      /\ jobs[w.date] \in Running /\ jobs = [e \in Dates |-> jobs[e]]
  BY <1>1, DateReplayAssumption
  DEF ReplayInv, WorkersInv, StepInv, IsWorker, OneWorkerPerDate
<1>3. PICK x : /\ workers' = [workers EXCEPT ![i] = x]
               /\ LET t == Head(w.ready)
                      h == Next1(w)
                  IN  \/ t = "worker" /\ w.bars # <<>> /\ x = publish_bar(w)
                      \/ t = "worker" /\ w.bars = <<>> /\ (~Drained(w) \/ w.plan # {}) /\ x = flush_and_load(w)
                      \/ t = "feature" /\ x = Joined(handle_feature(h))
                      \/ t = "market"  /\ x = Joined(handle_market(h))
                      \/ t = "setup"   /\ x = Joined(handle_setup(h))
                      \/ t = "collect" /\ x = Joined(collect_market_state(h))
  BY DEF replay_step
<1>4. InStep(w) /\ Met(w.ctx) /\ Met(w.prev)
  BY <1>1, <1>2 DEF InPlace
<1> HIDE DEF w
<1>5. IsWorker(x) /\ x.date = w.date /\ x.at \in {"replay", "join"} /\ InPlace(x)
  BY <1>2, <1>3, <1>4, ReplayInStep
<1>6. Moves(i, x)
  BY <1>1, <1>2, <1>3, <1>5 DEF Moves, w
<1>7. WorkersInv' /\ StepInv'
  BY <1>1, <1>6, SavedStays, MovesInStep DEF ReplayInv
<1>8. disk' = [p \in Dates |-> disk'[p]] /\ (~overlap => \A p \in Dates : IsInjective(disk'[p]))
  BY <1>1 DEF ReplayInv, DiskInv
<1>9. DiskInv'
  BY <1>1, <1>5, <1>6, <1>8, MovesOnDisk DEF ReplayInv
<1> QED  BY <1>7, <1>9 DEF ReplayInv

LEMMA SaveKeeps ==
  ASSUME ReplayInv, NEW i \in DOMAIN workers, save(i)
  PROVE  ReplayInv'
<1> DEFINE w == workers[i]
           v == Leave(w)
           c == context_of(w)
           row == [session |-> c.session, seen |-> c.seen, states |-> {b \in w.states : b[1] = w.date}]
<1>1. /\ i \in AtWork /\ UNCHANGED <<disk, overlap>> /\ workers' = [workers EXCEPT ![i] = v]
      /\ jobs' = [jobs EXCEPT ![w.date] = "done"]
      /\ saved' = IF c = NoContext THEN saved ELSE [saved EXCEPT ![w.date] = row]
  BY DEF save, AtWork
<1>2. IsWorker(w) /\ InPlace(w) /\ w.date \in Dates /\ jobs = [e \in Dates |-> jobs[e]]
  BY DateReplayAssumption DEF ReplayInv, WorkersInv, StepInv, IsWorker
<1>3. /\ IsWorker(v) /\ v.date = w.date /\ v.at = "ended" /\ v.ctx = NoContext /\ v.prev = NoContext
  <2> HIDE DEF w
  <2> QED  BY <1>2, WorkerLeaves DEF IsWorker
<1>4. Met(c)
  BY <1>2 DEF context_of, InPlace
<1> HIDE DEF c
<1>5. saved' = [d \in Dates |-> saved'[d]]
  BY <1>1 DEF ReplayInv, StepInv
<1>6. SetupsMeetTheirBar'
  <2> SUFFICES ASSUME NEW d \in Dates, saved'[d] # NoContext, NEW k \in DOMAIN saved'[d].seen
               PROVE  /\ saved'[d].seen[k].snap = saved'[d].seen[k].bar
                      /\ saved'[d].seen[k].state = saved'[d].seen[k].bar
    BY DEF SetupsMeetTheirBar
  <2>1. CASE saved'[d] = saved[d]
    BY <2>1 DEF ReplayInv, StepInv, SetupsMeetTheirBar
  <2>2. CASE saved'[d] # saved[d]
    <3>1. c # NoContext /\ saved'[d] = row
      BY <1>1, <2>2 DEF ReplayInv, StepInv
    <3> QED  BY <1>4, <3>1 DEF Met
  <2> QED  BY <2>1, <2>2
<1> HIDE DEF v, w, row
<1>7. InPlace(v)
  BY <1>3 DEF InPlace, Met
<1>8. Moves(i, v)
  BY <1>1, <1>2, <1>3, <1>7 DEF Moves, Running, w
<1>9. WorkersInv' /\ StepInv'
  BY <1>1, <1>5, <1>6, <1>8, MovesInStep DEF ReplayInv
<1>10. disk' = [p \in Dates |-> disk'[p]] /\ (~overlap => \A p \in Dates : IsInjective(disk'[p]))
  BY <1>1 DEF ReplayInv, DiskInv
<1>11. DiskInv'
  BY <1>1, <1>3, <1>8, <1>10, MovesOnDisk DEF ReplayInv
<1> QED  BY <1>9, <1>11 DEF ReplayInv

\* A request is accepted when the date has no worker.
LEMMA RequestKeeps ==
  ASSUME ReplayInv, NEW d \in Requested, trigger_backfill(d)
  PROVE  ReplayInv'
<1> DEFINE n == Len(workers)
           v == NewWorker(d)
<1>1. /\ jobs[d] \notin Running /\ jobs' = [jobs EXCEPT ![d] = "pending"]
      /\ workers' = Append(workers, v) /\ overlap' = (overlap \/ AtWork # {})
      /\ UNCHANGED <<disk, saved>> /\ d \in Dates
  BY DateReplayAssumption DEF trigger_backfill, accepts
<1>2. n \in Nat /\ DOMAIN workers = 1 .. n /\ jobs = [e \in Dates |-> jobs[e]]
  BY SeqShape DEF ReplayInv, WorkersInv
<1>3. /\ IsWorker(v) /\ v.date = d /\ v.at = "queued" /\ v.want = d
      /\ v.ctx = NoContext /\ v.prev = NoContext /\ Queues(v, <<>>, <<>>, <<>>, <<>>)
  <2>1. Queues(v, <<>>, <<>>, <<>>, <<>>)
    BY DEF Queues, NewWorker, Range, Tasks
  <2> QED  BY <2>1, WorkerStarts
<1> HIDE DEF v
<1>4. /\ IsSeq(workers') /\ DOMAIN workers' = 1 .. n + 1
      /\ \A j \in 1 .. n + 1 : workers'[j] = IF j = n + 1 THEN v ELSE workers[j]
  BY <1>1, SeqAppend DEF ReplayInv, WorkersInv
<1> HIDE DEF n
<1>5. \A j \in DOMAIN workers' : IsWorker(workers'[j]) /\ InPlace(workers'[j])
  <2>1. InPlace(v)
    BY <1>3 DEF InPlace, Met
  <2>2. \A j \in 1 .. n : IsWorker(workers[j]) /\ InPlace(workers[j])
    BY <1>2 DEF ReplayInv, WorkersInv, StepInv
  <2> QED  BY <1>2, <1>3, <1>4, <2>1, <2>2
<1>6. AtWork' = AtWork \cup {n + 1} /\ n + 1 \notin AtWork
      /\ \A j \in AtWork : workers'[j] = workers[j]
  BY <1>2, <1>3, <1>4 DEF AtWork
<1>7. workers'[n + 1] = v
  BY <1>2, <1>4
<1>8. \A j \in AtWork : workers[j].date # d
  BY <1>1 DEF ReplayInv, WorkersInv, OneWorkerPerDate
<1>9. OneWorkerPerDate'
  <2>1. /\ \A j, k \in AtWork : workers[j].date = workers[k].date => j = k
        /\ \A e \in Dates : (jobs[e] \in Running) = (\E j \in AtWork : workers[j].date = e)
    BY DEF ReplayInv, WorkersInv, OneWorkerPerDate
  <2>2. \A j, k \in AtWork' : workers'[j].date = workers'[k].date => j = k
    BY <1>3, <1>6, <1>7, <1>8, <2>1
  <2>3. ASSUME NEW e \in Dates
        PROVE  (jobs'[e] \in Running) = (\E j \in AtWork' : workers'[j].date = e)
    <3>1. CASE e = d
      <4>1. jobs'[e] \in Running /\ n + 1 \in AtWork' /\ workers'[n + 1].date = e
        BY <1>1, <1>2, <1>3, <1>6, <1>7, <3>1 DEF Running
      <4> QED  BY <4>1
    <3>2. CASE e # d
      <4>1. jobs'[e] = jobs[e]
        BY <1>1, <3>2
      <4>2. (\E j \in AtWork' : workers'[j].date = e) = (\E j \in AtWork : workers[j].date = e)
        BY <1>3, <1>6, <1>7, <3>2
      <4> QED  BY <4>1, <4>2, <2>1
    <3> QED  BY <3>1, <3>2
  <2> QED  BY <2>2, <2>3, Zenon DEF OneWorkerPerDate
<1>10. WorkersInv' /\ StepInv'
  <2>1. jobs' = [e \in Dates |-> jobs'[e]]
    BY <1>1, <1>2
  <2>2. saved' = [e \in Dates |-> saved'[e]] /\ SetupsMeetTheirBar'
    BY <1>1, SavedStays DEF ReplayInv
  <2> QED  BY <1>4, <1>5, <1>9, <2>1, <2>2 DEF WorkersInv, StepInv
<1>11. DiskInv'
  <2>1. disk' = [e \in Dates |-> disk'[e]]
    BY <1>1 DEF ReplayInv, DiskInv
  <2>2. ASSUME ~overlap'
        PROVE  /\ \A j, k \in AtWork' : j = k
               /\ \A e \in Dates : IsInjective(disk'[e])
               /\ \A j \in AtWork' :
                    /\ workers'[j].at = "queued" => workers'[j].want = workers'[j].date
                    /\ workers'[j].at \in {"connect", "download"} /\ workers'[j].want \in Dates =>
                         disk'[workers'[j].want] = <<>>
    <3>1. ~overlap /\ AtWork' = {n + 1}
      BY <1>1, <1>6, <2>2
    <3> QED  BY <1>1, <1>3, <1>7, <3>1 DEF ReplayInv, DiskInv
  <2> QED  BY <2>1, <2>2 DEF DiskInv
<1> QED  BY <1>10, <1>11 DEF ReplayInv

\* A restart ends every worker; the files stay.
LEMMA RestartKeeps ==
  ASSUME ReplayInv, restart
  PROVE  ReplayInv'
<1>1. /\ jobs' = [d \in Dates |-> "none"] /\ UNCHANGED <<disk, saved, overlap>>
      /\ workers' = [i \in DOMAIN workers |-> Leave(workers[i])]
  BY DEF restart
<1>2. Len(workers) \in Nat /\ DOMAIN workers = 1 .. Len(workers)
  BY SeqShape DEF ReplayInv, WorkersInv
<1>3. /\ IsSeq(workers') /\ DOMAIN workers' = DOMAIN workers
      /\ \A i \in DOMAIN workers : workers'[i] = Leave(workers[i])
  <2>1. workers' = [i \in 1 .. Len(workers) |-> workers'[i]]
    BY <1>1, <1>2
  <2> QED  BY <1>1, <1>2, <2>1, SeqMade
<1>4. \A i \in DOMAIN workers' : IsWorker(workers'[i]) /\ workers'[i].at = "ended" /\ InPlace(workers'[i])
  <2> SUFFICES ASSUME NEW i \in DOMAIN workers
               PROVE  IsWorker(workers'[i]) /\ workers'[i].at = "ended" /\ InPlace(workers'[i])
    BY <1>3
  <2>1. workers[i].date \in Requested
    BY DEF ReplayInv, WorkersInv, IsWorker
  <2> DEFINE v == Leave(workers[i])
  <2>2. IsWorker(v) /\ v.at = "ended" /\ v.ctx = NoContext /\ v.prev = NoContext
    BY <2>1, WorkerLeaves
  <2> HIDE DEF v
  <2>3. InPlace(v)
    BY <2>2 DEF InPlace, Met
  <2> QED  BY <1>3, <2>2, <2>3 DEF v
<1>5. AtWork' = {}
  BY <1>4 DEF AtWork
<1>6. OneWorkerPerDate'
  <2>1. \A d \in Dates : jobs'[d] \notin Running
    BY <1>1 DEF Running
  <2>2. \A d \in Dates : ~\E i \in AtWork' : workers'[i].date = d
    BY <1>5
  <2>3. ASSUME NEW d \in Dates
        PROVE  (jobs'[d] \in Running) = (\E i \in AtWork' : workers'[i].date = d)
    <3>1. (jobs'[d] \in Running) = FALSE
      BY <2>1
    <3>2. (\E i \in AtWork' : workers'[i].date = d) = FALSE
      BY <2>2
    <3> QED  BY <3>1, <3>2, Zenon
  <2>4. \A i, j \in AtWork' : workers'[i].date = workers'[j].date => i = j
    BY <1>5
  <2> QED  BY <2>3, <2>4, Zenon DEF OneWorkerPerDate
<1>7. saved' = [d \in Dates |-> saved'[d]] /\ SetupsMeetTheirBar'
  BY <1>1, SavedStays DEF ReplayInv
<1>8. DiskInv'
  BY <1>1, <1>5 DEF ReplayInv, DiskInv
<1> QED  BY <1>1, <1>3, <1>4, <1>6, <1>7, <1>8 DEF ReplayInv, WorkersInv, StepInv

LEMMA ReplayInvStart == ReplayInit => ReplayInv
<1> SUFFICES ASSUME ReplayInit  PROVE ReplayInv
  OBVIOUS
<1>1. workers = <<>> /\ DOMAIN workers = {} /\ AtWork = {}
  BY DEF ReplayInit, AtWork
<1>2. IsSeq(workers)
  BY <1>1, SeqShort
<1>3. OneWorkerPerDate
  <2>1. \A d \in Dates : jobs[d] \notin Running
    BY DEF ReplayInit, Running
  <2>2. ASSUME NEW d \in Dates
        PROVE  (jobs[d] \in Running) = (\E i \in AtWork : workers[i].date = d)
    <3>1. (jobs[d] \in Running) = FALSE
      BY <2>1
    <3>2. (\E i \in AtWork : workers[i].date = d) = FALSE
      BY <1>1
    <3> QED  BY <3>1, <3>2, Zenon
  <2>3. \A i, j \in AtWork : workers[i].date = workers[j].date => i = j
    BY <1>1
  <2> QED  BY <2>2, <2>3, Zenon DEF OneWorkerPerDate
<1>4. DiskInv
  BY <1>1, NothingApart DEF ReplayInit, DiskInv
<1>5. SetupsMeetTheirBar
  BY DEF ReplayInit, SetupsMeetTheirBar
<1> QED  BY <1>1, <1>2, <1>3, <1>4, <1>5 DEF ReplayInit, ReplayInv, WorkersInv, StepInv

LEMMA ReplayInvStep == ReplayInv /\ [ReplayNext]_replayVars => ReplayInv'
<1> SUFFICES ASSUME ReplayInv, [ReplayNext]_replayVars  PROVE ReplayInv'
  OBVIOUS
<1>1. CASE UNCHANGED replayVars
  <2>1. UNCHANGED <<jobs, workers, disk, saved, overlap>>
    BY <1>1 DEF replayVars
  <2>2. AtWork' = AtWork
    BY <2>1 DEF AtWork
  <2>3. WorkersInv'
    BY <2>1, <2>2 DEF ReplayInv, WorkersInv, OneWorkerPerDate
  <2>4. StepInv'
    BY <2>1 DEF ReplayInv, StepInv, SetupsMeetTheirBar
  <2>5. DiskInv'
    BY <2>1, <2>2 DEF ReplayInv, DiskInv
  <2> QED  BY <2>3, <2>4, <2>5 DEF ReplayInv
<1>2. CASE \E d \in Requested : trigger_backfill(d)
  BY <1>2, RequestKeeps
<1>3. ASSUME NEW i \in DOMAIN workers, work(i)  PROVE ReplayInv'
  BY <1>3, BackfillKeeps, ConnectKeeps, FetchKeeps, TurnKeeps, SaveKeeps DEF work
<1>4. CASE restart
  BY <1>4, RestartKeeps
<1> QED  BY <1>1, <1>2, <1>3, <1>4 DEF ReplayNext

\* For any number of dates, workers and restarts, any tape and any way the workers and
\* the handlers interleave: a setup that is stored was judged by the snapshot and the
\* market state of its own bar, a date has one worker, for as long as its job runs, and
\* no bar is on disk twice unless two workers were at work at once.
THEOREM ReplaysInOrder == ReplaySpec => []ReplaysAreOrderly
<1>1. ReplayInv => ReplaysAreOrderly
  BY DEF ReplayInv, WorkersInv, StepInv, DiskInv, ReplaysAreOrderly, AloneMeansNoDoubles
<1> QED  BY <1>1, ReplayInvStart, ReplayInvStep, PTL DEF ReplaySpec

=============================================================================
