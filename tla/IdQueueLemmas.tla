--------------------------- MODULE IdQueueLemmas ----------------------------
(***************************************************************************)
(* What the operations on a queue of unique ids do to its type, length,    *)
(* uniqueness, elements and order.                                         *)
(***************************************************************************)
EXTENDS IdQueues, TLAPS

\* Removing a request id keeps the type of the queue, its uniqueness and its
\* bound, and removes exactly that id: what the filter loop of cancel is for.
LEMMA WithoutRemoves ==
    ASSUME NEW S, NEW q \in Seq(S), NEW r, Distinct(q)
    PROVE  /\ Without(q, r) \in Seq(S)
           /\ Len(Without(q, r)) \in Nat
           /\ Len(Without(q, r)) <= Len(q)
           /\ Distinct(Without(q, r))
           /\ Elems(Without(q, r)) = Elems(q) \ {r}
<1>1. CASE ~ \E i \in 1..Len(q) : q[i] = r
  <2>1. Without(q, r) = q
    BY <1>1 DEF Without
  <2> QED BY <1>1, <2>1 DEF Elems
<1>2. CASE \E i \in 1..Len(q) : q[i] = r
  <2> DEFINE at == CHOOSE i \in 1..Len(q) : q[i] = r
             w  == [i \in 1..(Len(q) - 1) |-> IF i < at THEN q[i] ELSE q[i + 1]]
  <2>1. at \in 1..Len(q) /\ q[at] = r
    BY <1>2
  <2>2. Without(q, r) = w
    BY <1>2 DEF Without
  <2> HIDE DEF at
  <2>3. Len(q) - 1 \in Nat /\ \A i \in 1..(Len(q) - 1) : w[i] \in S
    BY <2>1
  <2>4. w \in Seq(S) /\ Len(w) = Len(q) - 1
    BY <2>3
  <2>5. Distinct(w)
    <3> SUFFICES ASSUME NEW i \in 1..(Len(q) - 1), NEW j \in 1..(Len(q) - 1),
                        w[i] = w[j]
                 PROVE  i = j
      BY <2>4 DEF Distinct
    <3> QED BY <2>1 DEF Distinct
  <2>6. ASSUME NEW x \in Elems(w) PROVE x \in Elems(q) \ {r}
    <3>1. PICK i \in 1..(Len(q) - 1) : x = w[i]
      BY <2>4 DEF Elems
    <3>2. CASE i < at
      BY <3>1, <3>2, <2>1 DEF Elems, Distinct
    <3>3. CASE ~(i < at)
      BY <3>1, <3>3, <2>1 DEF Elems, Distinct
    <3> QED BY <3>2, <3>3
  <2>7. ASSUME NEW x \in Elems(q) \ {r} PROVE x \in Elems(w)
    <3>1. PICK i \in 1..Len(q) : x = q[i] /\ i # at
      BY <2>1 DEF Elems
    <3>2. CASE i < at
      <4>1. i \in 1..(Len(q) - 1) /\ w[i] = x
        BY <3>1, <3>2, <2>1
      <4> QED BY <4>1, <2>4 DEF Elems
    <3>3. CASE i > at
      <4>1. i - 1 \in 1..(Len(q) - 1) /\ w[i - 1] = x
        BY <3>1, <3>3, <2>1
      <4> QED BY <4>1, <2>4 DEF Elems
    <3> QED BY <3>1, <3>2, <3>3, <2>1
  <2>8. Elems(w) = Elems(q) \ {r}
    BY <2>6, <2>7
  <2> QED BY <2>2, <2>4, <2>5, <2>8, <2>3
<1> QED BY <1>1, <1>2

\* Appending an id that is not queued.
LEMMA AppendAdds ==
    ASSUME NEW S, NEW q \in Seq(S), NEW r \in S, r \notin Elems(q), Distinct(q)
    PROVE  /\ Append(q, r) \in Seq(S)
           /\ Len(Append(q, r)) = Len(q) + 1
           /\ Distinct(Append(q, r))
           /\ Elems(Append(q, r)) = Elems(q) \cup {r}
<1>1. Append(q, r) \in Seq(S) /\ Len(Append(q, r)) = Len(q) + 1
  OBVIOUS
<1>2. \A i \in 1..(Len(q) + 1) : Append(q, r)[i] = IF i = Len(q) + 1 THEN r ELSE q[i]
  OBVIOUS
<1>3. Distinct(Append(q, r))
  BY <1>1, <1>2 DEF Distinct, Elems
<1>4. ASSUME NEW x \in Elems(q) \cup {r} PROVE x \in Elems(Append(q, r))
  <2>1. CASE x = r
    <3>1. Len(q) + 1 \in 1..Len(Append(q, r)) /\ Append(q, r)[Len(q) + 1] = x
      BY <2>1, <1>1, <1>2
    <3> QED BY <3>1 DEF Elems
  <2>2. CASE x \in Elems(q)
    <3>1. PICK i \in 1..Len(q) : x = q[i]
      BY <2>2 DEF Elems
    <3>2. i \in 1..Len(Append(q, r)) /\ Append(q, r)[i] = x
      BY <3>1, <1>1, <1>2
    <3> QED BY <3>2 DEF Elems
  <2> QED BY <2>1, <2>2
<1>5. ASSUME NEW x \in Elems(Append(q, r)) PROVE x \in Elems(q) \cup {r}
  BY <1>1, <1>2 DEF Elems
<1>6. Elems(Append(q, r)) = Elems(q) \cup {r}
  BY <1>4, <1>5
<1> QED BY <1>1, <1>3, <1>6

\* Taking the head, as poll does.
LEMMA TailDrops ==
    ASSUME NEW S, NEW q \in Seq(S), q # <<>>, Distinct(q)
    PROVE  /\ Head(q) \in Elems(q)
           /\ Head(q) \in S
           /\ Tail(q) \in Seq(S)
           /\ Len(Tail(q)) <= Len(q)
           /\ Distinct(Tail(q))
           /\ Elems(Tail(q)) = Elems(q) \ {Head(q)}
<1>1. /\ Len(q) \in Nat \ {0}
      /\ Head(q) = q[1]
      /\ Tail(q) \in Seq(S)
      /\ Len(Tail(q)) = Len(q) - 1
      /\ \A i \in 1..(Len(q) - 1) : Tail(q)[i] = q[i + 1]
  OBVIOUS
<1>2. Head(q) \in Elems(q) /\ Head(q) \in S
  BY <1>1 DEF Elems
<1>3. Distinct(Tail(q))
  BY <1>1 DEF Distinct
<1>4. ASSUME NEW x \in Elems(Tail(q)) PROVE x \in Elems(q) \ {Head(q)}
  BY <1>1 DEF Elems, Distinct
<1>5. ASSUME NEW x \in Elems(q) \ {Head(q)} PROVE x \in Elems(Tail(q))
  <2>1. PICK i \in 1..Len(q) : x = q[i] /\ i # 1
    BY <1>1 DEF Elems
  <2>2. i - 1 \in 1..Len(Tail(q)) /\ Tail(q)[i - 1] = x
    BY <2>1, <1>1
  <2> QED BY <2>2 DEF Elems
<1>6. Elems(Tail(q)) = Elems(q) \ {Head(q)}
  BY <1>4, <1>5
<1> QED BY <1>1, <1>2, <1>3, <1>6

\* Removing an entry from anywhere keeps the others in their order.
LEMMA WithoutKeepsOrder ==
    ASSUME NEW S, NEW q \in Seq(S), Distinct(q), NEW x, NEW r, NEW s,
           Before(q, r, s), r # x, s # x
    PROVE  Before(Without(q, x), r, s)
<1>1. PICK i \in 1..Len(q), j \in 1..Len(q) : i < j /\ q[i] = r /\ q[j] = s
  BY DEF Before
<1>2. CASE ~ \E k \in 1..Len(q) : q[k] = x
  BY <1>2 DEF Without
<1>3. CASE \E k \in 1..Len(q) : q[k] = x
  <2> DEFINE at == CHOOSE k \in 1..Len(q) : q[k] = x
             w  == [k \in 1..(Len(q) - 1) |-> IF k < at THEN q[k] ELSE q[k + 1]]
             New(k) == IF k < at THEN k ELSE k - 1
  <2>1. at \in 1..Len(q) /\ q[at] = x
    BY <1>3
  <2>2. Without(q, x) = w
    BY <1>3 DEF Without
  <2> HIDE DEF at
  <2>3. Len(q) - 1 \in Nat /\ \A k \in 1..(Len(q) - 1) : w[k] \in S
    BY <2>1
  <2>4. Len(w) = Len(q) - 1
    BY <2>3
  <2>5. i # at /\ j # at
    BY <1>1, <2>1
  <2>6. /\ New(i) \in 1..Len(w) /\ New(j) \in 1..Len(w)
        /\ New(i) < New(j)
    BY <1>1, <2>1, <2>4, <2>5
  <2>7. w[New(i)] = q[i] /\ w[New(j)] = q[j]
    BY <1>1, <2>1, <2>4, <2>5, <2>6
  <2> HIDE DEF w, New
  <2> QED BY <1>1, <2>2, <2>6, <2>7 DEF Before
<1> QED BY <1>2, <1>3

\* Appending changes nothing about the entries that are there.
LEMMA AppendKeepsOrder ==
    ASSUME NEW S, NEW q \in Seq(S), NEW x \in S, NEW r, NEW s, Before(q, r, s)
    PROVE  Before(Append(q, x), r, s)
<1>1. Len(Append(q, x)) = Len(q) + 1 /\ \A i \in 1..Len(q) : Append(q, x)[i] = q[i]
  OBVIOUS
<1> QED BY <1>1 DEF Before

\* What is still there when the head has been taken keeps its order, and
\* nothing that was behind it has been taken.
LEMMA TailKeepsOrder ==
    ASSUME NEW S, NEW q \in Seq(S), Distinct(q), NEW r, NEW s,
           Before(q, r, s), r \in Elems(Tail(q))
    PROVE  s # Head(q) /\ Before(Tail(q), r, s)
<1>1. PICK i \in 1..Len(q), j \in 1..Len(q) : i < j /\ q[i] = r /\ q[j] = s
  BY DEF Before
<1>2. /\ Len(q) \in Nat \ {0}
      /\ Head(q) = q[1]
      /\ Len(Tail(q)) = Len(q) - 1
      /\ \A k \in 1..(Len(q) - 1) : Tail(q)[k] = q[k + 1]
  BY <1>1
<1>3. PICK k \in 1..(Len(q) - 1) : q[k + 1] = r
  BY <1>2 DEF Elems
<1>4. i = k + 1
  BY <1>1, <1>2, <1>3 DEF Distinct
<1>5. s # Head(q)
  BY <1>1, <1>2, <1>4 DEF Distinct
<1>6. /\ i - 1 \in 1..Len(Tail(q)) /\ j - 1 \in 1..Len(Tail(q)) /\ i - 1 < j - 1
      /\ Tail(q)[i - 1] = r /\ Tail(q)[j - 1] = s
  BY <1>1, <1>2, <1>4
<1> QED BY <1>5, <1>6 DEF Before
=============================================================================
