----------------------- MODULE TurnQueueLedger_proofs -----------------------
(***************************************************************************)
(* Theorems about what TurnQueue does with the prompts it is given: where  *)
(* each of them is, that none is lost, started twice or taken out of turn, *)
(* and that a thread keeps the promises of ThreadQueue.  All of them are   *)
(* about a server that saves no row outside the session's lock.            *)
(***************************************************************************)
EXTENDS TurnQueue_proofs, FiniteSetTheorems, FunctionTheorems

-----------------------------------------------------------------------------
\* What the operations on the stored lists do to the prompts in them.

LEMMA SeqFacts ==
    ASSUME NEW S, NEW s \in Seq(S)
    PROVE  /\ Len(s) \in Nat
           /\ DOMAIN s = 1..Len(s)
           /\ \A i \in 1..Len(s) : s[i] \in S
           /\ \A x : x \in ToSet(s) <=> \E i \in 1..Len(s) : s[i] = x
           /\ ToSet(s) \subseteq S
           /\ s = <<>> <=> ToSet(s) = {}
<1>1. Len(s) \in Nat /\ DOMAIN s = 1..Len(s)
    BY LenProperties
<1>2. \A i \in 1..Len(s) : s[i] \in S
    BY ElementOfSeq
<1>3. \A x : x \in ToSet(s) <=> \E i \in 1..Len(s) : s[i] = x
    BY <1>1 DEF ToSet
<1>4. s = <<>> <=> ToSet(s) = {}
    <2>1. CASE s = <<>>
        <3>1. Len(s) = 0
            BY <2>1
        <3>2. QED
            BY <1>1, <1>3, <2>1, <3>1
    <2>2. CASE s # <<>>
        <3>1. Len(s) \in Nat \ {0}
            BY <2>2, EmptySeq
        <3>2. s[1] \in ToSet(s)
            BY <1>3, <3>1
        <3>3. QED
            BY <2>2, <3>2
    <2>3. QED
        BY <2>1, <2>2
<1>5. QED
    BY <1>1, <1>2, <1>3, <1>4

LEMMA QueuedMeans ==
    ASSUME NEW r \in Rows, NEW p
    PROVE  Contains(QueueOf(r), p) <=> p \in ToSet(r.pub) \cup ToSet(r.int)
<1>1. r.pub \in Seq(Prompts) /\ r.int \in Seq(Prompts)
    BY DEF Rows
<1> DEFINE s == r.pub
           t == r.int
<1>2. s \in Seq(Prompts) /\ t \in Seq(Prompts)
    BY <1>1
<1>3. QueueOf(r) = s \o t
    BY DEF QueueOf
<1> HIDE DEF s, t
<1>4. /\ Len(s \o t) = Len(s) + Len(t)
      /\ \A i \in 1..Len(s) + Len(t) :
            (s \o t)[i] = IF i <= Len(s) THEN s[i] ELSE t[i - Len(s)]
    BY <1>2, ConcatProperties
<1>5. Len(s) \in Nat /\ Len(t) \in Nat
    BY <1>2, SeqFacts
<1>6. ASSUME Contains(s \o t, p) PROVE p \in ToSet(s) \cup ToSet(t)
    <2>1. PICK i \in 1..Len(s) + Len(t) : (s \o t)[i] = p
        BY <1>4, <1>6 DEF Contains
    <2>2. CASE i <= Len(s)
        <3>1. i \in 1..Len(s) /\ s[i] = p
            BY <1>4, <1>5, <2>1, <2>2
        <3>2. QED
            BY <1>2, <3>1, SeqFacts
    <2>3. CASE ~ (i <= Len(s))
        <3>1. i - Len(s) \in 1..Len(t) /\ t[i - Len(s)] = p
            BY <1>4, <1>5, <2>1, <2>3
        <3>2. QED
            BY <1>2, <3>1, SeqFacts
    <2>4. QED
        BY <2>2, <2>3
<1>7. ASSUME p \in ToSet(s) PROVE Contains(s \o t, p)
    <2>1. PICK i \in 1..Len(s) : s[i] = p
        BY <1>2, <1>7, SeqFacts
    <2>2. i \in 1..Len(s) + Len(t) /\ (s \o t)[i] = p
        BY <1>4, <1>5, <2>1
    <2>3. QED
        BY <1>4, <2>2 DEF Contains
<1>8. ASSUME p \in ToSet(t) PROVE Contains(s \o t, p)
    <2>1. PICK i \in 1..Len(t) : t[i] = p
        BY <1>2, <1>8, SeqFacts
    <2>2. Len(s) + i \in 1..Len(s) + Len(t) /\ ~ (Len(s) + i <= Len(s))
          /\ (Len(s) + i) - Len(s) = i
        BY <1>5
    <2>3. (s \o t)[Len(s) + i] = p
        BY <1>4, <2>1, <2>2
    <2>4. QED
        BY <1>4, <2>2, <2>3 DEF Contains
<1>9. QED
    BY <1>3, <1>6, <1>7, <1>8 DEF s, t

LEMMA AppendSet ==
    ASSUME NEW S, NEW s \in Seq(S), NEW p \in S
    PROVE  /\ ToSet(Append(s, p)) = ToSet(s) \cup {p}
           /\ IsInjective(s) /\ p \notin ToSet(s) => IsInjective(Append(s, p))
<1> DEFINE a == Append(s, p)
<1>1. /\ a \in Seq(S)
      /\ Len(a) = Len(s) + 1
      /\ \A i \in 1..Len(s) : a[i] = s[i]
      /\ a[Len(s) + 1] = p
    BY AppendProperties
<1>2. Len(s) \in Nat /\ DOMAIN s = 1..Len(s) /\ DOMAIN a = 1..Len(a)
    BY <1>1, SeqFacts
<1> HIDE DEF a
<1>3. \A x : x \in ToSet(a) <=> \E i \in 1..Len(a) : a[i] = x
    BY <1>1, SeqFacts
<1>4. \A x : x \in ToSet(s) <=> \E i \in 1..Len(s) : s[i] = x
    BY SeqFacts
<1>5. ToSet(a) = ToSet(s) \cup {p}
    <2>1. ASSUME NEW x \in ToSet(a) PROVE x \in ToSet(s) \cup {p}
        <3>1. PICK i \in 1..Len(a) : a[i] = x
            BY <1>3
        <3>2. i \in 1..Len(s) \/ i = Len(s) + 1
            BY <1>1, <1>2
        <3>3. QED
            BY <1>1, <1>4, <3>1, <3>2
    <2>2. ASSUME NEW x \in ToSet(s) PROVE x \in ToSet(a)
        <3>1. PICK i \in 1..Len(s) : s[i] = x
            BY <1>4
        <3>2. i \in 1..Len(a)
            BY <1>1, <1>2
        <3>3. QED
            BY <1>1, <1>3, <3>1, <3>2
    <2>3. p \in ToSet(a)
        BY <1>1, <1>2, <1>3
    <2>4. QED
        BY <2>1, <2>2, <2>3
<1>6. ASSUME IsInjective(s), p \notin ToSet(s) PROVE IsInjective(a)
    <2>1. ASSUME NEW i \in 1..Len(a), NEW j \in 1..Len(a), a[i] = a[j] PROVE i = j
        <3>1. /\ i \in 1..Len(s) \/ i = Len(s) + 1
              /\ j \in 1..Len(s) \/ j = Len(s) + 1
            BY <1>1, <1>2
        <3>2. \A k \in 1..Len(s) : a[k] # p
            BY <1>1, <1>4, <1>6
        <3>3. \A k, m \in 1..Len(s) : s[k] = s[m] => k = m
            BY <1>2, <1>6 DEF IsInjective
        <3>4. QED
            BY <1>1, <2>1, <3>1, <3>2, <3>3
    <2>2. QED
        BY <1>2, <2>1 DEF IsInjective
<1>7. QED
    BY <1>5, <1>6 DEF a

\* A list without the prompt at one place.
LEMMA RemoveSet ==
    ASSUME NEW S, NEW s \in Seq(S), NEW i \in 1..Len(s), NEW r, r = RemoveAt(s, i)
    PROVE  /\ ToSet(s) \subseteq ToSet(r) \cup {s[i]}
           /\ ToSet(r) \subseteq ToSet(s)
           /\ IsInjective(s) => IsInjective(r) /\ s[i] \notin ToSet(r)
<1> DEFINE a == SubSeq(s, 1, i - 1)
           b == SubSeq(s, i + 1, Len(s))
<1>1. Len(s) \in Nat /\ DOMAIN s = 1..Len(s) /\ \A k \in 1..Len(s) : s[k] \in S
    BY SeqFacts
<1>2. a \in Seq(S) /\ Len(a) = i - 1 /\ \A k \in 1..i - 1 : a[k] = s[k]
    <2>1. \A k \in 1..i - 1 : s[k] \in S
        BY <1>1
    <2>2. QED
        BY <1>1, <2>1, SubSeqProperties
<1>3. /\ b \in Seq(S)
      /\ Len(b) = Len(s) - i
      /\ \A k \in 1..Len(s) - i : b[k] = s[i + k]
    <2>1. \A k \in i + 1..Len(s) : s[k] \in S
        BY <1>1
    <2>2. /\ b \in Seq(S)
          /\ Len(b) = IF i + 1 <= Len(s) THEN Len(s) - (i + 1) + 1 ELSE 0
          /\ \A k \in 1..Len(s) - (i + 1) + 1 : b[k] = s[(i + 1) + k - 1]
        BY <1>1, <2>1, SubSeqProperties
    <2>3. Len(s) - (i + 1) + 1 = Len(s) - i
        BY <1>1
    <2>4. \A k \in 1..Len(s) - i : (i + 1) + k - 1 = i + k
        BY <1>1
    <2>5. Len(b) = Len(s) - i
        <3>1. CASE i + 1 <= Len(s)
            <4>1. Len(b) = Len(s) - (i + 1) + 1
                BY <2>2, <3>1
            <4>2. QED
                BY <2>3, <4>1
        <3>2. CASE ~ (i + 1 <= Len(s))
            <4>1. Len(b) = 0
                BY <2>2, <3>2
            <4>2. PICK n \in Nat : n = Len(s)
                BY <1>1
            <4>3. i \in 1..n /\ ~ (i + 1 <= n)
                BY <3>2, <4>2
            <4>4. n - i = 0
                BY <4>3
            <4>5. QED
                BY <4>1, <4>2, <4>4
        <3>3. QED
            BY <3>1, <3>2
    <2>6. QED
        BY <2>2, <2>3, <2>4, <2>5
<1>4. r = a \o b
    BY DEF RemoveAt
<1> HIDE DEF a, b
<1>5. /\ r \in Seq(S)
      /\ Len(r) = Len(s) - 1
      /\ \A k \in 1..Len(s) - 1 : r[k] = IF k < i THEN s[k] ELSE s[k + 1]
    <2>1. /\ r \in Seq(S)
          /\ Len(r) = (i - 1) + (Len(s) - i)
          /\ \A k \in 1..(i - 1) + (Len(s) - i) :
                r[k] = IF k <= i - 1 THEN a[k] ELSE b[k - (i - 1)]
        <3>1. /\ a \o b \in Seq(S)
              /\ Len(a \o b) = Len(a) + Len(b)
              /\ \A k \in 1..Len(a) + Len(b) :
                    (a \o b)[k] = IF k <= Len(a) THEN a[k] ELSE b[k - Len(a)]
            BY <1>2, <1>3, ConcatProperties
        <3>2. Len(a) = i - 1 /\ Len(b) = Len(s) - i
            BY <1>2, <1>3
        <3>3. QED
            BY <1>4, <3>1, <3>2
    <2>2. (i - 1) + (Len(s) - i) = Len(s) - 1
        BY <1>1
    <2>3. ASSUME NEW k \in 1..Len(s) - 1, k < i PROVE r[k] = s[k]
        <3>1. k \in 1..i - 1 /\ k <= i - 1
            BY <1>1, <2>3
        <3>2. a[k] = s[k]
            BY <1>2, <3>1
        <3>3. r[k] = a[k]
            BY <2>1, <2>2, <3>1
        <3>4. QED
            BY <3>2, <3>3
    <2>4. ASSUME NEW k \in 1..Len(s) - 1, ~ (k < i) PROVE r[k] = s[k + 1]
        <3>1. k - (i - 1) \in 1..Len(s) - i /\ i + (k - (i - 1)) = k + 1 /\ ~ (k <= i - 1)
            BY <1>1, <2>4
        <3>2. b[k - (i - 1)] = s[k + 1]
            BY <1>3, <3>1
        <3>3. QED
            BY <2>1, <2>2, <3>1, <3>2
    <2>5. ASSUME NEW k \in 1..Len(s) - 1
          PROVE  r[k] = IF k < i THEN s[k] ELSE s[k + 1]
        BY <2>3, <2>4
    <2>6. QED
        BY <2>1, <2>2, <2>5
<1>6. DOMAIN r = 1..Len(s) - 1
    BY <1>5, SeqFacts
<1>7. \A x : x \in ToSet(s) <=> \E k \in 1..Len(s) : s[k] = x
    BY SeqFacts
<1>8. \A x : x \in ToSet(r) <=> \E k \in 1..Len(s) - 1 : r[k] = x
    BY <1>5, SeqFacts
<1>9. ASSUME NEW x \in ToSet(s) PROVE x \in ToSet(r) \cup {s[i]}
    <2>1. PICK k \in 1..Len(s) : s[k] = x
        BY <1>7
    <2>2. CASE k < i
        <3>1. k \in 1..Len(s) - 1
            BY <1>1, <2>2
        <3>2. r[k] = x
            BY <1>5, <2>1, <2>2, <3>1
        <3>3. QED
            BY <1>8, <3>1, <3>2
    <2>3. CASE k > i
        <3>1. k - 1 \in 1..Len(s) - 1 /\ ~ (k - 1 < i) /\ (k - 1) + 1 = k
            BY <1>1, <2>3
        <3>2. QED
            BY <1>5, <1>8, <2>1, <3>1
    <2>4. QED
        BY <1>1, <2>1, <2>2, <2>3
<1>10. ASSUME NEW x \in ToSet(r) PROVE x \in ToSet(s)
    <2>1. PICK k \in 1..Len(s) - 1 : r[k] = x
        BY <1>8
    <2>2. k \in 1..Len(s) /\ k + 1 \in 1..Len(s)
        BY <1>1
    <2>3. QED
        BY <1>5, <1>7, <2>1, <2>2
<1>11. ASSUME IsInjective(s) PROVE IsInjective(r) /\ s[i] \notin ToSet(r)
    <2>1. \A k, m \in 1..Len(s) : s[k] = s[m] => k = m
        BY <1>1, <1>11 DEF IsInjective
    <2>2. \A k \in 1..Len(s) - 1 :
            \E m \in 1..Len(s) : m # i /\ r[k] = s[m] /\ m = IF k < i THEN k ELSE k + 1
        <3>1. TAKE k \in 1..Len(s) - 1
        <3>2. CASE k < i
            BY <1>1, <1>5, <3>2
        <3>3. CASE ~ (k < i)
            BY <1>1, <1>5, <3>3
        <3>4. QED
            BY <3>2, <3>3
    <2>3. s[i] \notin ToSet(r)
        BY <1>8, <2>1, <2>2
    <2>4. ASSUME NEW k \in 1..Len(s) - 1, NEW m \in 1..Len(s) - 1, r[k] = r[m] PROVE k = m
        <3>1. PICK u \in 1..Len(s) : r[k] = s[u] /\ u = IF k < i THEN k ELSE k + 1
            BY <2>2
        <3>2. PICK v \in 1..Len(s) : r[m] = s[v] /\ v = IF m < i THEN m ELSE m + 1
            BY <2>2
        <3>3. u = v
            BY <2>1, <2>4, <3>1, <3>2
        <3>4. QED
            BY <1>1, <3>1, <3>2, <3>3
    <2>5. QED
        BY <1>6, <2>3, <2>4 DEF IsInjective
<1>12. QED
    BY <1>9, <1>10, <1>11

\* A list without its first prompt.
LEMMA TailSet ==
    ASSUME NEW S, NEW s \in Seq(S), s # <<>>
    PROVE  /\ Head(s) \in ToSet(s)
           /\ ToSet(s) \subseteq ToSet(Tail(s)) \cup {Head(s)}
           /\ ToSet(Tail(s)) \subseteq ToSet(s)
           /\ IsInjective(s) => IsInjective(Tail(s)) /\ Head(s) \notin ToSet(Tail(s))
<1> DEFINE t == Tail(s)
<1>1. t \in Seq(S) /\ Len(t) = Len(s) - 1 /\ \A i \in 1..Len(t) : t[i] = s[i + 1]
    BY HeadTailProperties
<1>2. Len(s) \in Nat \ {0} /\ DOMAIN s = 1..Len(s) /\ DOMAIN t = 1..Len(t)
    BY <1>1, EmptySeq, SeqFacts
<1>3. Head(s) = s[1]
    OBVIOUS
<1> HIDE DEF t
<1>4. \A x : x \in ToSet(s) <=> \E k \in 1..Len(s) : s[k] = x
    BY SeqFacts
<1>5. \A x : x \in ToSet(t) <=> \E k \in 1..Len(t) : t[k] = x
    BY <1>1, SeqFacts
<1>6. Head(s) \in ToSet(s)
    BY <1>2, <1>3, <1>4
<1>7. ASSUME NEW x \in ToSet(s) PROVE x \in ToSet(t) \cup {Head(s)}
    <2>1. PICK k \in 1..Len(s) : s[k] = x
        BY <1>4
    <2>2. CASE k # 1
        <3>1. k - 1 \in 1..Len(t) /\ (k - 1) + 1 = k
            BY <1>1, <1>2, <2>2
        <3>2. QED
            BY <1>1, <1>5, <2>1, <3>1
    <2>3. QED
        BY <1>3, <2>1, <2>2
<1>8. ASSUME NEW x \in ToSet(t) PROVE x \in ToSet(s)
    <2>1. PICK k \in 1..Len(t) : t[k] = x
        BY <1>5
    <2>2. k + 1 \in 1..Len(s)
        BY <1>1, <1>2
    <2>3. QED
        BY <1>1, <1>4, <2>1, <2>2
<1>9. ASSUME IsInjective(s) PROVE IsInjective(t) /\ Head(s) \notin ToSet(t)
    <2>1. \A k, m \in 1..Len(s) : s[k] = s[m] => k = m
        BY <1>2, <1>9 DEF IsInjective
    <2>2. \A k \in 1..Len(t) : k + 1 \in 1..Len(s) /\ k + 1 # 1
        BY <1>1, <1>2
    <2>3. 1 \in 1..Len(s)
        BY <1>2
    <2>4. Head(s) \notin ToSet(t)
        BY <1>1, <1>3, <1>5, <2>1, <2>2, <2>3
    <2>5. ASSUME NEW k \in 1..Len(t), NEW m \in 1..Len(t), t[k] = t[m] PROVE k = m
        <3>1. k + 1 = m + 1
            BY <1>1, <2>1, <2>2, <2>5
        <3>2. QED
            BY <3>1
    <2>6. QED
        BY <1>2, <2>4, <2>5 DEF IsInjective
<1>10. QED
    BY <1>6, <1>7, <1>8, <1>9 DEF t

\* A list with a prompt put back.
LEMMA InsertAtSet ==
    ASSUME NEW S, NEW s \in Seq(S), NEW i \in 0..Len(s), NEW p \in S,
           NEW r, r = InsertAt(s, i + 1, p)
    PROVE  /\ ToSet(r) = ToSet(s) \cup {p}
           /\ IsInjective(s) /\ p \notin ToSet(s) => IsInjective(r)
<1> DEFINE a == SubSeq(s, 1, (i + 1) - 1)
           b == SubSeq(s, i + 1, Len(s))
           m == <<p>>
<1>1. Len(s) \in Nat /\ DOMAIN s = 1..Len(s) /\ \A k \in 1..Len(s) : s[k] \in S
    BY SeqFacts
<1>2. a \in Seq(S) /\ Len(a) = i /\ \A k \in 1..i : a[k] = s[k]
    <2>1. (i + 1) - 1 = i
        BY <1>1
    <2>2. a = SubSeq(s, 1, i)
        BY <2>1
    <2>3. \A k \in 1..i : s[k] \in S
        BY <1>1
    <2>4. QED
        BY <1>1, <2>2, <2>3, SubSeqProperties
<1>3. /\ b \in Seq(S)
      /\ Len(b) = Len(s) - i
      /\ \A k \in 1..Len(s) - i : b[k] = s[i + k]
    <2>1. PICK n \in Nat : n = Len(s)
        BY <1>1
    <2>2. \A k \in i + 1..n : s[k] \in S
        BY <1>1, <2>1
    <2>3. b = SubSeq(s, i + 1, n)
        BY <2>1
    <2>4. /\ b \in Seq(S)
          /\ Len(b) = IF i + 1 <= n THEN n - (i + 1) + 1 ELSE 0
          /\ \A k \in 1..n - (i + 1) + 1 : b[k] = s[(i + 1) + k - 1]
        BY <2>1, <2>2, <2>3, SubSeqProperties
    <2>5. n - (i + 1) + 1 = n - i /\ (~ (i + 1 <= n) => n - i = 0)
        BY <2>1
    <2>6. \A k \in 1..n - i : (i + 1) + k - 1 = i + k
        BY <2>1
    <2>7. Len(b) = n - i
        BY <2>4, <2>5
    <2>8. QED
        BY <2>1, <2>4, <2>5, <2>6, <2>7
<1>4. m \in Seq(S) /\ Len(m) = 1 /\ m[1] = p
    OBVIOUS
<1>5. r = (a \o m) \o b
    BY DEF InsertAt
<1> HIDE DEF a, b, m
<1>6. /\ a \o m \in Seq(S)
      /\ Len(a \o m) = i + 1
      /\ \A k \in 1..i + 1 : (a \o m)[k] = IF k <= i THEN s[k] ELSE p
    <2>1. /\ a \o m \in Seq(S)
          /\ Len(a \o m) = i + 1
          /\ \A k \in 1..i + 1 : (a \o m)[k] = IF k <= i THEN a[k] ELSE m[k - i]
        <3>1. /\ a \o m \in Seq(S)
              /\ Len(a \o m) = Len(a) + Len(m)
              /\ \A k \in 1..Len(a) + Len(m) :
                    (a \o m)[k] = IF k <= Len(a) THEN a[k] ELSE m[k - Len(a)]
            BY <1>2, <1>4, ConcatProperties
        <3>2. Len(a) = i /\ Len(m) = 1
            BY <1>2, <1>4
        <3>3. QED
            BY <3>1, <3>2
    <2>2. ASSUME NEW k \in 1..i + 1 PROVE (a \o m)[k] = IF k <= i THEN s[k] ELSE p
        <3>1. CASE k <= i
            <4>1. k \in 1..i
                BY <1>1, <3>1
            <4>2. QED
                BY <1>2, <2>1, <3>1, <4>1
        <3>2. CASE ~ (k <= i)
            <4>1. k - i = 1
                BY <1>1, <3>2
            <4>2. QED
                BY <1>4, <2>1, <3>2, <4>1
        <3>3. QED
            BY <3>1, <3>2
    <2>3. QED
        BY <2>1, <2>2
<1>7. /\ r \in Seq(S)
      /\ Len(r) = Len(s) + 1
      /\ \A k \in 1..Len(s) + 1 :
            r[k] = IF k <= i THEN s[k] ELSE IF k = i + 1 THEN p ELSE s[k - 1]
    <2>1. /\ r \in Seq(S)
          /\ Len(r) = (i + 1) + (Len(s) - i)
          /\ \A k \in 1..(i + 1) + (Len(s) - i) :
                r[k] = IF k <= i + 1 THEN (a \o m)[k] ELSE b[k - (i + 1)]
        <3> DEFINE c == a \o m
        <3>1. c \in Seq(S) /\ Len(c) = i + 1
            BY <1>6
        <3>2. r = c \o b
            BY <1>5
        <3> HIDE DEF c
        <3>3. /\ c \o b \in Seq(S)
              /\ Len(c \o b) = Len(c) + Len(b)
              /\ \A k \in 1..Len(c) + Len(b) :
                    (c \o b)[k] = IF k <= Len(c) THEN c[k] ELSE b[k - Len(c)]
            BY <1>3, <3>1, ConcatProperties
        <3>4. Len(c) = i + 1 /\ Len(b) = Len(s) - i
            BY <1>3, <3>1
        <3>5. /\ r \in Seq(S)
              /\ Len(r) = (i + 1) + (Len(s) - i)
              /\ \A k \in 1..(i + 1) + (Len(s) - i) :
                    r[k] = IF k <= i + 1 THEN c[k] ELSE b[k - (i + 1)]
            BY <3>2, <3>3, <3>4
        <3>6. QED
            BY <3>5 DEF c
    <2>2. (i + 1) + (Len(s) - i) = Len(s) + 1
        BY <1>1
    <2>3. ASSUME NEW k \in 1..Len(s) + 1
          PROVE  r[k] = IF k <= i THEN s[k] ELSE IF k = i + 1 THEN p ELSE s[k - 1]
        <3>1. CASE k <= i + 1
            <4>1. k \in 1..i + 1 /\ (k = i + 1 => ~ (k <= i)) /\ (~ (k <= i) => k = i + 1)
                BY <1>1, <3>1
            <4>2. r[k] = (a \o m)[k]
                BY <2>1, <2>2, <3>1
            <4>3. QED
                BY <1>6, <4>1, <4>2
        <3>2. CASE ~ (k <= i + 1)
            <4>1. PICK n \in Nat : n = Len(s)
                BY <1>1
            <4>2. k - (i + 1) \in 1..n - i /\ i + (k - (i + 1)) = k - 1
                BY <3>2, <4>1
            <4>3. ~ (k <= i) /\ k # i + 1
                BY <3>2
            <4>4. r[k] = b[k - (i + 1)]
                BY <2>1, <2>2, <3>2
            <4>5. b[k - (i + 1)] = s[k - 1]
                BY <1>3, <4>1, <4>2
            <4>6. QED
                BY <4>3, <4>4, <4>5
        <3>3. QED
            BY <3>1, <3>2
    <2>4. QED
        BY <2>1, <2>2, <2>3
<1>8. PICK n \in Nat : n = Len(s)
    BY <1>1
<1>9. \A x : x \in ToSet(s) <=> \E k \in 1..n : s[k] = x
    BY <1>8, SeqFacts
<1>10. DOMAIN r = 1..n + 1 /\ \A x : x \in ToSet(r) <=> \E k \in 1..n + 1 : r[k] = x
    BY <1>7, <1>8, SeqFacts
<1>11. \A k \in 1..n + 1 : r[k] = IF k <= i THEN s[k] ELSE IF k = i + 1 THEN p ELSE s[k - 1]
    BY <1>7, <1>8
<1>12. i \in 0..n
    BY <1>8
<1>13. ASSUME NEW x \in ToSet(s) PROVE x \in ToSet(r)
    <2>1. PICK k \in 1..n : s[k] = x
        BY <1>9
    <2>2. CASE k <= i
        <3>1. k \in 1..n + 1 /\ r[k] = s[k]
            BY <1>11, <2>2
        <3>2. QED
            BY <1>10, <2>1, <3>1
    <2>3. CASE ~ (k <= i)
        <3>1. k + 1 \in 1..n + 1 /\ ~ (k + 1 <= i) /\ k + 1 # i + 1 /\ (k + 1) - 1 = k
            BY <1>12, <2>3
        <3>2. r[k + 1] = s[k]
            BY <1>11, <3>1
        <3>3. QED
            BY <1>10, <2>1, <3>1, <3>2
    <2>4. QED
        BY <2>2, <2>3
<1>14. p \in ToSet(r)
    <2>1. i + 1 \in 1..n + 1 /\ ~ (i + 1 <= i)
        BY <1>12
    <2>2. r[i + 1] = p
        BY <1>11, <2>1
    <2>3. QED
        BY <1>10, <2>1, <2>2
\* Where a place of the new list comes from in the old one.
<1>15. \A k \in 1..n + 1 : k # i + 1 =>
            \E u \in 1..n : r[k] = s[u] /\ u = IF k <= i THEN k ELSE k - 1
    <2>1. TAKE k \in 1..n + 1
    <2>2. HAVE k # i + 1
    <2>3. CASE k <= i
        BY <1>11, <1>12, <2>3
    <2>4. CASE ~ (k <= i)
        <3>1. k - 1 \in 1..n /\ r[k] = s[k - 1]
            BY <1>11, <1>12, <2>2, <2>4
        <3>2. QED
            BY <2>4, <3>1
    <2>5. QED
        BY <2>3, <2>4
<1>16. r[i + 1] = p
    BY <1>11, <1>12
<1>17. ASSUME NEW x \in ToSet(r) PROVE x \in ToSet(s) \cup {p}
    BY <1>9, <1>10, <1>15, <1>16
<1>18. ASSUME IsInjective(s), p \notin ToSet(s) PROVE IsInjective(r)
    <2>1. \A u, v \in 1..n : s[u] = s[v] => u = v
        BY <1>1, <1>8, <1>18 DEF IsInjective
    <2>2. ASSUME NEW k \in 1..n + 1, NEW l \in 1..n + 1, r[k] = r[l] PROVE k = l
        <3>1. CASE k # i + 1 /\ l # i + 1
            <4>1. PICK u \in 1..n : r[k] = s[u] /\ u = IF k <= i THEN k ELSE k - 1
                BY <1>15, <3>1
            <4>2. PICK v \in 1..n : r[l] = s[v] /\ v = IF l <= i THEN l ELSE l - 1
                BY <1>15, <3>1
            <4>3. u = v
                BY <2>1, <2>2, <4>1, <4>2
            <4>4. QED
                BY <1>12, <3>1, <4>1, <4>2, <4>3
        <3>2. \A e \in 1..n + 1 : e # i + 1 => r[e] # p
            BY <1>9, <1>15, <1>18
        <3>3. QED
            BY <1>16, <2>2, <3>1, <3>2
    <2>3. QED
        BY <1>10, <2>2 DEF IsInjective
<1>19. QED
    BY <1>13, <1>14, <1>17, <1>18

LEMMA InsertSet ==
    ASSUME NEW S, NEW s \in Seq(S), NEW i \in Nat, NEW p \in S,
           NEW r, r = Insert(s, i, p)
    PROVE  /\ ToSet(r) = ToSet(s) \cup {p}
           /\ IsInjective(s) /\ p \notin ToSet(s) => IsInjective(r)
<1>1. CASE i > Len(s)
    BY <1>1, AppendSet DEF Insert
<1>2. CASE ~ (i > Len(s))
    <2>1. Len(s) \in Nat
        BY SeqFacts
    <2>2. i \in 0..Len(s)
        BY <1>2, <2>1
    <2>3. r = InsertAt(s, i + 1, p)
        BY <1>2 DEF Insert
    <2>4. QED
        BY <2>2, <2>3, InsertAtSet
<1>3. QED
    BY <1>1, <1>2

\* Reordering a list neither loses a prompt of it nor repeats one: an injection of
\* its places into themselves reaches each of them.
LEMMA PermutedSet ==
    ASSUME NEW S, NEW s \in Seq(S), NEW q \in Permuted(s)
    PROVE  /\ ToSet(q) = ToSet(s)
           /\ IsInjective(s) => IsInjective(q)
<1>1. Len(s) \in Nat /\ DOMAIN s = 1..Len(s)
    BY SeqFacts
<1> DEFINE D == 1..Len(s)
<1>2. PICK f \in [D -> D] : IsInjective(f) /\ q = [i \in D |-> s[f[i]]]
    BY <1>1 DEF Permuted
<1>3. \A i, j \in D : f[i] = f[j] => i = j
    BY <1>2 DEF IsInjective
<1>4. IsFiniteSet(D)
    BY <1>1, FS_Interval
<1>5. DOMAIN q = D /\ \A i \in D : q[i] = s[f[i]] /\ f[i] \in D
    BY <1>2
<1> HIDE DEF D
<1>6. f \in Injection(D, D)
    BY <1>2, <1>3, Fun_IsInj
<1>7. f \in Surjection(D, D)
    BY <1>4, <1>6, FS_Injection
<1>8. \A j \in D : \E i \in D : f[i] = j
    BY <1>7 DEF Surjection
<1>9. ToSet(s) = {s[i] : i \in D} /\ ToSet(q) = {q[i] : i \in D}
    BY <1>1, <1>5 DEF ToSet, D
<1>10. ToSet(q) = ToSet(s)
    BY <1>5, <1>8, <1>9
<1>11. ASSUME IsInjective(s) PROVE IsInjective(q)
    BY <1>1, <1>3, <1>5, <1>11 DEF IsInjective, D
<1>12. QED
    BY <1>10, <1>11

-----------------------------------------------------------------------------
\* Where a goroutine is tells what it is doing: nothing between two jobs, a prompt
\* of the right kind at the labels that hand one on.

Fits(l, t) ==
    /\ l # "stale"
    /\ l \in {"out", "drain", "claim", "toFinish", "finish", "close", "recover"} => t = NoTask
    /\ l = "append" => t.kind \in {"queue", "direct"} /\ t.p \in Public
    /\ l = "enqueue" => t.kind = "queue" /\ t.p \in Internal
    /\ l \in {"delete", "reorder"} => t.kind = "queue"
    /\ l \in {"begin", "busy", "requeue"} => t.kind = "direct"
    /\ l \in {"steer", "steering", "cancel", "cancelWait", "cancelDone", "toClear", "clear"} =>
          t.kind = "steer"
    /\ l \in {"act", "acted"} => t.kind = "claim" /\ t.p \in Actions
    /\ l = "restore" => t.kind \in {"claim", "steer"}
    /\ l \in Handing => t.kind \in {"claim", "goal", "steer", "direct", "ext", "recover"}
    /\ t.kind \in {"steer", "direct", "ext"} => t.p \in Public
    /\ t.kind = "goal" => t.p = None

TasksFit == \A g \in Procs : Fits(at[g], task[g])

LEMMA OneMoves ==
    ASSUME TasksFit, NEW g \in Procs, Fits(at'[g], task'[g]),
           \A h \in Procs : h # g => at'[h] = at[h] /\ task'[h] = task[h]
    PROVE  TasksFit'
BY DEF TasksFit

LEMMA GotoFits ==
    ASSUME TInv, TasksFit, NEW g \in Procs, NEW l \in Labels, Goto(g, l),
           l \in {"out", "drain"} \/ Fits(l, task[g])
    PROVE  TasksFit'
<1>1. at'[g] = l /\ \A h \in Procs : h # g => at'[h] = at[h]
    BY DEF Goto, TInv, WorkOK
<1>2. \A h \in Procs : h # g => task'[h] = task[h]
    BY DEF Goto, TInv, WorkOK
<1>3. task'[g] = IF l \in {"out", "drain"} THEN NoTask ELSE task[g]
    BY DEF Goto, TInv, WorkOK
<1>4. \A k \in {"out", "drain"} : Fits(k, NoTask)
    BY DEF Fits, NoTask, Task, Handing
<1>5. QED
    BY <1>1, <1>2, <1>3, <1>4, OneMoves

LEMMA LoadFits ==
    ASSUME TInv, TasksFit, NEW g \in Procs, NEW l \in Labels, Load(g, l), task' = task,
           Fits(l, task[g])
    PROVE  TasksFit'
<1>1. at'[g] = l /\ \A h \in Procs : h # g => at'[h] = at[h]
    BY DEF Load, TInv, WorkOK
<1>2. QED
    BY <1>1, OneMoves

LEMMA RequestFits ==
    ASSUME TInv, TasksFit, NEW g \in Procs, NEW l \in Labels, NEW k \in Kinds,
           NEW p \in Prompts \cup {None}, Request(g, l, k, p), Fits(l, Task(k, p, 0))
    PROVE  TasksFit'
<1>1. at'[g] = l /\ \A h \in Procs : h # g => at'[h] = at[h]
    BY DEF Request, Load, TInv, WorkOK
<1>2. task'[g] = Task(k, p, 0) /\ \A h \in Procs : h # g => task'[h] = task[h]
    BY DEF Request, TInv, WorkOK
<1>3. QED
    BY <1>1, <1>2, OneMoves

LEMMA RunTurnFits ==
    ASSUME TInv, TasksFit, NEW g \in Procs, at[g] = "claim", NEW k \in {"claim", "goal"},
           NEW p \in Prompts \cup {None}, k = "goal" <=> p = None, RunTurn(g, k, p)
    PROVE  TasksFit'
<1>1. PICK r \in Procs :
        /\ Runs(g, r)
        /\ at' = [at EXCEPT ![g] = AfterDrain(g), ![r] = IF p \in Actions THEN "act" ELSE "send"]
        /\ task' = [task EXCEPT ![r] = Task(k, p, 0)]
    BY DEF RunTurn
<1>2. /\ at'[r] = IF p \in Actions THEN "act" ELSE "send"
      /\ task'[r] = Task(k, p, 0)
    BY <1>1 DEF TInv, WorkOK
<1>3. Task(k, p, 0).kind = k /\ Task(k, p, 0).p = p
    BY DEF Task
<1>4. Fits(at'[r], task'[r])
    <2>1. p \in Actions => k = "claim"
        BY QueueAssumption DEF Prompts
    <2>2. CASE p \in Actions
        BY <1>2, <1>3, <2>1, <2>2 DEF Fits, Handing
    <2>3. CASE p \notin Actions
        BY <1>2, <1>3, <2>3 DEF Fits, Handing
    <2>4. QED
        BY <2>2, <2>3
<1>5. ASSUME NEW h \in Procs, h # r PROVE Fits(at'[h], task'[h])
    <2>1. task'[h] = task[h] /\ Fits(at[h], task[h])
        BY <1>1, <1>5 DEF TInv, WorkOK, TasksFit
    <2>2. CASE h = g
        <3>1. task[g] = NoTask
            BY DEF TasksFit, Fits
        <3>2. at'[g] \in {"close", "out"}
            BY <1>1, <1>5, <2>2 DEF AfterDrain, TInv, WorkOK
        <3>3. \A l \in {"close", "out"} : Fits(l, NoTask)
            BY DEF Fits, NoTask, Task, Handing
        <3>4. QED
            BY <2>1, <2>2, <3>1, <3>2, <3>3
    <2>3. CASE h # g
        <3>1. at'[h] = at[h]
            BY <1>1, <1>5, <2>3 DEF TInv, WorkOK
        <3>2. QED
            BY <2>1, <3>1
    <2>4. QED
        BY <2>2, <2>3
<1>6. QED
    BY <1>4, <1>5 DEF TasksFit

LEMMA RequestsFit ==
    ASSUME NoUnlockedSaves, TInv, TasksFit, NEW g \in Procs, Requests(g)
    PROVE  TasksFit'
<1>1. \A p \in Prompts : p # None
    BY QueueAssumption
<1>2. ASSUME NEW p \in Public, RequestAppend(g, p) PROVE TasksFit'
    <2>1. Request(g, "append", "queue", p)
        BY <1>2 DEF RequestAppend
    <2>2. Fits("append", Task("queue", p, 0))
        BY DEF Fits, Task, Handing
    <2>3. QED
        BY <2>1, <2>2, RequestFits DEF Labels, Saving, Kinds, Prompts
<1>3. ASSUME NEW p \in Public, RequestDelete(g, p) PROVE TasksFit'
    <2>1. Request(g, "delete", "queue", p)
        BY <1>3 DEF RequestDelete
    <2>2. Fits("delete", Task("queue", p, 0))
        BY DEF Fits, Task, Handing
    <2>3. QED
        BY <2>1, <2>2, RequestFits DEF Labels, Saving, Kinds, Prompts
<1>4. ASSUME NEW p \in Public, RequestSteer(g, p) PROVE TasksFit'
    <2>1. Request(g, "steer", "steer", p)
        BY <1>4 DEF RequestSteer
    <2>2. Fits("steer", Task("steer", p, 0))
        BY DEF Fits, Task, Handing
    <2>3. QED
        BY <2>1, <2>2, RequestFits DEF Labels, Saving, Kinds, Prompts
<1>5. ASSUME NEW p \in Public, RequestBegin(g, p) PROVE TasksFit'
    <2>1. Request(g, "begin", "direct", p)
        BY <1>5 DEF RequestBegin
    <2>2. Fits("begin", Task("direct", p, 0))
        BY DEF Fits, Task, Handing
    <2>3. QED
        BY <2>1, <2>2, RequestFits DEF Labels, Saving, Kinds, Prompts
<1>6. ASSUME NEW p \in Public, SendExternal(g, p) PROVE TasksFit'
    <2>1. Fits("send", Task("ext", p, 0))
        BY DEF Fits, Task, Handing
    <2>2. /\ at'[g] = "send" /\ task'[g] = Task("ext", p, 0)
          /\ \A h \in Procs : h # g => at'[h] = at[h] /\ task'[h] = task[h]
        BY <1>6 DEF SendExternal, TInv, WorkOK
    <2>3. QED
        BY <2>1, <2>2, OneMoves
<1>7. ASSUME NEW p \in Internal, RequestEnqueue(g, p) PROVE TasksFit'
    <2>1. Request(g, "enqueue", "queue", p)
        BY <1>7 DEF RequestEnqueue
    <2>2. Fits("enqueue", Task("queue", p, 0))
        BY DEF Fits, Task, Handing
    <2>3. QED
        BY <2>1, <2>2, RequestFits DEF Labels, Saving, Kinds, Prompts
<1>8. CASE RequestReorder(g)
    <2>1. Request(g, "reorder", "queue", None)
        BY <1>8 DEF RequestReorder
    <2>2. Fits("reorder", Task("queue", None, 0))
        BY DEF Fits, Task, Handing
    <2>3. QED
        BY <2>1, <2>2, RequestFits DEF Labels, Saving, Kinds
<1>9. ~ CancelStored(g)
    BY DEF CancelStored, NoUnlockedSaves
<1>10. QED
    BY <1>2, <1>3, <1>4, <1>5, <1>6, <1>7, <1>8, <1>9 DEF Requests

LEMMA HandlersFit ==
    ASSUME TInv, TasksFit, NEW g \in Procs, Handlers(g)
    PROVE  TasksFit'
<1> USE DEF Labels, Saving, Handing
<1>1. Fits(at[g], task[g])
    BY DEF TasksFit
<1>2. ASSUME AppendPrompt(g) \/ DeletePrompt(g) \/ ReorderPrompts(g) \/ EnqueueInternalTurn(g)
      PROVE  TasksFit'
    <2>1. PICK l \in {"out", "drain"} : Goto(g, l)
        BY <1>2 DEF AppendPrompt, DeletePrompt, ReorderPrompts, EnqueueInternalTurn, Save,
            AfterMutation
    <2>2. QED
        BY <2>1, GotoFits
<1>3. CASE Drain(g)
    <2>1. task[g] = NoTask /\ task' = task
        BY <1>1, <1>3 DEF Drain, Fits
    <2>2. \A k \in {"out", "claim"} : Fits(k, NoTask)
        BY DEF Fits, NoTask, Task
    <2>3. CASE Load(g, "claim")
        BY <2>1, <2>2, <2>3, LoadFits
    <2>4. CASE at' = [at EXCEPT ![g] = "out"]
        <3>1. at'[g] = "out" /\ \A h \in Procs : h # g => at'[h] = at[h]
            BY <2>4 DEF TInv, WorkOK
        <3>2. QED
            BY <2>1, <2>2, <3>1, OneMoves
    <2>5. QED
        BY <1>3, <2>3, <2>4 DEF Drain
<1>4. CASE ClaimPrompt(g)
    <2>1. copy[g] \in Rows
        BY <1>4 DEF ClaimPrompt, TInv, WorkOK
    <2>2. NextPrompt(copy[g]) \in Prompts
        BY <1>4, <2>1, NextPromptIsPrompt DEF ClaimPrompt
    <2>3. NextPrompt(copy[g]) # None
        BY <2>2, QueueAssumption
    <2>4. QED
        BY <1>4, <2>2, <2>3, RunTurnFits DEF ClaimPrompt
<1>5. CASE ClaimGoal(g)
    BY <1>5, RunTurnFits DEF ClaimGoal
<1>6. CASE ClaimNothing(g)
    <2>1. task[g] = NoTask /\ task' = task
        BY <1>1, <1>6 DEF ClaimNothing, Fits
    <2>2. \A k \in {"out", "close"} : Fits(k, NoTask)
        BY DEF Fits, NoTask, Task
    <2>3. at'[g] \in {"out", "close"} /\ \A h \in Procs : h # g => at'[h] = at[h]
        BY <1>6 DEF ClaimNothing, AfterDrain, TInv, WorkOK
    <2>4. QED
        BY <2>1, <2>2, <2>3, OneMoves
<1>7. CASE FinishAction(g) \/ RestorePrompt(g) \/ BeginFails(g) \/ BusySteers(g) \/ BusyRejects(g)
           \/ ClearSteer(g) \/ CancelStoredSave(g)
    <2>1. PICK l \in {"out", "drain"} : Goto(g, l)
        BY <1>7 DEF FinishAction, RestorePrompt, BeginFails, BusySteers, BusyRejects,
            ClearSteer, CancelStoredSave, Save
    <2>2. QED
        BY <2>1, GotoFits
<1>8. CASE FailTurn(g)
    <2>1. Fits("failed", task[g])
        BY <1>1, <1>8 DEF FailTurn, Fits
    <2>2. QED
        BY <1>8, <2>1, GotoFits DEF FailTurn
<1>9. CASE LoadRestore(g)
    <2>1. Fits("restore", task[g])
        BY <1>1, <1>9 DEF LoadRestore, Fits
    <2>2. QED
        BY <1>9, <2>1, LoadFits DEF LoadRestore
<1>10. CASE ClaimSteered(g)
    <2>1. PICK i \in DOMAIN copy[g].pub : task' = [task EXCEPT ![g].idx = i - 1]
        BY <1>10 DEF ClaimSteered
    <2>2. /\ task'[g].kind = task[g].kind /\ task'[g].p = task[g].p
          /\ \A h \in Procs : h # g => task'[h] = task[h]
        BY <2>1 DEF TInv, WorkOK, Tasks
    <2>3. at'[g] \in {"steering", "send"} /\ \A h \in Procs : h # g => at'[h] = at[h]
        BY <1>10 DEF ClaimSteered, TInv, WorkOK
    <2>4. Fits(at'[g], task'[g])
        BY <1>1, <1>10, <2>2, <2>3 DEF ClaimSteered, Fits
    <2>5. QED
        BY <2>2, <2>3, <2>4, OneMoves
<1>11. CASE SteerTaken(g)
    <2>1. Fits("toClear", task[g])
        BY <1>1, <1>11 DEF SteerTaken, Fits
    <2>2. QED
        BY <1>11, <2>1, GotoFits DEF SteerTaken
<1>12. CASE SteerRefused(g)
    <2>1. Fits("failed", task[g])
        BY <1>1, <1>12 DEF SteerRefused, Fits
    <2>2. QED
        BY <1>12, <2>1, GotoFits DEF SteerRefused
<1>13. CASE SteerUnsupported(g)
    <2>1. Fits("cancel", task[g])
        BY <1>1, <1>13 DEF SteerUnsupported, Fits
    <2>2. QED
        BY <1>13, <2>1, GotoFits DEF SteerUnsupported
<1>14. CASE SteerCancel(g)
    <2>1. \A l \in {"cancelWait", "cancelDone"} : Fits(l, task[g])
        BY <1>1, <1>14 DEF SteerCancel, Fits
    <2>2. PICK l \in {"cancelWait", "cancelDone"} : Goto(g, l)
        BY <1>14 DEF SteerCancel
    <2>3. QED
        BY <2>1, <2>2, GotoFits
<1>15. CASE SteerAfterCancel(g)
    <2>1. Fits("send", task[g])
        BY <1>1, <1>15 DEF SteerAfterCancel, Fits
    <2>2. QED
        BY <1>15, <2>1, GotoFits DEF SteerAfterCancel
<1>16. CASE LoadClear(g)
    <2>1. Fits("clear", task[g])
        BY <1>1, <1>16 DEF LoadClear, Fits
    <2>2. QED
        BY <1>16, <2>1, LoadFits DEF LoadClear
<1>17. CASE Begin(g)
    <2>1. \A l \in {"busy", "send"} : Fits(l, task[g])
        BY <1>1, <1>17 DEF Begin, Fits
    <2>2. PICK l \in {"busy", "send"} : Goto(g, l)
        BY <1>17 DEF Begin, Save
    <2>3. QED
        BY <2>1, <2>2, GotoFits
<1>18. CASE BusyQueues(g)
    <2>1. Fits("requeue", task[g])
        BY <1>1, <1>18 DEF BusyQueues, Fits
    <2>2. QED
        BY <1>18, <2>1, GotoFits DEF BusyQueues
<1>19. CASE LoadRequeue(g)
    <2>1. Fits("append", task[g])
        BY <1>1, <1>19 DEF LoadRequeue, Fits
    <2>2. QED
        BY <1>19, <2>1, LoadFits DEF LoadRequeue
<1>20. CASE RunAction(g)
    <2>1. Fits("acted", task[g])
        BY <1>1, <1>20 DEF RunAction, Fits
    <2>2. QED
        BY <1>20, <2>1, GotoFits DEF RunAction
<1>21. CASE SteerCancelGivesUp(g)
    <2>1. Fits("cancelDone", task[g])
        BY <1>1, <1>21 DEF SteerCancelGivesUp, Fits
    <2>2. QED
        BY <1>21, <2>1, GotoFits DEF SteerCancelGivesUp
<1>22. QED
    BY <1>2, <1>3, <1>4, <1>5, <1>6, <1>7, <1>8, <1>9, <1>10, <1>11, <1>12, <1>13, <1>14,
        <1>15, <1>16, <1>17, <1>18, <1>19, <1>20, <1>21 DEF Handlers

LEMMA SendingFits ==
    ASSUME TInv, TasksFit, NEW g \in Procs, Sending(g)
    PROVE  TasksFit'
<1> USE DEF Labels, Saving, Handing
<1>1. Fits(at[g], task[g])
    BY DEF TasksFit
<1>2. ASSUME at[g] \in Handing PROVE \A l \in Handing : Fits(l, task[g])
    BY <1>1, <1>2 DEF Fits
<1>3. CASE SendStart(g) \/ SendFailed(g)
    <2>1. at[g] \in {"mark", "failed"} /\ Goto(g, AfterSend(task[g].kind))
        BY <1>3 DEF SendStart, SendFailed
    <2>2. CASE task[g].kind = "steer"
        <3>1. Fits("toClear", task[g])
            BY <1>1, <2>1, <2>2 DEF Fits
        <3>2. QED
            BY <2>1, <2>2, <3>1, GotoFits DEF AfterSend
    <2>3. CASE task[g].kind # "steer"
        <3>1. PICK l \in {"out", "drain"} : Goto(g, l)
            BY <2>1, <2>3 DEF AfterSend
        <3>2. QED
            BY <3>1, GotoFits
    <2>4. QED
        BY <2>2, <2>3
<1>4. CASE ~ (SendStart(g) \/ SendFailed(g))
    <2>1. at[g] \in Handing
        BY <1>4 DEF Sending, SendResume, SendResumed, SendConflict, SendWait, SendMark,
            SendGoalGone, SendAppendFails
    <2>2. PICK l \in Handing : Goto(g, l)
        BY <1>4 DEF Sending, SendResume, SendResumed, SendConflict, SendWait, SendMark,
            SendGoalGone, SendAppendFails
    <2>3. QED
        BY <1>2, <2>1, <2>2, GotoFits
<1>5. QED
    BY <1>3, <1>4

LEMMA OthersFit ==
    ASSUME TInv, TasksFit, TurnEnd \/ UserCancel \/ ChangeGoal \/ Crash \/ Restart \/ AtRest
    PROVE  TasksFit'
<1> USE DEF Labels, Saving, Handing
<1>1. Finisher \in Procs /\ Recovery \in Procs
    BY DEF Procs
<1>2. /\ Fits(at[Finisher], task[Finisher])
      /\ Fits(at[Recovery], task[Recovery])
    BY <1>1 DEF TasksFit
<1>3. \A l \in {"toFinish", "finish", "drain", "close", "out", "recover"} : Fits(l, NoTask)
    BY DEF Fits, NoTask, Task
<1>4. CASE EndTurn
    <2>1. /\ task' = task /\ task[Finisher] = NoTask
          /\ at'[Finisher] = "toFinish" /\ \A h \in Procs : h # Finisher => at'[h] = at[h]
        BY <1>1, <1>2, <1>4 DEF EndTurn, Fits, TInv, WorkOK
    <2>2. QED
        BY <1>1, <1>3, <2>1, OneMoves
<1>5. CASE LoadFinish
    <2>1. task' = task /\ task[Finisher] = NoTask /\ Load(Finisher, "finish")
        BY <1>2, <1>5 DEF LoadFinish, Fits
    <2>2. QED
        BY <1>1, <1>3, <2>1, LoadFits
<1>6. CASE Finish
    <2>1. task' = task /\ task[Finisher] = NoTask
        BY <1>2, <1>6 DEF Finish, Fits
    <2>2. at'[Finisher] \in {"drain", "close"} /\ \A h \in Procs : h # Finisher => at'[h] = at[h]
        BY <1>1, <1>6 DEF Finish, AfterFinish, TInv, WorkOK
    <2>3. QED
        BY <1>1, <1>3, <2>1, <2>2, OneMoves
<1>7. CASE CloseTurn
    <2>1. task' = task
        BY <1>7 DEF CloseTurn
    <2>2. ASSUME NEW h \in Procs PROVE Fits(at'[h], task[h])
        <3>1. at'[h] = IF h = Finisher THEN "out" ELSE Wake(at[h])
            BY <1>7 DEF CloseTurn
        <3>2. Fits(at[h], task[h])
            BY DEF TasksFit
        <3>3. CASE h = Finisher
            <4>1. task[h] = NoTask
                BY <1>7, <3>2, <3>3 DEF CloseTurn, Fits
            <4>2. QED
                BY <1>3, <3>1, <3>3, <4>1
        <3>4. CASE h # Finisher /\ at[h] = "wait"
            BY <3>1, <3>2, <3>4 DEF Wake, Fits
        <3>5. CASE h # Finisher /\ at[h] = "cancelWait"
            BY <3>1, <3>2, <3>5 DEF Wake, Fits
        <3>6. CASE h # Finisher /\ at[h] \notin {"wait", "cancelWait"}
            BY <3>1, <3>2, <3>6 DEF Wake
        <3>7. QED
            BY <3>3, <3>4, <3>5, <3>6
    <2>3. QED
        BY <2>1, <2>2 DEF TasksFit
<1>8. CASE UserCancel \/ ChangeGoal \/ AtRest
    <2>1. at' = at /\ task' = task
        BY <1>8 DEF UserCancel, ChangeGoal, AtRest, vars
    <2>2. QED
        BY <2>1 DEF TasksFit
<1>9. CASE Crash
    <2>1. \A h \in Procs : at'[h] \in {"recover", "out"} /\ task'[h] = NoTask
        BY <1>9 DEF Crash
    <2>2. QED
        BY <1>3, <2>1 DEF TasksFit
<1>10. CASE RecoverNothing
    BY <1>1, <1>10, GotoFits DEF RecoverNothing
<1>11. CASE RecoverTurn
    <2> DEFINE p == IF row.turn \in Prompts THEN row.turn ELSE None
    <2>1. /\ at'[Recovery] = "send" /\ \A h \in Procs : h # Recovery => at'[h] = at[h]
          /\ task'[Recovery] = Task("recover", p, 0)
          /\ \A h \in Procs : h # Recovery => task'[h] = task[h]
        BY <1>1, <1>11 DEF RecoverTurn, TInv, WorkOK
    <2>2. Fits("send", Task("recover", p, 0))
        BY DEF Fits, Task
    <2>3. QED
        BY <1>1, <2>1, <2>2, OneMoves
<1>12. CASE RecoverAction
    <2>1. PICK r \in Runners :
            /\ at' = [at EXCEPT ![Recovery] = "drain", ![r] = "act"]
            /\ task' = [task EXCEPT ![r] = Task("claim", row.turn, 0)]
        BY <1>12 DEF RecoverAction
    <2>2. r \in Procs /\ r # Recovery
        BY QueueAssumption DEF Procs
    <2>3. /\ at'[Recovery] = "drain" /\ at'[r] = "act"
          /\ \A h \in Procs : h \notin {Recovery, r} => at'[h] = at[h]
          /\ task'[r] = Task("claim", row.turn, 0)
          /\ \A h \in Procs : h # r => task'[h] = task[h]
        BY <1>1, <2>1, <2>2 DEF TInv, WorkOK
    <2>4. Fits("act", Task("claim", row.turn, 0))
        BY <1>12 DEF RecoverAction, Fits, Task
    <2>5. task[Recovery] = NoTask
        BY <1>2, <1>12 DEF RecoverAction, Fits
    <2>6. QED
        BY <1>3, <2>2, <2>3, <2>4, <2>5 DEF TasksFit
<1>13. QED
    BY <1>4, <1>5, <1>6, <1>7, <1>8, <1>9, <1>10, <1>11, <1>12 DEF TurnEnd, Restart

LEMMA InitFits == Init => TasksFit
BY DEF Init, TasksFit, Fits, NoTask, Task, Handing

LEMMA NextFits ==
    ASSUME NoUnlockedSaves, TInv, TasksFit, [Next]_vars
    PROVE  TasksFit'
<1>1. ASSUME NEW g \in Goroutines, Requests(g) PROVE TasksFit'
    BY <1>1, RequestsFit DEF Procs
<1>2. ASSUME NEW g \in Procs, Handlers(g) PROVE TasksFit'
    BY <1>2, HandlersFit
<1>3. ASSUME NEW g \in Procs, Sending(g) PROVE TasksFit'
    BY <1>3, SendingFits
<1>4. CASE TurnEnd \/ UserCancel \/ ChangeGoal \/ Crash \/ Restart \/ AtRest
    BY <1>4, OthersFit
<1>5. CASE UNCHANGED vars
    BY <1>5 DEF vars, TasksFit
<1>6. QED
    BY <1>1, <1>2, <1>3, <1>4, <1>5 DEF Next

-----------------------------------------------------------------------------
\* Where every prompt is. It is in the queue, or one goroutine has it: on its way
\* into the queue (not acknowledged yet) or on its way to the agent; once it has
\* reached the agent or was deleted it is in neither. Only then is a step that
\* stores, restores or starts a prompt sure not to double it.

Carrying == Handing \cup {"act", "steering", "cancel", "cancelWait", "cancelDone", "restore"}
Owning == Carrying \cup {"append", "enqueue", "begin", "busy", "requeue"}
Owns(g, p) == task[g].p = p /\ at[g] \in Owning

InQueue == ToSet(row.pub) \cup ToSet(row.int)

Lists ==
    /\ IsInjective(row.pub) /\ IsInjective(row.int)
    /\ ToSet(row.pub) \subseteq Public /\ ToSet(row.int) \subseteq Internal

\* The agent may get p: not yet, or since a restart found the action p at work not again.
Due(p) == starts[p] < MostStarts(p)

Ledger ==
    /\ \A p \in Prompts : p \in InQueue => p \in accepted /\ p \notin deleted /\ Due(p)
    /\ deleted \subseteq accepted
    /\ \A p \in Prompts : starts[p] <= MostStarts(p)
    /\ \A p \in deleted : Due(p)

Owners ==
    \A g \in Procs, p \in Prompts : Owns(g, p) =>
        /\ p \notin InQueue /\ p \notin deleted /\ Due(p)
        /\ p \in accepted <=> task[g].kind \in {"claim", "steer", "recover"}

Apart ==
    \A g, h \in Procs, p \in Prompts : Owns(g, p) /\ Owns(h, p) => g = h

\* The prompt of the stored turn was claimed and has not reached the agent; an action
\* may have run, until the write that forgets it.
Turns ==
    \A p \in Prompts : row.turn = p =>
        /\ p \in accepted /\ p \notin deleted /\ (p \in Actions \/ Due(p)) /\ p \notin InQueue
        /\ \A g \in Procs : Owns(g, p) => task[g].kind # "steer" /\ at[g] # "mark"

\* The recovery resumes the stored turn only if nobody else has claimed it and, an
\* action, not run it since the restart: the session is interrupted, or someone is about
\* to save that it is.
MayInterrupt ==
    \/ row.status = "interrupted"
    \/ \E h \in Procs : at[h] \in Saving /\ copy[h].status = "interrupted"

Resumable ==
    at[Recovery] = "recover" /\ MayInterrupt =>
        \A p \in Prompts : row.turn = p => Due(p) /\ \A g \in Procs : ~ Owns(g, p)

\* What a restart disturbs.
Kept ==
    \A p \in Prompts : p \in accepted /\ p \notin deleted /\ starts[p] = 0 =>
        p \in InQueue \/ \E g \in Procs : task[g].p = p /\ at[g] \in Carrying

NoRecovery == \A g \in Procs : at[g] # "recover" /\ task[g].kind # "recover"

Undisturbed == crashes = 0 => NoRecovery /\ Kept /\ PendingSteerAttended

PromptsInv ==
    /\ Lists /\ Ledger /\ Owners /\ Apart /\ Turns /\ Resumable /\ Undisturbed

\* A step that leaves every prompt where it is.
QuietRow ==
    /\ Lists'
    /\ InQueue' = InQueue
    /\ row'.turn \in {row.turn, None, Sent}
    /\ row'.status = "interrupted" => MayInterrupt

QuietSteer ==
    \/ row'.steer = None
    \/ /\ row'.steer = row.steer
       /\ \A h \in Procs : task[h].kind = "steer" /\ at[h] # "steer" =>
              task'[h].kind = "steer" /\ at'[h] # "steer"

QuietTasks ==
    /\ \A h \in Procs : at'[h] = "recover" => at[h] = "recover"
    /\ \A h \in Procs : task'[h].kind = "recover" => task[h].kind = "recover"
    /\ \A h \in Procs : at'[h] \in Saving /\ copy'[h].status = "interrupted" => MayInterrupt
    /\ \A h \in Procs : at'[h] = "mark" => at[h] = "mark" \/ row'.turn = Sent

QuietOwners ==
    /\ \A h \in Procs, p \in Prompts : Owns(h, p)' =>
          Owns(h, p) /\ task'[h].kind = task[h].kind
    /\ \A h \in Procs : at[h] \in Carrying /\ task[h].kind \in {"claim", "steer"} =>
          at'[h] \in Carrying /\ task'[h].p = task[h].p

LEMMA NotPrompts == None \notin Prompts /\ Sent \notin Prompts
BY QueueAssumption

\* What may be started changes with the starts and the restarts alone.
LEMMA SameDue ==
    ASSUME cut' = cut, NEW p, starts'[p] = starts[p]
    PROVE  /\ Due(p)' <=> Due(p)
           /\ MostStarts(p)' = MostStarts(p)
BY DEF Due, MostStarts

LEMMA SameDues ==
    ASSUME cut' = cut, starts' = starts
    PROVE  \A q \in Prompts : (Due(q)' <=> Due(q)) /\ MostStarts(q)' = MostStarts(q)
BY SameDue

LEMMA MostStartsPositive ==
    ASSUME TInv, NEW p \in Prompts
    PROVE  MostStarts(p) \in Nat /\ MostStarts(p) > 0 /\ starts[p] \in Nat
<1>1. starts[p] \in Nat /\ crashes \in Nat
    BY QueueAssumption DEF TInv, RestOK
<1>2. p \in Actions => cut[p] \in Nat
    BY <1>1 DEF TInv, RestOK
<1>3. QED
    BY <1>1, <1>2 DEF MostStarts

\* What was due may be started once.
LEMMA StartedDue ==
    ASSUME TInv, NEW p \in Prompts, Due(p), cut' = cut,
           starts' = [starts EXCEPT ![p] = @ + 1]
    PROVE  /\ starts'[p] # 0 /\ starts'[p] <= MostStarts(p)'
           /\ \A q \in Prompts : q # p => starts'[q] = starts[q]
<1>1. MostStarts(p) \in Nat /\ starts[p] \in Nat /\ starts[p] < MostStarts(p)
    BY MostStartsPositive DEF Due
<1>2. MostStarts(p)' = MostStarts(p)
    BY DEF MostStarts
<1>3. starts'[p] = starts[p] + 1 /\ \A q \in Prompts : q # p => starts'[q] = starts[q]
    BY DEF TInv, RestOK
<1>4. QED
    BY <1>1, <1>2, <1>3

\* Before the first restart only what has not been started may be.
LEMMA DueBeforeRestarts ==
    ASSUME TInv, crashes = 0, NEW p \in Prompts
    PROVE  Due(p) <=> starts[p] = 0
<1>1. starts[p] \in Nat
    BY DEF TInv, RestOK
<1>2. p \in Actions => cut[p] = 0
    BY DEF TInv, RestOK
<1>3. QED
    BY <1>1, <1>2 DEF Due, MostStarts

LEMMA QuietKeeps ==
    ASSUME TInv, PromptsInv, ledger' = ledger, crashes' = crashes,
           QuietRow, QuietSteer, QuietTasks, QuietOwners
    PROVE  PromptsInv'
<1>1. /\ accepted' = accepted /\ deleted' = deleted /\ starts' = starts
      /\ \A p \in Prompts : (Due(p)' <=> Due(p)) /\ MostStarts(p)' = MostStarts(p)
    BY SameDue DEF ledger
<1>2. Lists' /\ InQueue' = InQueue
    BY DEF QuietRow
<1>3. Ledger'
    BY <1>1, <1>2 DEF PromptsInv, Ledger, TInv, RestOK
<1>4. \A h \in Procs, p \in Prompts : Owns(h, p)' =>
            Owns(h, p) /\ task'[h].kind = task[h].kind
    BY DEF QuietOwners
<1>5. Owners'
    BY <1>1, <1>2, <1>4 DEF PromptsInv, Owners
<1>6. Apart'
    BY <1>4 DEF PromptsInv, Apart
<1>7. \A p \in Prompts : row'.turn = p => row.turn = p
    BY NotPrompts DEF QuietRow
<1>8. Turns'
    <2>1. SUFFICES ASSUME NEW p \in Prompts, row'.turn = p
                   PROVE  /\ p \in accepted /\ p \notin deleted /\ (p \in Actions \/ Due(p))
                          /\ p \notin InQueue
                          /\ \A g \in Procs : Owns(g, p)' => task'[g].kind # "steer" /\ at'[g] # "mark"
        BY <1>1, <1>2 DEF Turns
    <2>2. row.turn = p
        BY <1>7, <2>1
    <2>3. row'.turn # Sent
        BY <2>1, NotPrompts
    <2>4. ASSUME NEW g \in Procs, Owns(g, p)' PROVE task'[g].kind # "steer" /\ at'[g] # "mark"
        <3>1. Owns(g, p) /\ task'[g].kind = task[g].kind
            BY <1>4, <2>4
        <3>2. task[g].kind # "steer" /\ at[g] # "mark"
            BY <2>2, <3>1 DEF PromptsInv, Turns
        <3>3. QED
            BY <2>3, <3>1, <3>2 DEF QuietTasks
    <2>5. QED
        BY <2>2, <2>4 DEF PromptsInv, Turns
<1>9. MayInterrupt' => MayInterrupt
    BY DEF QuietRow, QuietTasks, MayInterrupt
<1>10. Recovery \in Procs
    BY DEF Procs
<1>11. Resumable'
    BY <1>1, <1>4, <1>7, <1>9, <1>10 DEF PromptsInv, Resumable, QuietTasks
<1>12. ASSUME crashes = 0 PROVE (NoRecovery /\ Kept /\ PendingSteerAttended)'
    <2>1. NoRecovery /\ Kept /\ PendingSteerAttended
        BY <1>12 DEF PromptsInv, Undisturbed
    <2>2. NoRecovery'
        BY <2>1 DEF NoRecovery, QuietTasks
    <2>3. ASSUME NEW p \in Prompts, p \in accepted, p \notin deleted, starts[p] = 0,
                 p \notin InQueue
          PROVE  \E g \in Procs : task'[g].p = p /\ at'[g] \in Carrying
        <3>1. PICK g \in Procs : task[g].p = p /\ at[g] \in Carrying
            BY <2>1, <2>3 DEF Kept
        <3>2. task[g].kind \in {"claim", "steer", "recover"}
            BY <2>3, <3>1 DEF PromptsInv, Owners, Owns, Owning
        <3>3. task[g].kind \in {"claim", "steer"}
            BY <2>1, <3>2 DEF NoRecovery
        <3>4. QED
            BY <3>1, <3>3 DEF QuietOwners
    <2>4. Kept'
        BY <1>1, <1>2, <2>3 DEF Kept
    <2>5. PendingSteerAttended'
        <3>1. CASE row'.steer = None
            BY <3>1 DEF PendingSteerAttended
        <3>2. CASE row'.steer # None
            BY <2>1, <3>2 DEF QuietSteer, PendingSteerAttended
        <3>3. QED
            BY <3>1, <3>2
    <2>6. QED
        BY <2>2, <2>4, <2>5
<1>13. Undisturbed'
    BY <1>12 DEF Undisturbed
<1>14. QED
    BY <1>2, <1>3, <1>5, <1>6, <1>8, <1>11, <1>13 DEF PromptsInv

LEMMA SameRowIsQuiet ==
    ASSUME PromptsInv, row' = row
    PROVE  QuietRow
BY DEF QuietRow, PromptsInv, Lists, InQueue, MayInterrupt

LEMMA SameQueueIsQuiet ==
    ASSUME PromptsInv, row'.pub = row.pub, row'.int = row.int,
           row'.turn \in {row.turn, None, Sent}, row'.status = "interrupted" => MayInterrupt
    PROVE  QuietRow
BY DEF QuietRow, PromptsInv, Lists, InQueue

LEMMA StatusIsQuiet ==
    ASSUME TInv, PromptsInv, NEW s \in {"idle", "running", "error"}, row' = WithStatus(s)
    PROVE  QuietRow /\ row'.steer = row.steer
<1>1. row \in Rows
    BY DEF TInv, WorkOK
<1>2. /\ row'.pub = row.pub /\ row'.int = row.int /\ row'.steer = row.steer
      /\ row'.turn \in {row.turn, None} /\ row'.status = s
    BY <1>1 DEF WithStatus, Rows
<1>3. QED
    BY <1>2, SameQueueIsQuiet

\* The row is saved with the queue it was loaded with.
LEMMA SaveIsQuiet ==
    ASSUME NoUnlockedSaves, TInv, LInv, PromptsInv, NEW g \in Procs, at[g] \in Saving,
           NEW r \in Rows, r.pub = copy[g].pub, r.int = copy[g].int,
           r.status \in {copy[g].status, "idle", "running", "error"}, row' = Saved(r)
    PROVE  QuietRow /\ row'.steer = r.steer
<1>1. row \in Rows
    BY DEF TInv, WorkOK
<1>2. copy[g].pub = row.pub /\ copy[g].int = row.int
    BY DEF LInv, FreshCopies
<1>3. /\ row'.pub = r.pub /\ row'.int = r.int /\ row'.steer = r.steer
      /\ row'.turn \in {row.turn, None} /\ row'.status = r.status
    BY <1>1 DEF Saved, Rows
<1>4. row'.status = "interrupted" => MayInterrupt
    BY <1>3 DEF MayInterrupt
<1>5. QED
    BY <1>2, <1>3, <1>4, SameQueueIsQuiet

\* One goroutine goes on to a label at which it saves nothing.
LEMMA QuietGoto ==
    ASSUME TInv, PromptsInv, NEW g \in Procs, NEW l \in Labels \ (Saving \cup {"recover"}),
           Goto(g, l), ledger' = ledger, crashes' = crashes, QuietRow,
           l \in Owning => at[g] \in Owning,
           l = "mark" => row'.turn = Sent,
           at[g] \in Carrying /\ task[g].kind \in {"claim", "steer"} => l \in Carrying,
           \/ row'.steer = None
           \/ row'.steer = row.steer /\ (task[g].kind = "steer" => l \notin {"out", "drain"}),
           \A h \in Procs : h # g => copy'[h] = copy[h]
    PROVE  PromptsInv'
<1>1. at'[g] = l /\ \A h \in Procs : h # g => at'[h] = at[h]
    BY DEF Goto, TInv, WorkOK
<1>2. /\ task'[g] = IF l \in {"out", "drain"} THEN NoTask ELSE task[g]
      /\ \A h \in Procs : h # g => task'[h] = task[h]
    BY DEF Goto, TInv, WorkOK
<1>3. \A k \in {"out", "drain", "steer"} : k \notin Owning
    BY DEF Owning, Carrying, Handing
<1>4. QuietTasks
    <2>1. \A h \in Procs : at'[h] = "recover" => at[h] = "recover"
        BY <1>1
    <2>2. \A h \in Procs : task'[h].kind = "recover" => task[h].kind = "recover"
        BY <1>2 DEF NoTask, Task
    <2>3. \A h \in Procs : at'[h] \in Saving /\ copy'[h].status = "interrupted" => MayInterrupt
        BY <1>1 DEF MayInterrupt
    <2>4. \A h \in Procs : at'[h] = "mark" => at[h] = "mark" \/ row'.turn = Sent
        BY <1>1
    <2>5. QED
        BY <2>1, <2>2, <2>3, <2>4 DEF QuietTasks
<1>5. QuietOwners
    <2>1. ASSUME NEW h \in Procs, NEW p \in Prompts, Owns(h, p)'
          PROVE  Owns(h, p) /\ task'[h].kind = task[h].kind
        <3>1. CASE h = g
            <4>1. l \in Owning /\ task'[g] = task[g]
                BY <1>1, <1>2, <1>3, <2>1, <3>1 DEF Owns
            <4>2. QED
                BY <2>1, <3>1, <4>1 DEF Owns
        <3>2. CASE h # g
            BY <1>1, <1>2, <2>1, <3>2 DEF Owns
        <3>3. QED
            BY <3>1, <3>2
    <2>2. ASSUME NEW h \in Procs, at[h] \in Carrying, task[h].kind \in {"claim", "steer"}
          PROVE  at'[h] \in Carrying /\ task'[h].p = task[h].p
        <3>1. CASE h = g
            <4>1. l \in Carrying
                BY <2>2, <3>1
            <4>2. l \notin {"out", "drain"}
                BY <1>3, <4>1 DEF Owning
            <4>3. QED
                BY <1>1, <1>2, <3>1, <4>1, <4>2
        <3>2. CASE h # g
            BY <1>1, <1>2, <2>2, <3>2
        <3>3. QED
            BY <3>1, <3>2
    <2>3. QED
        BY <2>1, <2>2 DEF QuietOwners
<1>6. QuietSteer
    <2>1. CASE row'.steer = None
        BY <2>1 DEF QuietSteer
    <2>2. CASE row'.steer # None
        <3>1. l # "steer"
            BY DEF Saving
        <3>2. QED
            BY <1>1, <1>2, <2>2, <3>1 DEF QuietSteer
    <2>3. QED
        BY <2>1, <2>2
<1>7. QED
    BY <1>4, <1>5, <1>6, QuietKeeps

\* One goroutine loads the row.
LEMMA QuietLoad ==
    ASSUME TInv, PromptsInv, NEW g \in Procs, NEW l \in Saving, Load(g, l), l # "steer",
           row' = row, task' = task, ledger' = ledger, crashes' = crashes,
           l \in Owning => at[g] \in Owning,
           at[g] \in Carrying /\ task[g].kind \in {"claim", "steer"} => l \in Carrying
    PROVE  PromptsInv'
<1>1. at'[g] = l /\ \A h \in Procs : h # g => at'[h] = at[h]
    BY DEF Load, TInv, WorkOK
<1>2. copy'[g] = row /\ \A h \in Procs : h # g => copy'[h] = copy[h]
    BY DEF Load, TInv, WorkOK
<1>3. QuietRow
    BY SameRowIsQuiet
<1>4. QuietTasks
    <2>1. l \notin {"recover", "mark"}
        BY DEF Saving
    <2>2. \A h \in Procs : at'[h] \in Saving /\ copy'[h].status = "interrupted" => MayInterrupt
        BY <1>1, <1>2 DEF MayInterrupt
    <2>3. QED
        BY <1>1, <2>1, <2>2 DEF QuietTasks
<1>5. QuietOwners
    <2>1. \A h \in Procs, p \in Prompts : Owns(h, p)' => Owns(h, p)
        BY <1>1 DEF Owns
    <2>2. \A h \in Procs : at[h] \in Carrying /\ task[h].kind \in {"claim", "steer"} =>
                at'[h] \in Carrying
        BY <1>1
    <2>3. QED
        BY <2>1, <2>2 DEF QuietOwners
<1>6. QuietSteer
    BY <1>1 DEF QuietSteer
<1>7. QED
    BY <1>3, <1>4, <1>5, <1>6, QuietKeeps

\* A request about a queued prompt or the order of them.
LEMMA QuietRequest ==
    ASSUME TInv, TasksFit, PromptsInv, NEW g \in Procs, NEW l \in {"delete", "steer", "reorder"},
           NEW k \in {"queue", "steer"}, NEW p, Request(g, l, k, p)
    PROVE  PromptsInv'
<1>1. /\ at'[g] = l /\ copy'[g] = row
      /\ \A h \in Procs : h # g => at'[h] = at[h] /\ copy'[h] = copy[h]
    BY DEF Request, Load, TInv, WorkOK
<1>2. task'[g] = Task(k, p, 0) /\ \A h \in Procs : h # g => task'[h] = task[h]
    BY DEF Request, TInv, WorkOK
<1>3. at[g] = "out" /\ task[g] = NoTask
    BY DEF Request, TasksFit, Fits
<1>4. NoTask.kind = "none" /\ Task(k, p, 0).kind = k
    BY DEF NoTask, Task
<1>5. row' = row /\ ledger' = ledger /\ crashes' = crashes
    BY DEF Request
<1>6. l \notin Owning /\ l \notin {"recover", "mark"} /\ "out" \notin Carrying
    BY DEF Owning, Carrying, Handing
<1>7. QuietRow
    BY <1>5, SameRowIsQuiet
<1>8. QuietTasks
    <2>1. \A h \in Procs : task'[h].kind = "recover" => task[h].kind = "recover"
        BY <1>2, <1>4
    <2>2. \A h \in Procs : at'[h] \in Saving /\ copy'[h].status = "interrupted" => MayInterrupt
        BY <1>1 DEF MayInterrupt
    <2>3. QED
        BY <1>1, <1>6, <2>1, <2>2 DEF QuietTasks
<1>9. QuietOwners
    BY <1>1, <1>2, <1>3, <1>6 DEF QuietOwners, Owns
<1>10. QuietSteer
    BY <1>1, <1>2, <1>3, <1>4, <1>5 DEF QuietSteer
<1>11. QED
    BY <1>5, <1>7, <1>8, <1>9, <1>10, QuietKeeps

LEMMA QuietHandlers ==
    ASSUME NoUnlockedSaves, TInv, LInv, TasksFit, PromptsInv, NEW g \in Procs,
           \/ Drain(g) \/ ClaimNothing(g) \/ FailTurn(g) \/ LoadRestore(g)
           \/ FinishAction(g)
           \/ SteerRefused(g) \/ SteerUnsupported(g) \/ SteerCancel(g)
           \/ SteerCancelGivesUp(g) \/ SteerAfterCancel(g) \/ LoadClear(g) \/ ClearSteer(g)
    PROVE  PromptsInv'
<1> USE DEF Labels, Saving, Handing, Carrying, Owning
<1>1. Fits(at[g], task[g])
    BY DEF TasksFit
<1>2. CASE Drain(g)
    <2>1. task[g] = NoTask /\ task' = task /\ row' = row /\ ledger' = ledger /\ crashes' = crashes
        BY <1>1, <1>2 DEF Drain, Fits, ledger
    <2>2. NoTask.kind = "none"
        BY DEF NoTask, Task
    <2>3. CASE Load(g, "claim")
        BY <1>2, <2>1, <2>3, QuietLoad DEF Drain
    <2>4. CASE at' = [at EXCEPT ![g] = "out"] /\ UNCHANGED <<lock, copy>>
        <3>1. Goto(g, "out") /\ \A h \in Procs : copy'[h] = copy[h]
            BY <2>1, <2>4 DEF Goto, TInv, WorkOK
        <3>2. QuietRow
            BY <2>1, SameRowIsQuiet
        <3>3. QED
            BY <2>1, <2>2, <3>1, <3>2, QuietGoto
    <2>5. QED
        BY <1>2, <2>3, <2>4 DEF Drain
<1>3. CASE ClaimNothing(g)
    <2>1. task[g] = NoTask /\ task' = task /\ row' = row /\ ledger' = ledger /\ crashes' = crashes
        BY <1>1, <1>3 DEF ClaimNothing, Fits, ledger
    <2>2. NoTask.kind = "none"
        BY DEF NoTask, Task
    <2>3. /\ \A h \in Procs : h # g => copy'[h] = copy[h]
          /\ at[g] = "claim"
        BY <1>3 DEF ClaimNothing, Unlock, TInv, WorkOK
    <2>4. PICK l \in {"out", "close"} : at' = [at EXCEPT ![g] = l]
        BY <1>3 DEF ClaimNothing, AfterDrain
    <2>5. Goto(g, l)
        BY <2>1, <2>4 DEF Goto, TInv, WorkOK
    <2>6. QuietRow
        BY <2>1, SameRowIsQuiet
    <2>7. QED
        BY <2>1, <2>2, <2>3, <2>5, <2>6, QuietGoto
<1>4. CASE FailTurn(g)
    <2>1. QuietRow /\ row'.steer = row.steer
        BY <1>4, SameRowIsQuiet DEF FailTurn
    <2>2. QED
        BY <1>4, <2>1, QuietGoto DEF FailTurn
<1>5. CASE LoadRestore(g)
    BY <1>5, QuietLoad DEF LoadRestore, ledger
<1>6. CASE SteerRefused(g)
    <2>1. QuietRow /\ row'.steer = row.steer
        BY <1>6, SameRowIsQuiet DEF SteerRefused
    <2>2. QED
        BY <1>6, <2>1, QuietGoto DEF SteerRefused
<1>7. CASE SteerUnsupported(g)
    <2>1. QuietRow /\ row'.steer = row.steer
        BY <1>7, SameRowIsQuiet DEF SteerUnsupported
    <2>2. QED
        BY <1>7, <2>1, QuietGoto DEF SteerUnsupported
<1>8. CASE SteerCancel(g)
    <2>1. QuietRow /\ row'.steer = row.steer
        BY <1>8, SameRowIsQuiet DEF SteerCancel
    <2>2. PICK l \in {"cancelWait", "cancelDone"} : Goto(g, l)
        BY <1>8 DEF SteerCancel
    <2>3. QED
        BY <1>8, <2>1, <2>2, QuietGoto DEF SteerCancel
<1>9. CASE SteerAfterCancel(g)
    <2>1. QuietRow /\ row'.steer = row.steer
        BY <1>9, StatusIsQuiet DEF SteerAfterCancel
    <2>2. QED
        BY <1>9, <2>1, QuietGoto DEF SteerAfterCancel
<1>10. CASE LoadClear(g)
    BY <1>10, QuietLoad DEF LoadClear, ledger
<1>11. CASE ClearSteer(g)
    <2>1. at[g] = "clear" /\ Goto(g, "out") /\ Unlock(g) /\ ledger' = ledger /\ crashes' = crashes
        BY <1>11 DEF ClearSteer, Save, ledger
    <2>2. copy[g] \in Rows /\ copy[g].steer = row.steer
        BY <2>1 DEF TInv, WorkOK, LInv, FreshCopies
    <2>3. QuietRow /\ row'.steer = None
        <3>1. CASE copy[g].steer = None
            <4>1. row' = row
                BY <1>11, <3>1 DEF ClearSteer
            <4>2. QED
                BY <2>2, <3>1, <4>1, SameRowIsQuiet
        <3>2. CASE copy[g].steer # None
            <4> DEFINE r == [copy[g] EXCEPT !.steer = None]
            <4>1. row' = Saved(r)
                BY <1>11, <3>2 DEF ClearSteer, Save
            <4>2. r \in Rows /\ r.pub = copy[g].pub /\ r.int = copy[g].int
                  /\ r.status = copy[g].status /\ r.steer = None
                BY <2>2 DEF Rows
            <4> HIDE DEF r
            <4>3. QED
                BY <2>1, <4>1, <4>2, SaveIsQuiet
        <3>3. QED
            BY <3>1, <3>2
    <2>4. \A h \in Procs : h # g => copy'[h] = copy[h]
        BY <2>1 DEF Unlock, TInv, WorkOK
    <2>5. QED
        BY <2>1, <2>3, <2>4, QuietGoto
<1>12. CASE FinishAction(g)
    <2>1. QuietRow /\ row'.steer = row.steer
        BY <1>12, StatusIsQuiet DEF FinishAction
    <2>2. at[g] = "acted" /\ task[g].kind = "claim"
        BY <1>1, <1>12 DEF FinishAction, Fits
    <2>3. QED
        BY <1>12, <2>1, <2>2, QuietGoto DEF FinishAction
<1>13. CASE SteerCancelGivesUp(g)
    <2>1. QuietRow /\ row'.steer = row.steer
        BY <1>13, SameRowIsQuiet DEF SteerCancelGivesUp
    <2>2. QED
        BY <1>13, <2>1, QuietGoto DEF SteerCancelGivesUp
<1>14. QED
    BY <1>2, <1>3, <1>4, <1>5, <1>6, <1>7, <1>8, <1>9, <1>10, <1>11, <1>12, <1>13

LEMMA QuietDirect ==
    ASSUME NoUnlockedSaves, TInv, LInv, TasksFit, PromptsInv, NEW g \in Procs,
           \/ Begin(g) \/ BeginFails(g) \/ BusyRejects(g) \/ BusyQueues(g)
           \/ LoadRequeue(g) \/ CancelStoredSave(g)
    PROVE  PromptsInv'
<1> USE DEF Labels, Saving, Handing, Carrying, Owning
<1>1. Fits(at[g], task[g])
    BY DEF TasksFit
<1>2. CASE Begin(g)
    <2>1. /\ at[g] = "begin" /\ task[g].kind = "direct" /\ Unlock(g)
          /\ ledger' = ledger /\ crashes' = crashes
        BY <1>1, <1>2 DEF Begin, Fits, Save, ledger
    <2>2. PICK l \in {"busy", "send"} : Goto(g, l)
        BY <1>2 DEF Begin, Save
    <2>3. copy[g] \in Rows /\ copy[g].steer = row.steer
        BY <2>1 DEF TInv, WorkOK, LInv, FreshCopies
    <2>4. QuietRow /\ row'.steer = row.steer
        <3>1. CASE row' = row
            BY <3>1, SameRowIsQuiet
        <3>2. CASE row' # row
            <4> DEFINE r == [copy[g] EXCEPT !.status = "running"]
            <4>1. row' = Saved(r)
                BY <1>2, <3>2 DEF Begin, Save
            <4>2. r \in Rows /\ r.pub = copy[g].pub /\ r.int = copy[g].int
                  /\ r.status = "running" /\ r.steer = copy[g].steer
                BY <2>3 DEF Rows, Statuses
            <4> HIDE DEF r
            <4>3. QED
                BY <2>1, <2>3, <4>1, <4>2, SaveIsQuiet
        <3>3. QED
            BY <3>1, <3>2
    <2>5. \A h \in Procs : h # g => copy'[h] = copy[h]
        BY <2>1 DEF Unlock, TInv, WorkOK
    <2>6. QED
        BY <2>1, <2>2, <2>4, <2>5, QuietGoto
<1>3. CASE BeginFails(g)
    <2>1. at[g] = "begin" /\ task[g].kind = "direct" /\ Goto(g, "out")
        BY <1>1, <1>3 DEF BeginFails, Fits
    <2>2. QuietRow /\ row'.steer = row.steer
        BY <1>3, SameRowIsQuiet DEF BeginFails
    <2>3. \A h \in Procs : h # g => copy'[h] = copy[h]
        BY <1>3 DEF BeginFails, Unlock, TInv, WorkOK
    <2>4. QED
        BY <1>3, <2>1, <2>2, <2>3, QuietGoto DEF BeginFails
<1>4. CASE BusyRejects(g)
    <2>1. at[g] = "busy" /\ task[g].kind = "direct" /\ Goto(g, "out")
        BY <1>1, <1>4 DEF BusyRejects, Fits
    <2>2. QuietRow /\ row'.steer = row.steer
        BY <1>4, SameRowIsQuiet DEF BusyRejects
    <2>3. QED
        BY <1>4, <2>1, <2>2, QuietGoto DEF BusyRejects
<1>5. CASE BusyQueues(g)
    <2>1. at[g] = "busy" /\ task[g].kind = "direct" /\ Goto(g, "requeue")
        BY <1>1, <1>5 DEF BusyQueues, Fits
    <2>2. QuietRow /\ row'.steer = row.steer
        BY <1>5, SameRowIsQuiet DEF BusyQueues
    <2>3. QED
        BY <1>5, <2>1, <2>2, QuietGoto DEF BusyQueues
<1>6. CASE LoadRequeue(g)
    BY <1>6, QuietLoad DEF LoadRequeue, ledger
<1>7. ~ CancelStoredSave(g)
    BY <1>1 DEF CancelStoredSave, Fits
<1>8. QED
    BY <1>2, <1>3, <1>4, <1>5, <1>6, <1>7

LEMMA ReorderKeeps ==
    ASSUME NoUnlockedSaves, TInv, LInv, TasksFit, PromptsInv, NEW g \in Procs, ReorderPrompts(g)
    PROVE  PromptsInv'
<1>1. /\ at[g] = "reorder" /\ task[g].kind = "queue" /\ ledger' = ledger /\ crashes' = crashes
    BY DEF ReorderPrompts, TasksFit, Fits, ledger
<1>2. PICK q \in Permuted(copy[g].pub) :
        Save(g, [copy[g] EXCEPT !.pub = q], AfterMutation([copy[g] EXCEPT !.pub = q]))
    BY DEF ReorderPrompts
<1> DEFINE r == [copy[g] EXCEPT !.pub = q]
<1>3. copy[g] \in Rows /\ row \in Rows
    BY <1>1 DEF TInv, WorkOK, Saving
<1>4. copy[g].pub = row.pub /\ copy[g].int = row.int /\ copy[g].steer = row.steer
    BY <1>1 DEF LInv, FreshCopies, Saving
<1>5. r.pub = q /\ r.int = copy[g].int /\ r.status = copy[g].status /\ r.steer = copy[g].steer
    BY <1>3 DEF Rows
<1>6. row' = Saved(r) /\ Unlock(g) /\ Goto(g, AfterMutation(r))
    BY <1>2 DEF Save
<1>7. PICK l \in {"out", "drain"} : Goto(g, l)
    BY <1>6 DEF AfterMutation
<1>8. r \in Rows
    BY <1>3, PermutedIsSeq DEF Rows
<1> HIDE DEF r
<1>9. /\ row'.pub = q /\ row'.int = row.int /\ row'.steer = row.steer
      /\ row'.turn \in {row.turn, None} /\ row'.status = copy[g].status
    BY <1>3, <1>4, <1>5, <1>6, <1>8 DEF Saved, Rows
<1>10. ToSet(q) = ToSet(row.pub) /\ (IsInjective(row.pub) => IsInjective(q))
    BY <1>3, <1>4, PermutedSet DEF Rows
<1>11. QuietRow
    <2>1. Lists' /\ InQueue' = InQueue
        BY <1>9, <1>10 DEF PromptsInv, Lists, InQueue
    <2>2. row'.status = "interrupted" => MayInterrupt
        BY <1>1, <1>9 DEF MayInterrupt, Saving
    <2>3. QED
        BY <1>9, <2>1, <2>2 DEF QuietRow
<1>12. \A h \in Procs : h # g => copy'[h] = copy[h]
    BY <1>6 DEF Unlock, TInv, WorkOK
<1>13. QED
    BY <1>1, <1>7, <1>9, <1>11, <1>12, QuietGoto DEF Labels, Saving, Handing, Carrying, Owning

LEMMA ClaimGoalKeeps ==
    ASSUME NoUnlockedSaves, TInv, LInv, TasksFit, PromptsInv, NEW g \in Procs, ClaimGoal(g)
    PROVE  PromptsInv'
<1> DEFINE s == [copy[g] EXCEPT !.status = "running"]
<1>1. /\ at[g] = "claim" /\ task[g] = NoTask /\ ledger' = ledger /\ crashes' = crashes
      /\ row' = Saved(s) /\ Unlock(g) /\ RunTurn(g, "goal", None)
    BY DEF ClaimGoal, TasksFit, Fits, ledger
<1>2. copy[g] \in Rows /\ copy[g].steer = row.steer
    BY <1>1 DEF TInv, WorkOK, LInv, FreshCopies, Saving
<1>3. s \in Rows /\ s.pub = copy[g].pub /\ s.int = copy[g].int /\ s.status = "running"
      /\ s.steer = row.steer
    BY <1>2 DEF Rows, Statuses
<1> HIDE DEF s
<1>4. QuietRow /\ row'.steer = row.steer
    BY <1>1, <1>3, SaveIsQuiet DEF Saving
<1>5. PICK r \in Procs :
        /\ Runs(g, r)
        /\ at' = [at EXCEPT ![g] = AfterDrain(g), ![r] = IF None \in Actions THEN "act" ELSE "send"]
        /\ task' = [task EXCEPT ![r] = Task("goal", None, 0)]
    BY <1>1 DEF RunTurn
<1>6. None \notin Actions
    BY QueueAssumption DEF Prompts
<1>7. /\ at'[r] = "send" /\ task'[r] = Task("goal", None, 0)
      /\ \A h \in Procs : h # r => task'[h] = task[h]
      /\ \A h \in Procs : h \notin {g, r} => at'[h] = at[h]
      /\ g # r => at'[g] \in {"close", "out"}
    BY <1>5, <1>6 DEF AfterDrain, TInv, WorkOK
<1>8. Task("goal", None, 0).kind = "goal" /\ Task("goal", None, 0).p = None
    BY DEF Task
<1>9. NoTask.kind = "none"
    BY DEF NoTask, Task
<1>10. task[r] = NoTask /\ at[r] \in {"claim", "out"}
    BY <1>1, <1>5 DEF Runs, TasksFit, Fits
<1>11. \A h \in Procs : h # g => copy'[h] = copy[h]
    BY <1>1 DEF Unlock, TInv, WorkOK
<1>12. QuietTasks
    <2>1. \A h \in Procs : at'[h] \in Saving => h \notin {g, r}
        BY <1>7 DEF Saving
    <2>2. \A h \in Procs : at'[h] \in Saving /\ copy'[h].status = "interrupted" => MayInterrupt
        BY <1>7, <1>11, <2>1 DEF MayInterrupt
    <2>3. \A h \in Procs : at'[h] \in {"recover", "mark"} => at'[h] = at[h]
        BY <1>7
    <2>4. \A h \in Procs : task'[h].kind = "recover" => task[h].kind = "recover"
        BY <1>7, <1>8
    <2>5. QED
        BY <2>2, <2>3, <2>4 DEF QuietTasks
<1>13. QuietOwners
    <2>1. ASSUME NEW h \in Procs, NEW p \in Prompts, Owns(h, p)'
          PROVE  Owns(h, p) /\ task'[h].kind = task[h].kind
        <3>1. h # r
            BY <1>7, <1>8, <2>1, NotPrompts DEF Owns
        <3>2. h # g
            BY <1>7, <2>1, <3>1 DEF Owns, Owning, Carrying, Handing
        <3>3. QED
            BY <1>7, <2>1, <3>1, <3>2 DEF Owns
    <2>2. ASSUME NEW h \in Procs, at[h] \in Carrying
          PROVE  at'[h] \in Carrying /\ task'[h].p = task[h].p
        <3>1. h \notin {g, r}
            BY <1>1, <1>10, <2>2 DEF Carrying, Handing
        <3>2. QED
            BY <1>7, <2>2, <3>1
    <2>3. QED
        BY <2>1, <2>2 DEF QuietOwners
<1>14. QuietSteer
    <2>1. \A h \in Procs : task[h].kind = "steer" => h \notin {g, r}
        BY <1>1, <1>9, <1>10
    <2>2. QED
        BY <1>4, <1>7, <2>1 DEF QuietSteer
<1>15. QED
    BY <1>1, <1>4, <1>12, <1>13, <1>14, QuietKeeps

LEMMA QuietSending ==
    ASSUME NoUnlockedSaves, TInv, TasksFit, PromptsInv, NEW g \in Procs, Sending(g),
           ~ SendStart(g)
    PROVE  PromptsInv'
<1> USE DEF Labels, Saving, Handing, Carrying, Owning
<1>1. row \in Rows
    BY DEF TInv, WorkOK
<1>2. CASE SendResume(g)
    <2>1. QuietRow /\ row'.steer = row.steer
        BY <1>2, SameRowIsQuiet DEF SendResume
    <2>2. \A h \in Procs : h # g => copy'[h] = copy[h]
        BY <1>2 DEF SendResume, TInv, WorkOK
    <2>3. QED
        BY <1>2, <2>1, <2>2, QuietGoto DEF SendResume
<1>3. CASE SendResumed(g)
    <2>1. row' = row
        BY <1>3 DEF SendResumed, NoUnlockedSaves
    <2>2. QuietRow /\ row'.steer = row.steer
        BY <2>1, SameRowIsQuiet
    <2>3. \A h \in Procs : h # g => copy'[h] = copy[h]
        BY <1>3 DEF SendResumed, TInv, WorkOK
    <2>4. QED
        BY <1>3, <2>2, <2>3, QuietGoto DEF SendResumed
<1>4. CASE SendConflict(g) \/ SendGoalGone(g)
    <2>1. QuietRow /\ row'.steer = row.steer
        BY <1>4, SameRowIsQuiet DEF SendConflict, SendGoalGone
    <2>2. /\ at[g] = "send" /\ Goto(g, "failed") /\ copy' = copy
          /\ ledger' = ledger /\ crashes' = crashes
        BY <1>4 DEF SendConflict, SendGoalGone
    <2>3. QED
        BY <2>1, <2>2, QuietGoto
<1>5. CASE SendWait(g)
    <2>1. QuietRow /\ row'.steer = row.steer
        BY <1>5, SameRowIsQuiet DEF SendWait
    <2>2. QED
        BY <1>5, <2>1, QuietGoto DEF SendWait
<1>6. CASE SendMark(g)
    <2>1. /\ row'.pub = row.pub /\ row'.int = row.int /\ row'.steer = row.steer
          /\ row'.turn = Sent /\ row'.status = "running"
        BY <1>1, <1>6 DEF SendMark, MarkRunning, Rows
    <2>2. QuietRow
        BY <2>1, SameQueueIsQuiet
    <2>3. QED
        BY <1>6, <2>1, <2>2, QuietGoto DEF SendMark
<1>7. CASE SendAppendFails(g)
    <2>1. QuietRow /\ row'.steer = row.steer
        BY <1>7, StatusIsQuiet DEF SendAppendFails
    <2>2. QED
        BY <1>7, <2>1, QuietGoto DEF SendAppendFails
<1>8. CASE SendFailed(g)
    <2>1. PICK l \in {"out", "drain"} : Goto(g, l)
        BY <1>8 DEF SendFailed, AfterSend
    <2>2. task[g].kind \notin {"claim", "steer"}
        BY <1>8 DEF SendFailed
    <2>3. QuietRow /\ row'.steer = row.steer
        <3>1. CASE row' = row
            BY <3>1, SameRowIsQuiet
        <3>2. CASE row' # row
            BY <1>8, <3>2, StatusIsQuiet DEF SendFailed
        <3>3. QED
            BY <3>1, <3>2
    <2>4. QED
        BY <1>8, <2>1, <2>2, <2>3, QuietGoto DEF SendFailed
<1>9. QED
    BY <1>2, <1>3, <1>4, <1>5, <1>6, <1>7, <1>8 DEF Sending

LEMMA QuietTurnEnd ==
    ASSUME TInv, TasksFit, PromptsInv, TurnEnd \/ UserCancel \/ ChangeGoal \/ RecoverNothing \/ AtRest
    PROVE  PromptsInv'
<1> USE DEF Labels, Saving, Handing, Carrying, Owning
<1>1. Finisher \in Procs /\ Recovery \in Procs
    BY DEF Procs
<1>2. /\ Fits(at[Finisher], task[Finisher])
      /\ Fits(at[Recovery], task[Recovery])
    BY <1>1 DEF TasksFit
<1>3. NoTask.kind = "none"
    BY DEF NoTask, Task
<1>4. CASE EndTurn
    <2>1. task[Finisher] = NoTask /\ Goto(Finisher, "toFinish")
        BY <1>2, <1>4 DEF EndTurn, Fits, Goto
    <2>2. QuietRow /\ row'.steer = row.steer
        BY <1>4, SameRowIsQuiet DEF EndTurn
    <2>3. QED
        BY <1>1, <1>3, <1>4, <2>1, <2>2, QuietGoto DEF EndTurn
<1>5. CASE LoadFinish
    BY <1>1, <1>5, QuietLoad DEF LoadFinish, ledger
<1>6. CASE Finish
    <2>1. PICK l \in {"drain", "close"} : at' = [at EXCEPT ![Finisher] = l]
        BY <1>6 DEF Finish, AfterFinish
    <2>2. task[Finisher] = NoTask /\ task' = task
        BY <1>2, <1>6 DEF Finish, Fits
    <2>3. Goto(Finisher, l)
        BY <1>1, <2>1, <2>2 DEF Goto, TInv, WorkOK
    <2>4. QuietRow /\ row'.steer = row.steer
        <3>1. CASE row' = row
            BY <3>1, SameRowIsQuiet
        <3>2. CASE row' # row
            BY <1>6, <3>2, StatusIsQuiet DEF Finish
        <3>3. QED
            BY <3>1, <3>2
    <2>5. \A h \in Procs : h # Finisher => copy'[h] = copy[h]
        BY <1>6 DEF Finish, Unlock, TInv, WorkOK
    <2>6. ledger' = ledger /\ crashes' = crashes
        BY <1>6 DEF Finish, ledger
    <2>7. QED
        BY <1>1, <1>3, <2>2, <2>3, <2>4, <2>5, <2>6, QuietGoto
<1>7. CASE CloseTurn
    <2>1. \A h \in Procs :
            \/ at'[h] = at[h]
            \/ at[h] = "close" /\ at'[h] = "out"
            \/ at[h] = "wait" /\ at'[h] = "send"
            \/ at[h] = "cancelWait" /\ at'[h] = "cancelDone"
        BY <1>7 DEF CloseTurn, Wake
    <2>2. task' = task /\ copy' = copy /\ row' = row /\ ledger' = ledger /\ crashes' = crashes
        BY <1>7 DEF CloseTurn
    <2>3. QuietRow /\ QuietSteer
        BY <2>1, <2>2, SameRowIsQuiet DEF QuietSteer
    <2>4. QuietTasks
        <3>1. \A h \in Procs : at'[h] \in Saving \cup {"recover", "mark"} => at'[h] = at[h]
            BY <2>1
        <3>2. QED
            BY <2>2, <3>1 DEF QuietTasks, MayInterrupt
    <2>5. QuietOwners
        BY <2>1, <2>2 DEF QuietOwners, Owns
    <2>6. QED
        BY <2>2, <2>3, <2>4, <2>5, QuietKeeps
<1>8. CASE UserCancel \/ ChangeGoal \/ AtRest
    <2>1. /\ at' = at /\ task' = task /\ copy' = copy
          /\ ledger' = ledger /\ crashes' = crashes
        BY <1>8 DEF UserCancel, ChangeGoal, AtRest, vars, ledger
    <2>2. /\ row'.pub = row.pub /\ row'.int = row.int /\ row'.steer = row.steer
          /\ row'.turn = row.turn /\ row'.status = row.status
        BY <1>8 DEF UserCancel, ChangeGoal, AtRest, vars, TInv, WorkOK, Rows
    <2>3. QuietRow
        BY <2>2, SameQueueIsQuiet DEF MayInterrupt
    <2>4. QuietTasks /\ QuietOwners /\ QuietSteer
        BY <2>1, <2>2 DEF QuietTasks, QuietOwners, QuietSteer, Owns, MayInterrupt
    <2>5. QED
        BY <2>1, <2>3, <2>4, QuietKeeps
<1>9. CASE RecoverNothing
    <2>1. task[Recovery] = NoTask
        BY <1>2, <1>9 DEF RecoverNothing, Fits
    <2>2. QuietRow /\ row'.steer = row.steer
        BY <1>9, SameRowIsQuiet DEF RecoverNothing
    <2>3. QED
        BY <1>1, <1>3, <1>9, <2>1, <2>2, QuietGoto DEF RecoverNothing
<1>10. QED
    BY <1>4, <1>5, <1>6, <1>7, <1>8, <1>9 DEF TurnEnd

-----------------------------------------------------------------------------
\* The steps that move a prompt.

\* A request brings a new one.
LEMMA NewPromptKeeps ==
    ASSUME TInv, TasksFit, PromptsInv, NEW g \in Procs, NEW p \in Prompts, Fresh(p),
           at[g] = "out",
           NEW l \in {"append", "enqueue", "begin", "send"},
           NEW k \in {"queue", "direct", "ext"},
           at' = [at EXCEPT ![g] = l], task' = [task EXCEPT ![g] = Task(k, p, 0)],
           \A h \in Procs : h # g => copy'[h] = copy[h],
           l \in Saving => copy'[g] = row,
           row' = row, ledger' = ledger, crashes' = crashes
    PROVE  PromptsInv'
<1>1. /\ at'[g] = l /\ task'[g].kind = k /\ task'[g].p = p
      /\ \A h \in Procs : h # g => at'[h] = at[h] /\ task'[h] = task[h]
    BY DEF TInv, WorkOK, Task
<1>2. /\ accepted' = accepted /\ deleted' = deleted /\ starts' = starts
      /\ InQueue' = InQueue
      /\ \A q \in Prompts : (Due(q)' <=> Due(q)) /\ MostStarts(q)' = MostStarts(q)
    BY SameDue DEF ledger, InQueue
<1>3. /\ p \notin accepted /\ Due(p) /\ \A h \in Procs : task[h].p # p
    BY MostStartsPositive DEF Fresh, Due
<1>4. p \notin InQueue /\ p \notin deleted /\ row.turn # p
    BY <1>3 DEF PromptsInv, Ledger, Turns
<1>5. ASSUME NEW h \in Procs, NEW q \in Prompts, Owns(h, q)'
      PROVE  \/ h = g /\ q = p
             \/ /\ h # g /\ q # p /\ Owns(h, q)
                /\ task'[h] = task[h] /\ at'[h] = at[h]
    BY <1>1, <1>3, <1>5 DEF Owns
<1>6. Lists' /\ Ledger'
    BY <1>2 DEF PromptsInv, Lists, Ledger, TInv, RestOK
<1>7. Owners'
    <2>1. SUFFICES ASSUME NEW h \in Procs, NEW q \in Prompts, Owns(h, q)'
                   PROVE  /\ q \notin InQueue /\ q \notin deleted /\ Due(q)
                          /\ q \in accepted <=> task'[h].kind \in {"claim", "steer", "recover"}
        BY <1>2 DEF Owners
    <2>2. CASE h = g /\ q = p
        BY <1>1, <1>3, <1>4, <2>2
    <2>3. CASE Owns(h, q) /\ task'[h] = task[h]
        BY <2>3 DEF PromptsInv, Owners
    <2>4. QED
        BY <1>5, <2>1, <2>2, <2>3
<1>8. Apart'
    BY <1>5 DEF PromptsInv, Apart
<1>9. Turns'
    BY <1>2, <1>4, <1>5 DEF PromptsInv, Turns
<1>10. MayInterrupt' => MayInterrupt
    BY <1>1 DEF MayInterrupt
<1>11. Recovery \in Procs /\ l # "recover"
    BY DEF Procs
<1>12. Resumable'
    BY <1>1, <1>2, <1>4, <1>5, <1>10, <1>11 DEF PromptsInv, Resumable
<1>13. task[g] = NoTask /\ NoTask.kind = "none" /\ at[g] \notin Carrying
    BY DEF TasksFit, Fits, NoTask, Task, Carrying, Handing
<1>14. ASSUME crashes = 0 PROVE (NoRecovery /\ Kept /\ PendingSteerAttended)'
    <2>1. NoRecovery /\ Kept /\ PendingSteerAttended
        BY <1>14 DEF PromptsInv, Undisturbed
    <2>2. NoRecovery'
        BY <1>1, <1>11, <2>1 DEF NoRecovery
    <2>3. Kept'
        BY <1>1, <1>2, <1>13, <2>1 DEF Kept
    <2>4. PendingSteerAttended'
        BY <1>1, <1>13, <2>1 DEF PendingSteerAttended
    <2>5. QED
        BY <2>2, <2>3, <2>4
<1>15. Undisturbed'
    BY <1>14 DEF Undisturbed
<1>16. QED
    BY <1>6, <1>7, <1>8, <1>9, <1>12, <1>15 DEF PromptsInv

\* A goroutine that has finished its job leaves the others as they were.
LEMMA GotoLeaves ==
    ASSUME TInv, NEW g \in Procs, NEW l \in {"out", "drain", "toClear", "acted"}, Goto(g, l),
           \A h \in Procs : h # g => copy'[h] = copy[h]
    PROVE  /\ at'[g] = l /\ task'[g] \in {task[g], NoTask}
           /\ l \in {"out", "drain"} => task'[g] = NoTask
           /\ l \in {"toClear", "acted"} => task'[g] = task[g]
           /\ \A h \in Procs : h # g =>
                 at'[h] = at[h] /\ task'[h] = task[h] /\ copy'[h] = copy[h]
           /\ \A h \in Procs, q \in Prompts : Owns(h, q)' => h # g /\ Owns(h, q)
           /\ \A h \in Procs : at'[h] \in {"recover", "mark"} \cup Saving => h # g
<1>1. at'[g] = l /\ \A h \in Procs : h # g => at'[h] = at[h]
    BY DEF Goto, TInv, WorkOK
<1>2. /\ task'[g] = IF l \in {"out", "drain"} THEN NoTask ELSE task[g]
      /\ \A h \in Procs : h # g => task'[h] = task[h]
    BY DEF Goto, TInv, WorkOK
<1>3. l \notin Owning /\ l \notin {"recover", "mark"} \cup Saving
    BY DEF Owning, Carrying, Handing, Saving
<1>4. QED
    BY <1>1, <1>2, <1>3 DEF Owns

\* The prompt of a goroutine that is done is in the queue, was deleted or has reached
\* the agent; every other prompt is where it was.
LEMMA DoneKeeps ==
    ASSUME TInv, TasksFit, PromptsInv, NEW g \in Procs, NEW p \in Prompts,
           NEW l \in {"out", "drain", "toClear", "acted"}, Goto(g, l),
           \A h \in Procs : h # g => copy'[h] = copy[h],
           crashes' = crashes, cut' = cut, Lists', Ledger', task[g].p = p,
           \A q \in Prompts : q # p =>
                /\ q \in InQueue' <=> q \in InQueue
                /\ q \in accepted' <=> q \in accepted
                /\ q \in deleted' <=> q \in deleted
                /\ starts'[q] = starts[q],
           \A h \in Procs : h # g => ~ Owns(h, p),
           p \in InQueue' \/ p \in deleted' \/ starts'[p] # 0 \/ p \notin accepted',
           row'.turn \in {row.turn, None},
           row'.turn = p =>
                /\ p \in Actions /\ p \in accepted' /\ p \notin deleted' /\ p \notin InQueue'
                /\ ~ (at[Recovery] = "recover" /\ MayInterrupt),
           row'.status = "interrupted" => MayInterrupt,
           \/ row'.steer = None
           \/ row'.steer = row.steer /\ (task[g].kind = "steer" => l = "toClear" \/ at[g] = "steer")
    PROVE  PromptsInv'
<1>1. /\ at'[g] = l /\ task'[g] \in {task[g], NoTask}
      /\ l \in {"out", "drain"} => task'[g] = NoTask
      /\ l \in {"toClear", "acted"} => task'[g] = task[g]
      /\ \A h \in Procs : h # g =>
            at'[h] = at[h] /\ task'[h] = task[h] /\ copy'[h] = copy[h]
    BY GotoLeaves
<1>2. \A h \in Procs, q \in Prompts : Owns(h, q)' => h # g /\ Owns(h, q) /\ q # p
    BY GotoLeaves
<1>3. \A h \in Procs : at'[h] \in {"recover", "mark"} \cup Saving => h # g
    BY GotoLeaves
<1>4. Owners'
    <2>1. SUFFICES ASSUME NEW h \in Procs, NEW q \in Prompts, Owns(h, q)'
                   PROVE  /\ q \notin InQueue' /\ q \notin deleted' /\ Due(q)'
                          /\ q \in accepted' <=> task'[h].kind \in {"claim", "steer", "recover"}
        BY DEF Owners
    <2>2. h # g /\ Owns(h, q) /\ q # p
        BY <1>2, <2>1
    <2>3. Due(q)' <=> Due(q)
        BY <2>2, SameDue
    <2>4. QED
        BY <1>1, <2>2, <2>3 DEF PromptsInv, Owners
<1>5. Apart'
    BY <1>2 DEF PromptsInv, Apart
<1>6. \A q \in Prompts : row'.turn = q => row.turn = q
    BY NotPrompts
<1>7. Turns'
    <2>1. SUFFICES ASSUME NEW q \in Prompts, row'.turn = q
                   PROVE  /\ q \in accepted' /\ q \notin deleted' /\ (q \in Actions \/ Due(q)')
                          /\ q \notin InQueue'
                          /\ \A h \in Procs : Owns(h, q)' => task'[h].kind # "steer" /\ at'[h] # "mark"
        BY DEF Turns
    <2>2. row.turn = q
        BY <1>6, <2>1
    <2>3. \A h \in Procs : Owns(h, q)' => task'[h].kind # "steer" /\ at'[h] # "mark"
        BY <1>1, <1>2, <2>2 DEF PromptsInv, Turns
    <2>4. CASE q = p
        BY <2>1, <2>3, <2>4
    <2>5. CASE q # p
        <3>1. Due(q)' <=> Due(q)
            BY <2>5, SameDue
        <3>2. QED
            BY <2>2, <2>3, <2>5, <3>1 DEF PromptsInv, Turns
    <2>6. QED
        BY <2>4, <2>5
<1>8. MayInterrupt' => MayInterrupt
    BY <1>1, <1>3 DEF MayInterrupt
<1>9. Recovery \in Procs
    BY DEF Procs
<1>10. Resumable'
    <2>1. SUFFICES ASSUME at'[Recovery] = "recover", MayInterrupt',
                          NEW q \in Prompts, row'.turn = q
                   PROVE  Due(q)' /\ \A h \in Procs : ~ Owns(h, q)'
        BY DEF Resumable
    <2>2. at[Recovery] = "recover" /\ MayInterrupt /\ row.turn = q
        BY <1>1, <1>3, <1>6, <1>8, <1>9, <2>1
    <2>3. q # p
        BY <2>1, <2>2
    <2>4. Due(q)' <=> Due(q)
        BY <2>3, SameDue
    <2>5. Due(q) /\ \A h \in Procs : ~ Owns(h, q)
        BY <2>2 DEF PromptsInv, Resumable
    <2>6. QED
        BY <1>2, <2>4, <2>5
<1>11. NoTask.kind = "none"
    BY DEF NoTask, Task
<1>12. ASSUME crashes = 0 PROVE (NoRecovery /\ Kept /\ PendingSteerAttended)'
    <2>1. NoRecovery /\ Kept /\ PendingSteerAttended
        BY <1>12 DEF PromptsInv, Undisturbed
    <2>2. NoRecovery'
        BY <1>1, <1>3, <1>11, <2>1 DEF NoRecovery
    <2>3. ASSUME NEW q \in Prompts, q \in accepted', q \notin deleted', starts'[q] = 0,
                 q \notin InQueue'
          PROVE  \E h \in Procs : task'[h].p = q /\ at'[h] \in Carrying
        <3>1. q # p
            BY <2>3
        <3>2. q \in accepted /\ q \notin deleted /\ starts[q] = 0 /\ q \notin InQueue
            BY <2>3, <3>1
        <3>3. PICK h \in Procs : task[h].p = q /\ at[h] \in Carrying
            BY <2>1, <3>2 DEF Kept
        <3>4. h # g
            BY <3>1, <3>3
        <3>5. QED
            BY <1>1, <3>3, <3>4
    <2>4. Kept'
        BY <2>3 DEF Kept
    <2>5. PendingSteerAttended'
        <3>1. CASE row'.steer = None
            BY <3>1 DEF PendingSteerAttended
        <3>2. CASE row'.steer # None
            <4>1. PICK h \in Procs : task[h].kind = "steer" /\ at[h] # "steer"
                BY <2>1, <3>2 DEF PendingSteerAttended
            <4>2. task'[h].kind = "steer" /\ at'[h] # "steer"
                BY <1>1, <3>2, <4>1
            <4>3. QED
                BY <4>2 DEF PendingSteerAttended
        <3>3. QED
            BY <3>1, <3>2
    <2>6. QED
        BY <2>2, <2>4, <2>5
<1>13. Undisturbed'
    BY <1>12 DEF Undisturbed
<1>14. QED
    BY <1>4, <1>5, <1>7, <1>10, <1>13 DEF PromptsInv

\* The prompt of a request is stored.
LEMMA StoreKeeps ==
    ASSUME NoUnlockedSaves, TInv, LInv, TasksFit, PromptsInv, NEW g \in Procs,
           AppendPrompt(g) \/ EnqueueInternalTurn(g)
    PROVE  PromptsInv'
<1> DEFINE p == task[g].p
           r == IF at[g] = "append" THEN [copy[g] EXCEPT !.pub = Append(@, p)]
                                    ELSE [copy[g] EXCEPT !.int = Append(@, p)]
<1>1. /\ at[g] \in {"append", "enqueue"} /\ row' = Saved(r) /\ Unlock(g)
      /\ accepted' = accepted \cup {p} /\ deleted' = deleted /\ starts' = starts
      /\ cut' = cut /\ crashes' = crashes
    BY DEF AppendPrompt, EnqueueInternalTurn, Save
<1>2. PICK l \in {"out", "drain"} : Goto(g, l)
    BY DEF AppendPrompt, EnqueueInternalTurn, Save, AfterMutation
<1>3. /\ task[g].kind \in {"queue", "direct"}
      /\ at[g] = "append" => p \in Public
      /\ at[g] = "enqueue" => p \in Internal
    BY <1>1 DEF TasksFit, Fits
<1>4. p \in Prompts
    BY <1>1, <1>3 DEF Prompts
<1>5. Owns(g, p)
    BY <1>1 DEF Owns, Owning
<1>6. p \notin InQueue /\ p \notin deleted /\ Due(p) /\ p \notin accepted
    BY <1>3, <1>4, <1>5 DEF PromptsInv, Owners
<1>7. row.turn # p
    BY <1>4, <1>6 DEF PromptsInv, Turns
<1>8. copy[g] \in Rows /\ row \in Rows
    BY <1>1 DEF TInv, WorkOK, Saving
<1>9. copy[g].pub = row.pub /\ copy[g].int = row.int /\ copy[g].steer = row.steer
    BY <1>1 DEF LInv, FreshCopies, Saving
<1>10. row.pub \in Seq(Prompts) /\ row.int \in Seq(Prompts)
    BY <1>8 DEF Rows
<1>11. /\ row'.pub = IF at[g] = "append" THEN Append(row.pub, p) ELSE row.pub
       /\ row'.int = IF at[g] = "append" THEN row.int ELSE Append(row.int, p)
       /\ row'.steer = row.steer /\ row'.status = copy[g].status
       /\ row'.turn \in {row.turn, None}
    BY <1>1, <1>8, <1>9 DEF Saved, Rows
<1> HIDE DEF p, r
<1>12. Lists' /\ InQueue' = InQueue \cup {p}
    <2>1. CASE at[g] = "append"
        <3>1. /\ ToSet(Append(row.pub, p)) = ToSet(row.pub) \cup {p}
              /\ IsInjective(row.pub) /\ p \notin ToSet(row.pub) => IsInjective(Append(row.pub, p))
            BY <1>4, <1>10, AppendSet
        <3>2. QED
            BY <1>3, <1>6, <1>11, <2>1, <3>1 DEF PromptsInv, Lists, InQueue
    <2>2. CASE at[g] = "enqueue"
        <3>1. /\ ToSet(Append(row.int, p)) = ToSet(row.int) \cup {p}
              /\ IsInjective(row.int) /\ p \notin ToSet(row.int) => IsInjective(Append(row.int, p))
            BY <1>4, <1>10, AppendSet
        <3>2. QED
            BY <1>3, <1>6, <1>11, <2>2, <3>1 DEF PromptsInv, Lists, InQueue
    <2>3. QED
        BY <1>1, <2>1, <2>2
<1>13. Ledger'
    <2>1. \A q \in Prompts : (Due(q)' <=> Due(q)) /\ MostStarts(q)' = MostStarts(q)
        BY <1>1, SameDues
    <2>2. deleted \subseteq Prompts
        BY DEF TInv, RestOK
    <2>3. QED
        BY <1>1, <1>6, <1>12, <2>1, <2>2 DEF PromptsInv, Ledger
<1>14. \A h \in Procs : h # g => copy'[h] = copy[h]
    BY <1>1 DEF Unlock, TInv, WorkOK
<1>15. \A h \in Procs : h # g => ~ Owns(h, p)
    BY <1>4, <1>5 DEF PromptsInv, Apart
<1>16. row'.status = "interrupted" => MayInterrupt
    BY <1>1, <1>11 DEF MayInterrupt, Saving
<1>17. row'.turn # p
    BY <1>4, <1>7, <1>11, NotPrompts
<1>18. task[g].p = p
    BY DEF p
<1>19. \A q \in Prompts : q # p =>
            /\ q \in InQueue' <=> q \in InQueue
            /\ q \in accepted' <=> q \in accepted
            /\ q \in deleted' <=> q \in deleted
            /\ starts'[q] = starts[q]
    BY <1>1, <1>12
<1>20. p \in InQueue'
    BY <1>12
<1>21. row'.steer = row.steer /\ task[g].kind # "steer"
    BY <1>3, <1>11
<1>22. QED
    BY <1>1, <1>2, <1>4, <1>11, <1>12, <1>13, <1>14, <1>15, <1>16, <1>17, <1>18, <1>19, <1>20,
        <1>21, DoneKeeps

\* A queued prompt is deleted.
LEMMA DeleteKeeps ==
    ASSUME NoUnlockedSaves, TInv, LInv, TasksFit, PromptsInv, NEW g \in Procs, DeletePrompt(g)
    PROVE  PromptsInv'
<1>1. PICK i \in DOMAIN copy[g].pub :
        /\ copy[g].pub[i] = task[g].p
        /\ Save(g, [copy[g] EXCEPT !.pub = RemoveAt(@, i)],
                AfterMutation([copy[g] EXCEPT !.pub = RemoveAt(@, i)]))
    BY DEF DeletePrompt
<1> DEFINE p == task[g].p
           new == RemoveAt(copy[g].pub, i)
<1>2. /\ at[g] = "delete" /\ row' = Saved([copy[g] EXCEPT !.pub = new]) /\ Unlock(g)
      /\ accepted' = accepted /\ deleted' = deleted \cup {p} /\ starts' = starts
      /\ cut' = cut /\ crashes' = crashes
    BY <1>1 DEF DeletePrompt, Save
<1>3. PICK l \in {"out", "drain"} : Goto(g, l)
    BY <1>1 DEF Save, AfterMutation
<1>4. task[g].kind = "queue"
    BY <1>2 DEF TasksFit, Fits
<1>5. copy[g] \in Rows /\ row \in Rows
    BY <1>2 DEF TInv, WorkOK, Saving
<1>6. copy[g].pub = row.pub /\ copy[g].int = row.int /\ copy[g].steer = row.steer
    BY <1>2 DEF LInv, FreshCopies, Saving
<1>7. row.pub \in Seq(Prompts)
    BY <1>5 DEF Rows
<1>8. i \in 1..Len(row.pub) /\ row.pub[i] = p
    BY <1>1, <1>6, <1>7, SeqFacts
<1>9. p \in ToSet(row.pub) /\ p \in Public /\ p \in Prompts
    BY <1>7, <1>8, SeqFacts DEF PromptsInv, Lists
<1>10. /\ row'.pub = new /\ row'.int = row.int /\ row'.steer = row.steer
       /\ row'.status = copy[g].status /\ row'.turn \in {row.turn, None}
    BY <1>2, <1>5, <1>6 DEF Saved, Rows
<1>11. new = RemoveAt(row.pub, i)
    BY <1>6
<1> HIDE DEF p, new
<1>12. /\ ToSet(row.pub) \subseteq ToSet(new) \cup {p} /\ ToSet(new) \subseteq ToSet(row.pub)
       /\ IsInjective(row.pub) => IsInjective(new) /\ p \notin ToSet(new)
    BY <1>7, <1>8, <1>11, RemoveSet
<1>13. p \notin Internal
    BY <1>9, QueueAssumption
<1>14. Lists' /\ InQueue' = InQueue \ {p} /\ p \in InQueue
    BY <1>9, <1>10, <1>12, <1>13 DEF PromptsInv, Lists, InQueue
<1>15. /\ p \in accepted /\ p \notin deleted /\ Due(p) /\ row.turn # p
       /\ \A h \in Procs : ~ Owns(h, p)
    BY <1>9, <1>14 DEF PromptsInv, Ledger, Owners, Turns
<1>16. Ledger'
    <2>1. \A q \in Prompts : (Due(q)' <=> Due(q)) /\ MostStarts(q)' = MostStarts(q)
        BY <1>2, SameDues
    <2>2. deleted \subseteq Prompts
        BY DEF TInv, RestOK
    <2>3. QED
        BY <1>2, <1>9, <1>14, <1>15, <2>1, <2>2 DEF PromptsInv, Ledger
<1>17. \A h \in Procs : h # g => copy'[h] = copy[h]
    BY <1>2 DEF Unlock, TInv, WorkOK
<1>18. row'.status = "interrupted" => MayInterrupt
    BY <1>2, <1>10 DEF MayInterrupt, Saving
<1>19. row'.turn # p
    BY <1>9, <1>10, <1>15, NotPrompts
<1>20. task[g].p = p
    BY DEF p
<1>21. \A q \in Prompts : q # p =>
            /\ q \in InQueue' <=> q \in InQueue
            /\ q \in accepted' <=> q \in accepted
            /\ q \in deleted' <=> q \in deleted
            /\ starts'[q] = starts[q]
    BY <1>2, <1>14
<1>22. p \in deleted'
    BY <1>2
<1>23. row'.steer = row.steer /\ task[g].kind # "steer"
    BY <1>4, <1>10
<1>24. QED
    BY <1>2, <1>3, <1>9, <1>10, <1>14, <1>15, <1>16, <1>17, <1>18, <1>19, <1>20, <1>21, <1>22,
        <1>23, DoneKeeps

\* A claimed or steered prompt goes back to the queue.
LEMMA RestoreKeeps ==
    ASSUME NoUnlockedSaves, TInv, LInv, TasksFit, PromptsInv, NEW g \in Procs, RestorePrompt(g)
    PROVE  PromptsInv'
<1> DEFINE p == task[g].p
           n == task[g].idx
           r == IF p \in Internal THEN [copy[g] EXCEPT !.int = Insert(@, n, p)]
                                  ELSE [copy[g] EXCEPT !.pub = Insert(@, n, p)]
<1>1. /\ at[g] = "restore" /\ row' = Saved([r EXCEPT !.steer = None, !.status = "error"])
      /\ Unlock(g) /\ Goto(g, "out")
      /\ accepted' = accepted /\ deleted' = deleted /\ starts' = starts
      /\ cut' = cut /\ crashes' = crashes
    BY DEF RestorePrompt, Save, ledger
<1>2. task[g].kind \in {"claim", "steer"} /\ p \in Prompts /\ n \in Nat
    BY <1>1 DEF TInv, WorkOK, TasksOK, Tasks
<1>3. Owns(g, p)
    BY <1>1 DEF Owns, Owning, Carrying
<1>4. p \notin InQueue /\ p \notin deleted /\ Due(p) /\ p \in accepted
    BY <1>2, <1>3 DEF PromptsInv, Owners
<1>5. copy[g] \in Rows /\ row \in Rows
    BY <1>1 DEF TInv, WorkOK, Saving
<1>6. copy[g].pub = row.pub /\ copy[g].int = row.int
    BY <1>1 DEF LInv, FreshCopies, Saving
<1>7. row.pub \in Seq(Prompts) /\ row.int \in Seq(Prompts)
    BY <1>5 DEF Rows
<1>8. /\ row'.pub = IF p \in Internal THEN row.pub ELSE Insert(row.pub, n, p)
      /\ row'.int = IF p \in Internal THEN Insert(row.int, n, p) ELSE row.int
      /\ row'.steer = None /\ row'.status = "error" /\ row'.turn = None
    BY <1>1, <1>5, <1>6 DEF Saved, Rows
<1> HIDE DEF p, n, r
<1>9. Lists' /\ InQueue' = InQueue \cup {p}
    <2>1. CASE p \in Internal
        <3>1. PICK t : t = Insert(row.int, n, p)
            OBVIOUS
        <3>2. /\ ToSet(t) = ToSet(row.int) \cup {p}
              /\ IsInjective(row.int) /\ p \notin ToSet(row.int) => IsInjective(t)
            BY <1>2, <1>7, <3>1, InsertSet
        <3>3. QED
            BY <1>4, <1>8, <2>1, <3>1, <3>2 DEF PromptsInv, Lists, InQueue
    <2>2. CASE p \notin Internal
        <3>1. PICK t : t = Insert(row.pub, n, p)
            OBVIOUS
        <3>2. /\ ToSet(t) = ToSet(row.pub) \cup {p}
              /\ IsInjective(row.pub) /\ p \notin ToSet(row.pub) => IsInjective(t)
            BY <1>2, <1>7, <3>1, InsertSet
        <3>3. p \in Public
            BY <1>2, <2>2 DEF Prompts
        <3>4. QED
            BY <1>4, <1>8, <2>2, <3>1, <3>2, <3>3 DEF PromptsInv, Lists, InQueue
    <2>3. QED
        BY <2>1, <2>2
<1>10. Ledger'
    <2>1. \A q \in Prompts : (Due(q)' <=> Due(q)) /\ MostStarts(q)' = MostStarts(q)
        BY <1>1, SameDues
    <2>2. deleted \subseteq Prompts
        BY DEF TInv, RestOK
    <2>3. QED
        BY <1>1, <1>2, <1>4, <1>9, <2>1, <2>2 DEF PromptsInv, Ledger
<1>11. \A h \in Procs : h # g => copy'[h] = copy[h]
    BY <1>1 DEF Unlock, TInv, WorkOK
<1>12. \A h \in Procs : h # g => ~ Owns(h, p)
    BY <1>2, <1>3 DEF PromptsInv, Apart
<1>13. row'.turn # p
    BY <1>2, <1>8, NotPrompts
<1>14. task[g].p = p
    BY DEF p
<1>15. \A q \in Prompts : q # p =>
            /\ q \in InQueue' <=> q \in InQueue
            /\ q \in accepted' <=> q \in accepted
            /\ q \in deleted' <=> q \in deleted
            /\ starts'[q] = starts[q]
    BY <1>1, <1>9
<1>16. p \in InQueue'
    BY <1>9
<1>17. QED
    BY <1>1, <1>2, <1>8, <1>9, <1>10, <1>11, <1>12, <1>13, <1>14, <1>15, <1>16, DoneKeeps

\* A prompt reaches the agent, or an action runs.
LEMMA StartKeeps ==
    ASSUME TInv, TasksFit, PromptsInv, NEW g \in Procs, NEW p \in Prompts, Owns(g, p),
           NEW l \in {"out", "drain", "toClear", "acted"}, Goto(g, l),
           task[g].kind = "steer" => l = "toClear",
           copy' = copy, accepted' = accepted, deleted' = deleted, cut' = cut,
           crashes' = crashes,
           starts' = [starts EXCEPT ![p] = @ + 1],
           row'.pub = row.pub, row'.int = row.int, row'.steer = row.steer,
           row'.turn \in {row.turn, None},
           row'.turn = p => p \in Actions /\ p \in accepted,
           row'.status = "interrupted" => MayInterrupt
    PROVE  PromptsInv'
<1>1. p \notin InQueue /\ p \notin deleted /\ Due(p)
    BY DEF PromptsInv, Owners
<1>2. /\ starts'[p] # 0 /\ starts'[p] <= MostStarts(p)'
      /\ \A q \in Prompts : q # p => starts'[q] = starts[q]
    BY <1>1, StartedDue
<1>3. Lists' /\ InQueue' = InQueue
    BY DEF PromptsInv, Lists, InQueue
<1>4. deleted \subseteq Prompts
    BY DEF TInv, RestOK
<1>5. Ledger'
    <2>1. \A q \in Prompts : q # p => (Due(q)' <=> Due(q)) /\ MostStarts(q)' = MostStarts(q)
        BY <1>2, SameDue
    <2>2. QED
        BY <1>1, <1>2, <1>3, <1>4, <2>1 DEF PromptsInv, Ledger
<1>6. \A h \in Procs : h # g => ~ Owns(h, p)
    BY DEF PromptsInv, Apart
<1>7. task[g].p = p
    BY DEF Owns
<1>8. \A q \in Prompts : q # p =>
            /\ q \in InQueue' <=> q \in InQueue
            /\ q \in accepted' <=> q \in accepted
            /\ q \in deleted' <=> q \in deleted
            /\ starts'[q] = starts[q]
    BY <1>2, <1>3
<1>9. starts'[p] # 0
    BY <1>2
<1>10. row'.turn = p =>
            /\ p \in Actions /\ p \in accepted' /\ p \notin deleted' /\ p \notin InQueue'
            /\ ~ (at[Recovery] = "recover" /\ MayInterrupt)
    <2>1. row'.turn = p => row.turn = p
        BY NotPrompts
    <2>2. row.turn = p => ~ (at[Recovery] = "recover" /\ MayInterrupt)
        BY DEF PromptsInv, Resumable
    <2>3. QED
        BY <1>1, <1>3, <2>1, <2>2
<1>11. QED
    BY <1>3, <1>5, <1>6, <1>7, <1>8, <1>9, <1>10, DoneKeeps

LEMMA StartsKeep ==
    ASSUME TInv, TasksFit, PromptsInv, NEW g \in Procs,
           RunAction(g) \/ SteerTaken(g) \/ BusySteers(g) \/ SendStart(g)
    PROVE  PromptsInv'
<1> DEFINE p == task[g].p
<1>1. Fits(at[g], task[g])
    BY DEF TasksFit
<1>2. at[g] \in {"act", "steering", "busy", "mark"}
    BY DEF RunAction, SteerTaken, BusySteers, SendStart
<1>3. p \in Prompts => Owns(g, p)
    BY <1>2 DEF Owns, Owning, Carrying, Handing
<1>4. CASE RunAction(g)
    <2>1. p \in Actions /\ p \in Prompts /\ task[g].kind = "claim"
        BY <1>1, <1>4, QueueAssumption DEF RunAction, Fits, Prompts
    <2>2. row' = row /\ Goto(g, "acted") /\ copy' = copy /\ accepted' = accepted
          /\ deleted' = deleted /\ cut' = cut /\ crashes' = crashes
          /\ starts' = [starts EXCEPT ![p] = @ + 1]
        BY <1>4 DEF RunAction
    <2>3. p \in accepted
        BY <1>3, <2>1 DEF PromptsInv, Owners
    <2>4. QED
        BY <1>3, <2>1, <2>2, <2>3, StartKeeps DEF MayInterrupt
<1>5. CASE SteerTaken(g)
    <2>1. p \in Prompts /\ task[g].kind = "steer"
        BY <1>1, <1>5 DEF SteerTaken, Fits, Prompts
    <2>2. row' = row /\ Goto(g, "toClear") /\ copy' = copy /\ accepted' = accepted
          /\ deleted' = deleted /\ cut' = cut /\ crashes' = crashes
          /\ starts' = [starts EXCEPT ![p] = @ + 1]
        BY <1>5 DEF SteerTaken
    <2>3. row.turn # p
        BY <1>3, <2>1 DEF PromptsInv, Turns
    <2>4. QED
        BY <1>3, <2>1, <2>2, <2>3, StartKeeps DEF MayInterrupt
<1>6. CASE BusySteers(g)
    <2>1. p \in Prompts /\ task[g].kind = "direct"
        BY <1>1, <1>6 DEF BusySteers, Fits, Prompts
    <2>2. row' = row /\ Goto(g, "out") /\ copy' = copy /\ accepted' = accepted
          /\ deleted' = deleted /\ cut' = cut /\ crashes' = crashes
          /\ starts' = [starts EXCEPT ![p] = @ + 1]
        BY <1>6 DEF BusySteers
    <2>3. p \notin accepted
        BY <1>3, <2>1 DEF PromptsInv, Owners
    <2>4. row.turn # p
        BY <2>1, <2>3 DEF PromptsInv, Turns
    <2>5. QED
        BY <1>3, <2>1, <2>2, <2>4, StartKeeps DEF MayInterrupt
<1>7. CASE SendStart(g)
    <2>1. /\ at[g] = "mark" /\ row' = row /\ copy' = copy /\ accepted' = accepted
          /\ deleted' = deleted /\ cut' = cut /\ crashes' = crashes /\ CountStart(p)
          /\ Goto(g, AfterSend(task[g].kind))
        BY <1>7 DEF SendStart
    <2>2. PICK l \in {"out", "drain", "toClear"} :
            Goto(g, l) /\ (task[g].kind = "steer" <=> l = "toClear")
        BY <2>1 DEF AfterSend
    <2>3. p \in Prompts \cup {None}
        BY DEF TInv, WorkOK, Tasks
    <2>4. CASE p \in Prompts
        <3>1. starts' = [starts EXCEPT ![p] = @ + 1]
            BY <2>1, <2>4, NotPrompts DEF CountStart
        <3>2. row.turn # p
            BY <1>3, <2>1, <2>4 DEF PromptsInv, Turns
        <3>3. QED
            BY <1>3, <2>1, <2>2, <2>4, <3>1, <3>2, StartKeeps DEF MayInterrupt
    <2>5. CASE p = None
        <3>1. ledger' = ledger
            BY <2>1, <2>5 DEF CountStart, ledger
        <3>2. p \notin Public
            BY <2>5, NotPrompts DEF Prompts
        <3>3. task[g].kind \notin {"claim", "steer"}
            BY <2>5, NotPrompts DEF TInv, WorkOK, TasksOK
        <3>4. QuietRow
            BY <2>1, SameRowIsQuiet
        <3>5. QED
            BY <2>1, <2>2, <3>1, <3>3, <3>4, QuietGoto DEF Labels, Saving, Handing, Owning, Carrying
    <2>6. QED
        BY <2>3, <2>4, <2>5
<1>8. QED
    BY <1>4, <1>5, <1>6, <1>7

\* A goroutine takes a prompt nobody had: the next one of the queue, the one that is
\* to be steered, or the one a stopped server had claimed.
LEMMA TakenKeeps ==
    ASSUME TInv, TasksFit, PromptsInv, NEW g \in Procs, NEW r \in Procs, NEW p \in Prompts,
           at[g] \in {"claim", "steer", "recover"},
           g # r => at[g] # "steer" /\ at[r] = "out" /\ at'[g] \in {"out", "close", "drain"},
           at'[r] \in {"act", "send", "steering"}, task'[r].p = p,
           task'[r].kind \in {"claim", "steer", "recover"},
           \A h \in Procs : h # r => task'[h] = task[h],
           \A h \in Procs : h \notin {g, r} => at'[h] = at[h],
           ledger' = ledger, crashes' = crashes,
           task'[r].kind = "recover" => crashes # 0,
           Lists', InQueue' = InQueue \ {p},
           p \in accepted, p \notin deleted, Due(p), \A h \in Procs : ~ Owns(h, p),
           row'.turn \in {row.turn, None, p},
           row'.turn = p =>
                task'[r].kind # "steer" /\ (at'[Recovery] = "recover" => ~ MayInterrupt'),
           MayInterrupt' => MayInterrupt,
           row'.steer = row.steer \/ task'[r].kind = "steer"
    PROVE  PromptsInv'
<1> USE DEF Carrying, Handing
<1>1. /\ accepted' = accepted /\ deleted' = deleted /\ starts' = starts
      /\ \A q \in Prompts : (Due(q)' <=> Due(q)) /\ MostStarts(q)' = MostStarts(q)
    BY SameDues DEF ledger
<1>2. /\ at[r] \in {"claim", "steer", "recover", "out"}
      /\ at[r] # "steer" => task[r].kind # "steer"
      /\ g # r => task[g].kind # "steer"
    BY DEF TasksFit, Fits, NoTask, Task
<1>3. ASSUME NEW h \in Procs, NEW q \in Prompts, Owns(h, q)'
      PROVE  \/ h = r /\ q = p
             \/ /\ h # r /\ q # p /\ Owns(h, q)
                /\ at'[h] = at[h] /\ task'[h] = task[h]
    <2>1. CASE h = r
        BY <1>3, <2>1 DEF Owns
    <2>2. CASE h # r
        <3>1. h # g
            BY <1>3, <2>2 DEF Owns, Owning
        <3>2. at'[h] = at[h] /\ task'[h] = task[h]
            BY <2>2, <3>1
        <3>3. Owns(h, q)
            BY <1>3, <3>2 DEF Owns
        <3>4. QED
            BY <2>2, <3>2, <3>3
    <2>3. QED
        BY <2>1, <2>2
<1>4. Ledger'
    BY <1>1 DEF PromptsInv, Ledger, TInv, RestOK
<1>5. Owners'
    <2>1. SUFFICES ASSUME NEW h \in Procs, NEW q \in Prompts, Owns(h, q)'
                   PROVE  /\ q \notin InQueue' /\ q \notin deleted /\ Due(q)
                          /\ q \in accepted <=> task'[h].kind \in {"claim", "steer", "recover"}
        BY <1>1 DEF Owners
    <2>2. CASE h = r /\ q = p
        BY <2>2
    <2>3. CASE Owns(h, q) /\ task'[h] = task[h]
        BY <2>3 DEF PromptsInv, Owners
    <2>4. QED
        BY <1>3, <2>1, <2>2, <2>3
<1>6. Apart'
    BY <1>3 DEF PromptsInv, Apart
<1>7. \A q \in Prompts : row'.turn = q => row.turn = q \/ q = p
    BY NotPrompts
<1>8. Turns'
    <2>1. SUFFICES ASSUME NEW q \in Prompts, row'.turn = q
                   PROVE  /\ q \in accepted /\ q \notin deleted /\ (q \in Actions \/ Due(q))
                          /\ q \notin InQueue'
                          /\ \A h \in Procs : Owns(h, q)' => task'[h].kind # "steer" /\ at'[h] # "mark"
        BY <1>1 DEF Turns
    <2>2. CASE q = p
        BY <1>3, <2>1, <2>2
    <2>3. CASE q # p /\ row.turn = q
        <3>1. q \in accepted /\ q \notin deleted /\ (q \in Actions \/ Due(q)) /\ q \notin InQueue
            BY <2>3 DEF PromptsInv, Turns
        <3>2. ASSUME NEW h \in Procs, Owns(h, q)' PROVE task'[h].kind # "steer" /\ at'[h] # "mark"
            BY <1>3, <2>3, <3>2 DEF PromptsInv, Turns
        <3>3. QED
            BY <3>1, <3>2
    <2>4. QED
        BY <1>7, <2>1, <2>2, <2>3
<1>9. Recovery \in Procs
    BY DEF Procs
<1>10. \A h \in Procs : at'[h] = "recover" => at[h] = "recover"
    <2>1. TAKE h \in Procs
    <2>2. QED
        BY <1>2
<1>11. Resumable'
    <2>1. SUFFICES ASSUME at'[Recovery] = "recover", MayInterrupt',
                          NEW q \in Prompts, row'.turn = q
                   PROVE  Due(q) /\ \A h \in Procs : ~ Owns(h, q)'
        BY <1>1 DEF Resumable
    <2>2. q # p /\ row.turn = q
        BY <1>7, <2>1
    <2>3. Due(q) /\ \A h \in Procs : ~ Owns(h, q)
        BY <1>9, <1>10, <2>1, <2>2 DEF PromptsInv, Resumable
    <2>4. QED
        BY <1>3, <2>2, <2>3
<1>12. ASSUME crashes = 0 PROVE (NoRecovery /\ Kept /\ PendingSteerAttended)'
    <2>1. NoRecovery /\ Kept /\ PendingSteerAttended
        BY <1>12 DEF PromptsInv, Undisturbed
    <2>2. NoRecovery'
        BY <1>10, <1>12, <2>1 DEF NoRecovery
    <2>3. ASSUME NEW q \in Prompts, q \in accepted, q \notin deleted, starts[q] = 0,
                 q \notin InQueue'
          PROVE  \E h \in Procs : task'[h].p = q /\ at'[h] \in Carrying
        <3>1. CASE q = p
            BY <3>1
        <3>2. CASE q # p
            <4>1. PICK h \in Procs : task[h].p = q /\ at[h] \in Carrying
                BY <2>1, <2>3, <3>2 DEF Kept
            <4>2. h \notin {g, r}
                BY <1>2, <4>1
            <4>3. QED
                BY <4>1, <4>2
        <3>3. QED
            BY <3>1, <3>2
    <2>4. Kept'
        BY <1>1, <2>3 DEF Kept
    <2>5. PendingSteerAttended'
        <3>1. CASE task'[r].kind = "steer"
            BY <3>1 DEF PendingSteerAttended
        <3>2. CASE task'[r].kind # "steer" /\ row'.steer # None
            <4>1. PICK h \in Procs : task[h].kind = "steer" /\ at[h] # "steer"
                BY <2>1, <3>2 DEF PendingSteerAttended
            <4>2. h \notin {g, r}
                <5>1. h # r
                    BY <1>2, <4>1
                <5>2. QED
                    BY <1>2, <4>1, <5>1
            <4>3. QED
                BY <4>1, <4>2 DEF PendingSteerAttended
        <3>3. QED
            BY <3>1, <3>2 DEF PendingSteerAttended
    <2>6. QED
        BY <2>2, <2>4, <2>5
<1>13. Undisturbed'
    BY <1>12 DEF Undisturbed
<1>14. QED
    BY <1>4, <1>5, <1>6, <1>8, <1>11, <1>13 DEF PromptsInv

\* The next prompt of a queue is taken out of it.
LEMMA NextTaken ==
    ASSUME NEW r \in Rows, QueueOf(r) # <<>>,
           IsInjective(r.pub), IsInjective(r.int),
           ToSet(r.pub) \subseteq Public, ToSet(r.int) \subseteq Internal
    PROVE  LET p == NextPrompt(r)
               rest == WithoutNext(r)
           IN  /\ p \in ToSet(r.pub) \cup ToSet(r.int)
               /\ ToSet(rest.pub) \cup ToSet(rest.int) = (ToSet(r.pub) \cup ToSet(r.int)) \ {p}
               /\ IsInjective(rest.pub) /\ IsInjective(rest.int)
               /\ ToSet(rest.pub) \subseteq Public /\ ToSet(rest.int) \subseteq Internal
<1>1. r.pub \in Seq(Prompts) /\ r.int \in Seq(Prompts)
    BY DEF Rows
<1>2. r.pub # <<>> \/ r.int # <<>>
    BY <1>1 DEF QueueOf
<1>3. Public \cap Internal = {}
    BY QueueAssumption
<1>4. CASE r.pub # <<>>
    <2>1. PICK p, t : p = Head(r.pub) /\ t = Tail(r.pub)
        OBVIOUS
    <2>2. /\ p \in ToSet(r.pub) /\ ToSet(r.pub) \subseteq ToSet(t) \cup {p}
          /\ ToSet(t) \subseteq ToSet(r.pub) /\ IsInjective(t) /\ p \notin ToSet(t)
        BY <1>1, <1>4, <2>1, TailSet
    <2>3. NextPrompt(r) = p /\ WithoutNext(r).pub = t /\ WithoutNext(r).int = r.int
        BY <1>4, <2>1 DEF NextPrompt, WithoutNext, TakesPublic, Rows
    <2>4. p \notin ToSet(r.int)
        BY <1>3, <2>2
    <2>5. QED
        BY <2>2, <2>3, <2>4
<1>5. CASE r.pub = <<>>
    <2>1. PICK p, t : p = Head(r.int) /\ t = Tail(r.int)
        OBVIOUS
    <2>2. /\ p \in ToSet(r.int) /\ ToSet(r.int) \subseteq ToSet(t) \cup {p}
          /\ ToSet(t) \subseteq ToSet(r.int) /\ IsInjective(t) /\ p \notin ToSet(t)
        BY <1>1, <1>2, <1>5, <2>1, TailSet
    <2>3. NextPrompt(r) = p /\ WithoutNext(r).int = t /\ WithoutNext(r).pub = r.pub
        BY <1>5, <2>1 DEF NextPrompt, WithoutNext, TakesPublic, Rows
    <2>4. p \notin ToSet(r.pub)
        BY <1>3, <2>2
    <2>5. QED
        BY <2>2, <2>3, <2>4
<1>6. QED
    BY <1>4, <1>5

LEMMA ClaimPromptKeeps ==
    ASSUME NoUnlockedSaves, TInv, LInv, TasksFit, PromptsInv, NEW g \in Procs, ClaimPrompt(g)
    PROVE  PromptsInv'
<1>1. PICK p, rest : p = NextPrompt(copy[g]) /\ rest = WithoutNext(copy[g])
    OBVIOUS
<1>2. /\ at[g] = "claim" /\ QueueOf(copy[g]) # <<>> /\ Unlock(g)
      /\ row' = [row EXCEPT !.status = "running", !.turn = p, !.pub = rest.pub, !.int = rest.int]
      /\ RunTurn(g, "claim", p) /\ ledger' = ledger /\ crashes' = crashes
    BY <1>1 DEF ClaimPrompt, ledger
<1>3. copy[g] \in Rows /\ row \in Rows
    BY <1>2 DEF TInv, WorkOK, Saving
<1>4. copy[g].pub = row.pub /\ copy[g].int = row.int
    BY <1>2 DEF LInv, FreshCopies, Saving
<1>5. /\ row'.pub = rest.pub /\ row'.int = rest.int /\ row'.turn = p
      /\ row'.status = "running" /\ row'.steer = row.steer
    BY <1>2, <1>3 DEF Rows
<1>6. /\ p \in InQueue
      /\ ToSet(rest.pub) \cup ToSet(rest.int) = InQueue \ {p}
      /\ IsInjective(rest.pub) /\ IsInjective(rest.int)
      /\ ToSet(rest.pub) \subseteq Public /\ ToSet(rest.int) \subseteq Internal
    BY <1>1, <1>2, <1>3, <1>4, NextTaken DEF PromptsInv, Lists, InQueue
<1>7. Lists' /\ InQueue' = InQueue \ {p}
    BY <1>5, <1>6 DEF Lists, InQueue
<1>8. p \in Prompts
    BY <1>1, <1>2, <1>3, NextPromptIsPrompt
<1>9. p \in accepted /\ p \notin deleted /\ Due(p) /\ \A h \in Procs : ~ Owns(h, p)
    BY <1>6, <1>8 DEF PromptsInv, Ledger, Owners
<1>10. PICK r \in Procs :
        /\ Runs(g, r)
        /\ at' = [at EXCEPT ![g] = AfterDrain(g), ![r] = IF p \in Actions THEN "act" ELSE "send"]
        /\ task' = [task EXCEPT ![r] = Task("claim", p, 0)]
    BY <1>2 DEF RunTurn
<1>11. /\ at'[r] \in {"act", "send"} /\ task'[r] = Task("claim", p, 0)
       /\ \A h \in Procs : h # r => task'[h] = task[h]
       /\ \A h \in Procs : h \notin {g, r} => at'[h] = at[h]
       /\ g # r => at[r] = "out" /\ at'[g] \in {"close", "out"}
    BY <1>10 DEF Runs, AfterDrain, TInv, WorkOK
<1>12. task'[r].p = p /\ task'[r].kind = "claim"
    BY <1>11 DEF Task
<1>13. ~ MayInterrupt'
    <2>1. SUFFICES ASSUME NEW h \in Procs, at'[h] \in Saving PROVE FALSE
        BY <1>5 DEF MayInterrupt
    <2>2. h \notin {g, r}
        BY <1>11, <2>1 DEF Saving
    <2>3. at[h] \in Saving
        BY <1>11, <2>1, <2>2
    <2>4. QED
        BY <1>2, <2>2, <2>3 DEF LInv, Locking, Saving
<1>14. at[g] \in {"claim", "steer", "recover"} /\ at[g] # "steer"
    BY <1>2
<1>15. QED
    BY <1>2, <1>5, <1>7, <1>8, <1>9, <1>11, <1>12, <1>13, <1>14, TakenKeeps

LEMMA ClaimSteeredKeeps ==
    ASSUME NoUnlockedSaves, TInv, LInv, TasksFit, PromptsInv, NEW g \in Procs, ClaimSteered(g)
    PROVE  PromptsInv'
<1>1. PICK i \in DOMAIN copy[g].pub :
          /\ copy[g].pub[i] = task[g].p
          /\ row' = Saved([copy[g] EXCEPT
                        !.pub = RemoveAt(@, i),
                        !.steer = task[g].p,
                        !.status = IF RuntimeRunning THEN @ ELSE "running"])
          /\ task' = [task EXCEPT ![g].idx = i - 1]
    BY DEF ClaimSteered
<1>2. PICK p, new : p = task[g].p /\ new = RemoveAt(copy[g].pub, i)
    OBVIOUS
<1>3. /\ at[g] = "steer" /\ Unlock(g) /\ ledger' = ledger /\ crashes' = crashes
      /\ at' = [at EXCEPT ![g] = IF RuntimeRunning THEN "steering" ELSE "send"]
    BY DEF ClaimSteered, ledger
<1>4. copy[g] \in Rows /\ row \in Rows
    BY <1>3 DEF TInv, WorkOK, Saving
<1>5. copy[g].pub = row.pub /\ copy[g].int = row.int
    BY <1>3 DEF LInv, FreshCopies, Saving
<1>6. /\ row'.pub = new /\ row'.int = row.int /\ row'.turn \in {row.turn, None}
      /\ row'.steer = p /\ row'.status \in {copy[g].status, "running"}
    BY <1>1, <1>2, <1>4, <1>5 DEF Saved, Rows
<1>7. row.pub \in Seq(Prompts)
    BY <1>4 DEF Rows
<1>8. i \in 1..Len(row.pub) /\ row.pub[i] = p
    BY <1>1, <1>2, <1>5, <1>7, SeqFacts
<1>9. p \in ToSet(row.pub) /\ p \in Public /\ p \in Prompts
    BY <1>7, <1>8, SeqFacts DEF PromptsInv, Lists
<1>10. p \notin Internal
    BY <1>9, QueueAssumption
<1>11. new = RemoveAt(row.pub, i)
    BY <1>2, <1>5
<1>12. /\ ToSet(row.pub) \subseteq ToSet(new) \cup {p} /\ ToSet(new) \subseteq ToSet(row.pub)
       /\ IsInjective(row.pub) => IsInjective(new) /\ p \notin ToSet(new)
    BY <1>7, <1>8, <1>11, RemoveSet
<1>13. Lists' /\ InQueue' = InQueue \ {p} /\ p \in InQueue
    BY <1>6, <1>9, <1>10, <1>12 DEF PromptsInv, Lists, InQueue
<1>14. /\ p \in accepted /\ p \notin deleted /\ Due(p) /\ row.turn # p
       /\ \A h \in Procs : ~ Owns(h, p)
    BY <1>9, <1>13 DEF PromptsInv, Ledger, Owners, Turns
<1>15. row'.turn # p
    BY <1>6, <1>9, <1>14, NotPrompts
<1>16. /\ at'[g] \in {"send", "steering"}
       /\ \A h \in Procs : h # g => at'[h] = at[h] /\ task'[h] = task[h]
    BY <1>1, <1>3 DEF TInv, WorkOK
<1>17. task'[g].p = p /\ task'[g].kind = "steer"
    <2>1. task[g] \in Tasks /\ task[g].kind = "steer"
        BY <1>3 DEF TInv, WorkOK, TasksFit, Fits
    <2>2. QED
        BY <1>1, <1>2, <2>1 DEF TInv, WorkOK, Tasks
<1>18. MayInterrupt' => MayInterrupt
    <2>1. row'.status = "interrupted" => MayInterrupt
        BY <1>3, <1>6 DEF MayInterrupt, Saving
    <2>2. \A h \in Procs : at'[h] \in Saving => h # g
        BY <1>16 DEF Saving
    <2>3. \A h \in Procs : h # g => copy'[h] = copy[h]
        BY <1>3 DEF Unlock, TInv, WorkOK
    <2>4. QED
        BY <1>16, <2>1, <2>2, <2>3 DEF MayInterrupt
<1>19. at[g] \in {"claim", "steer", "recover"}
    BY <1>3
<1>20. QED
    BY <1>3, <1>6, <1>9, <1>13, <1>14, <1>15, <1>16, <1>17, <1>18, <1>19, TakenKeeps

-----------------------------------------------------------------------------
\* Restarts.

\* A restart lets an action run once more that is the stored turn.
LEMMA CrashDue ==
    ASSUME TInv, Crash, NEW p \in Prompts
    PROVE  /\ MostStarts(p) <= MostStarts(p)'
           /\ Due(p) => Due(p)'
           /\ row.turn = p /\ p \in Actions /\ starts[p] <= MostStarts(p) => Due(p)'
<1>1. MostStarts(p) \in Nat /\ starts[p] \in Nat /\ starts' = starts
    BY MostStartsPositive DEF Crash
<1>2. CASE row.turn = p /\ p \in Actions
    <2>1. cut[p] \in Nat /\ cut'[p] = cut[p] + 1
        BY <1>2 DEF Crash, TInv, RestOK
    <2>2. MostStarts(p)' = MostStarts(p) + 1
        BY <1>2, <2>1 DEF MostStarts
    <2>3. QED
        BY <1>1, <2>2 DEF Due
<1>3. CASE ~ (row.turn = p /\ p \in Actions)
    <2>1. p \in Actions => cut'[p] = cut[p]
        BY <1>3 DEF Crash, TInv, RestOK
    <2>2. MostStarts(p)' = MostStarts(p)
        BY <2>1 DEF MostStarts
    <2>3. QED
        BY <1>1, <1>3, <2>2 DEF Due
<1>4. QED
    BY <1>2, <1>3

LEMMA CrashKeeps ==
    ASSUME TInv, PromptsInv, Crash
    PROVE  PromptsInv'
<1>1. /\ accepted' = accepted /\ deleted' = deleted /\ starts' = starts /\ crashes' # 0
      /\ \A g \in Procs : at'[g] \in {"recover", "out"}
    BY DEF Crash, TInv, RestOK
<1>2. \A p \in Prompts :
            /\ MostStarts(p) \in Nat /\ MostStarts(p)' \in Nat /\ starts[p] \in Nat
            /\ MostStarts(p) <= MostStarts(p)'
            /\ Due(p) => Due(p)'
            /\ row.turn = p /\ p \in Actions /\ starts[p] <= MostStarts(p) => Due(p)'
    <2>1. TAKE p \in Prompts
    <2>2. MostStarts(p)' \in Nat
        <3>1. p \in Actions => cut'[p] \in Nat
            BY DEF Crash, TInv, RestOK
        <3>2. QED
            BY <3>1 DEF MostStarts
    <2>3. QED
        BY <2>2, CrashDue, MostStartsPositive
<1>3. row'.pub = row.pub /\ row'.int = row.int /\ row'.turn = row.turn
    BY DEF Crash, TInv, WorkOK, Rows
<1>4. \A g \in Procs, p \in Prompts : ~ Owns(g, p)'
    BY <1>1 DEF Owns, Owning, Carrying, Handing
<1>5. InQueue' = InQueue /\ Lists'
    BY <1>3 DEF PromptsInv, Lists, InQueue
<1>6. Ledger'
    <2>1. deleted \subseteq Prompts
        BY DEF TInv, RestOK
    <2>2. ASSUME NEW p \in Prompts PROVE starts[p] <= MostStarts(p)'
        BY <1>2 DEF PromptsInv, Ledger
    <2>3. QED
        BY <1>1, <1>2, <1>5, <2>1, <2>2 DEF PromptsInv, Ledger
<1>7. Owners' /\ Apart'
    BY <1>4 DEF Owners, Apart
<1>8. ASSUME NEW p \in Prompts, row.turn = p PROVE Due(p)'
    BY <1>2, <1>8 DEF PromptsInv, Turns, Ledger
<1>9. Resumable'
    BY <1>3, <1>4, <1>8 DEF Resumable
<1>10. Turns'
    BY <1>1, <1>3, <1>4, <1>5, <1>8 DEF PromptsInv, Turns
<1>11. Undisturbed'
    BY <1>1 DEF Undisturbed
<1>12. QED
    BY <1>5, <1>6, <1>7, <1>9, <1>10, <1>11 DEF PromptsInv

\* The recovery hands on a prompt only if it is the stored turn, which nobody else has.
LEMMA RecoverKeeps ==
    ASSUME TInv, TasksFit, PromptsInv, RecoverTurn \/ RecoverAction
    PROVE  PromptsInv'
<1>1. /\ at[Recovery] = "recover" /\ row.status = "interrupted" /\ row' = row /\ copy' = copy
      /\ ledger' = ledger /\ crashes' = crashes
    BY DEF RecoverTurn, RecoverAction, ledger
<1>2. Recovery \in Procs
    BY DEF Procs
<1>3. crashes # 0
    BY <1>1, <1>2 DEF PromptsInv, Undisturbed, NoRecovery
<1>4. PICK p : p = row.turn
    OBVIOUS
<1>5. Lists' /\ InQueue' = InQueue
    BY <1>1 DEF PromptsInv, Lists, InQueue
<1>6. p \in Prompts => /\ p \in accepted /\ p \notin deleted /\ Due(p)
                       /\ InQueue' = InQueue \ {p}
                       /\ \A h \in Procs : ~ Owns(h, p)
    BY <1>1, <1>4, <1>5 DEF PromptsInv, Turns, Resumable, MayInterrupt
<1>7. MayInterrupt
    BY <1>1 DEF MayInterrupt
<1>8. CASE RecoverTurn
    <2>1. PICK q : q = IF row.turn \in Prompts THEN row.turn ELSE None
        OBVIOUS
    <2>2. /\ at' = [at EXCEPT ![Recovery] = "send"]
          /\ task' = [task EXCEPT ![Recovery] = Task("recover", q, 0)]
        BY <1>8, <2>1 DEF RecoverTurn
    <2>3. /\ at'[Recovery] = "send"
          /\ \A h \in Procs : h # Recovery => at'[h] = at[h] /\ task'[h] = task[h]
        BY <1>2, <2>2 DEF TInv, WorkOK
    <2>4. task'[Recovery].p = q /\ task'[Recovery].kind = "recover"
        BY <1>2, <2>2 DEF TInv, WorkOK, Task
    <2>5. CASE p \in Prompts
        <3>1. q = p
            BY <1>4, <2>1, <2>5
        <3>2. QED
            BY <1>1, <1>2, <1>3, <1>4, <1>5, <1>6, <1>7, <2>3, <2>4, <2>5, <3>1, TakenKeeps
    <2>6. CASE p \notin Prompts
        <3>1. q \notin Prompts
            BY <1>4, <2>1, <2>6, NotPrompts
        <3>2. /\ accepted' = accepted /\ deleted' = deleted /\ starts' = starts
              /\ \A x \in Prompts : (Due(x)' <=> Due(x)) /\ MostStarts(x)' = MostStarts(x)
            BY <1>1, SameDues DEF ledger
        <3>3. ASSUME NEW h \in Procs, NEW x \in Prompts, Owns(h, x)'
              PROVE  h # Recovery /\ Owns(h, x) /\ at'[h] = at[h] /\ task'[h] = task[h]
            BY <2>3, <2>4, <3>1, <3>3 DEF Owns
        <3>4. Ledger'
            BY <1>5, <3>2 DEF PromptsInv, Ledger, TInv, RestOK
        <3>5. Owners'
            BY <1>5, <3>2, <3>3 DEF PromptsInv, Owners
        <3>6. Apart'
            BY <3>3 DEF PromptsInv, Apart
        <3>7. Turns'
            BY <1>1, <1>4, <2>6 DEF Turns
        <3>8. Resumable' /\ Undisturbed'
            BY <1>1, <1>3, <2>3 DEF Resumable, Undisturbed
        <3>9. QED
            BY <1>5, <3>4, <3>5, <3>6, <3>7, <3>8 DEF PromptsInv
    <2>7. QED
        BY <2>5, <2>6
<1>9. CASE RecoverAction
    <2>1. p \in Prompts
        BY <1>4, <1>9, QueueAssumption DEF RecoverAction, Prompts
    <2>2. PICK r \in Runners :
          /\ at[r] = "out"
          /\ at' = [at EXCEPT ![Recovery] = "drain", ![r] = "act"]
          /\ task' = [task EXCEPT ![r] = Task("claim", p, 0)]
        BY <1>4, <1>9 DEF RecoverAction
    <2>3. r \in Procs /\ r # Recovery
        BY QueueAssumption DEF Procs
    <2>4. /\ at'[r] = "act" /\ at'[Recovery] = "drain"
          /\ \A h \in Procs : h # r => task'[h] = task[h]
          /\ \A h \in Procs : h \notin {Recovery, r} => at'[h] = at[h]
        BY <1>2, <2>2, <2>3 DEF TInv, WorkOK
    <2>5. task'[r].p = p /\ task'[r].kind = "claim"
        BY <2>2, <2>3 DEF TInv, WorkOK, Task
    <2>6. QED
        BY <1>1, <1>2, <1>4, <1>5, <1>6, <1>7, <2>1, <2>2, <2>3, <2>4, <2>5, TakenKeeps
<1>10. QED
    BY <1>8, <1>9

-----------------------------------------------------------------------------
\* Every step keeps the invariant.

LEMMA RequestsKeepPrompts ==
    ASSUME NoUnlockedSaves, TInv, TasksFit, PromptsInv, NEW g \in Procs, Requests(g)
    PROVE  PromptsInv'
<1>1. ASSUME NEW p \in Prompts, NEW l \in {"append", "enqueue", "begin"},
             NEW k \in {"queue", "direct"}, Fresh(p), Request(g, l, k, p)
      PROVE  PromptsInv'
    <2>1. /\ at[g] = "out" /\ at' = [at EXCEPT ![g] = l]
          /\ task' = [task EXCEPT ![g] = Task(k, p, 0)]
          /\ row' = row /\ ledger' = ledger /\ crashes' = crashes
          /\ copy' = [copy EXCEPT ![g] = row]
        BY <1>1 DEF Request, Load, ledger
    <2>2. copy'[g] = row /\ \A h \in Procs : h # g => copy'[h] = copy[h]
        BY <2>1 DEF TInv, WorkOK
    <2>3. QED
        BY <1>1, <2>1, <2>2, NewPromptKeeps
<1>2. ASSUME NEW p \in Public, RequestAppend(g, p) PROVE PromptsInv'
    BY <1>1, <1>2 DEF RequestAppend, Prompts
<1>3. ASSUME NEW p \in Public, RequestBegin(g, p) PROVE PromptsInv'
    BY <1>1, <1>3 DEF RequestBegin, Prompts
<1>4. ASSUME NEW p \in Internal, RequestEnqueue(g, p) PROVE PromptsInv'
    BY <1>1, <1>4 DEF RequestEnqueue, Prompts
<1>5. ASSUME NEW p \in Public, SendExternal(g, p) PROVE PromptsInv'
    <2>1. /\ p \in Prompts /\ Fresh(p) /\ at[g] = "out" /\ at' = [at EXCEPT ![g] = "send"]
          /\ task' = [task EXCEPT ![g] = Task("ext", p, 0)]
          /\ row' = row /\ ledger' = ledger /\ crashes' = crashes /\ copy' = copy
        BY <1>5 DEF SendExternal, ledger, Prompts
    <2>2. "send" \notin Saving
        BY DEF Saving
    <2>3. QED
        BY <2>1, <2>2, NewPromptKeeps
<1>6. ASSUME NEW p \in Public, RequestDelete(g, p) \/ RequestSteer(g, p) PROVE PromptsInv'
    BY <1>6, QuietRequest DEF RequestDelete, RequestSteer
<1>7. CASE RequestReorder(g)
    BY <1>7, QuietRequest DEF RequestReorder
<1>8. ~ CancelStored(g)
    BY DEF CancelStored, NoUnlockedSaves
<1>9. QED
    BY <1>2, <1>3, <1>4, <1>5, <1>6, <1>7, <1>8 DEF Requests

LEMMA HandlersKeepPrompts ==
    ASSUME NoUnlockedSaves, TInv, LInv, TasksFit, PromptsInv, NEW g \in Procs, Handlers(g)
    PROVE  PromptsInv'
<1>1. CASE AppendPrompt(g) \/ EnqueueInternalTurn(g)
    BY <1>1, StoreKeeps
<1>2. CASE DeletePrompt(g)
    BY <1>2, DeleteKeeps
<1>3. CASE ReorderPrompts(g)
    BY <1>3, ReorderKeeps
<1>4. CASE RestorePrompt(g)
    BY <1>4, RestoreKeeps
<1>5. CASE ClaimPrompt(g)
    BY <1>5, ClaimPromptKeeps
<1>6. CASE ClaimGoal(g)
    BY <1>6, ClaimGoalKeeps
<1>7. CASE ClaimSteered(g)
    BY <1>7, ClaimSteeredKeeps
<1>8. CASE RunAction(g) \/ SteerTaken(g) \/ BusySteers(g)
    BY <1>8, StartsKeep
<1>9. CASE \/ Drain(g) \/ ClaimNothing(g) \/ FailTurn(g) \/ LoadRestore(g)
           \/ FinishAction(g)
           \/ SteerRefused(g) \/ SteerUnsupported(g) \/ SteerCancel(g)
           \/ SteerCancelGivesUp(g) \/ SteerAfterCancel(g) \/ LoadClear(g) \/ ClearSteer(g)
    BY <1>9, QuietHandlers
<1>10. CASE \/ Begin(g) \/ BeginFails(g) \/ BusyRejects(g) \/ BusyQueues(g)
            \/ LoadRequeue(g) \/ CancelStoredSave(g)
    BY <1>10, QuietDirect
<1>11. QED
    BY <1>1, <1>2, <1>3, <1>4, <1>5, <1>6, <1>7, <1>8, <1>9, <1>10 DEF Handlers

LEMMA InitPrompts == Init => PromptsInv
<1> SUFFICES ASSUME Init PROVE PromptsInv
    OBVIOUS
<1>1. /\ row.pub = <<>> /\ row.int = <<>> /\ row.turn = None /\ row.steer = None
      /\ accepted = {} /\ deleted = {} /\ \A p \in Prompts : starts[p] = 0
      /\ \A g \in Procs : at[g] = "out" /\ task[g].kind = "none"
    BY DEF Init, NoTask, Task
<1>2. Len(row.pub) = 0 /\ Len(row.int) = 0
    BY <1>1
<1>3. InQueue = {}
    BY <1>1 DEF InQueue, ToSet
<1>4. Lists
    BY <1>1, <1>3 DEF Lists, InQueue, IsInjective
<1>5. \A g \in Procs, p \in Prompts : ~ Owns(g, p)
    BY <1>1 DEF Owns, Owning, Carrying, Handing
<1>6. Owners /\ Apart /\ Resumable
    BY <1>1, <1>5 DEF Owners, Apart, Resumable, Procs
<1>7. Ledger /\ Turns
    <2>1. ASSUME NEW p \in Prompts PROVE 0 <= MostStarts(p)
        <3>1. p \in Actions => cut[p] = 0
            BY DEF Init
        <3>2. QED
            BY <3>1 DEF MostStarts
    <2>2. QED
        BY <1>1, <1>3, <2>1, NotPrompts DEF Ledger, Turns
<1>8. Undisturbed
    BY <1>1 DEF Undisturbed, NoRecovery, Kept, PendingSteerAttended
<1>9. QED
    BY <1>4, <1>6, <1>7, <1>8 DEF PromptsInv

LEMMA NextKeepsPrompts ==
    ASSUME NoUnlockedSaves, TInv, LInv, TasksFit, PromptsInv, [Next]_vars
    PROVE  PromptsInv'
<1>1. ASSUME NEW g \in Goroutines, Requests(g) PROVE PromptsInv'
    BY <1>1, RequestsKeepPrompts DEF Procs
<1>2. ASSUME NEW g \in Procs, Handlers(g) PROVE PromptsInv'
    BY <1>2, HandlersKeepPrompts
<1>3. ASSUME NEW g \in Procs, Sending(g) PROVE PromptsInv'
    BY <1>3, QuietSending, StartsKeep
<1>4. CASE TurnEnd \/ UserCancel \/ ChangeGoal \/ RecoverNothing \/ AtRest
    BY <1>4, QuietTurnEnd
<1>5. CASE Crash
    BY <1>5, CrashKeeps
<1>6. CASE RecoverTurn \/ RecoverAction
    BY <1>6, RecoverKeeps
<1>7. CASE UNCHANGED vars
    <2>1. /\ row' = row /\ at' = at /\ task' = task /\ copy' = copy
          /\ ledger' = ledger /\ crashes' = crashes
        BY <1>7 DEF vars, ledger
    <2>2. QuietRow
        BY <2>1, SameRowIsQuiet
    <2>3. QuietTasks /\ QuietOwners /\ QuietSteer
        BY <2>1 DEF QuietTasks, QuietOwners, QuietSteer, Owns, MayInterrupt
    <2>4. QED
        BY <2>1, <2>2, <2>3, QuietKeeps
<1>8. QED
    BY <1>1, <1>2, <1>3, <1>4, <1>5, <1>6, <1>7 DEF Next, Restart

LEMMA PromptsInvariant ==
    ASSUME NoUnlockedSaves
    PROVE  Spec => [](TInv /\ LInv /\ TasksFit /\ PromptsInv)
<1>1. Init => TasksFit /\ PromptsInv
    BY InitFits, InitPrompts
<1>2. TInv /\ LInv /\ TasksFit /\ PromptsInv /\ [Next]_vars => TasksFit' /\ PromptsInv'
    BY NextFits, NextKeepsPrompts, NoUnlockedSaves
<1>3. QED
    BY <1>1, <1>2, TInvInvariant, LInvInvariant, PTL DEF Spec

-----------------------------------------------------------------------------
\* What becomes of an acknowledged prompt.

LEMMA QueuedIsInQueue == TInv => \A p \in Prompts : Queued(p) <=> p \in InQueue
BY QueuedMeans DEF TInv, WorkOK, Queued, InQueue

\* As long as no row is saved without the session's lock, the agent gets a prompt at
\* most once, what it got is queued no longer and what the user deleted never reaches
\* it: through claims, restored prompts (restoreQueuedPrompt), steering, direct sends
\* and any number of restarts, whose recovery sends a claimed prompt again only if it
\* is still the stored turn. An action runs once, and at most once more for each
\* restart that found it as the stored turn: a crash may have come between what it did
\* (startQueuedAction) and the status that forgets it (finishQueuedAction).
THEOREM NeverStartedTwice ==
    ASSUME NoUnlockedSaves
    PROVE  Spec => []StartedOnce
<1>1. ASSUME TInv, PromptsInv
      PROVE  StartedOnce
    <2>1. ASSUME NEW p \in Prompts
          PROVE  /\ starts[p] <= MostStarts(p)
                 /\ Queued(p) \/ p \in deleted => starts[p] < MostStarts(p)
        <3>1. starts[p] <= MostStarts(p) /\ (p \in InQueue \/ p \in deleted => Due(p))
            BY <1>1 DEF PromptsInv, Ledger
        <3>2. QED
            BY <1>1, <3>1, QueuedIsInQueue DEF Due
    <2>2. QED
        BY <2>1 DEF StartedOnce
<1>2. TInv /\ PromptsInv => StartedOnce
    BY <1>1
<1>3. QED
    BY <1>2, PromptsInvariant, PTL

\* Until the server is restarted, and as long as no row is saved without the session's
\* lock, an acknowledged prompt that neither reached the agent nor was deleted is in
\* the stored queue, is the claimed turn, or is carried by a goroutine to one of them.
THEOREM NoneIsLost ==
    ASSUME NoUnlockedSaves
    PROVE  Spec => [](crashes = 0 => NoPromptLost)
<1>1. ASSUME TInv, PromptsInv, crashes = 0
      PROVE  NoPromptLost
    <2>1. Kept /\ Ledger
        BY <1>1 DEF PromptsInv, Undisturbed
    <2>2. SUFFICES ASSUME NEW p \in accepted, p \notin deleted, ~ (starts[p] > 0)
                   PROVE  Queued(p) \/ \E g \in Procs : Carries(g, p)
        BY DEF NoPromptLost
    <2>3. p \in Prompts
        BY <1>1 DEF TInv, RestOK
    <2>4. starts[p] = 0
        BY <1>1, <2>2, <2>3 DEF TInv, RestOK
    <2>5. CASE p \in InQueue
        BY <1>1, <2>3, <2>5, QueuedIsInQueue
    <2>6. CASE p \notin InQueue
        <3>1. PICK g \in Procs : task[g].p = p /\ at[g] \in Carrying
            BY <2>1, <2>2, <2>3, <2>4, <2>6 DEF Kept
        <3>2. Carries(g, p)
            BY <3>1 DEF Carries, Carrying
        <3>3. QED
            BY <3>2
    <2>7. QED
        BY <2>5, <2>6
<1>2. TInv /\ PromptsInv => (crashes = 0 => NoPromptLost)
    BY <1>1
<1>3. QED
    BY <1>2, PromptsInvariant, PTL

\* Until the server is restarted, and as long as no row is saved without the session's
\* lock, a prompt shown as being steered has a goroutine that takes it off again.
THEOREM NoSteerForgotten ==
    ASSUME NoUnlockedSaves
    PROVE  Spec => [](crashes = 0 => PendingSteerAttended)
<1>1. PromptsInv => (crashes = 0 => PendingSteerAttended)
    BY DEF PromptsInv, Undisturbed
<1>2. QED
    BY <1>1, PromptsInvariant, PTL

-----------------------------------------------------------------------------
\* What a step may do to the queue and to the stored turn.

\* A step that takes nothing out of the queue and claims nothing.
TakesNothing ==
    /\ InQueue \subseteq InQueue'
    /\ row'.turn \in {row.turn, None, Sent}

LEMMA SameLists ==
    ASSUME row'.pub = row.pub, row'.int = row.int, row'.turn \in {row.turn, None, Sent}
    PROVE  TakesNothing
BY DEF TakesNothing, InQueue

LEMMA StatusTakesNothing ==
    ASSUME TInv, NEW s, row' = WithStatus(s)
    PROVE  TakesNothing
BY SameLists DEF WithStatus, TInv, WorkOK, Rows

\* What is saved is the stored queue, or more.
LEMMA SaveTakesNothing ==
    ASSUME NoUnlockedSaves, TInv, LInv, NEW g \in Procs, at[g] \in Saving,
           NEW r \in Rows, row' = Saved(r),
           ToSet(copy[g].pub) \subseteq ToSet(r.pub), ToSet(copy[g].int) \subseteq ToSet(r.int)
    PROVE  TakesNothing
<1>1. copy[g].pub = row.pub /\ copy[g].int = row.int
    BY DEF LInv, FreshCopies
<1>2. row'.pub = r.pub /\ row'.int = r.int /\ row'.turn \in {row.turn, None}
    BY DEF Saved, Rows, TInv, WorkOK
<1>3. QED
    BY <1>1, <1>2 DEF TakesNothing, InQueue

LEMMA StoringTakesNothing ==
    ASSUME NoUnlockedSaves, TInv, LInv, TasksFit, NEW g \in Procs,
           \/ AppendPrompt(g) \/ EnqueueInternalTurn(g) \/ ReorderPrompts(g)
           \/ RestorePrompt(g)
    PROVE  TakesNothing
<1> PICK p, n : p = task[g].p /\ n = task[g].idx
    OBVIOUS
<1>1. at[g] \in Saving
    BY DEF AppendPrompt, EnqueueInternalTurn, ReorderPrompts, RestorePrompt, Saving
<1>2. copy[g] \in Rows
    BY <1>1 DEF TInv, WorkOK
<1>3. copy[g].pub \in Seq(Prompts) /\ copy[g].int \in Seq(Prompts)
    BY <1>2 DEF Rows
<1>4. CASE AppendPrompt(g)
    <2>1. PICK r : r = [copy[g] EXCEPT !.pub = Append(@, p)]
        OBVIOUS
    <2>2. p \in Prompts /\ row' = Saved(r)
        BY <1>4, <2>1 DEF AppendPrompt, Save, TInv, WorkOK, TasksOK
    <2>3. r \in Rows /\ r.pub = Append(copy[g].pub, p) /\ r.int = copy[g].int
        BY <1>2, <1>3, <2>1, <2>2, AppendProperties DEF Rows
    <2>4. ToSet(r.pub) = ToSet(copy[g].pub) \cup {p}
        BY <1>3, <2>2, <2>3, AppendSet
    <2>5. QED
        BY <1>1, <2>2, <2>3, <2>4, SaveTakesNothing
<1>5. CASE EnqueueInternalTurn(g)
    <2>1. PICK r : r = [copy[g] EXCEPT !.int = Append(@, p)]
        OBVIOUS
    <2>2. p \in Prompts /\ row' = Saved(r)
        BY <1>5, <2>1 DEF EnqueueInternalTurn, Save, TInv, WorkOK, TasksOK
    <2>3. r \in Rows /\ r.int = Append(copy[g].int, p) /\ r.pub = copy[g].pub
        BY <1>2, <1>3, <2>1, <2>2, AppendProperties DEF Rows
    <2>4. ToSet(r.int) = ToSet(copy[g].int) \cup {p}
        BY <1>3, <2>2, <2>3, AppendSet
    <2>5. QED
        BY <1>1, <2>2, <2>3, <2>4, SaveTakesNothing
<1>6. CASE ReorderPrompts(g)
    <2>1. PICK q \in Permuted(copy[g].pub) : row' = Saved([copy[g] EXCEPT !.pub = q])
        BY <1>6 DEF ReorderPrompts, Save
    <2>2. PICK r : r = [copy[g] EXCEPT !.pub = q]
        OBVIOUS
    <2>3. r \in Rows /\ r.pub = q /\ r.int = copy[g].int
        BY <1>2, <1>3, <2>2, PermutedIsSeq DEF Rows
    <2>4. ToSet(q) = ToSet(copy[g].pub)
        BY <1>3, PermutedSet
    <2>5. QED
        BY <1>1, <2>1, <2>2, <2>3, <2>4, SaveTakesNothing
<1>7. CASE RestorePrompt(g)
    <2>1. PICK r : r = IF p \in Internal THEN [copy[g] EXCEPT !.int = Insert(@, n, p)]
                                         ELSE [copy[g] EXCEPT !.pub = Insert(@, n, p)]
        OBVIOUS
    <2>2. PICK s : s = [r EXCEPT !.steer = None, !.status = "error"]
        OBVIOUS
    <2>3. p \in Prompts /\ n \in Nat /\ row' = Saved(s)
        BY <1>7, <2>1, <2>2 DEF RestorePrompt, Save, TInv, WorkOK, TasksOK, Tasks
    <2>4. /\ Insert(copy[g].pub, n, p) \in Seq(Prompts)
          /\ Insert(copy[g].int, n, p) \in Seq(Prompts)
        BY <1>3, <2>3, InsertIsSeq
    <2>5. /\ r \in Rows
          /\ r.pub = IF p \in Internal THEN copy[g].pub ELSE Insert(copy[g].pub, n, p)
          /\ r.int = IF p \in Internal THEN Insert(copy[g].int, n, p) ELSE copy[g].int
        BY <1>2, <2>1, <2>4 DEF Rows
    <2>6. s \in Rows /\ s.pub = r.pub /\ s.int = r.int
        BY <2>2, <2>5 DEF Rows, Statuses
    <2>7. /\ ToSet(Insert(copy[g].pub, n, p)) = ToSet(copy[g].pub) \cup {p}
          /\ ToSet(Insert(copy[g].int, n, p)) = ToSet(copy[g].int) \cup {p}
        BY <1>3, <2>3, InsertSet
    <2>8. ToSet(copy[g].pub) \subseteq ToSet(s.pub) /\ ToSet(copy[g].int) \subseteq ToSet(s.int)
        BY <2>5, <2>6, <2>7
    <2>9. QED
        BY <1>1, <2>3, <2>6, <2>8, SaveTakesNothing
<1>8. QED
    BY <1>4, <1>5, <1>6, <1>7

LEMMA HandlersTakeNothing ==
    ASSUME NoUnlockedSaves, TInv, LInv, TasksFit, NEW g \in Procs, Handlers(g),
           ~ DeletePrompt(g), ~ ClaimPrompt(g), ~ ClaimSteered(g)
    PROVE  TakesNothing
<1>1. CASE AppendPrompt(g) \/ EnqueueInternalTurn(g) \/ ReorderPrompts(g) \/ RestorePrompt(g)
    BY <1>1, StoringTakesNothing
<1>2. CASE row' = row
    BY <1>2, SameLists
<1>3. CASE ClaimGoal(g)
    <2>1. PICK r : r = [copy[g] EXCEPT !.status = "running"]
        OBVIOUS
    <2>2. at[g] \in Saving /\ row' = Saved(r) /\ copy[g] \in Rows
        BY <1>3, <2>1 DEF ClaimGoal, Saving, TInv, WorkOK
    <2>3. r \in Rows /\ r.pub = copy[g].pub /\ r.int = copy[g].int
        BY <2>1, <2>2 DEF Rows, Statuses
    <2>4. QED
        BY <2>2, <2>3, SaveTakesNothing
<1>4. CASE ClearSteer(g) /\ row' # row
    <2>1. PICK r : r = [copy[g] EXCEPT !.steer = None]
        OBVIOUS
    <2>2. at[g] \in Saving /\ row' = Saved(r) /\ copy[g] \in Rows
        BY <1>4, <2>1 DEF ClearSteer, Save, Saving, TInv, WorkOK
    <2>3. r \in Rows /\ r.pub = copy[g].pub /\ r.int = copy[g].int
        BY <2>1, <2>2 DEF Rows
    <2>4. QED
        BY <2>2, <2>3, SaveTakesNothing
<1>5. CASE Begin(g) /\ row' # row
    <2>1. PICK r : r = [copy[g] EXCEPT !.status = "running"]
        OBVIOUS
    <2>2. at[g] \in Saving /\ row' = Saved(r) /\ copy[g] \in Rows
        BY <1>5, <2>1 DEF Begin, Save, Saving, TInv, WorkOK
    <2>3. r \in Rows /\ r.pub = copy[g].pub /\ r.int = copy[g].int
        BY <2>1, <2>2 DEF Rows, Statuses
    <2>4. QED
        BY <2>2, <2>3, SaveTakesNothing
<1>6. CASE FinishAction(g) \/ SteerAfterCancel(g)
    BY <1>6, StatusTakesNothing DEF FinishAction, SteerAfterCancel
<1>7. ~ CancelStoredSave(g)
    BY DEF CancelStoredSave, TasksFit, Fits
<1>8. CASE \/ Drain(g) \/ ClaimNothing(g) \/ FailTurn(g) \/ LoadRestore(g)
           \/ RunAction(g)
           \/ SteerTaken(g) \/ SteerRefused(g) \/ SteerUnsupported(g) \/ SteerCancel(g)
           \/ SteerCancelGivesUp(g) \/ LoadClear(g) \/ BeginFails(g) \/ BusySteers(g) \/ BusyRejects(g)
           \/ BusyQueues(g) \/ LoadRequeue(g)
    BY <1>2, <1>8 DEF Drain, ClaimNothing, FailTurn, LoadRestore, RunAction, SteerTaken,
        SteerRefused, SteerUnsupported, SteerCancel, SteerCancelGivesUp, LoadClear, BeginFails,
        BusySteers, BusyRejects, BusyQueues, LoadRequeue
<1>9. QED
    BY <1>1, <1>2, <1>3, <1>4, <1>5, <1>6, <1>7, <1>8 DEF Handlers

LEMMA OthersTakeNothing ==
    ASSUME NoUnlockedSaves, TInv,
           \/ \E g \in Goroutines : Requests(g)
           \/ \E g \in Procs : Sending(g)
           \/ TurnEnd \/ UserCancel \/ ChangeGoal \/ Crash \/ Restart \/ AtRest
           \/ UNCHANGED vars
    PROVE  TakesNothing
<1>1. CASE row' = row
    BY <1>1, SameLists
<1>2. row \in Rows
    BY DEF TInv, WorkOK
<1>3. ASSUME NEW g \in Goroutines, Requests(g) PROVE TakesNothing
    BY <1>1, <1>3 DEF Requests, RequestAppend, RequestDelete, RequestSteer, RequestBegin,
        SendExternal, RequestEnqueue, RequestReorder, Request, CancelStored
<1>4. ASSUME NEW g \in Procs, Sending(g), row' # row PROVE TakesNothing
    <2>1. CASE SendMark(g)
        BY <1>2, <2>1, SameLists DEF SendMark, MarkRunning, Rows
    <2>2. CASE SendAppendFails(g) \/ SendFailed(g)
        BY <1>4, <2>2, StatusTakesNothing DEF SendAppendFails, SendFailed
    <2>3. QED
        BY <1>4, <2>1, <2>2 DEF Sending, SendResume, SendResumed, SendConflict, SendWait,
            SendGoalGone, SendStart, NoUnlockedSaves
<1>5. CASE Finish /\ row' # row
    BY <1>5, StatusTakesNothing DEF Finish
<1>6. CASE ChangeGoal
    <2>1. row'.pub = row.pub /\ row'.int = row.int /\ row'.turn = row.turn
        BY <1>2, <1>6 DEF ChangeGoal, Rows
    <2>2. QED
        BY <2>1, SameLists
<1>7. CASE Crash
    <2>1. row'.pub = row.pub /\ row'.int = row.int /\ row'.turn = row.turn
        BY <1>2, <1>7 DEF Crash, Rows
    <2>2. QED
        BY <2>1, SameLists
<1>8. CASE EndTurn \/ LoadFinish \/ CloseTurn \/ UserCancel \/ Restart \/ AtRest
           \/ UNCHANGED vars
    BY <1>1, <1>8 DEF EndTurn, LoadFinish, CloseTurn, UserCancel, Restart, RecoverNothing,
        RecoverTurn, RecoverAction, AtRest, vars
<1>9. QED
    BY <1>1, <1>3, <1>4, <1>5, <1>6, <1>7, <1>8 DEF TurnEnd

\* The only steps that take a prompt out of the queue, and the only one that claims it.
LEMMA QueueSteps ==
    ASSUME NoUnlockedSaves, TInv, LInv, TasksFit, [Next]_vars, ~ TakesNothing
    PROVE  \E g \in Procs : DeletePrompt(g) \/ ClaimPrompt(g) \/ ClaimSteered(g)
BY HandlersTakeNothing, OthersTakeNothing DEF Next

\* Taking a prompt out of the list leaves the others in it.
LEMMA RemovedStays ==
    ASSUME NoUnlockedSaves, TInv, LInv, NEW g \in Procs, at[g] \in Saving,
           NEW i \in DOMAIN copy[g].pub, NEW r, r.pub = RemoveAt(copy[g].pub, i),
           r.int = copy[g].int, row' = Saved(r), r \in Rows
    PROVE  /\ InQueue \subseteq InQueue' \cup {copy[g].pub[i]}
           /\ row'.turn \in {row.turn, None} /\ row'.steer = r.steer
<1>1. copy[g].pub = row.pub /\ copy[g].int = row.int
    BY DEF LInv, FreshCopies
<1>2. row'.pub = r.pub /\ row'.int = r.int /\ row'.turn \in {row.turn, None}
      /\ row'.steer = r.steer
    BY DEF Saved, Rows, TInv, WorkOK
<1>3. row.pub \in Seq(Prompts)
    BY DEF TInv, WorkOK, Rows
<1>4. i \in 1..Len(row.pub)
    BY <1>1, <1>3, SeqFacts
<1>5. ToSet(row.pub) \subseteq ToSet(r.pub) \cup {row.pub[i]}
    BY <1>1, <1>3, <1>4, RemoveSet
<1>6. QED
    BY <1>1, <1>2, <1>5 DEF InQueue

LEMMA DeletionTakes ==
    ASSUME NoUnlockedSaves, TInv, LInv, NEW g \in Procs, DeletePrompt(g)
    PROVE  /\ InQueue \subseteq InQueue' \cup deleted'
           /\ row'.turn \in {row.turn, None}
<1>1. at[g] \in Saving /\ copy[g] \in Rows
    BY DEF DeletePrompt, Saving, TInv, WorkOK
<1>2. PICK i \in DOMAIN copy[g].pub :
        /\ copy[g].pub[i] = task[g].p
        /\ row' = Saved([copy[g] EXCEPT !.pub = RemoveAt(@, i)])
    BY DEF DeletePrompt, Save
<1>3. PICK r : r = [copy[g] EXCEPT !.pub = RemoveAt(@, i)]
    OBVIOUS
<1>4. copy[g].pub \in Seq(Prompts)
    BY <1>1 DEF Rows
<1>5. RemoveAt(copy[g].pub, i) \in Seq(Prompts)
    BY <1>4, SeqFacts, RemoveAtIsSeq
<1>6. r \in Rows /\ r.pub = RemoveAt(copy[g].pub, i) /\ r.int = copy[g].int
    BY <1>1, <1>3, <1>5 DEF Rows
<1>7. task[g].p \in deleted'
    BY DEF DeletePrompt
<1>8. QED
    BY <1>1, <1>2, <1>3, <1>6, <1>7, RemovedStays

LEMMA SteeringTakes ==
    ASSUME NoUnlockedSaves, TInv, LInv, NEW g \in Procs, ClaimSteered(g)
    PROVE  /\ InQueue \subseteq InQueue' \cup {row'.steer}
           /\ row'.turn \in {row.turn, None}
<1>1. at[g] \in Saving /\ copy[g] \in Rows
    BY DEF ClaimSteered, Saving, TInv, WorkOK
<1>2. PICK i \in DOMAIN copy[g].pub :
          /\ copy[g].pub[i] = task[g].p
          /\ row' = Saved([copy[g] EXCEPT
                        !.pub = RemoveAt(@, i),
                        !.steer = task[g].p,
                        !.status = IF RuntimeRunning THEN @ ELSE "running"])
    BY DEF ClaimSteered
<1>3. PICK r : r = [copy[g] EXCEPT !.pub = RemoveAt(@, i), !.steer = task[g].p,
                                   !.status = IF RuntimeRunning THEN @ ELSE "running"]
    OBVIOUS
<1>4. copy[g].pub \in Seq(Prompts)
    BY <1>1 DEF Rows
<1>5. RemoveAt(copy[g].pub, i) \in Seq(Prompts) /\ copy[g].pub[i] \in Prompts
    BY <1>4, SeqFacts, RemoveAtIsSeq
<1>6. /\ r \in Rows /\ r.pub = RemoveAt(copy[g].pub, i) /\ r.int = copy[g].int
      /\ r.steer = copy[g].pub[i]
    BY <1>1, <1>2, <1>3, <1>5 DEF Rows, Statuses
<1>7. row' = Saved(r)
    BY <1>2, <1>3
<1>8. QED
    BY <1>1, <1>6, <1>7, RemovedStays

LEMMA ClaimTakes ==
    ASSUME NoUnlockedSaves, TInv, LInv, PromptsInv, NEW g \in Procs, ClaimPrompt(g)
    PROVE  /\ InQueue \subseteq InQueue' \cup {row'.turn}
           /\ row'.turn = IF row.pub # <<>> THEN Head(row.pub) ELSE Head(row.int)
<1>1. PICK p, rest : p = NextPrompt(copy[g]) /\ rest = WithoutNext(copy[g])
    OBVIOUS
<1>2. /\ at[g] = "claim" /\ QueueOf(copy[g]) # <<>>
      /\ row' = [row EXCEPT !.status = "running", !.turn = p, !.pub = rest.pub, !.int = rest.int]
    BY <1>1 DEF ClaimPrompt
<1>3. copy[g] \in Rows /\ row \in Rows
    BY <1>2 DEF TInv, WorkOK, Saving
<1>4. copy[g].pub = row.pub /\ copy[g].int = row.int
    BY <1>2 DEF LInv, FreshCopies, Saving
<1>5. row'.pub = rest.pub /\ row'.int = rest.int /\ row'.turn = p
    BY <1>2, <1>3 DEF Rows
<1>6. ToSet(rest.pub) \cup ToSet(rest.int) = InQueue \ {p}
    BY <1>1, <1>2, <1>3, <1>4, NextTaken DEF PromptsInv, Lists, InQueue
<1>7. QED
    BY <1>1, <1>4, <1>5, <1>6 DEF InQueue, NextPrompt, TakesPublic

\* As long as no row is saved without the session's lock, a prompt becomes the stored
\* turn only as the oldest public prompt of the stored queue, or as the oldest internal
\* one when no public prompt waits (nextQueuedPromptIndex), however the queue was
\* reordered or restored between the load and the claim.
THEOREM ClaimsTakeTheOldest ==
    ASSUME NoUnlockedSaves
    PROVE  Spec => OldestFirst
<1> DEFINE Oldest == \A p \in Prompts :
                        row.turn # p /\ row'.turn = p =>
                            p = IF row.pub # <<>> THEN Head(row.pub) ELSE Head(row.int)
<1>1. ASSUME TInv, LInv, TasksFit, PromptsInv, [Next]_vars
      PROVE  Oldest
    <2>1. CASE TakesNothing
        BY <2>1, NotPrompts DEF TakesNothing
    <2>2. ASSUME NEW g \in Procs, ClaimPrompt(g) PROVE Oldest
        BY <1>1, <2>2, NoUnlockedSaves, ClaimTakes
    <2>3. ASSUME NEW g \in Procs, DeletePrompt(g) \/ ClaimSteered(g) PROVE Oldest
        BY <1>1, <2>3, NoUnlockedSaves, NotPrompts, DeletionTakes, SteeringTakes
    <2>4. QED
        BY <1>1, <2>1, <2>2, <2>3, NoUnlockedSaves, QueueSteps
<1>2. TInv /\ LInv /\ TasksFit /\ PromptsInv /\ [Next]_vars => [Oldest]_vars
    BY <1>1
<1>3. QED
    BY <1>2, PromptsInvariant, PTL DEF Spec, OldestFirst

\* As long as no row is saved without the session's lock, a prompt leaves the stored
\* queue only by being deleted, or into the stored turn, or into the stored steer.
THEOREM QueueKeepsPrompts ==
    ASSUME NoUnlockedSaves
    PROVE  Spec => QueuedPromptKept
<1> DEFINE Stays == \A p \in Prompts :
                        Queued(p) /\ ~ Queued(p)' =>
                            p \in deleted' \/ row'.turn = p \/ row'.steer = p
<1>1. ASSUME TInv, TInv', LInv, TasksFit, PromptsInv, [Next]_vars
      PROVE  Stays
    <2>1. SUFFICES ASSUME NEW p \in Prompts, p \in InQueue, p \notin InQueue'
                   PROVE  p \in deleted' \/ row'.turn = p \/ row'.steer = p
        <3>1. \A p \in Prompts : Queued(p) <=> p \in InQueue
            BY <1>1, QueuedIsInQueue
        <3>2. \A p \in Prompts : Queued(p)' <=> p \in InQueue'
            BY <1>1, QueuedMeans DEF TInv, WorkOK, Queued, InQueue
        <3>3. QED
            BY <3>1, <3>2
    <2>2. ~ TakesNothing
        BY <2>1 DEF TakesNothing
    <2>3. PICK g \in Procs : DeletePrompt(g) \/ ClaimPrompt(g) \/ ClaimSteered(g)
        BY <1>1, <2>2, NoUnlockedSaves, QueueSteps
    <2>4. CASE DeletePrompt(g)
        BY <1>1, <2>1, <2>4, NoUnlockedSaves, DeletionTakes
    <2>5. CASE ClaimPrompt(g)
        BY <1>1, <2>1, <2>5, NoUnlockedSaves, ClaimTakes
    <2>6. CASE ClaimSteered(g)
        BY <1>1, <2>1, <2>6, NoUnlockedSaves, SteeringTakes
    <2>7. QED
        BY <2>3, <2>4, <2>5, <2>6
<1>2. TInv /\ TInv' /\ LInv /\ TasksFit /\ PromptsInv /\ [Next]_vars => [Stays]_vars
    BY <1>1
<1>3. QED
    BY <1>2, PromptsInvariant, PTL DEF Spec, QueuedPromptKept

-----------------------------------------------------------------------------
\* TurnQueue implements ThreadQueue. What waits in a thread is decided by the
\* ledger alone, because the code lets no acknowledged prompt slip.

Undelivered == {p \in Prompts : p \in accepted /\ p \notin deleted /\ starts[p] = 0}

WaitsMean == {p \in Prompts : Waits(p)} = Undelivered

LEMMA WaitingInvariant ==
    ASSUME NoUnlockedSaves, MaxCrashes = 0
    PROVE  Spec => []WaitsMean
<1>1. ASSUME TInv, PromptsInv
      PROVE  WaitsMean
    <2>1. crashes = 0
        BY <1>1, MaxCrashes = 0 DEF TInv, RestOK
    <2>2. Kept
        BY <1>1, <2>1 DEF PromptsInv, Undisturbed
    <2>3. ASSUME NEW p \in Undelivered PROVE Waits(p)
        <3>1. p \in Prompts /\ p \in accepted /\ p \notin deleted /\ starts[p] = 0
            BY <2>3 DEF Undelivered
        <3>2. Queued(p) \/ \E g \in Procs : Carries(g, p)
            BY <1>1, <2>2, <3>1, QueuedIsInQueue DEF Kept, Carries, Carrying
        <3>3. QED
            BY <3>1, <3>2 DEF Waits
    <2>4. \A p \in Prompts : Waits(p) => p \in Undelivered
        BY DEF Waits, Undelivered
    <2>5. QED
        BY <2>3, <2>4 DEF WaitsMean, Undelivered
<1>2. TInv /\ PromptsInv => WaitsMean
    BY <1>1
<1>3. QED
    BY <1>2, PromptsInvariant, PTL

\* A step that leaves the ledger alone starts or ends a turn, or nothing.
LEMMA TurnRefines ==
    ASSUME WaitsMean, WaitsMean', ledger' = ledger
    PROVE  [Thread!ThreadNext]_(Thread!threadVars)
<1>1. Undelivered' = Undelivered
    BY DEF Undelivered, ledger
<1>2. {p \in Prompts : Waits(p)}' = {p \in Prompts : Waits(p)}
    BY <1>1 DEF WaitsMean
<1>3. {p \in Prompts : starts[p] = 1}' = {p \in Prompts : starts[p] = 1} /\ deleted' = deleted
    BY DEF ledger
<1>4. CASE RuntimeRunning' = RuntimeRunning
    BY <1>2, <1>3, <1>4 DEF Thread!threadVars
<1>5. CASE RuntimeRunning' # RuntimeRunning
    <2>1. RuntimeRunning \in BOOLEAN /\ RuntimeRunning' \in BOOLEAN
        BY DEF RuntimeRunning
    <2>2. Thread!ContinueTurn \/ Thread!EndThreadTurn
        BY <1>2, <1>3, <1>5, <2>1 DEF Thread!ContinueTurn, Thread!EndThreadTurn
    <2>3. QED
        BY <2>2 DEF Thread!ThreadNext
<1>6. QED
    BY <1>4, <1>5

LEMMA LedgerSteps ==
    ASSUME [Next]_vars, ~ Crash, ledger' # ledger
    PROVE  \E g \in Procs :
              \/ AppendPrompt(g) \/ EnqueueInternalTurn(g) \/ DeletePrompt(g)
              \/ RunAction(g) \/ SteerTaken(g) \/ BusySteers(g) \/ SendStart(g)
<1>1. ASSUME NEW g \in Goroutines, Requests(g) PROVE ledger' = ledger
    BY <1>1 DEF Requests, RequestAppend, RequestDelete, RequestSteer, RequestBegin,
        SendExternal, RequestEnqueue, RequestReorder, Request, CancelStored
<1>2. ASSUME NEW g \in Procs, Sending(g), ~ SendStart(g) PROVE ledger' = ledger
    BY <1>2 DEF Sending, SendResume, SendResumed, SendConflict, SendWait, SendMark,
        SendGoalGone, SendAppendFails, SendFailed
<1>3. CASE TurnEnd \/ UserCancel \/ ChangeGoal \/ Restart \/ AtRest \/ UNCHANGED vars
    BY <1>3 DEF TurnEnd, EndTurn, LoadFinish, Finish, CloseTurn, UserCancel, ChangeGoal,
        Restart, RecoverNothing, RecoverTurn, RecoverAction, AtRest, vars, ledger
<1>4. ASSUME NEW g \in Procs, Handlers(g),
             ~ AppendPrompt(g), ~ EnqueueInternalTurn(g), ~ DeletePrompt(g),
             ~ RunAction(g), ~ SteerTaken(g), ~ BusySteers(g)
      PROVE  ledger' = ledger
    BY <1>4 DEF Handlers, ReorderPrompts, Drain, ClaimPrompt, ClaimGoal, ClaimNothing,
        FinishAction, FailTurn, LoadRestore, RestorePrompt, ClaimSteered, SteerRefused,
        SteerUnsupported, SteerCancel, SteerCancelGivesUp, SteerAfterCancel, LoadClear,
        ClearSteer, Begin, BeginFails, BusyRejects, BusyQueues, LoadRequeue, CancelStoredSave,
        ledger
<1>5. QED
    BY <1>1, <1>2, <1>3, <1>4 DEF Next

\* A new prompt is acknowledged.
LEMMA StoreRefines ==
    ASSUME TInv, TasksFit, PromptsInv, crashes = 0, WaitsMean, WaitsMean', NEW g \in Procs,
           AppendPrompt(g) \/ EnqueueInternalTurn(g)
    PROVE  Thread!ThreadNext
<1>1. PICK p : p = task[g].p
    OBVIOUS
<1>2. /\ at[g] \in {"append", "enqueue"} /\ job' = job
      /\ accepted' = accepted \cup {p} /\ deleted' = deleted /\ starts' = starts
    BY <1>1 DEF AppendPrompt, EnqueueInternalTurn
<1>3. p \in Prompts /\ Owns(g, p) /\ task[g].kind \notin {"claim", "steer", "recover"}
    BY <1>1, <1>2 DEF TInv, WorkOK, TasksOK, Owns, Owning, TasksFit, Fits
<1>4. p \notin accepted /\ p \notin deleted /\ starts[p] = 0
    BY <1>3, DueBeforeRestarts DEF PromptsInv, Owners
<1>5. p \notin Undelivered /\ Undelivered' = Undelivered \cup {p}
    BY <1>2, <1>3, <1>4 DEF Undelivered
<1>6. {q \in Prompts : Waits(q)}' = {q \in Prompts : Waits(q)} \cup {p}
    BY <1>5 DEF WaitsMean
<1>7. p \in Thread!New
    BY <1>3, <1>4, <1>5 DEF Thread!New, WaitsMean
<1>8. RuntimeRunning' = RuntimeRunning
    BY <1>2 DEF RuntimeRunning
<1>9. Thread!Accept(p)
    BY <1>2, <1>6, <1>7, <1>8 DEF Thread!Accept
<1>10. QED
    BY <1>3, <1>9 DEF Thread!ThreadNext

\* The user withdraws one.
LEMMA DeleteRefines ==
    ASSUME NoUnlockedSaves, TInv, LInv, PromptsInv, crashes = 0, WaitsMean, WaitsMean',
           NEW g \in Procs, DeletePrompt(g)
    PROVE  Thread!ThreadNext
<1>1. PICK p : p = task[g].p
    OBVIOUS
<1>2. /\ at[g] = "delete" /\ job' = job
      /\ accepted' = accepted /\ deleted' = deleted \cup {p} /\ starts' = starts
    BY <1>1 DEF DeletePrompt
<1>3. copy[g].pub = row.pub /\ copy[g].pub \in Seq(Prompts)
    BY <1>2 DEF TInv, WorkOK, LInv, FreshCopies, Saving, Rows
<1>4. p \in ToSet(row.pub)
    BY <1>1, <1>3, SeqFacts DEF DeletePrompt
<1>5. p \in Prompts /\ p \in accepted /\ p \notin deleted /\ starts[p] = 0
    <2>1. p \in Prompts
        BY <1>3, <1>4, SeqFacts
    <2>2. p \in accepted /\ p \notin deleted /\ Due(p)
        BY <1>4, <2>1 DEF PromptsInv, Ledger, InQueue
    <2>3. QED
        BY <2>1, <2>2, DueBeforeRestarts
<1>6. p \in Undelivered /\ Undelivered' = Undelivered \ {p}
    BY <1>2, <1>5 DEF Undelivered
<1>7. p \in {q \in Prompts : Waits(q)}
      /\ {q \in Prompts : Waits(q)}' = {q \in Prompts : Waits(q)} \ {p}
    BY <1>6 DEF WaitsMean
<1>8. RuntimeRunning' = RuntimeRunning
    BY <1>2 DEF RuntimeRunning
<1>9. Thread!Withdraw(p)
    BY <1>2, <1>7, <1>8 DEF Thread!Withdraw
<1>10. QED
    BY <1>5, <1>9 DEF Thread!ThreadNext

\* The agent gets one that waits, or a new one.
LEMMA GiveRefines ==
    ASSUME TInv, PromptsInv, crashes = 0, WaitsMean, WaitsMean', NEW g \in Procs,
           NEW p \in Prompts, Owns(g, p), starts' = [starts EXCEPT ![p] = @ + 1],
           accepted' = accepted, deleted' = deleted
    PROVE  Thread!Give(p)
<1>1. p \notin deleted /\ starts[p] = 0
    BY DueBeforeRestarts DEF PromptsInv, Owners
<1>2. starts'[p] = 1 /\ \A q \in Prompts : q # p => starts'[q] = starts[q]
    BY <1>1 DEF TInv, RestOK
<1>3. Undelivered' = Undelivered \ {p}
    BY <1>2 DEF Undelivered
<1>4. {q \in Prompts : Waits(q)}' = {q \in Prompts : Waits(q)} \ {p}
    BY <1>3 DEF WaitsMean
<1>5. {q \in Prompts : starts[q] = 1}' = {q \in Prompts : starts[q] = 1} \cup {p}
    BY <1>2
<1>6. p \notin {q \in Prompts : starts[q] = 1}
    BY <1>1
<1>7. p \in {q \in Prompts : Waits(q)} \cup Thread!New
    BY <1>1, <1>6 DEF Thread!New
<1>8. QED
    BY <1>4, <1>5, <1>7 DEF Thread!Give

LEMMA StartRefines ==
    ASSUME TInv, TasksFit, PromptsInv, JobInv, crashes = 0, WaitsMean, WaitsMean',
           NEW g \in Procs,
           RunAction(g) \/ SteerTaken(g) \/ BusySteers(g) \/ SendStart(g)
    PROVE  [Thread!ThreadNext]_(Thread!threadVars)
<1>1. PICK p : p = task[g].p
    OBVIOUS
<1>2. Fits(at[g], task[g])
    BY DEF TasksFit
<1>3. at[g] \in {"act", "steering", "busy", "mark"} /\ accepted' = accepted /\ deleted' = deleted
    BY DEF RunAction, SteerTaken, BusySteers, SendStart
<1>4. p \in Prompts => Owns(g, p)
    BY <1>1, <1>3 DEF Owns, Owning, Carrying, Handing
<1>5. CASE RunAction(g)
    <2>1. p \in Actions /\ p \in Prompts
        BY <1>1, <1>2, <1>5, QueueAssumption DEF RunAction, Fits, Prompts
    <2>2. Thread!Give(p)
        BY <1>1, <1>3, <1>4, <1>5, <2>1, GiveRefines DEF RunAction
    <2>3. RuntimeRunning' = RuntimeRunning
        BY <1>5 DEF RunAction, RuntimeRunning
    <2>4. Thread!RunAction(p)
        BY <2>1, <2>2, <2>3 DEF Thread!RunAction
    <2>5. QED
        BY <2>1, <2>4 DEF Thread!ThreadNext
<1>6. CASE SteerTaken(g) \/ BusySteers(g)
    <2>1. p \in Prompts
        BY <1>1, <1>2, <1>6 DEF SteerTaken, BusySteers, Fits, Prompts
    <2>2. Thread!Give(p)
        BY <1>1, <1>3, <1>4, <1>6, <2>1, GiveRefines DEF SteerTaken, BusySteers
    <2>3. RuntimeRunning /\ RuntimeRunning' = RuntimeRunning
        BY <1>6 DEF SteerTaken, BusySteers, CanReserve, RuntimeRunning
    <2>4. Thread!SteerTurn(p)
        BY <2>2, <2>3 DEF Thread!SteerTurn
    <2>5. QED
        BY <2>1, <2>4 DEF Thread!ThreadNext
<1>7. CASE SendStart(g)
    <2>1. CASE p = None
        <3>1. ledger' = ledger
            BY <1>1, <1>7, <2>1 DEF SendStart, CountStart, ledger
        <3>2. QED
            BY <3>1, TurnRefines
    <2>2. CASE p # None
        <3>1. p \in Prompts
            BY <1>1, <2>2 DEF TInv, WorkOK, Tasks
        <3>2. starts' = [starts EXCEPT ![p] = @ + 1]
            BY <1>1, <1>7, <2>2 DEF SendStart, CountStart
        <3>3. Thread!Give(p)
            BY <1>3, <1>4, <3>1, <3>2, GiveRefines
        <3>4. ~ RuntimeRunning /\ RuntimeRunning' = TRUE
            BY <1>7 DEF SendStart, JobInv, RuntimeRunning
        <3>5. Thread!StartTurn(p)
            BY <3>3, <3>4 DEF Thread!StartTurn
        <3>6. QED
            BY <3>1, <3>5 DEF Thread!ThreadNext
    <2>3. QED
        BY <2>1, <2>2
<1>8. QED
    BY <1>5, <1>6, <1>7

\* Until the server is restarted, and as long as no row is saved without the session's
\* lock, the queue, the turns and the steering of a session implement ThreadQueue: to a
\* user each prompt takes one step from waiting to the agent, or to being withdrawn, and
\* none at all in whatever the handlers, the sends and the finisher do in between.
THEOREM ThreadPromisesKept ==
    ASSUME NoUnlockedSaves, MaxCrashes = 0
    PROVE  Spec => KeepsPromises
<1>1. ASSUME Init, WaitsMean
      PROVE  Thread!ThreadInit
    <2>1. /\ deleted = {} /\ accepted = {} /\ ~ RuntimeRunning
          /\ {p \in Prompts : starts[p] = 1} = {}
        BY <1>1 DEF Init, RuntimeRunning
    <2>2. {p \in Prompts : Waits(p)} = {}
        BY <1>1, <2>1 DEF WaitsMean, Undelivered
    <2>3. RuntimeRunning = FALSE
        BY <2>1 DEF RuntimeRunning
    <2>4. QED
        BY <2>1, <2>2, <2>3 DEF Thread!ThreadInit
<1>2. ASSUME TInv, LInv, TasksFit, PromptsInv, JobInv, WaitsMean, WaitsMean', [Next]_vars
      PROVE  [Thread!ThreadNext]_(Thread!threadVars)
    <2>1. CASE ledger' = ledger
        BY <1>2, <2>1, TurnRefines
    <2>2. CASE ledger' # ledger
        <3>1. crashes = 0 /\ ~ Crash
            BY <1>2, MaxCrashes = 0 DEF TInv, RestOK, Crash
        <3>2. PICK g \in Procs :
                \/ AppendPrompt(g) \/ EnqueueInternalTurn(g) \/ DeletePrompt(g)
                \/ RunAction(g) \/ SteerTaken(g) \/ BusySteers(g) \/ SendStart(g)
            BY <1>2, <2>2, <3>1, LedgerSteps
        <3>3. QED
            BY <1>2, <3>1, <3>2, NoUnlockedSaves, StoreRefines, DeleteRefines, StartRefines
    <2>3. QED
        BY <2>1, <2>2
<1>3. Init /\ WaitsMean => Thread!ThreadInit
    BY <1>1
<1>4. TInv /\ LInv /\ TasksFit /\ PromptsInv /\ JobInv /\ WaitsMean /\ WaitsMean'
        /\ [Next]_vars => [Thread!ThreadNext]_(Thread!threadVars)
    BY <1>2
<1>5. Spec => []WaitsMean
    BY NoUnlockedSaves, MaxCrashes = 0, WaitingInvariant
<1>6. QED
    BY <1>3, <1>4, <1>5, PromptsInvariant, JobInvariant, PTL
        DEF Spec, KeepsPromises, Thread!ThreadSpec
=============================================================================
