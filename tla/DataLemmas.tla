----------------------------- MODULE DataLemmas -----------------------------
(***************************************************************************)
(* Facts about data that several components share: queues without           *)
(* repetitions (the run queue of the scheduler and the wait queues of the   *)
(* semaphores), induction over numbers and over finite sets, remainders,    *)
(* and sequences one after the other.  Induction comes from the theorem     *)
(* WFMin about well-founded relations.                                      *)
(***************************************************************************)
EXTENDS Integers, Sequences, Functions, FiniteSetTheorems, WellFoundedInduction, TLAPS

(* An element that is not in the queue is added at the tail.                *)
LEMMA QueueOne ==
  ASSUME NEW S, NEW q \in Seq(S), IsInjective(q), NEW p \in S, p \notin Range(q)
  PROVE  /\ Append(q, p) \in Seq(S) /\ Append(q, p) # << >>
         /\ IsInjective(Append(q, p))
         /\ Range(Append(q, p)) = Range(q) \cup {p}
<1>1. /\ Append(q, p) \in Seq(S) /\ Len(Append(q, p)) = Len(q) + 1
      /\ Append(q, p)[Len(q) + 1] = p
      /\ \A i \in 1 .. Len(q) : Append(q, p)[i] = q[i] /\ q[i] \in Range(q)
  BY DEF Range
<1>2. IsInjective(Append(q, p))
  <2> SUFFICES ASSUME NEW i \in 1 .. Len(q) + 1, NEW j \in 1 .. Len(q) + 1,
                      Append(q, p)[i] = Append(q, p)[j]
               PROVE  i = j
    BY <1>1 DEF IsInjective
  <2>1. CASE i \in 1 .. Len(q) /\ j \in 1 .. Len(q)
    BY <1>1, <2>1 DEF IsInjective
  <2>2. CASE ~(i \in 1 .. Len(q) /\ j \in 1 .. Len(q))
    BY <1>1, <2>2
  <2> QED
    BY <2>1, <2>2
<1>3. Range(Append(q, p)) = Range(q) \cup {p}
  <2>1. Range(Append(q, p)) \subseteq Range(q) \cup {p}
    BY <1>1 DEF Range
  <2>2. Range(q) \subseteq Range(Append(q, p))
    BY <1>1 DEF Range
  <2>3. p \in Range(Append(q, p))
    BY <1>1 DEF Range
  <2> QED
    BY <2>1, <2>2, <2>3
<1> QED
  BY <1>1, <1>2, <1>3

(* The head is taken off.                                                   *)
LEMMA TakeHead ==
  ASSUME NEW S, NEW q \in Seq(S), IsInjective(q), q # << >>
  PROVE  /\ Head(q) \in Range(q) /\ Tail(q) \in Seq(S)
         /\ IsInjective(Tail(q))
         /\ Range(Tail(q)) = Range(q) \ {Head(q)}
<1>1. /\ Len(q) > 0 /\ Head(q) = q[1] /\ Tail(q) \in Seq(S) /\ Len(Tail(q)) = Len(q) - 1
      /\ \A i \in 1 .. Len(q) - 1 : Tail(q)[i] = q[i + 1]
  OBVIOUS
<1>2. Head(q) \in Range(q)
  BY <1>1 DEF Range
<1>3. IsInjective(Tail(q))
  <2> SUFFICES ASSUME NEW i \in 1 .. Len(q) - 1, NEW j \in 1 .. Len(q) - 1,
                      Tail(q)[i] = Tail(q)[j]
               PROVE  i = j
    BY <1>1 DEF IsInjective
  <2>1. q[i + 1] = q[j + 1] /\ i + 1 \in 1 .. Len(q) /\ j + 1 \in 1 .. Len(q)
    BY <1>1
  <2> QED
    BY <2>1 DEF IsInjective
<1>4. Range(Tail(q)) \subseteq Range(q) \ {Head(q)}
  <2> SUFFICES ASSUME NEW i \in 1 .. Len(q) - 1
               PROVE  Tail(q)[i] \in Range(q) /\ Tail(q)[i] # Head(q)
    BY <1>1 DEF Range
  <2>1. Tail(q)[i] = q[i + 1] /\ i + 1 \in 1 .. Len(q) /\ 1 \in 1 .. Len(q) /\ i + 1 # 1
    BY <1>1
  <2> QED
    BY <1>1, <2>1 DEF Range, IsInjective
<1>5. Range(q) \ {Head(q)} \subseteq Range(Tail(q))
  <2> SUFFICES ASSUME NEW i \in 1 .. Len(q), q[i] # q[1] PROVE q[i] \in Range(Tail(q))
    BY <1>1 DEF Range
  <2>1. i - 1 \in 1 .. Len(q) - 1 /\ Tail(q)[i - 1] = q[i]
    BY <1>1
  <2>2. DOMAIN Tail(q) = 1 .. Len(q) - 1
    BY <1>1
  <2> QED
    BY <2>1, <2>2 DEF Range
<1> QED
  BY <1>1, <1>2, <1>3, <1>4, <1>5

(* An element t put into a sequence behind its first i, element by element. *)
IsInsert(r, q, i, t) ==
    /\ Len(r) = Len(q) + 1 /\ r[i + 1] = t
    /\ \A j \in 1 .. i : r[j] = q[j]
    /\ \A j \in i + 1 .. Len(q) : r[j + 1] = q[j]

(* SubSeq and Append put t behind the first i elements.                     *)
LEMMA Spliced ==
  ASSUME NEW T, NEW q \in Seq(T), NEW t \in T, NEW i \in 0 .. Len(q)
  PROVE  /\ SubSeq(q, 1, i) \o <<t>> \o SubSeq(q, i + 1, Len(q)) \in Seq(T)
         /\ IsInsert(SubSeq(q, 1, i) \o <<t>> \o SubSeq(q, i + 1, Len(q)), q, i, t)
<1> DEFINE a == SubSeq(q, 1, i)
<1> DEFINE b == SubSeq(q, i + 1, Len(q))
<1>1. a \in Seq(T) /\ Len(a) = i /\ \A j \in 1 .. i : a[j] = q[j]
  OBVIOUS
<1>2. b \in Seq(T) /\ Len(b) = Len(q) - i /\ \A j \in 1 .. Len(q) - i : b[j] = q[i + j]
  OBVIOUS
<1>3. SubSeq(q, 1, i) \o <<t>> \o SubSeq(q, i + 1, Len(q)) = (a \o <<t>>) \o b
  OBVIOUS
<1> HIDE DEF a, b
<1>4. /\ a \o <<t>> \in Seq(T) /\ Len(a \o <<t>>) = i + 1 /\ (a \o <<t>>)[i + 1] = t
      /\ \A j \in 1 .. i : (a \o <<t>>)[j] = q[j]
  BY <1>1
<1> DEFINE c == a \o <<t>>
<1> HIDE DEF c
<1>5. c \in Seq(T) /\ Len(c) = i + 1 /\ c[i + 1] = t /\ \A j \in 1 .. i : c[j] = q[j]
  BY <1>4 DEF c
<1>6. /\ c \o b \in Seq(T) /\ Len(c \o b) = Len(q) + 1
      /\ \A j \in 1 .. i + 1 : (c \o b)[j] = c[j]
      /\ \A j \in 1 .. Len(q) - i : (c \o b)[i + 1 + j] = b[j]
  BY <1>2, <1>5
<1>7. \A j \in i + 1 .. Len(q) : (c \o b)[j + 1] = q[j]
  <2> TAKE j \in i + 1 .. Len(q)
  <2>1. j - i \in 1 .. Len(q) - i /\ i + 1 + (j - i) = j + 1 /\ i + (j - i) = j
    OBVIOUS
  <2>2. (c \o b)[i + 1 + (j - i)] = b[j - i]
    BY <1>6, <2>1
  <2>3. b[j - i] = q[i + (j - i)]
    BY <1>2, <2>1
  <2> QED
    BY <2>1, <2>2, <2>3
<1>8. SubSeq(q, 1, i) \o <<t>> \o SubSeq(q, i + 1, Len(q)) = c \o b
  BY <1>3 DEF c
<1>9. (c \o b)[i + 1] = t /\ \A j \in 1 .. i : (c \o b)[j] = q[j]
  BY <1>5, <1>6, SMTT(30)
<1> QED
  BY <1>6, <1>7, <1>8, <1>9 DEF IsInsert

(* The sequence r is q without its i-th element.                            *)
IsRemove(r, q, i) ==
    /\ Len(r) = Len(q) - 1
    /\ \A j \in 1 .. i - 1 : r[j] = q[j]
    /\ \A j \in i .. Len(q) - 1 : r[j] = q[j + 1]

(* SubSeq takes out the i-th element and moves the rest down.               *)
LEMMA Dropped ==
  ASSUME NEW T, NEW q \in Seq(T), NEW i \in 1 .. Len(q)
  PROVE  /\ SubSeq(q, 1, i - 1) \o SubSeq(q, i + 1, Len(q)) \in Seq(T)
         /\ IsRemove(SubSeq(q, 1, i - 1) \o SubSeq(q, i + 1, Len(q)), q, i)
<1> DEFINE a == SubSeq(q, 1, i - 1)
<1> DEFINE b == SubSeq(q, i + 1, Len(q))
<1>1. a \in Seq(T) /\ Len(a) = i - 1 /\ \A j \in 1 .. i - 1 : a[j] = q[j]
  OBVIOUS
<1>2. b \in Seq(T) /\ Len(b) = Len(q) - i /\ \A j \in 1 .. Len(q) - i : b[j] = q[i + j]
  OBVIOUS
<1>3. SubSeq(q, 1, i - 1) \o SubSeq(q, i + 1, Len(q)) = a \o b
  OBVIOUS
<1> HIDE DEF a, b
<1>4. /\ a \o b \in Seq(T) /\ Len(a \o b) = Len(q) - 1
      /\ \A j \in 1 .. i - 1 : (a \o b)[j] = a[j]
      /\ \A j \in 1 .. Len(q) - i : (a \o b)[(i - 1) + j] = b[j]
  <2>1. /\ a \o b \in Seq(T) /\ Len(a \o b) = Len(a) + Len(b)
        /\ \A j \in 1 .. Len(a) : (a \o b)[j] = a[j]
        /\ \A j \in 1 .. Len(b) : (a \o b)[Len(a) + j] = b[j]
    <3>1. ASSUME NEW x \in Seq(T), NEW y \in Seq(T)
          PROVE  /\ x \o y \in Seq(T) /\ Len(x \o y) = Len(x) + Len(y)
                 /\ \A j \in 1 .. Len(x) : (x \o y)[j] = x[j]
                 /\ \A j \in 1 .. Len(y) : (x \o y)[Len(x) + j] = y[j]
      OBVIOUS
    <3> QED
      BY <1>1, <1>2, <3>1
  <2>2. Len(q) \in Nat /\ Len(a) = i - 1 /\ Len(b) = Len(q) - i
    BY <1>1, <1>2
  <2> QED
    BY <2>1, <2>2
<1>5. \A j \in i .. Len(q) - 1 : (a \o b)[j] = q[j + 1]
  <2> TAKE j \in i .. Len(q) - 1
  <2>1. j - i + 1 \in 1 .. Len(q) - i /\ (i - 1) + (j - i + 1) = j /\ i + (j - i + 1) = j + 1
    OBVIOUS
  <2>2. (a \o b)[(i - 1) + (j - i + 1)] = b[j - i + 1]
    BY <1>4, <2>1
  <2>3. b[j - i + 1] = q[i + (j - i + 1)]
    BY <1>2, <2>1
  <2> QED
    BY <2>1, <2>2, <2>3
<1> QED
  BY <1>1, <1>3, <1>4, <1>5 DEF IsRemove

(* A queue without one of its elements.                                     *)
LEMMA DroppedSet ==
  ASSUME NEW T, NEW q \in Seq(T), IsInjective(q), NEW i \in 1 .. Len(q),
         NEW r \in Seq(T), IsRemove(r, q, i)
  PROVE  IsInjective(r) /\ Range(r) = Range(q) \ {q[i]}
<1>0. /\ Len(r) = Len(q) - 1
      /\ \A j \in 1 .. i - 1 : r[j] = q[j]
      /\ \A j \in i .. Len(q) - 1 : r[j] = q[j + 1]
  BY DEF IsRemove
<1>1. /\ \A a, b \in 1 .. Len(q) : q[a] = q[b] => a = b
      /\ Len(q) \in Nat /\ Len(q) > 0
  BY DEF IsInjective
<1>2. ASSUME NEW j \in 1 .. Len(q) - 1
      PROVE  \E k \in 1 .. Len(q) : k # i /\ r[j] = q[k] /\ k = IF j < i THEN j ELSE j + 1
  <2>1. CASE j < i
    <3>1. j \in 1 .. i - 1 /\ j \in 1 .. Len(q) /\ j # i
      BY <1>1, <2>1
    <3> QED
      BY <1>0, <2>1, <3>1
  <2>2. CASE ~ (j < i)
    <3>1. j \in i .. Len(q) - 1 /\ j + 1 \in 1 .. Len(q) /\ j + 1 # i
      BY <1>1, <2>2
    <3> QED
      BY <1>0, <2>2, <3>1
  <2> QED
    BY <2>1, <2>2
<1>3. IsInjective(r)
  <2> SUFFICES ASSUME NEW a \in 1 .. Len(q) - 1, NEW b \in 1 .. Len(q) - 1, r[a] = r[b]
               PROVE  a = b
    BY <1>0 DEF IsInjective
  <2>1. PICK c \in 1 .. Len(q) : r[a] = q[c] /\ c = IF a < i THEN a ELSE a + 1
    BY <1>2
  <2>2. PICK d \in 1 .. Len(q) : r[b] = q[d] /\ d = IF b < i THEN b ELSE b + 1
    BY <1>2
  <2>3. c = d
    BY <1>1, <2>1, <2>2
  <2>4. c = (IF a < i THEN a ELSE a + 1) /\ c = (IF b < i THEN b ELSE b + 1)
    BY <2>1, <2>2, <2>3
  <2> QED
    BY <2>4
<1>4. Range(r) \subseteq Range(q) \ {q[i]}
  <2>1. \A j \in 1 .. Len(q) - 1 : \E k \in 1 .. Len(q) : k # i /\ r[j] = q[k]
    BY <1>2
  <2>2. \A j \in 1 .. Len(q) - 1 : r[j] \in Range(q) /\ r[j] # q[i]
    BY <1>1, <2>1 DEF Range
  <2> QED
    BY <1>0, <2>2 DEF Range
<1>5. ASSUME NEW k \in 1 .. Len(q), k # i PROVE q[k] \in Range(r)
  <2>1. CASE k < i
    <3>1. k \in 1 .. i - 1 /\ k \in 1 .. Len(q) - 1
      BY <1>1, <2>1
    <3>2. r[k] = q[k] /\ k \in 1 .. Len(r)
      BY <1>0, <3>1
    <3> QED
      BY <3>2 DEF Range
  <2>2. CASE k > i
    <3>1. k - 1 \in i .. Len(q) - 1 /\ k - 1 \in 1 .. Len(q) - 1 /\ (k - 1) + 1 = k
      BY <1>1, <2>2
    <3>2. r[k - 1] = q[k] /\ k - 1 \in 1 .. Len(r)
      BY <1>0, <3>1
    <3> QED
      BY <3>2 DEF Range
  <2> QED
    BY <1>5, <2>1, <2>2
<1>6. Range(q) \ {q[i]} \subseteq Range(r)
  <2>1. Range(q) = {q[k] : k \in 1 .. Len(q)}
    BY DEF Range
  <2> QED
    BY <1>5, <2>1
<1> QED
  BY <1>3, <1>4, <1>6

(* An element that is not in the queue is put in front.                     *)
LEMMA QueueFront ==
  ASSUME NEW S, NEW q \in Seq(S), IsInjective(q), NEW p \in S, p \notin Range(q)
  PROVE  /\ <<p>> \o q \in Seq(S) /\ IsInjective(<<p>> \o q)
         /\ Range(<<p>> \o q) = Range(q) \cup {p}
<1> DEFINE r == <<p>> \o q
<1>1. /\ r \in Seq(S) /\ Len(r) = Len(q) + 1 /\ r[1] = p /\ Len(q) \in Nat
      /\ \A i \in 1 .. Len(q) : r[i + 1] = q[i]
  OBVIOUS
<1> HIDE DEF r
<1>2. \A i \in 2 .. Len(q) + 1 : i - 1 \in 1 .. Len(q) /\ r[i] = q[i - 1]
  <2> TAKE i \in 2 .. Len(q) + 1
  <2>1. i - 1 \in 1 .. Len(q) /\ (i - 1) + 1 = i
    BY <1>1
  <2> QED BY <1>1, <2>1
<1>3. \A i \in 1 .. Len(q) : q[i] \in Range(q) /\ q[i] # p
  BY DEF Range
<1>4. IsInjective(r)
  <2> SUFFICES ASSUME NEW i \in 1 .. Len(q) + 1, NEW j \in 1 .. Len(q) + 1, r[i] = r[j]
               PROVE  i = j
    BY <1>1 DEF IsInjective
  <2>1. CASE i # 1 /\ j # 1
    <3>1. i \in 2 .. Len(q) + 1 /\ j \in 2 .. Len(q) + 1
      BY <1>1, <2>1
    <3>2. i - 1 \in 1 .. Len(q) /\ j - 1 \in 1 .. Len(q) /\ q[i - 1] = q[j - 1]
      BY <1>2, <3>1
    <3>3. i - 1 = j - 1
      BY <3>2 DEF IsInjective
    <3> QED BY <3>3
  <2>2. \A k \in 1 .. Len(q) + 1 : k # 1 => r[k] # p
    <3> TAKE k \in 1 .. Len(q) + 1
    <3>1. k # 1 => k \in 2 .. Len(q) + 1
      BY <1>1
    <3> QED BY <1>2, <1>3, <3>1
  <2> QED BY <1>1, <2>1, <2>2
<1>5. Range(r) = Range(q) \cup {p}
  <2>1. \A i \in 1 .. Len(q) + 1 : r[i] \in Range(q) \cup {p}
    <3> TAKE i \in 1 .. Len(q) + 1
    <3>1. i = 1 \/ i \in 2 .. Len(q) + 1
      BY <1>1
    <3> QED BY <1>1, <1>2, <1>3, <3>1
  <2>2. Range(r) \subseteq Range(q) \cup {p}
    BY <1>1, <2>1 DEF Range
  <2>3. \A i \in 1 .. Len(q) : i + 1 \in 1 .. Len(r) /\ r[i + 1] = q[i]
    BY <1>1
  <2>4. Range(q) \subseteq Range(r)
    BY <1>1, <2>3 DEF Range
  <2>5. 1 \in 1 .. Len(r) /\ p \in Range(r)
    BY <1>1 DEF Range
  <2> QED BY <2>2, <2>4, <2>5
<1> QED BY <1>1, <1>4, <1>5 DEF r

-----------------------------------------------------------------------------
(* A set of natural numbers has a least element.                            *)
LEMMA Least ==
  ASSUME NEW S \in SUBSET Nat, S # {}
  PROVE  \E m \in S : \A k \in S : m <= k
<1> DEFINE R == {ss \in Nat \X Nat : ss[1] < ss[2]}
<1>1. IsWellFoundedOn(R, Nat)
  BY NatLessThanWellFounded DEF OpToRel
<1>2. \A k, m \in S : k < m => <<k, m>> \in R
  OBVIOUS
<1> HIDE DEF R
<1>3. \E m \in S : \A k \in S : <<k, m>> \notin R
  BY <1>1, WFMin
<1>4. PICK m \in S : \A k \in S : ~ (k < m)
  BY <1>2, <1>3
<1> QED
  BY <1>4

(* A bounded set of natural numbers has a greatest one.                     *)
LEMMA Greatest ==
  ASSUME NEW n \in Nat, NEW S \in SUBSET (0 .. n), S # {}
  PROVE  \E m \in S : \A k \in S : k <= m
<1> DEFINE T == {k \in Nat : k <= n /\ n - k \in S}
<1>1. PICK s \in S : s \in 0 .. n
  OBVIOUS
<1>2. n - s \in T
  BY <1>1
<1>3. T # {} /\ T \in SUBSET Nat
  BY <1>2
<1> HIDE DEF T
<1>4. PICK t \in T : \A k \in T : t <= k
  BY <1>3, Least
<1>5. \A k \in S : k \in 0 .. n /\ n - k \in T
  BY DEF T
<1> QED
  BY <1>4, <1>5 DEF T

(* Induction up to a bound, for a property given as a set.                  *)
LEMMA Induction ==
  ASSUME NEW S, NEW n \in Nat, 0 \in S, \A k \in 0 .. n - 1 : k \in S => k + 1 \in S
  PROVE  0 .. n \subseteq S
<1> SUFFICES ASSUME (0 .. n) \ S # {} PROVE FALSE
  OBVIOUS
<1>1. (0 .. n) \ S \in SUBSET Nat
  OBVIOUS
<1>2. PICK m \in (0 .. n) \ S : \A k \in (0 .. n) \ S : m <= k
  BY <1>1, Least
<1>3. m # 0 /\ m - 1 \in 0 .. n - 1
  BY <1>2
<1>4. m - 1 \in S
  BY <1>2, <1>3
<1> QED
  BY <1>2, <1>3, <1>4

(* A function can be applied again and again.                               *)
HasIterates(D, G, a, m) ==
  \E f \in [0 .. m -> D] : f[0] = a /\ \A k \in 1 .. m : f[k] = G[f[k - 1]]

(* By induction on the number of applications.                              *)
LEMMA Iterates ==
  ASSUME NEW D, NEW G \in [D -> D], NEW a \in D, NEW n \in Nat
  PROVE  HasIterates(D, G, a, n)
<1> DEFINE P == {m \in 0 .. n : \E f \in [0 .. m -> D] :
                                  f[0] = a /\ \A k \in 1 .. m : f[k] = G[f[k - 1]]}
<1>1. 0 \in P
  <2> DEFINE z == [i \in 0 .. 0 |-> a]
  <2>1. z \in [0 .. 0 -> D] /\ z[0] = a /\ 0 \in 0 .. n
    OBVIOUS
  <2>2. \A k \in 1 .. 0 : z[k] = G[z[k - 1]]
    OBVIOUS
  <2> HIDE DEF z
  <2> QED
    BY <2>1, <2>2
<1>2. ASSUME NEW m \in 0 .. n - 1, m \in P PROVE m + 1 \in P
  <2>1. PICK f \in [0 .. m -> D] : f[0] = a /\ \A k \in 1 .. m : f[k] = G[f[k - 1]]
    BY <1>2
  <2> DEFINE r == [i \in 0 .. m + 1 |-> IF i = m + 1 THEN G[f[m]] ELSE f[i]]
  <2>2. r \in [0 .. m + 1 -> D]
    BY <2>1
  <2>3. r[0] = a /\ \A k \in 1 .. m + 1 : r[k] = G[r[k - 1]]
    BY <2>1
  <2>4. m + 1 \in 0 .. n
    OBVIOUS
  <2> HIDE DEF r
  <2> QED
    BY <2>2, <2>3, <2>4
<1>3. n \in P
  <2> HIDE DEF P
  <2> QED
    BY <1>1, <1>2, Induction
<1> QED
  BY <1>3 DEF HasIterates

(* A recursion that looks ahead: the value at i comes from the value at     *)
(* nx[i], further up.                                                       *)
HasUpward(V, b, lo, hi, nx, C) ==
  \E f \in [lo .. hi -> V] : f[hi] = b /\ \A i \in lo .. hi - 1 : f[i] = C[i][f[nx[i]]]

(* By induction on the distance from the upper end.                         *)
LEMMA Upward ==
  ASSUME NEW V, NEW b \in V, NEW lo \in Nat, NEW hi \in Nat, lo <= hi,
         NEW nx \in [lo .. hi - 1 -> Nat], \A i \in lo .. hi - 1 : i < nx[i] /\ nx[i] <= hi,
         NEW C \in [lo .. hi - 1 -> [V -> V]]
  PROVE  HasUpward(V, b, lo, hi, nx, C)
<1> DEFINE Good(f, k) == f[hi] = b /\ \A i \in hi - k .. hi - 1 : f[i] = C[i][f[nx[i]]]
           P == {k \in 0 .. hi - lo : \E f \in [hi - k .. hi -> V] : Good(f, k)}
<1>1. 0 \in P
  <2> DEFINE z == [i \in hi .. hi |-> b]
  <2>1. z \in [hi - 0 .. hi -> V] /\ z[hi] = b /\ 0 \in 0 .. hi - lo
    OBVIOUS
  <2>2. \A i \in hi - 0 .. hi - 1 : z[i] = C[i][z[nx[i]]]
    OBVIOUS
  <2> HIDE DEF z
  <2> QED BY <2>1, <2>2
<1>2. ASSUME NEW k \in 0 .. (hi - lo) - 1, k \in P PROVE k + 1 \in P
  <2>1. PICK f \in [hi - k .. hi -> V] : Good(f, k)
    BY <1>2
  <2> DEFINE at == hi - (k + 1)
             r == [i \in at .. hi |-> IF i = at THEN C[at][f[nx[at]]] ELSE f[i]]
  <2>2. at \in lo .. hi - 1 /\ nx[at] \in hi - k .. hi /\ C[at] \in [V -> V] /\ at + 1 = hi - k
    OBVIOUS
  <2>3. f[nx[at]] \in V
    BY <2>1, <2>2
  <2>4. C[at][f[nx[at]]] \in V
    BY <2>2, <2>3
  <2>5. r \in [at .. hi -> V]
    <3>1. \A i \in at .. hi : i # at => i \in hi - k .. hi
      OBVIOUS
    <3> QED BY <2>1, <2>4, <3>1
  <2>6. r[hi] = b
    <3>1. hi \in at .. hi /\ hi # at
      BY <2>2
    <3> QED BY <2>1, <3>1
  <2>7. r[at] = C[at][r[nx[at]]]
    <3>1. nx[at] \in at .. hi /\ nx[at] # at /\ at \in at .. hi
      BY <2>2
    <3> QED BY <3>1
  <2>8. \A i \in hi - k .. hi - 1 : r[i] = C[i][r[nx[i]]]
    <3> TAKE i \in hi - k .. hi - 1
    <3>1. i \in lo .. hi - 1 /\ i \in at .. hi /\ i # at
      BY <2>2
    <3>2. nx[i] \in at .. hi /\ nx[i] # at
      BY <2>2, <3>1
    <3>3. r[i] = f[i] /\ r[nx[i]] = f[nx[i]]
      BY <3>1, <3>2
    <3> QED BY <2>1, <3>3
  <2>9. \A i \in at .. hi - 1 : i = at \/ i \in hi - k .. hi - 1
    BY <2>2
  <2>10. k + 1 \in 0 .. hi - lo
    OBVIOUS
  <2> HIDE DEF r
  <2> QED BY <2>5, <2>6, <2>7, <2>8, <2>9, <2>10
<1>3. hi - lo \in P
  <2>1. hi - lo \in Nat /\ hi - lo \in 0 .. hi - lo
    OBVIOUS
  <2> HIDE DEF P
  <2> QED BY <1>1, <1>2, <2>1, Induction
<1>4. hi - (hi - lo) = lo
  OBVIOUS
<1> QED
  BY <1>3, <1>4 DEF HasUpward

(* A set of subsets of a finite set has a smallest member.                  *)
LEMMA Smallest ==
  ASSUME NEW H, IsFiniteSet(H), NEW B \in SUBSET (SUBSET H), B # {}
  PROVE  \E s \in B : \A t \in B : ~ (t \subseteq s /\ t # s)
<1>1. IsWellFoundedOn(StrictSubsetOrdering(H), SUBSET H)
  BY FS_StrictSubsetOrderingWellFounded, FS_FiniteSubsetsOfFinite
<1> DEFINE R == StrictSubsetOrdering(H)
<1>2. \A t, s \in SUBSET H : t \subseteq s /\ t # s => <<t, s>> \in R
  BY DEF StrictSubsetOrdering
<1> HIDE DEF R
<1>3. PICK s \in B : \A t \in B : <<t, s>> \notin R
  BY <1>1, WFMin DEF R
<1> QED BY <1>2, <1>3

(* Division by a positive number leaves a remainder below it.               *)
LEMMA Division ==
  ASSUME NEW a \in Int, NEW c \in Nat \ {0}
  PROVE  \E q \in Int, r \in 0 .. c - 1 : q = a \div c /\ r = a % c /\ a = c * q + r
<1>1. PICK q \in Int : q = a \div c
  OBVIOUS
<1>2. PICK r \in Int : r = a % c
  OBVIOUS
<1>3. a = c * q + r
  BY <1>1, <1>2, SMTT(30)
<1>4. r \in 0 .. c - 1
  BY <1>2
<1> QED BY <1>1, <1>2, <1>3, <1>4

(* and there is only one such remainder.                                    *)
LEMMA Remainder ==
  ASSUME NEW c \in Nat \ {0}, NEW q \in Int, NEW r \in 0 .. c - 1
  PROVE  (c * q + r) % c = r
<1>1. PICK a \in Int : a = c * q + r
  OBVIOUS
<1>2. PICK p \in Int, s \in 0 .. c - 1 : s = a % c /\ a = c * p + s
  BY Division
<1>3. c * (q - p) = s - r
  BY <1>1, <1>2
<1>4. q - p \in Int /\ s - r < c /\ s - r > 0 - c
  BY <1>2
<1>5. ASSUME NEW d \in Int, d >= 1 PROVE c * d >= c
  BY <1>5
<1>6. ASSUME NEW d \in Int, d <= -1 PROVE c * d <= 0 - c
  BY <1>6
<1>7. q - p = 0
  BY <1>3, <1>4, <1>5, <1>6
<1>8. s = r
  BY <1>2, <1>3, <1>7
<1> QED BY <1>1, <1>2, <1>8

(* Whole multiples of c do not change the remainder.                        *)
LEMMA Multiples ==
  ASSUME NEW c \in Nat \ {0}, NEW q \in Int, NEW a \in Int
  PROVE  (c * q + a) % c = a % c
<1>1. PICK p \in Int, r \in 0 .. c - 1 : r = a % c /\ a = c * p + r
  BY Division
<1>2. c * q + a = c * (q + p) + r /\ q + p \in Int
  BY <1>1
<1>3. (c * (q + p) + r) % c = r
  BY <1>1, <1>2, Remainder
<1> QED BY <1>1, <1>2, <1>3

(* Numbers with the same remainder are equal or at least c apart.           *)
LEMMA SameRemainder ==
  ASSUME NEW c \in Nat \ {0}, NEW a \in Int, NEW b \in Int, a % c = b % c,
         a < b + c, b < a + c
  PROVE  a = b
<1>0. PICK p \in Int, r \in 0 .. c - 1 : r = a % c /\ a = c * p + r
  BY Division
<1>1. PICK q \in Int, s \in 0 .. c - 1 : s = b % c /\ b = c * q + s
  BY Division
<1>2. c * (p - q) = a - b /\ p - q \in Int
  BY <1>0, <1>1
<1>3. ASSUME NEW d \in Int, d >= 1 PROVE c * d >= c
  BY <1>3
<1>4. ASSUME NEW d \in Int, d <= -1 PROVE c * d <= 0 - c
  BY <1>4
<1>5. p - q = 0
  BY <1>2, <1>3, <1>4
<1> QED BY <1>2, <1>5

(* A remainder can be taken before adding or subtracting.                   *)
LEMMA RemainderFirst ==
  ASSUME NEW c \in Nat \ {0}, NEW a \in Int, NEW b \in Int
  PROVE  ((a % c) + b) % c = (a + b) % c /\ (b - (a % c)) % c = (b - a) % c
<1>1. PICK q \in Int, r \in 0 .. c - 1 : r = a % c /\ a = c * q + r
  BY Division
<1>2. a + b = c * q + (r + b) /\ r + b \in Int
  BY <1>1
<1>3. (c * q + (r + b)) % c = (r + b) % c
  BY <1>1, <1>2, Multiples
<1>4. b - a = c * (0 - q) + (b - r) /\ b - r \in Int /\ 0 - q \in Int
  BY <1>1
<1>5. (c * (0 - q) + (b - r)) % c = (b - r) % c
  BY <1>1, <1>4, Multiples
<1> QED BY <1>1, <1>2, <1>3, <1>4, <1>5

(* Two sequences one after the other, place by place,                       *)
LEMMA JoinedTwo ==
  ASSUME NEW S, NEW s \in Seq(S), NEW t \in Seq(S), NEW r, r = s \o t,
         NEW a \in Nat, a = Len(s), NEW b \in Nat, b = a + Len(t)
  PROVE  /\ r \in Seq(S) /\ Len(r) = b /\ DOMAIN r = 1 .. b
         /\ \A i \in 1 .. b : r[i] = IF i <= a THEN s[i] ELSE t[i - a]
OBVIOUS

(* and three.                                                               *)
LEMMA JoinedPlaces ==
  ASSUME NEW S, NEW s \in Seq(S), NEW t \in Seq(S), NEW u \in Seq(S),
         NEW v, v = s \o t, NEW r, r = v \o u,
         NEW a \in Nat, a = Len(s), NEW b \in Nat, b = a + Len(t),
         NEW c \in Nat, c = b + Len(u)
  PROVE  /\ Len(r) = c /\ DOMAIN r = 1 .. c
         /\ \A i \in 1 .. c :
              r[i] = IF i <= a THEN s[i] ELSE IF i <= b THEN t[i - a] ELSE u[i - b]
<1>1. v \in Seq(S) /\ b = Len(v)
  BY JoinedTwo
<1>2. \A i \in 1 .. b : v[i] = IF i <= a THEN s[i] ELSE t[i - a]
  BY JoinedTwo
<1>4. /\ Len(r) = c /\ DOMAIN r = 1 .. c
      /\ \A i \in 1 .. c : r[i] = IF i <= b THEN v[i] ELSE u[i - b]
  BY <1>1, JoinedTwo
<1>5. \A i \in 1 .. c : i <= b => i \in 1 .. b
  OBVIOUS
<1>6. a <= b
  OBVIOUS
<1>7. \A i \in 1 .. c : i <= a => i <= b
  BY <1>6
<1> QED BY <1>2, <1>4, <1>5, <1>7

(* A function on 1 .. n is a sequence.                                      *)
LEMMA FunctionSequence ==
  ASSUME NEW S, NEW n \in Nat, NEW f \in [1 .. n -> S]
  PROVE  f \in Seq(S) /\ Len(f) = n
OBVIOUS

(* and a sequence over a set is one over a larger set.                      *)
LEMMA WiderSequence ==
  ASSUME NEW S, NEW T, S \subseteq T, NEW s \in Seq(S)
  PROVE  s \in Seq(T)
<1>1. Len(s) \in Nat /\ s \in [1 .. Len(s) -> S]
  OBVIOUS
<1>2. s \in [1 .. Len(s) -> T]
  BY <1>1
<1> QED BY <1>1, <1>2, FunctionSequence
=============================================================================
