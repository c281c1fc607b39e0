---------------------------- MODULE RecordsProofs ----------------------------
(***************************************************************************)
(* The helpers of Records: RetireHash keeps a ring of at most RingSize     *)
(* tokens that ends with the token just retired and forgets none while     *)
(* there is room, and a replaced record is a record.                       *)
(***************************************************************************)
EXTENDS Records, TLAPS, SequenceTheorems

\* Without leaves out one occurrence of t: nothing enters the ring, and every
\* other token stays.
LEMMA WithoutProperties ==
    ASSUME NEW ring \in Seq(Token), NEW t \in Token
    PROVE  /\ Without(ring, t) \in Seq(Token)
           /\ Len(Without(ring, t)) <= Len(ring) /\ Len(ring) <= Len(Without(ring, t)) + 1
           /\ \A j \in 1..Len(Without(ring, t)) :
                \E k \in 1..Len(ring) : Without(ring, t)[j] = ring[k]
           /\ \A k \in 1..Len(ring) : ring[k] # t =>
                \E j \in 1..Len(Without(ring, t)) : Without(ring, t)[j] = ring[k]
<1>0. Len(ring) \in Nat /\ \A k \in 1..Len(ring) : ring[k] \in Token
  BY ElementOfSeq, LenProperties
<1>1. CASE \E i \in 1..Len(ring) : ring[i] = t
  <2> DEFINE i == CHOOSE i \in 1..Len(ring) : ring[i] = t
             a == SubSeq(ring, 1, i - 1)
             b == SubSeq(ring, i + 1, Len(ring))
             w == a \o b
  <2>1. i \in 1..Len(ring) /\ ring[i] = t
    BY <1>1
  <2>2. Without(ring, t) = w
    BY <1>1 DEF Without
  <2> HIDE DEF i
  <2>3. a \in Seq(Token) /\ Len(a) = i - 1 /\ \A j \in 1..i-1 : a[j] = ring[j]
    <3>1. 1 \in Int /\ i - 1 \in Int /\ \A k \in 1..i-1 : ring[k] \in Token
      BY <1>0, <2>1
    <3>2. /\ a \in Seq(Token)
          /\ Len(a) = IF 1 <= i - 1 THEN i - 1 - 1 + 1 ELSE 0
          /\ \A j \in 1..i - 1 - 1 + 1 : a[j] = ring[1 + j - 1]
      BY <3>1, SubSeqProperties
    <3> HIDE DEF a
    <3> QED BY <1>0, <2>1, <3>2
  <2>4. b \in Seq(Token) /\ Len(b) = Len(ring) - i /\ \A j \in 1..Len(ring)-i : b[j] = ring[i + j]
    <3>1. i + 1 \in Int /\ Len(ring) \in Int /\ \A k \in i+1..Len(ring) : ring[k] \in Token
      BY <1>0, <2>1
    <3>2. /\ b \in Seq(Token)
          /\ Len(b) = IF i + 1 <= Len(ring) THEN Len(ring) - (i + 1) + 1 ELSE 0
          /\ \A j \in 1..Len(ring) - (i + 1) + 1 : b[j] = ring[i + 1 + j - 1]
      BY <3>1, SubSeqProperties
    <3> HIDE DEF b
    <3> QED BY <1>0, <2>1, <3>2
  <2> HIDE DEF a, b
  <2>5. /\ w \in Seq(Token)
        /\ Len(w) = Len(a) + Len(b)
        /\ \A j \in 1..Len(a) + Len(b) : w[j] = IF j <= Len(a) THEN a[j] ELSE b[j - Len(a)]
    BY <2>3, <2>4, ConcatProperties
  <2> HIDE DEF w
  <2>6. Len(w) = Len(ring) - 1
    BY <1>0, <2>1, <2>3, <2>4, <2>5
  <2>7. ASSUME NEW j \in 1..Len(w) PROVE \E k \in 1..Len(ring) : w[j] = ring[k]
    <3>1. CASE j <= i - 1
      BY <1>0, <2>1, <2>3, <2>4, <2>5, <2>6, <3>1
    <3>2. CASE j > i - 1
      <4>1. j - (i - 1) \in 1..Len(ring) - i /\ w[j] = b[j - (i - 1)]
        <5>1. j - (i - 1) \in 1..Len(ring) - i /\ ~(j <= i - 1)
          BY <1>0, <2>1, <2>6, <3>2
        <5>2. w[j] = b[j - Len(a)]
          BY <2>3, <2>5, <2>7, <3>2
        <5> QED BY <2>3, <5>1, <5>2
      <4>2. w[j] = ring[i + (j - (i - 1))]
        BY <2>4, <4>1
      <4>3. i + (j - (i - 1)) \in 1..Len(ring)
        BY <1>0, <2>1, <4>1
      <4> QED BY <4>2, <4>3
    <3> QED BY <1>0, <2>1, <2>6, <3>1, <3>2
  <2>8. ASSUME NEW k \in 1..Len(ring), ring[k] # t PROVE \E j \in 1..Len(w) : w[j] = ring[k]
    <3>1. CASE k < i
      <4>1. k \in 1..Len(w) /\ w[k] = a[k] /\ a[k] = ring[k]
        <5>1. k \in 1..Len(w) /\ k <= i - 1
          BY <1>0, <2>1, <2>6, <3>1
        <5> QED BY <2>3, <2>5, <5>1
      <4> QED BY <4>1
    <3>2. CASE k > i
      <4>1. k - 1 \in 1..Len(w) /\ w[k - 1] = b[k - 1 - (i - 1)]
        <5>1. k - 1 \in 1..Len(w) /\ ~(k - 1 <= i - 1)
          BY <1>0, <2>1, <2>6, <3>2
        <5>2. w[k - 1] = b[k - 1 - Len(a)]
          BY <2>3, <2>5, <5>1
        <5> QED BY <2>3, <5>1, <5>2
      <4>2. b[k - i] = ring[i + (k - i)]
        BY <1>0, <2>1, <2>4, <3>2
      <4> QED BY <1>0, <2>1, <4>1, <4>2
    <3> QED BY <1>0, <2>1, <2>8, <3>1, <3>2
  <2> QED BY <1>0, <2>2, <2>5, <2>6, <2>7, <2>8
<1>2. CASE ~ \E i \in 1..Len(ring) : ring[i] = t
  <2>1. Without(ring, t) = ring
    BY <1>2 DEF Without
  <2> QED BY <1>0, <2>1
<1> QED BY <1>1, <1>2

\* The ring after a retirement: no shorter, at most RingSize tokens, the
\* retired one last, nothing new, and nothing forgotten while there was room.
THEOREM RetireHashProperties ==
    ASSUME NEW ring \in Ring, NEW t \in Token
    PROVE  /\ RetireHash(ring, t) \in Seq(Token)
           /\ Len(RetireHash(ring, t)) \in 1..RingSize /\ Len(ring) <= Len(RetireHash(ring, t))
           /\ RetireHash(ring, t)[Len(RetireHash(ring, t))] = t
           /\ \A j \in 1..Len(RetireHash(ring, t)) :
                RetireHash(ring, t)[j] = t \/ \E k \in 1..Len(ring) : RetireHash(ring, t)[j] = ring[k]
           /\ Len(ring) < RingSize => \A k \in 1..Len(ring) :
                \E j \in 1..Len(RetireHash(ring, t)) : RetireHash(ring, t)[j] = ring[k]
<1> DEFINE w == Without(ring, t)
           out == Append(w, t)
           n == Len(out)
           cut == SubSeq(out, n - RingSize + 1, n)
           res == RetireHash(ring, t)
<1>0. ring \in Seq(Token) /\ Len(ring) <= RingSize
  BY DEF Ring
<1>1. /\ w \in Seq(Token) /\ Len(w) <= Len(ring) /\ Len(ring) <= Len(w) + 1
      /\ \A j \in 1..Len(w) : \E k \in 1..Len(ring) : w[j] = ring[k]
      /\ \A k \in 1..Len(ring) : ring[k] # t => \E j \in 1..Len(w) : w[j] = ring[k]
  BY <1>0, WithoutProperties
<1>2. res = IF n > RingSize THEN cut ELSE out
  BY DEF RetireHash
<1> HIDE DEF w, res
<1>3. /\ out \in Seq(Token) /\ n = Len(w) + 1
      /\ \A i \in 1..Len(w) : out[i] = w[i]
      /\ out[Len(w) + 1] = t
  BY <1>1, AppendProperties
<1>4. Len(w) \in Nat /\ Len(ring) \in Nat /\ RingSize \in Nat \ {0} /\ n <= RingSize + 1
  <2>1. Len(w) \in Nat /\ Len(ring) \in Nat
    BY <1>0, <1>1, LenProperties
  <2> QED BY <1>0, <1>1, <1>3, <2>1, RecordsAssumption
<1>5. \A j \in 1..n : out[j] \in Token
  BY <1>3, ElementOfSeq
<1>8. Len(ring) <= n
  BY <1>1, <1>3, <1>4
<1> HIDE DEF out, n
<1>6. CASE n > RingSize
  <2>1. n - RingSize + 1 = 2 /\ n = RingSize + 1
    BY <1>3, <1>4, <1>6
  <2>2. /\ cut \in Seq(Token)
        /\ Len(cut) = RingSize
        /\ \A i \in 1..RingSize : cut[i] = out[i + 1]
    <3>1. 2 \in Int /\ n \in Int /\ \A i \in 2..n : out[i] \in Token
      BY <1>3, <1>4, <1>5
    <3>2. /\ SubSeq(out, 2, n) \in Seq(Token)
          /\ Len(SubSeq(out, 2, n)) = IF 2 <= n THEN n - 2 + 1 ELSE 0
          /\ \A i \in 1..n - 2 + 1 : SubSeq(out, 2, n)[i] = out[2 + i - 1]
      BY <3>1, SubSeqProperties
    <3>3. cut = SubSeq(out, 2, n)
      BY <2>1
    <3> HIDE DEF cut
    <3> QED BY <1>4, <2>1, <3>2, <3>3
  <2>3. cut[RingSize] = t
    BY <1>3, <1>4, <2>1, <2>2
  <2>4. \A j \in 1..RingSize : cut[j] = t \/ \E k \in 1..Len(ring) : cut[j] = ring[k]
    <3> SUFFICES ASSUME NEW j \in 1..RingSize, cut[j] # t PROVE \E k \in 1..Len(ring) : cut[j] = ring[k]
      OBVIOUS
    <3>1. cut[j] = out[j + 1]
      BY <2>2
    <3> HIDE DEF cut
    <3>2. j + 1 \in 1..Len(w)
      BY <1>3, <1>4, <2>1, <3>1
    <3> QED BY <1>1, <1>3, <3>1, <3>2
  <2>5. ~(Len(ring) < RingSize)
    BY <1>1, <1>3, <1>4, <1>6
  <2>6. res = cut
    BY <1>2, <1>6
  <2> HIDE DEF cut
  <2>7. res \in Seq(Token) /\ Len(res) = RingSize /\ res[RingSize] = t
    BY <2>2, <2>3, <2>6
  <2>8. RingSize \in 1..RingSize /\ Len(ring) <= RingSize
    BY <1>0, <1>4
  <2>9. \A j \in 1..RingSize : res[j] = t \/ \E k \in 1..Len(ring) : res[j] = ring[k]
    BY <2>4, <2>6
  <2> QED BY <2>5, <2>7, <2>8, <2>9 DEF res
<1>7. CASE ~(n > RingSize)
  <2>1. res = out /\ Len(out) = n
    BY <1>2, <1>7 DEF n
  <2>2. \A j \in 1..n : out[j] = t \/ \E k \in 1..Len(ring) : out[j] = ring[k]
    <3> SUFFICES ASSUME NEW j \in 1..n, out[j] # t PROVE \E k \in 1..Len(ring) : out[j] = ring[k]
      OBVIOUS
    <3>1. j \in 1..Len(w) /\ out[j] = w[j]
      BY <1>3, <1>4
    <3> QED BY <1>1, <3>1
  <2>3. \A k \in 1..Len(ring) : \E j \in 1..n : out[j] = ring[k]
    <3> SUFFICES ASSUME NEW k \in 1..Len(ring) PROVE \E j \in 1..n : out[j] = ring[k]
      OBVIOUS
    <3>1. CASE ring[k] = t
      BY <1>3, <1>4, <3>1
    <3>2. CASE ring[k] # t
      <4>1. PICK j \in 1..Len(w) : w[j] = ring[k]
        BY <1>1, <3>2
      <4>2. j \in 1..n /\ out[j] = ring[k]
        BY <1>3, <1>4, <4>1
      <4> QED BY <4>2
    <3> QED BY <3>1, <3>2
  <2>4. n \in 1..RingSize /\ Len(ring) <= n /\ out[n] = t
    BY <1>3, <1>4, <1>7, <1>8
  <2>5. res \in Seq(Token)
    BY <1>3, <2>1
  <2> QED BY <2>1, <2>2, <2>3, <2>4, <2>5 DEF res
<1> QED BY <1>6, <1>7

-----------------------------------------------------------------------------

\* A replaced record is a record.
LEMMA ReplaceType ==
    ASSUME NEW r \in Record, NEW t \in Token
    PROVE  Replace(r, t) \in Record
<1>1. r.ring \in Ring /\ r.tok \in Token
  BY DEF Record
<1>2. RetireHash(r.ring, r.tok) \in Ring
  <2>1. RetireHash(r.ring, r.tok) \in Seq(Token) /\ Len(RetireHash(r.ring, r.tok)) \in 1..RingSize
    BY <1>1, RetireHashProperties
  <2> QED BY <2>1, RecordsAssumption DEF Ring
<1>3. Owner(t) \in Accounts
  BY TokensAssumption DEF Owner, Token
<1> QED BY <1>2, <1>3 DEF Replace, Record, Health

\* So is a fresh one.
LEMMA FreshType ==
    ASSUME NEW t \in Token
    PROVE  Fresh(t) \in Record
<1>1. <<>> \in Ring
  BY EmptySeq, RecordsAssumption DEF Ring
<1>2. Owner(t) \in Accounts
  BY TokensAssumption DEF Owner, Token
<1> QED BY <1>1, <1>2 DEF Fresh, Record, Health

=============================================================================
