-------------------------- MODULE StatuslineProofs --------------------------
(***************************************************************************)
(* Theorems about the edits of the user's settings and script (module      *)
(* Statusline), for every set of texts and of processes and any number of  *)
(* edits: the user's lines stay, in order; the script holds one block; no  *)
(* two lines are glued together; off undoes on.                            *)
(***************************************************************************)
EXTENDS Statusline, SequenceTheorems, WellFoundedInduction, TLAPS

-----------------------------------------------------------------------------
(* Induction over the lengths of a script.                                 *)

LEMMA Least ==
    ASSUME NEW T \in SUBSET Nat, T # {}
    PROVE  \E x \in T : \A y \in T : x <= y
<1> DEFINE R == {ss \in Nat \X Nat : ss[1] < ss[2]}
<1>1. IsWellFoundedOn(R, Nat)
  BY NatLessThanWellFounded DEF OpToRel
<1>2. \A x, y \in Nat : <<y, x>> \in R <=> y < x
  OBVIOUS
<1> HIDE DEF R
<1>3. PICK x \in T : \A y \in T : ~(<<y, x>> \in R)
  BY <1>1, WFMin
<1>4. \A y \in T : ~(y < x)
  BY <1>2, <1>3
<1> QED BY <1>4

LEMMA Induction ==
    ASSUME NEW m \in Nat, NEW S, 0 \in S, \A n \in 0..m : n \in S /\ n < m => n + 1 \in S
    PROVE  0..m \subseteq S
<1> SUFFICES ASSUME (0..m) \ S # {} PROVE FALSE
  OBVIOUS
<1> DEFINE T == (0..m) \ S
<1>0. T \in SUBSET Nat /\ T # {}
  OBVIOUS
<1> HIDE DEF T
<1>1. PICK x \in T : \A y \in T : x <= y
  BY <1>0, Least
<1>2. x \in 0..m /\ x \notin S
  BY DEF T
<1>3. x # 0
  BY <1>2
<1>4. x - 1 \in 0..m /\ x - 1 < m /\ ~(x <= x - 1) /\ (x - 1) + 1 = x
  BY <1>2, <1>3
<1>5. x - 1 \in S
  BY <1>1, <1>4 DEF T
<1> QED BY <1>2, <1>4, <1>5

-----------------------------------------------------------------------------
(* The texts of a script.                                                  *)

\* What OwnText adds to the texts found so far for one more line.
Grown(texts, x) == IF x \in Text THEN Append(texts, x) ELSE texts

\* f holds the texts among the first n lines of s, for every n up to m.
Collects(s, f, m) == f[0] = <<>> /\ \A n \in 1..m : f[n] = Grown(f[n - 1], s[n])

LEMMA CollectsExist == ASSUME NEW s, NEW m \in Nat PROVE \E f : Collects(s, f, m)
<1> DEFINE S == {n \in 0..m : \E f : Collects(s, f, n)}
<1>1. 0 \in S
  <2>1. Collects(s, [n \in 0..0 |-> <<>>], 0)
    BY DEF Collects
  <2> QED BY <2>1
<1>2. ASSUME NEW n \in 0..m, n \in S, n < m PROVE n + 1 \in S
  <2>1. PICK f : Collects(s, f, n)
    BY <1>2
  <2> DEFINE new == [k \in 0..(n + 1) |-> IF k = n + 1 THEN Grown(f[n], s[n + 1]) ELSE f[k]]
  <2>2. new[0] = <<>>
    BY <2>1 DEF Collects
  <2>3. ASSUME NEW k \in 1..(n + 1) PROVE new[k] = Grown(new[k - 1], s[k])
    <3>1. k - 1 \in 0..n /\ new[k - 1] = f[k - 1]
      OBVIOUS
    <3>2. CASE k = n + 1
      <4>1. new[k] = Grown(f[n], s[n + 1]) /\ k - 1 = n
        BY <3>2
      <4> QED BY <3>1, <3>2, <4>1
    <3>3. CASE k # n + 1
      <4>1. new[k] = f[k] /\ k \in 1..n
        BY <3>3
      <4> QED BY <2>1, <3>1, <4>1 DEF Collects
    <3> QED BY <3>2, <3>3
  <2> HIDE DEF new
  <2>4. Collects(s, new, n + 1)
    BY <2>2, <2>3 DEF Collects
  <2> QED BY <2>4, <1>2
<1> HIDE DEF S
<1>3. m \in S
  BY <1>1, <1>2, Induction
<1> QED BY <1>3 DEF S

LEMMA OwnTextCollects == ASSUME NEW s \in Seq(Content) PROVE \E f : Collects(s, f, Len(s)) /\ OwnText(s) = f[Len(s)]
<1> DEFINE F(f) == [n \in 0..Len(s) |-> IF n = 0 THEN <<>> ELSE IF s[n] \in Text THEN Append(f[n - 1], s[n]) ELSE f[n - 1]]
           all == CHOOSE f : f = F(f)
<1>1. OwnText(s) = all[Len(s)]
  BY DEF OwnText
<1>2. Len(s) \in Nat
  BY LenProperties
<1>3. \E f : f = F(f)
  <2>1. PICK f : Collects(s, f, Len(s))
    BY <1>2, CollectsExist
  <2> DEFINE new == [n \in 0..Len(s) |-> f[n]]
  <2>2. ASSUME NEW n \in 0..Len(s)
        PROVE  new[n] = IF n = 0 THEN <<>> ELSE IF s[n] \in Text THEN Append(new[n - 1], s[n]) ELSE new[n - 1]
    <3>1. new[n] = f[n] /\ (n # 0 => new[n - 1] = f[n - 1])
      BY <1>2
    <3> HIDE DEF new
    <3>2. CASE n = 0
      BY <2>1, <3>1, <3>2 DEF Collects
    <3>3. CASE n # 0
      <4>1. n \in 1..Len(s)
        BY <1>2, <3>3
      <4>2. f[n] = Grown(f[n - 1], s[n])
        BY <2>1, <4>1 DEF Collects
      <4> QED BY <3>1, <3>3, <4>2 DEF Grown
    <3> QED BY <3>2, <3>3
  <2>3. new = F(new)
    BY <2>2
  <2> QED BY <2>3
<1>4. all = F(all)
  BY <1>3
<1> HIDE DEF all
<1>5. all[0] = <<>>
  BY <1>2, <1>4
<1>6. ASSUME NEW n \in 1..Len(s) PROVE all[n] = Grown(all[n - 1], s[n])
  <2>1. n \in 0..Len(s) /\ n # 0
    BY <1>2
  <2> DEFINE body(k) == IF k = 0 THEN <<>> ELSE IF s[k] \in Text THEN Append(all[k - 1], s[k]) ELSE all[k - 1]
  <2>2. all = [k \in 0..Len(s) |-> body(k)]
    BY <1>4
  <2>3. body(n) = Grown(all[n - 1], s[n])
    BY <2>1 DEF Grown
  <2> HIDE DEF body
  <2>4. all[n] = body(n)
    BY <2>1, <2>2
  <2> QED BY <2>3, <2>4
<1> QED BY <1>1, <1>5, <1>6 DEF Collects

LEMMA CollectedType ==
    ASSUME NEW m \in Nat, NEW s, NEW f, Collects(s, f, m)
    PROVE  \A n \in 0..m : f[n] \in Seq(Text)
<1> DEFINE S == {n \in 0..m : f[n] \in Seq(Text)}
<1>1. 0 \in S
  <2>1. <<>> \in Seq(Text) /\ 0 \in 0..m
    BY EmptySeq
  <2> QED BY <2>1 DEF Collects
<1>2. ASSUME NEW n \in 0..m, n \in S, n < m PROVE n + 1 \in S
  <2>1. n + 1 \in 1..m /\ f[n + 1] = Grown(f[n], s[n + 1])
    BY <1>2 DEF Collects
  <2>2. f[n] \in Seq(Text)
    BY <1>2
  <2>3. Grown(f[n], s[n + 1]) \in Seq(Text)
    BY <2>2, AppendProperties DEF Grown
  <2> QED BY <2>1, <2>3
<1> HIDE DEF S
<1>3. 0..m \subseteq S
  BY <1>1, <1>2, Induction
<1> QED BY <1>3 DEF S

LEMMA OwnTextType == ASSUME NEW s \in Seq(Content) PROVE OwnText(s) \in Seq(Text)
<1>1. Len(s) \in Nat
  BY LenProperties
<1> QED BY <1>1, OwnTextCollects, CollectedType

\* Two scripts that differ in other lines than texts have the same texts.
LEMMA SameText ==
    ASSUME NEW s \in Seq(Content), NEW t \in Seq(Content), Len(s) = Len(t),
           \A i \in 1..Len(s) : s[i] = t[i] \/ (s[i] \notin Text /\ t[i] \notin Text)
    PROVE  OwnText(s) = OwnText(t)
<1>1. Len(s) \in Nat
  BY LenProperties
<1>2. PICK f : Collects(s, f, Len(s)) /\ OwnText(s) = f[Len(s)]
  BY OwnTextCollects
<1>3. PICK g : Collects(t, g, Len(t)) /\ OwnText(t) = g[Len(t)]
  BY OwnTextCollects
<1> DEFINE S == {n \in 0..Len(s) : f[n] = g[n]}
<1>4. 0 \in S
  BY <1>1, <1>2, <1>3 DEF Collects
<1>5. ASSUME NEW n \in 0..Len(s), n \in S, n < Len(s) PROVE n + 1 \in S
  <2>1. n + 1 \in 1..Len(s) /\ (n + 1) - 1 = n /\ f[n] = g[n]
    BY <1>1, <1>5
  <2>2. f[n + 1] = Grown(f[n], s[n + 1]) /\ g[n + 1] = Grown(g[n], t[n + 1])
    BY <1>2, <1>3, <2>1 DEF Collects
  <2> QED BY <1>1, <2>1, <2>2 DEF Grown
<1> HIDE DEF S
<1>6. 0..Len(s) \subseteq S
  BY <1>1, <1>4, <1>5, Induction
<1> QED BY <1>1, <1>2, <1>3, <1>6 DEF S

LEMMA NoText ==
    ASSUME NEW s \in Seq(Content), \A i \in 1..Len(s) : s[i] \notin Text
    PROVE  OwnText(s) = <<>>
<1>1. Len(s) \in Nat
  BY LenProperties
<1>2. PICK f : Collects(s, f, Len(s)) /\ OwnText(s) = f[Len(s)]
  BY OwnTextCollects
<1> DEFINE S == {n \in 0..Len(s) : f[n] = <<>>}
<1>3. 0 \in S
  BY <1>1, <1>2 DEF Collects
<1>4. ASSUME NEW n \in 0..Len(s), n \in S, n < Len(s) PROVE n + 1 \in S
  <2>1. n + 1 \in 1..Len(s) /\ (n + 1) - 1 = n /\ f[n] = <<>>
    BY <1>1, <1>4
  <2>2. f[n + 1] = Grown(f[n], s[n + 1])
    BY <1>2, <2>1 DEF Collects
  <2> QED BY <1>1, <2>1, <2>2 DEF Grown
<1> HIDE DEF S
<1>5. 0..Len(s) \subseteq S
  BY <1>1, <1>3, <1>4, Induction
<1> QED BY <1>1, <1>2, <1>5 DEF S

LEMMA AppendBehind ==
    ASSUME NEW a \in Seq(Text), NEW b \in Seq(Text), NEW x \in Text
    PROVE  Append(a \o b, x) = a \o Append(b, x)
<1>1. a \o b \in Seq(Text) /\ <<x>> \in Seq(Text)
  BY ConcatProperties
<1>2. Append(a \o b, x) = (a \o b) \o <<x>> /\ Append(b, x) = b \o <<x>>
  BY <1>1, AppendIsConcat
<1> QED BY <1>1, <1>2, ConcatAssociative

LEMMA TextOfBoth ==
    ASSUME NEW s \in Seq(Content), NEW t \in Seq(Content)
    PROVE  OwnText(s \o t) = OwnText(s) \o OwnText(t)
<1> DEFINE u == s \o t
<1>1. /\ u \in Seq(Content) /\ Len(u) = Len(s) + Len(t) /\ Len(s) \in Nat /\ Len(t) \in Nat
      /\ \A i \in 1..(Len(s) + Len(t)) : u[i] = IF i <= Len(s) THEN s[i] ELSE t[i - Len(s)]
  BY ConcatProperties, LenProperties
<1>2. PICK f : Collects(s, f, Len(s)) /\ OwnText(s) = f[Len(s)]
  BY OwnTextCollects
<1>3. PICK g : Collects(t, g, Len(t)) /\ OwnText(t) = g[Len(t)]
  BY OwnTextCollects
<1>4. PICK h : Collects(u, h, Len(u)) /\ OwnText(u) = h[Len(u)]
  BY <1>1, OwnTextCollects
<1> HIDE DEF u
<1>5. h[Len(s)] = f[Len(s)]
  <2> DEFINE S == {n \in 0..Len(s) : h[n] = f[n]}
  <2>1. 0 \in S
    BY <1>1, <1>2, <1>4 DEF Collects
  <2>2. ASSUME NEW n \in 0..Len(s), n \in S, n < Len(s) PROVE n + 1 \in S
    <3>1. /\ n + 1 \in 1..Len(s) /\ n + 1 \in 1..Len(u) /\ (n + 1) - 1 = n /\ h[n] = f[n]
      BY <1>1, <2>2
    <3>2. f[n + 1] = Grown(f[n], s[n + 1]) /\ h[n + 1] = Grown(h[n], u[n + 1])
      BY <1>2, <1>4, <3>1 DEF Collects
    <3>3. u[n + 1] = s[n + 1]
      BY <1>1, <3>1
    <3> QED BY <1>1, <3>1, <3>2, <3>3
  <2> HIDE DEF S
  <2>3. 0..Len(s) \subseteq S
    BY <1>1, <2>1, <2>2, Induction
  <2> QED BY <1>1, <2>3 DEF S
<1>6. \A n \in 0..Len(t) : g[n] \in Seq(Text)
  BY <1>1, <1>3, CollectedType
<1>7. f[Len(s)] \in Seq(Text)
  BY <1>1, <1>2, CollectedType
<1>8. h[Len(s) + Len(t)] = f[Len(s)] \o g[Len(t)]
  <2> DEFINE joint(n) == f[Len(s)] \o g[n]
             S == {n \in 0..Len(t) : h[Len(s) + n] = joint(n)}
  <2> HIDE DEF joint
  <2>1. 0 \in S
    <3>1. g[0] = <<>> /\ Len(s) + 0 = Len(s) /\ 0 \in 0..Len(t)
      BY <1>1, <1>3 DEF Collects
    <3>2. joint(0) = f[Len(s)]
      BY <1>7, <3>1, ConcatEmptySeq DEF joint
    <3> QED BY <1>5, <3>1, <3>2
  <2>2. ASSUME NEW n \in 0..Len(t), n \in S, n < Len(t) PROVE n + 1 \in S
    <3> DEFINE k == Len(s) + n
    <3>1. /\ n + 1 \in 1..Len(t) /\ k + 1 \in 1..Len(u) /\ (n + 1) - 1 = n /\ (k + 1) - 1 = k
          /\ h[k] = joint(n) /\ k + 1 = Len(s) + (n + 1)
      <4>1. n \in Nat /\ h[Len(s) + n] = joint(n)
        BY <2>2
      <4> QED BY <1>1, <2>2, <4>1
    <3>2. u[k + 1] = t[n + 1]
      <4>1. k + 1 \in 1..(Len(s) + Len(t)) /\ ~(k + 1 <= Len(s)) /\ (k + 1) - Len(s) = n + 1
        BY <1>1, <2>2
      <4> QED BY <1>1, <4>1
    <3> HIDE DEF k
    <3>3. g[n + 1] = Grown(g[n], t[n + 1]) /\ h[k + 1] = Grown(h[k], t[n + 1])
      BY <1>3, <1>4, <3>1, <3>2 DEF Collects
    <3>4. Grown(joint(n), t[n + 1]) = f[Len(s)] \o Grown(g[n], t[n + 1])
      BY <1>6, <1>7, AppendBehind DEF Grown, joint
    <3>5. h[Len(s) + (n + 1)] = joint(n + 1)
      BY <3>1, <3>3, <3>4 DEF joint
    <3>6. n + 1 \in 0..Len(t)
      BY <1>1, <3>1
    <3> QED BY <3>5, <3>6
  <2> HIDE DEF S
  <2>3. 0..Len(t) \subseteq S
    BY <1>1, <2>1, <2>2, Induction
  <2>4. Len(t) \in S
    BY <1>1, <2>3
  <2>5. h[Len(s) + Len(t)] = joint(Len(t))
    BY <2>4 DEF S
  <2> QED BY <2>5 DEF joint
<1> QED BY <1>1, <1>2, <1>3, <1>4, <1>8 DEF u

\* Concatenation by a name of its own, for the provers to leave whole.
Join(a, c) == a \o c

LEMMA Joined ==
    ASSUME NEW a \in Seq(Content), NEW c \in Seq(Content)
    PROVE  /\ Join(a, c) \in Seq(Content) /\ Len(Join(a, c)) = Len(a) + Len(c)
           /\ \A i \in 1..Len(a) : Join(a, c)[i] = a[i]
           /\ \A i \in 1..Len(c) : Join(a, c)[Len(a) + i] = c[i]
           /\ \A i \in 1..(Len(a) + Len(c)) : i > Len(a) => Join(a, c)[i] = c[i - Len(a)]
<1>1. Len(a) \in Nat /\ Len(c) \in Nat
  BY LenProperties
<1>2. /\ Join(a, c) \in Seq(Content) /\ Len(Join(a, c)) = Len(a) + Len(c)
      /\ \A i \in 1..(Len(a) + Len(c)) : Join(a, c)[i] = IF i <= Len(a) THEN a[i] ELSE c[i - Len(a)]
  BY ConcatProperties DEF Join
<1> QED BY <1>1, <1>2

LEMMA JoinedLeft ==
    ASSUME NEW a \in Seq(Content), NEW c \in Seq(Content), NEW u, u = Join(a, c)
    PROVE  \A i \in 1..Len(a) : u[i] = a[i]
  BY Joined

LEMMA JoinedRight ==
    ASSUME NEW a \in Seq(Content), NEW c \in Seq(Content), NEW u, u = Join(a, c)
    PROVE  \A i \in 1..(Len(a) + Len(c)) : i > Len(a) => u[i] = c[i - Len(a)]
  BY Joined

LEMMA JoinedText ==
    ASSUME NEW a \in Seq(Content), NEW c \in Seq(Content)
    PROVE  OwnText(Join(a, c)) = Join(OwnText(a), OwnText(c))
  BY TextOfBoth, Zenon DEF Join

LEMMA JoinedNone == ASSUME NEW a \in Seq(Text) PROVE Join(a, <<>>) = a /\ Join(<<>>, a) = a
  BY ConcatEmptySeq DEF Join

LEMMA TextOfOne ==
    ASSUME StatuslineAssumption, NEW t \in Text
    PROVE  OwnText(<<t>>) = <<t>> /\ OwnText(<<t, NL>>) = <<t>>
<1>1. <<t>> \in Seq(Content) /\ <<NL>> \in Seq(Content) /\ <<t, NL>> = <<t>> \o <<NL>>
  BY DEF Content
<1>2. OwnText(<<t>>) = <<t>>
  <2>1. PICK f : Collects(<<t>>, f, 1) /\ OwnText(<<t>>) = f[1]
    BY <1>1, OwnTextCollects
  <2>2. f[1] = Grown(<<>>, t)
    BY <2>1 DEF Collects
  <2> QED BY <2>1, <2>2 DEF Grown
<1>3. OwnText(<<NL>>) = <<>>
  BY <1>1, NoText DEF StatuslineAssumption
<1>4. OwnText(<<t>> \o <<NL>>) = OwnText(<<t>>) \o OwnText(<<NL>>)
  BY <1>1, TextOfBoth
<1>5. <<t>> \o <<>> = <<t>>
  OBVIOUS
<1> QED BY <1>1, <1>2, <1>3, <1>4, <1>5

-----------------------------------------------------------------------------
(* What a script looks like: the user's lines alone, or around one block   *)
(* of which the user may have emptied the middle or cut the last newline.  *)

Plain == Text \cup {NL}

Apart(s) == \A i \in 1..(Len(s) - 1) : s[i] # NL => s[i + 1] = NL

BlockAt(s, b) ==
    /\ b \in 1..Len(s) /\ b + 4 \in 1..Len(s)
    /\ s[b] = Begin /\ s[b + 1] = NL /\ s[b + 2] \in {Body, NL} /\ s[b + 3] = NL /\ s[b + 4] = End
    /\ \A i \in 1..Len(s) : i < b \/ i > b + 4 => s[i] \in Plain

Blockless(s) == \A i \in 1..Len(s) : s[i] \in Plain

Sound(s) ==
    /\ s \in Seq(Content)
    /\ Apart(s)
    /\ Blockless(s) \/ \E b \in Nat : BlockAt(s, b)

LEMMA PlainText ==
    ASSUME StatuslineAssumption
    PROVE  /\ Plain \subseteq Content /\ Begin \notin Plain /\ End \notin Plain /\ Body \notin Plain
           /\ Begin \notin Text /\ Body \notin Text /\ End \notin Text /\ NL \notin Text
           /\ Begin # NL /\ Body # NL /\ End # NL /\ Begin # Body /\ Begin # End /\ Body # End
           /\ {Begin, Body, End, NL} \subseteq Content /\ Text \subseteq Content
  BY DEF StatuslineAssumption, Plain, Content, Markers, Begin, Body, End, NL

LEMMA BlocklessHasNone ==
    ASSUME StatuslineAssumption, NEW s \in Seq(Content), Blockless(s)
    PROVE  ~HasBlock(s)
<1>1. \A i \in 1..Len(s) : s[i] # Begin
  BY PlainText DEF Blockless
<1> QED BY <1>1 DEF HasBlock

\* Where the block ends: with the newline behind the end marker, if there is one.
Tailed(s, b) == IF b + 4 < Len(s) THEN b + 5 ELSE b + 4

LEMMA Bounds ==
    ASSUME StatuslineAssumption, NEW s \in Seq(Content), Apart(s), NEW b \in Nat, BlockAt(s, b)
    PROVE  /\ HasBlock(s) /\ BlockStart(s) = b /\ BlockEnd(s) = Tailed(s, b)
           /\ b + 4 < Len(s) => s[b + 5] = NL
<1>1. Len(s) \in Nat /\ b \in 1..Len(s) /\ b + 4 \in 1..Len(s) /\ s[b] = Begin /\ s[b + 4] = End
  BY LenProperties DEF BlockAt
<1>2. HasBlock(s)
  BY <1>1 DEF HasBlock
<1>3. \A i \in 1..Len(s) : s[i] = Begin => i = b
  BY <1>1, PlainText DEF BlockAt
<1>4. \A i \in 1..Len(s) : s[i] = End => i = b + 4
  <2> SUFFICES ASSUME NEW i \in 1..Len(s), s[i] = End PROVE i = b + 4
    OBVIOUS
  <2>1. ~(i < b \/ i > b + 4)
    BY PlainText DEF BlockAt
  <2>2. i \in {b, b + 1, b + 2, b + 3, b + 4}
    BY <1>1, <2>1
  <2> QED BY <2>2, PlainText DEF BlockAt
<1>5. BlockStart(s) = b
  BY <1>1, <1>3 DEF BlockStart
<1>6. EndMarker(s) = b + 4
  <2>1. b + 4 \in (b + 1)..Len(s) /\ \A k \in (b + 1)..((b + 4) - 1) : s[k] # End
    BY <1>1, <1>4
  <2>2. \A j \in (b + 1)..Len(s) : s[j] = End => j = b + 4
    BY <1>1, <1>4
  <2>3. (CHOOSE j \in (b + 1)..Len(s) : s[j] = End /\ \A k \in (b + 1)..(j - 1) : s[k] # End) = b + 4
    BY <1>1, <2>1, <2>2
  <2> QED BY <1>5, <2>3 DEF EndMarker
<1>7. b + 4 < Len(s) => s[b + 5] = NL
  <2>1. s[b + 4] # NL /\ (b + 4) + 1 = b + 5
    BY <1>1, PlainText
  <2> QED BY <1>1, <2>1 DEF Apart
<1>8. BlockEnd(s) = Tailed(s, b)
  BY <1>1, <1>6, <1>7 DEF BlockEnd, Tailed
<1> QED BY <1>2, <1>5, <1>7, <1>8

\* The script is what stands before the block, the block and what stands after it.
LEMMA Suffix ==
    ASSUME NEW s \in Seq(Content), NEW e \in 1..Len(s)
    PROVE  /\ SubSeq(s, e + 1, Len(s)) \in Seq(Content) /\ Len(SubSeq(s, e + 1, Len(s))) = Len(s) - e
           /\ \A i \in 1..(Len(s) - e) : SubSeq(s, e + 1, Len(s))[i] = s[e + i]
<1> DEFINE w == SubSeq(s, e + 1, Len(s))
<1>1. Len(s) \in Nat /\ \A i \in (e + 1)..Len(s) : s[i] \in Content
  BY LenProperties
<1>2. /\ w \in Seq(Content) /\ Len(w) = IF e + 1 <= Len(s) THEN Len(s) - (e + 1) + 1 ELSE 0
      /\ \A i \in 1..(Len(s) - (e + 1) + 1) : w[i] = s[(e + 1) + i - 1]
  BY <1>1, SubSeqProperties
<1> HIDE DEF w
<1>3. Len(w) = Len(s) - e
  BY <1>1, <1>2
<1>4. ASSUME NEW i \in 1..(Len(s) - e) PROVE w[i] = s[e + i]
  <2>1. i \in 1..(Len(s) - (e + 1) + 1) /\ (e + 1) + i - 1 = e + i
    BY <1>1
  <2> QED BY <1>2, <2>1
<1> QED BY <1>2, <1>3, <1>4 DEF w

LEMMA Parts ==
    ASSUME StatuslineAssumption, NEW s \in Seq(Content), Apart(s), NEW b \in Nat, BlockAt(s, b)
    PROVE  /\ Before(s) \in Seq(Content) /\ Len(Before(s)) = b - 1
           /\ \A i \in 1..(b - 1) : Before(s)[i] = s[i]
           /\ After(s) \in Seq(Content) /\ Len(After(s)) = Len(s) - Tailed(s, b)
           /\ \A i \in 1..(Len(s) - Tailed(s, b)) : After(s)[i] = s[Tailed(s, b) + i]
           /\ OwnText(s) = Join(OwnText(Before(s)), OwnText(After(s)))
<1> DEFINE e == Tailed(s, b)
<1>1. /\ Len(s) \in Nat /\ b \in 1..Len(s) /\ b + 4 \in 1..Len(s) /\ e \in {b + 4, b + 5} /\ e \in 1..Len(s)
      /\ \A i \in 1..Len(s) : s[i] \in Content
  BY LenProperties DEF BlockAt, Tailed
<1>2. Before(s) = SubSeq(s, 1, b - 1) /\ After(s) = SubSeq(s, e + 1, Len(s))
  BY Bounds DEF Before, After
<1>3. /\ SubSeq(s, 1, b - 1) \in Seq(Content) /\ Len(SubSeq(s, 1, b - 1)) = b - 1
      /\ \A i \in 1..(b - 1) : SubSeq(s, 1, b - 1)[i] = s[i]
  <2>1. \A i \in 1..(b - 1) : s[i] \in Content
    BY <1>1
  <2>2. /\ SubSeq(s, 1, b - 1) \in Seq(Content)
        /\ Len(SubSeq(s, 1, b - 1)) = IF 1 <= b - 1 THEN (b - 1) - 1 + 1 ELSE 0
        /\ \A i \in 1..((b - 1) - 1 + 1) : SubSeq(s, 1, b - 1)[i] = s[1 + i - 1]
    BY <1>1, <2>1, SubSeqProperties
  <2> QED BY <1>1, <2>2
<1>4. /\ SubSeq(s, e + 1, Len(s)) \in Seq(Content) /\ Len(SubSeq(s, e + 1, Len(s))) = Len(s) - e
      /\ \A i \in 1..(Len(s) - e) : SubSeq(s, e + 1, Len(s))[i] = s[e + i]
  <2> HIDE DEF e
  <2> QED BY <1>1, Suffix
<1> DEFINE mid == SubSeq(s, b, e)
<1>5. mid \in Seq(Content) /\ OwnText(mid) = <<>>
  <2>1. \A i \in b..e : s[i] \in Content
    BY <1>1
  <2>2. /\ mid \in Seq(Content) /\ Len(mid) = e - b + 1
        /\ \A i \in 1..(e - b + 1) : mid[i] = s[b + i - 1]
    <3>1. /\ mid \in Seq(Content) /\ Len(mid) = IF b <= e THEN e - b + 1 ELSE 0
          /\ \A i \in 1..(e - b + 1) : mid[i] = s[b + i - 1]
      BY <1>1, <2>1, SubSeqProperties
    <3> QED BY <1>1, <3>1
  <2>3. \A i \in b..e : s[i] \notin Text
    <3> SUFFICES ASSUME NEW i \in b..e PROVE s[i] \notin Text
      OBVIOUS
    <3>1. i \in {b, b + 1, b + 2, b + 3, b + 4} \/ (i = b + 5 /\ b + 4 < Len(s))
      BY <1>1 DEF Tailed
    <3> QED BY <3>1, Bounds, PlainText DEF BlockAt
  <2>4. \A i \in 1..Len(mid) : mid[i] \notin Text
    <3> SUFFICES ASSUME NEW i \in 1..Len(mid) PROVE mid[i] \notin Text
      OBVIOUS
    <3>1. b + i - 1 \in b..e /\ mid[i] = s[b + i - 1]
      BY <1>1, <2>2
    <3> QED BY <2>3, <3>1
  <2> QED BY <2>2, <2>4, NoText
<1>6. s = Join(Join(Before(s), mid), After(s))
  <2>1. SubSeq(s, 1, b - 1) \o SubSeq(s, (b - 1) + 1, e) = SubSeq(s, 1, e)
    BY <1>1, ConcatAdjacentSubSeq
  <2>2. SubSeq(s, 1, e) \o SubSeq(s, e + 1, Len(s)) = SubSeq(s, 1, Len(s))
    <3>1. 1 \in 1..(Len(s) + 1) /\ e \in (1 - 1)..Len(s) /\ Len(s) \in e..Len(s)
      BY <1>1
    <3> HIDE DEF e
    <3> QED BY <3>1, ConcatAdjacentSubSeq
  <2>3. (b - 1) + 1 = b
    BY <1>1
  <2> QED BY <1>2, <2>1, <2>2, <2>3, SubSeqFull, Zenon DEF Join, mid
<1> HIDE DEF mid, e
<1>7. Before(s) \in Seq(Content) /\ After(s) \in Seq(Content)
  BY <1>2, <1>3, <1>4
<1>8. Join(Before(s), mid) \in Seq(Content)
  BY <1>5, <1>7, Joined
<1>9. OwnText(Join(Before(s), mid)) = OwnText(Before(s))
  <2>1. OwnText(Before(s)) \in Seq(Text)
    BY <1>7, OwnTextType
  <2>2. OwnText(Join(Before(s), mid)) = Join(OwnText(Before(s)), OwnText(mid))
    BY <1>5, <1>7, JoinedText
  <2>3. Join(OwnText(Before(s)), <<>>) = OwnText(Before(s))
    BY <2>1, JoinedNone
  <2> QED BY <1>5, <2>2, <2>3
<1>10. OwnText(s) = Join(OwnText(Before(s)), OwnText(After(s)))
  BY <1>6, <1>7, <1>8, <1>9, JoinedText
<1> QED BY <1>2, <1>3, <1>4, <1>10 DEF e

-----------------------------------------------------------------------------
(* The edits of ccb.                                                       *)

LEMMA BlockLines ==
    ASSUME StatuslineAssumption
    PROVE  /\ Block \in Seq(Content) /\ Len(Block) = 6
           /\ Block[1] = Begin /\ Block[2] = NL /\ Block[3] = Body
           /\ Block[4] = NL /\ Block[5] = End /\ Block[6] = NL
           /\ OwnText(Block) = <<>>
<1>1. Block \in Seq(Content) /\ Len(Block) = 6
  BY PlainText DEF Block
<1>2. Block[1] = Begin /\ Block[2] = NL /\ Block[3] = Body /\ Block[4] = NL /\ Block[5] = End /\ Block[6] = NL
  BY DEF Block
<1>3. \A i \in 1..6 : Block[i] \notin Text
  <2> SUFFICES ASSUME NEW i \in 1..6 PROVE Block[i] \notin Text
    OBVIOUS
  <2>1. i \in {1, 2, 3, 4, 5, 6}
    OBVIOUS
  <2> QED BY <1>2, <2>1, PlainText
<1> QED BY <1>1, <1>2, <1>3, NoText

\* The lines of a whole block from b on.
Marked(t, b) ==
    t[b] = Begin /\ t[b + 1] = NL /\ t[b + 2] = Body /\ t[b + 3] = NL /\ t[b + 4] = End /\ t[b + 5] = NL

\* Where a block stands in a script, the lines between the markers are empty or text of ccb.
LEMMA BlockPlaced ==
    ASSUME StatuslineAssumption, NEW a \in Seq(Content), NEW t, NEW b \in Nat,
           t = Join(a, Block), Len(a) = b - 1
    PROVE  Marked(t, b) /\ Len(t) = b + 5 /\ \A i \in 1..(b - 1) : t[i] = a[i]
<1>1. Block \in Seq(Content) /\ Len(Block) = 6
  BY BlockLines
<1>2. Len(t) = Len(a) + Len(Block)
  BY <1>1, Joined
<1>3. \A i \in 1..Len(a) : t[i] = a[i]
  BY <1>1, Joined
<1>4. \A i \in 1..Len(Block) : t[Len(a) + i] = Block[i]
  BY <1>1, Joined
<1>5. \A i \in 1..6 : t[(b - 1) + i] = Block[i]
  BY <1>1, <1>4
<1>6. /\ t[(b - 1) + 1] = Block[1] /\ t[(b - 1) + 2] = Block[2] /\ t[(b - 1) + 3] = Block[3]
      /\ t[(b - 1) + 4] = Block[4] /\ t[(b - 1) + 5] = Block[5] /\ t[(b - 1) + 6] = Block[6]
  BY <1>5
<1>7. (b - 1) + 1 = b /\ (b - 1) + 2 = b + 1 /\ (b - 1) + 3 = b + 2 /\ (b - 1) + 4 = b + 3 /\ (b - 1) + 5 = b + 4 /\ (b - 1) + 6 = b + 5
  OBVIOUS
<1>8. Marked(t, b)
  BY <1>6, <1>7, BlockLines DEF Marked
<1> QED BY <1>1, <1>2, <1>3, <1>8

LEMMA Appended ==
    ASSUME StatuslineAssumption, NEW s, Sound(s), Blockless(s), NEW u, u = Join(Join(s, <<NL>>), Block)
    PROVE  /\ Sound(u) /\ OwnText(u) = OwnText(s)
           /\ BlockAt(u, Len(s) + 2) /\ Len(u) = Len(s) + 7
           /\ \A i \in 1..Len(s) : u[i] = s[i]
           /\ u[Len(s) + 1] = NL
<1> DEFINE t == Join(s, <<NL>>)
<1>1. s \in Seq(Content) /\ Len(s) \in Nat /\ Apart(s) /\ <<NL>> \in Seq(Content)
  BY LenProperties, PlainText DEF Sound
<1>0. Len(<<NL>>) = 1 /\ <<NL>>[1] = NL
  OBVIOUS
<1>2. /\ t \in Seq(Content) /\ Len(t) = Len(s) + 1
      /\ \A i \in 1..Len(s) : t[i] = s[i]
      /\ t[Len(s) + 1] = NL
  <2>1. t \in Seq(Content)
    BY <1>1, Joined
  <2>2. Len(t) = Len(s) + Len(<<NL>>)
    BY <1>1, Joined
  <2>3. \A i \in 1..Len(s) : t[i] = s[i]
    BY <1>1, Joined
  <2>4. \A i \in 1..Len(<<NL>>) : t[Len(s) + i] = <<NL>>[i]
    BY <1>1, Joined
  <2> HIDE DEF t
  <2>5. t[Len(s) + 1] = NL
    BY <1>0, <2>4
  <2> QED BY <1>0, <2>1, <2>2, <2>3, <2>5
<1>3. OwnText(t) = OwnText(s)
  <2>1. OwnText(<<NL>>) = <<>>
    <3>1. Len(<<NL>>) = 1 /\ <<NL>>[1] = NL
      OBVIOUS
    <3>2. \A i \in 1..Len(<<NL>>) : <<NL>>[i] \notin Text
      BY <3>1, PlainText
    <3> QED BY <1>1, <3>2, NoText
  <2>2. OwnText(s) \in Seq(Text) /\ OwnText(t) = Join(OwnText(s), OwnText(<<NL>>))
    BY <1>1, OwnTextType, JoinedText
  <2> QED BY <2>1, <2>2, JoinedNone
<1>4. u = Join(t, Block)
  OBVIOUS
<1> HIDE DEF t
<1> DEFINE b == Len(s) + 2
<1>5. u \in Seq(Content) /\ b \in Nat /\ Len(t) = b - 1
  <2>1. u \in Seq(Content)
    BY <1>2, <1>4, BlockLines, Joined
  <2> QED BY <1>1, <1>2, <2>1
<1>7. /\ u[b] = Begin /\ u[b + 1] = NL /\ u[b + 2] = Body /\ u[b + 3] = NL /\ u[b + 4] = End /\ u[b + 5] = NL
      /\ Len(u) = Len(s) + 7
      /\ \A i \in 1..(Len(s) + 1) : u[i] = t[i]
  <2>2. b + 5 = Len(s) + 7 /\ b - 1 = Len(s) + 1
    BY <1>1
  <2> HIDE DEF b
  <2>1. Marked(u, b)
    BY <1>2, <1>4, <1>5, BlockPlaced
  <2>3. Len(u) = b + 5
    BY <1>2, <1>4, <1>5, BlockPlaced
  <2>4. \A i \in 1..(b - 1) : u[i] = t[i]
    BY <1>2, <1>4, <1>5, BlockPlaced
  <2> QED BY <2>1, <2>2, <2>3, <2>4 DEF Marked
<1>6. (\A i \in 1..Len(s) : u[i] = s[i]) /\ u[Len(s) + 1] = NL
  <2>1. \A i \in 1..Len(s) : i \in 1..(Len(s) + 1)
    BY <1>1
  <2>2. Len(s) + 1 \in 1..(Len(s) + 1)
    BY <1>1
  <2> HIDE DEF b
  <2> QED BY <1>2, <1>7, <2>1, <2>2
<1>8. BlockAt(u, b)
  <2>1. b \in 1..Len(u) /\ b + 4 \in 1..Len(u)
    BY <1>1, <1>7
  <2>2. ASSUME NEW i \in 1..Len(u), i < b \/ i > b + 4 PROVE u[i] \in Plain
    <3>1. i \in 1..Len(s) \/ i = Len(s) + 1 \/ i = b + 5
      BY <1>1, <1>7, <2>2
    <3> QED BY <1>6, <1>7, <3>1 DEF Blockless, Plain
  <2> QED BY <1>7, <2>1, <2>2 DEF BlockAt
<1>9. Apart(u)
  <2> SUFFICES ASSUME NEW i \in 1..(Len(u) - 1), u[i] # NL PROVE u[i + 1] = NL
    BY DEF Apart
  <2>1. i \in 1..(Len(s) - 1) \/ i = Len(s) \/ i = Len(s) + 1 \/ i = b \/ i = b + 2 \/ i = b + 4 \/ i = b + 1 \/ i = b + 3
    <3>1. i \in Nat /\ 1 <= i /\ i <= Len(s) + 6 /\ Len(s) \in Nat
      BY <1>1, <1>7
    <3> QED BY <3>1
  <2>2. CASE i \in 1..(Len(s) - 1)
    <3>1. u[i] = s[i] /\ u[i + 1] = s[i + 1]
      BY <1>1, <1>6, <2>2
    <3> QED BY <1>1, <2>2, <3>1 DEF Apart
  <2>3. CASE i = Len(s) \/ i = Len(s) + 1
    BY <1>1, <1>6, <2>3
  <2>4. CASE i = b \/ i = b + 2 \/ i = b + 4
    <3>1. i + 1 = b + 1 \/ i + 1 = b + 3 \/ i + 1 = b + 5
      BY <1>1, <2>4
    <3> QED BY <1>7, <3>1
  <2>5. CASE i = b + 1 \/ i = b + 3
    BY <1>7, <2>5
  <2> QED BY <2>1, <2>2, <2>3, <2>4, <2>5
<1>10. OwnText(u) = OwnText(s)
  <2>1. OwnText(s) \in Seq(Text) /\ OwnText(u) = Join(OwnText(t), OwnText(Block))
    BY <1>1, <1>2, <1>4, BlockLines, OwnTextType, JoinedText
  <2> QED BY <1>3, <2>1, BlockLines, JoinedNone
<1>11. Sound(u)
  BY <1>5, <1>8, <1>9 DEF Sound
<1> QED BY <1>6, <1>7, <1>8, <1>10, <1>11

LEMMA Replaced ==
    ASSUME StatuslineAssumption, NEW s, Sound(s), NEW b \in Nat, BlockAt(s, b),
           NEW u, u = Join(Join(Before(s), Block), After(s))
    PROVE  /\ Sound(u) /\ OwnText(u) = OwnText(s)
           /\ Marked(s, b) /\ b + 5 <= Len(s) => u = s
<1> DEFINE pre == Before(s)
           post == After(s)
           e == Tailed(s, b)
           t == Join(pre, Block)
<1>1. s \in Seq(Content) /\ Len(s) \in Nat /\ Apart(s)
  BY LenProperties DEF Sound
<1>2. b \in 1..Len(s) /\ b + 4 \in 1..Len(s) /\ e \in {b + 4, b + 5} /\ e \in 1..Len(s) /\ (e = b + 4 => Len(s) = b + 4)
  BY <1>1 DEF BlockAt, Tailed
<1>3. /\ pre \in Seq(Content) /\ Len(pre) = b - 1
      /\ \A i \in 1..(b - 1) : pre[i] = s[i]
      /\ post \in Seq(Content) /\ Len(post) = Len(s) - e
      /\ \A i \in 1..(Len(s) - e) : post[i] = s[e + i]
      /\ OwnText(s) = Join(OwnText(pre), OwnText(post))
  BY <1>1, Parts
<1>4. u = Join(t, post)
  OBVIOUS
<1> HIDE DEF pre, post, e
<1>5. /\ t \in Seq(Content) /\ Len(t) = b + 5
      /\ t[b] = Begin /\ t[b + 1] = NL /\ t[b + 2] = Body /\ t[b + 3] = NL /\ t[b + 4] = End /\ t[b + 5] = NL
      /\ \A i \in 1..(b - 1) : t[i] = pre[i]
  <2>1. t \in Seq(Content)
    BY <1>3, BlockLines, Joined
  <2> HIDE DEF t
  <2>2. t = Join(pre, Block)
    BY DEF t
  <2>3. Marked(t, b)
    BY <1>3, <2>2, BlockPlaced
  <2>4. Len(t) = b + 5
    BY <1>3, <2>2, BlockPlaced
  <2>5. \A i \in 1..(b - 1) : t[i] = pre[i]
    BY <1>3, <2>2, BlockPlaced
  <2> QED BY <2>1, <2>3, <2>4, <2>5 DEF Marked
<1>6. OwnText(t) = OwnText(pre)
  <2>1. OwnText(pre) \in Seq(Text) /\ OwnText(t) = Join(OwnText(pre), OwnText(Block))
    BY <1>3, BlockLines, OwnTextType, JoinedText
  <2> QED BY <2>1, BlockLines, JoinedNone
<1> HIDE DEF t
<1>7. /\ u \in Seq(Content) /\ Len(u) = (b + 5) + (Len(s) - e)
      /\ \A i \in 1..(b + 5) : u[i] = t[i]
      /\ \A i \in 1..((b + 5) + (Len(s) - e)) : i > b + 5 => u[i] = post[i - (b + 5)]
  <2>1. post \in Seq(Content) /\ t \in Seq(Content)
    BY <1>3, <1>5
  <2>2. u \in Seq(Content)
    BY <1>4, <2>1, Joined
  <2>3. Len(u) = Len(t) + Len(post)
    BY <1>4, <2>1, Joined
  <2>4. \A i \in 1..Len(t) : u[i] = t[i]
    BY <1>4, <2>1, JoinedLeft
  <2>5. \A i \in 1..(Len(t) + Len(post)) : i > Len(t) => u[i] = post[i - Len(t)]
    BY <1>4, <2>1, JoinedRight
  <2>6. Len(t) = b + 5 /\ Len(post) = Len(s) - e
    BY <1>3, <1>5
  <2> QED BY <2>2, <2>3, <2>4, <2>5, <2>6
<1>8. \A i \in 1..(b - 1) : u[i] = s[i]
  <2> SUFFICES ASSUME NEW i \in 1..(b - 1) PROVE u[i] = s[i]
    OBVIOUS
  <2>1. i \in 1..(b + 5)
    BY <1>2
  <2> QED BY <1>3, <1>5, <1>7, <2>1
<1>9. u[b] = Begin /\ u[b + 1] = NL /\ u[b + 2] = Body /\ u[b + 3] = NL /\ u[b + 4] = End /\ u[b + 5] = NL
  <2>1. {b, b + 1, b + 2, b + 3, b + 4, b + 5} \subseteq 1..(b + 5)
    BY <1>2
  <2> QED BY <1>5, <1>7, <2>1
<1>10. \A i \in 1..Len(u) : i > b + 5 => e = b + 5 /\ i <= Len(s) /\ u[i] = s[i]
  <2> SUFFICES ASSUME NEW i \in 1..Len(u), i > b + 5 PROVE e = b + 5 /\ i <= Len(s) /\ u[i] = s[i]
    OBVIOUS
  <2>1. e = b + 5 /\ i <= Len(s)
    BY <1>1, <1>2, <1>7
  <2>2. i - (b + 5) \in 1..(Len(s) - e) /\ e + (i - (b + 5)) = i /\ u[i] = post[i - (b + 5)]
    <3>1. i - (b + 5) \in 1..(Len(s) - e) /\ e + (i - (b + 5)) = i /\ i \in 1..((b + 5) + (Len(s) - e))
      BY <1>1, <1>2, <1>7, <2>1
    <3> QED BY <1>7, <3>1
  <2> QED BY <1>3, <2>1, <2>2
<1>11. BlockAt(u, b)
  <2>1. b \in 1..Len(u) /\ b + 4 \in 1..Len(u)
    BY <1>1, <1>2, <1>7
  <2>2. ASSUME NEW i \in 1..Len(u), i < b \/ i > b + 4 PROVE u[i] \in Plain
    <3>1. i \in 1..(b - 1) \/ i = b + 5 \/ i > b + 5
      BY <1>2, <2>2
    <3>2. CASE i = b + 5
      BY <1>9, <3>2 DEF Plain
    <3>3. CASE i # b + 5
      <4>1. u[i] = s[i] /\ i \in 1..Len(s) /\ (i < b \/ i > b + 4)
        BY <1>1, <1>2, <1>8, <1>10, <2>2, <3>1, <3>3
      <4> QED BY <4>1 DEF BlockAt
    <3> QED BY <3>2, <3>3
  <2> QED BY <1>9, <2>1, <2>2 DEF BlockAt
<1>12. Apart(u)
  <2> SUFFICES ASSUME NEW i \in 1..(Len(u) - 1), u[i] # NL PROVE u[i + 1] = NL
    BY DEF Apart
  <2>1. i \in 1..(b - 1) \/ i = b \/ i = b + 2 \/ i = b + 4 \/ i = b + 1 \/ i = b + 3 \/ i = b + 5 \/ i > b + 5
    BY <1>2, <1>7
  <2>2. CASE i \in 1..(b - 1)
    <3>1. u[i] = s[i] /\ i \in 1..(Len(s) - 1) /\ u[i + 1] = s[i + 1]
      <4>1. s[b] = Begin /\ u[b] = Begin
        BY <1>9 DEF BlockAt
      <4>2. i + 1 = b \/ i + 1 \in 1..(b - 1)
        BY <1>2, <2>2
      <4>3. u[i + 1] = s[i + 1]
        BY <1>8, <4>1, <4>2
      <4> QED BY <1>1, <1>2, <1>8, <2>2, <4>3
    <3> QED BY <1>1, <3>1 DEF Apart
  <2>3. CASE i = b \/ i = b + 2 \/ i = b + 4
    <3>1. i + 1 = b + 1 \/ i + 1 = b + 3 \/ i + 1 = b + 5
      BY <1>2, <2>3
    <3> QED BY <1>9, <3>1
  <2>5. CASE i = b + 1 \/ i = b + 3 \/ i = b + 5
    BY <1>9, <2>5
  <2>4. CASE i > b + 5
    <3>1. i \in 1..Len(u) /\ i + 1 \in 1..Len(u) /\ i + 1 > b + 5
      BY <1>1, <1>2, <1>7, <2>4
    <3>2. i + 1 <= Len(s) /\ u[i] = s[i] /\ u[i + 1] = s[i + 1] /\ i \in 1..(Len(s) - 1)
      BY <1>1, <1>10, <2>4, <3>1
    <3> QED BY <1>1, <3>2 DEF Apart
  <2> QED BY <2>1, <2>2, <2>3, <2>4, <2>5
<1>13. OwnText(u) = OwnText(s)
  BY <1>3, <1>4, <1>5, <1>6, JoinedText
<1>14. Sound(u)
  BY <1>2, <1>7, <1>11, <1>12 DEF Sound
<1>15. ASSUME Marked(s, b), b + 5 <= Len(s) PROVE u = s
  <2>1. e = b + 5
    BY <1>1, <1>2, <1>15
  <2>3. Len(u) = Len(s)
    BY <1>1, <1>2, <1>7, <2>1
  <2>2. ASSUME NEW i \in 1..Len(u) PROVE u[i] = s[i]
    <3>1. i \in 1..(b - 1) \/ i = b \/ i = b + 1 \/ i = b + 2 \/ i = b + 3 \/ i = b + 4 \/ i = b + 5 \/ i > b + 5
      BY <1>1, <1>2, <2>3
    <3> QED BY <1>8, <1>9, <1>10, <1>15, <3>1 DEF Marked
  <2> QED BY <1>1, <1>7, <2>3, <2>2, SeqEqual
<1> QED BY <1>13, <1>14, <1>15

\* A script without its last newline.
LEMMA Trimmed ==
    ASSUME StatuslineAssumption, NEW t \in Seq(Content), LastIsNL(t)
    PROVE  LET r == SubSeq(t, 1, Len(t) - 1)
           IN  /\ r \in Seq(Content) /\ Len(r) = Len(t) - 1
               /\ \A i \in 1..(Len(t) - 1) : r[i] = t[i]
               /\ OwnText(r) = OwnText(t)
<1> DEFINE r == SubSeq(t, 1, Len(t) - 1)
<1>1. Len(t) \in Nat /\ Len(t) # 0 /\ t[Len(t)] = NL
  <2>1. t # <<>> /\ t[Len(t)] = NL
    BY DEF LastIsNL
  <2> QED BY <2>1, EmptySeq
<1>2. /\ r \in Seq(Content) /\ Len(r) = Len(t) - 1
      /\ \A i \in 1..(Len(t) - 1) : r[i] = t[i]
  <2>1. \A i \in 1..(Len(t) - 1) : t[i] \in Content
    BY <1>1, ElementOfSeq
  <2>2. /\ r \in Seq(Content)
        /\ Len(r) = IF 1 <= Len(t) - 1 THEN (Len(t) - 1) - 1 + 1 ELSE 0
        /\ \A i \in 1..((Len(t) - 1) - 1 + 1) : r[i] = t[1 + i - 1]
    BY <1>1, <2>1, SubSeqProperties
  <2> HIDE DEF r
  <2>3. (Len(t) - 1) - 1 + 1 = Len(t) - 1 /\ Len(r) = Len(t) - 1
    <3>1. Len(r) = IF 1 <= Len(t) - 1 THEN (Len(t) - 1) - 1 + 1 ELSE 0
      BY <2>2
    <3>2. Len(t) \in Nat /\ Len(t) # 0
      BY <1>1
    <3>3. \A n \in Nat : n # 0 => n - 1 = IF 1 <= n - 1 THEN (n - 1) - 1 + 1 ELSE 0
      OBVIOUS
    <3>4. \A n \in Nat : (n - 1) - 1 + 1 = n - 1
      OBVIOUS
    <3> QED BY <3>1, <3>2, <3>3, <3>4, Zenon
  <2>4. \A i \in 1..(Len(t) - 1) : 1 + i - 1 = i
    BY <1>1
  <2> QED BY <2>2, <2>3, <2>4
<1> DEFINE last == <<t[Len(t)]>>
<1>3. t = Join(r, last)
  <2>1. 1 \in 1..Len(t) /\ Len(t) \in 1..Len(t)
    BY <1>1
  <2>2. SubSeq(t, 1, Len(t)) = SubSeq(t, 1, Len(t) - 1) \o <<t[Len(t)]>>
    BY <2>1, SubSeqRecursiveSecond
  <2>3. t = SubSeq(t, 1, Len(t) - 1) \o <<t[Len(t)]>>
    BY <2>2, SubSeqFull
  <2> QED BY <2>3, Zenon DEF Join
<1>4. last \in Seq(Content) /\ OwnText(last) = <<>>
  <2>1. Len(last) = 1 /\ last[1] = NL /\ last \in Seq(Content)
    BY <1>1, PlainText
  <2> HIDE DEF last
  <2>2. \A i \in 1..Len(last) : last[i] \notin Text
    BY <2>1, PlainText
  <2> QED BY <2>1, <2>2, NoText
<1> HIDE DEF r, last
<1>5. OwnText(t) = Join(OwnText(r), OwnText(last)) /\ OwnText(r) \in Seq(Text)
  BY <1>2, <1>3, <1>4, JoinedText, OwnTextType
<1>6. OwnText(r) = OwnText(t)
  BY <1>4, <1>5, JoinedNone
<1> QED BY <1>2, <1>6 DEF r

LEMMA RemovedSound ==
    ASSUME StatuslineAssumption, NEW s, Sound(s), NEW b \in Nat, BlockAt(s, b)
    PROVE  Sound(BlockRemove(s)) /\ Blockless(BlockRemove(s)) /\ OwnText(BlockRemove(s)) = OwnText(s)
<1> DEFINE pre == Before(s)
           post == After(s)
           e == Tailed(s, b)
           r == BlockRemove(s)
<1>1. s \in Seq(Content) /\ Len(s) \in Nat /\ Apart(s)
  BY LenProperties DEF Sound
<1>2. b \in 1..Len(s) /\ b + 4 \in 1..Len(s) /\ e \in {b + 4, b + 5} /\ e \in 1..Len(s) /\ s[b] = Begin
  BY <1>1 DEF BlockAt, Tailed
<1>3. /\ pre \in Seq(Content) /\ Len(pre) = b - 1
      /\ \A i \in 1..(b - 1) : pre[i] = s[i]
      /\ post \in Seq(Content) /\ Len(post) = Len(s) - e
      /\ \A i \in 1..(Len(s) - e) : post[i] = s[e + i]
      /\ OwnText(s) = Join(OwnText(pre), OwnText(post))
  BY <1>1, Parts
<1>4. HasBlock(s)
  BY <1>1, Bounds
<1>5. OwnText(pre) \in Seq(Text) /\ OwnText(post) \in Seq(Text)
  BY <1>3, OwnTextType
<1>6. \A i \in 1..(b - 1) : s[i] \in Plain
  BY <1>1, <1>2 DEF BlockAt
<1>7. CASE post = <<>> /\ LastIsNL(pre)
  <2>1. r = SubSeq(pre, 1, Len(pre) - 1)
    BY <1>4, <1>7 DEF BlockRemove
  <2>2. /\ r \in Seq(Content) /\ Len(r) = Len(pre) - 1
        /\ \A i \in 1..(Len(pre) - 1) : r[i] = pre[i]
        /\ OwnText(r) = OwnText(pre)
    <3> HIDE DEF pre, r
    <3> QED BY <1>3, <1>7, <2>1, Trimmed
  <2> HIDE DEF pre, post, e, r
  <2>3. OwnText(r) = OwnText(s)
    <3>1. OwnText(post) = <<>>
      <4>1. <<>> \in Seq(Content) /\ \A i \in 1..Len(<<>>) : <<>>[i] \notin Text
        BY EmptySeq
      <4> QED BY <1>7, <4>1, NoText
    <3> QED BY <1>3, <1>5, <2>2, <3>1, JoinedNone
  <2>4. \A i \in 1..Len(r) : i \in 1..(b - 1) /\ r[i] = s[i]
    BY <1>2, <1>3, <2>2
  <2>5. Blockless(r)
    BY <1>6, <2>4 DEF Blockless
  <2>6. Apart(r)
    <3> SUFFICES ASSUME NEW i \in 1..(Len(r) - 1), r[i] # NL PROVE r[i + 1] = NL
      BY DEF Apart
    <3>1. i \in 1..Len(r) /\ i + 1 \in 1..Len(r) /\ i \in 1..(Len(s) - 1)
      BY <1>1, <1>2, <1>3, <2>2
    <3> QED BY <1>1, <2>4, <3>1 DEF Apart
  <2>7. Sound(r)
    BY <2>2, <2>5, <2>6 DEF Sound
  <2> QED BY <2>3, <2>5, <2>7 DEF r
<1>8. CASE ~(post = <<>> /\ LastIsNL(pre))
  <2>1. r = Join(pre, post)
    BY <1>4, <1>8, Zenon DEF BlockRemove, Join
  <2> HIDE DEF pre, post, e, r
  <2>2. pre \in Seq(Content) /\ post \in Seq(Content)
    BY <1>3
  <2>3. r \in Seq(Content)
    BY <2>1, <2>2, Joined
  <2>4. Len(r) = Len(pre) + Len(post)
    BY <2>1, <2>2, Joined
  <2>5. \A i \in 1..Len(pre) : r[i] = pre[i]
    BY <2>1, <2>2, JoinedLeft
  <2>6. \A i \in 1..(Len(pre) + Len(post)) : i > Len(pre) => r[i] = post[i - Len(pre)]
    BY <2>1, <2>2, JoinedRight
  <2>7. OwnText(r) = OwnText(s)
    BY <1>3, <2>1, <2>2, JoinedText
  <2>8. Len(r) = (b - 1) + (Len(s) - e)
    BY <1>3, <2>4
  <2>9. \A i \in 1..Len(r) : i <= b - 1 => r[i] = s[i]
    BY <1>2, <1>3, <2>5
  <2>10. \A i \in 1..Len(r) : i > b - 1 => r[i] = s[e + (i - (b - 1))]
    <3> SUFFICES ASSUME NEW i \in 1..Len(r), i > b - 1 PROVE r[i] = s[e + (i - (b - 1))]
      OBVIOUS
    <3>1. i - (b - 1) \in 1..(Len(s) - e) /\ i \in 1..(Len(pre) + Len(post)) /\ i > Len(pre)
      BY <1>1, <1>2, <1>3, <2>8
    <3>2. r[i] = post[i - (b - 1)]
      BY <1>3, <2>6, <3>1
    <3> QED BY <1>3, <3>1, <3>2
  <2>11. Blockless(r)
    <3> SUFFICES ASSUME NEW i \in 1..Len(r) PROVE r[i] \in Plain
      BY DEF Blockless
    <3>1. CASE i <= b - 1
      BY <1>2, <1>6, <2>9, <3>1
    <3>2. CASE i > b - 1
      <4>1. e + (i - (b - 1)) \in 1..Len(s) /\ e + (i - (b - 1)) > b + 4
        BY <1>1, <1>2, <2>8, <3>2
      <4> QED BY <2>10, <3>2, <4>1 DEF BlockAt
    <3> QED BY <1>2, <3>1, <3>2
  <2>12. Apart(r)
    <3> SUFFICES ASSUME NEW i \in 1..(Len(r) - 1), r[i] # NL PROVE r[i + 1] = NL
      BY DEF Apart
    <3>1. i \in 1..Len(r) /\ i + 1 \in 1..Len(r)
      BY <1>1, <1>2, <2>8
    <3>2. CASE i < b - 1
      <4>1. i \in 1..(Len(s) - 1) /\ i <= b - 1 /\ i + 1 <= b - 1
        BY <1>1, <1>2, <3>2
      <4> QED BY <1>1, <2>9, <3>1, <4>1 DEF Apart
    <3>3. CASE i = b - 1
      <4>1. r[i] = s[i] /\ i \in 1..(Len(s) - 1) /\ i + 1 = b
        BY <1>1, <1>2, <2>9, <3>1, <3>3
      <4>2. s[b] = NL
        BY <1>1, <4>1 DEF Apart
      <4> QED BY <1>2, <4>2, PlainText
    <3>4. CASE i > b - 1
      <4> DEFINE j == e + (i - (b - 1))
      <4>1. j \in 1..(Len(s) - 1) /\ j + 1 = e + ((i + 1) - (b - 1)) /\ i + 1 > b - 1
        BY <1>1, <1>2, <2>8, <3>4
      <4>2. r[i] = s[j] /\ r[i + 1] = s[j + 1]
        BY <2>10, <3>1, <3>4, <4>1
      <4> QED BY <1>1, <4>1, <4>2 DEF Apart
    <3> QED BY <1>2, <3>2, <3>3, <3>4
  <2>13. Sound(r)
    BY <2>3, <2>11, <2>12 DEF Sound
  <2> QED BY <2>7, <2>11, <2>13 DEF r
<1> QED BY <1>7, <1>8

LEMMA SoundCases == ASSUME StatuslineAssumption, NEW s, Sound(s) PROVE ~HasBlock(s) => Blockless(s)
  BY Bounds DEF Sound

LEMMA UpsertSound ==
    ASSUME StatuslineAssumption, NEW s, Sound(s)
    PROVE  Sound(BlockUpsert(s)) /\ OwnText(BlockUpsert(s)) = OwnText(s)
<1>1. s \in Seq(Content) /\ Apart(s)
  BY DEF Sound
<1>2. CASE HasBlock(s)
  <2>1. PICK b \in Nat : BlockAt(s, b)
    BY <1>1, <1>2, BlocklessHasNone DEF Sound
  <2>2. BlockUpsert(s) = Join(Join(Before(s), Block), After(s))
    BY <1>2, Zenon DEF BlockUpsert, Join
  <2> QED BY <2>1, <2>2, Replaced
<1>3. CASE ~HasBlock(s)
  <2>1. BlockUpsert(s) = Join(Join(s, <<NL>>), Block)
    BY <1>3, Zenon DEF BlockUpsert, Join
  <2> QED BY <1>3, <2>1, SoundCases, Appended
<1> QED BY <1>2, <1>3

LEMMA RemoveSound ==
    ASSUME StatuslineAssumption, NEW s, Sound(s)
    PROVE  Sound(BlockRemove(s)) /\ OwnText(BlockRemove(s)) = OwnText(s)
<1>1. CASE HasBlock(s)
  <2>1. PICK b \in Nat : BlockAt(s, b)
    BY <1>1, BlocklessHasNone DEF Sound
  <2> QED BY <2>1, RemovedSound
<1>2. CASE ~HasBlock(s)
  BY <1>2 DEF BlockRemove
<1> QED BY <1>1, <1>2

\* Off takes back what on appended, and a second on changes nothing.
LEMMA Undone ==
    ASSUME StatuslineAssumption, NEW s, Sound(s), ~HasBlock(s)
    PROVE  LET u == BlockUpsert(s) IN
           HasBlock(u) /\ BlockRemove(u) = s /\ BlockUpsert(u) = u /\ u # s
<1> DEFINE u == BlockUpsert(s)
           b == Len(s) + 2
<1>1. s \in Seq(Content) /\ Len(s) \in Nat /\ Blockless(s) /\ b \in Nat
  BY SoundCases, LenProperties DEF Sound
<1>2. u = Join(Join(s, <<NL>>), Block)
  BY Zenon DEF BlockUpsert, Join
<1> HIDE DEF u
<1>3. Sound(u) /\ BlockAt(u, b) /\ Len(u) = Len(s) + 7 /\ (\A i \in 1..Len(s) : u[i] = s[i]) /\ u[Len(s) + 1] = NL
  BY <1>1, <1>2, Appended
<1>4. u \in Seq(Content) /\ Apart(u)
  BY <1>3 DEF Sound
<1>5. u # s
  BY <1>1, <1>3
<1>6. HasBlock(u)
  BY <1>1, <1>3, <1>4, Bounds
<1>7. Tailed(u, b) = Len(u)
  BY <1>1, <1>3 DEF Tailed
<1>8. After(u) = <<>>
  <2>1. After(u) \in Seq(Content)
    BY <1>1, <1>3, <1>4, Parts
  <2>2. Len(After(u)) = Len(u) - Tailed(u, b)
    BY <1>1, <1>3, <1>4, Parts
  <2>3. Len(After(u)) = 0
    BY <1>1, <1>3, <1>7, <2>2
  <2> QED BY <2>1, <2>3, EmptySeq
<1>9. /\ Before(u) \in Seq(Content) /\ Len(Before(u)) = Len(s) + 1
      /\ \A i \in 1..(Len(s) + 1) : Before(u)[i] = u[i]
  <2>1. Before(u) \in Seq(Content)
    BY <1>1, <1>3, <1>4, Parts
  <2>2. Len(Before(u)) = b - 1
    BY <1>1, <1>3, <1>4, Parts
  <2>3. \A i \in 1..(b - 1) : Before(u)[i] = u[i]
    BY <1>1, <1>3, <1>4, Parts
  <2>4. b - 1 = Len(s) + 1
    BY <1>1
  <2> QED BY <2>1, <2>2, <2>3, <2>4
<1>10. LastIsNL(Before(u))
  <2>1. Before(u)[Len(Before(u))] = NL
    BY <1>1, <1>3, <1>9
  <2>2. Before(u) # <<>>
    BY <1>1, <1>9, EmptySeq
  <2> QED BY <2>1, <2>2 DEF LastIsNL
<1>11. BlockRemove(u) = s
  <2> DEFINE r == SubSeq(Before(u), 1, Len(Before(u)) - 1)
  <2>1. BlockRemove(u) = r
    BY <1>6, <1>8, <1>10 DEF BlockRemove
  <2>2. r \in Seq(Content) /\ Len(r) = Len(Before(u)) - 1 /\ \A i \in 1..(Len(Before(u)) - 1) : r[i] = Before(u)[i]
    BY <1>9, <1>10, Trimmed
  <2> HIDE DEF r
  <2>3. Len(r) = Len(s) /\ Len(Before(u)) - 1 = Len(s)
    BY <1>1, <1>9, <2>2
  <2>4. \A i \in 1..Len(s) : i \in 1..(Len(s) + 1)
    BY <1>1
  <2>5. \A i \in 1..Len(r) : r[i] = s[i]
    BY <1>3, <1>9, <2>2, <2>3, <2>4
  <2>6. r = s
    BY <1>1, <2>2, <2>3, <2>5, SeqEqual
  <2> QED BY <2>1, <2>6
<1>12. BlockUpsert(u) = u
  <2>1. BlockUpsert(u) = Join(Join(Before(u), Block), After(u))
    BY <1>6, Zenon DEF BlockUpsert, Join
  <2>2. Marked(u, b)
    <3>1. Join(s, <<NL>>) \in Seq(Content) /\ Len(Join(s, <<NL>>)) = b - 1
      <4>1. <<NL>> \in Seq(Content) /\ Len(<<NL>>) = 1
        BY PlainText
      <4>2. Join(s, <<NL>>) \in Seq(Content)
        BY <1>1, <4>1, Joined
      <4>3. Len(Join(s, <<NL>>)) = Len(s) + Len(<<NL>>)
        BY <1>1, <4>1, Joined
      <4> QED BY <1>1, <4>1, <4>2, <4>3
    <3> HIDE DEF b
    <3> QED BY <1>1, <1>2, <3>1, BlockPlaced
  <2>3. b + 5 <= Len(u)
    BY <1>1, <1>3
  <2> HIDE DEF b
  <2> QED BY <1>1, <1>3, <2>1, <2>2, <2>3, Replaced
<1> QED BY <1>5, <1>6, <1>11, <1>12 DEF u

-----------------------------------------------------------------------------
(* The edits of the user.                                                  *)

\* Plain lines behind a script, on a line of their own.
LEMMA Lengthened ==
    ASSUME StatuslineAssumption, NEW s, Sound(s), NEW c \in Seq(Content), Blockless(c), Apart(c),
           s = <<>> \/ LastIsNL(s) \/ c[1] = NL, NEW u, u = Join(s, c)
    PROVE  Sound(u)
<1>1. s \in Seq(Content) /\ Len(s) \in Nat /\ Len(c) \in Nat /\ Apart(s)
  BY LenProperties DEF Sound
<1>2. u \in Seq(Content)
  BY <1>1, Joined
<1>3. Len(u) = Len(s) + Len(c)
  BY <1>1, Joined
<1>4. \A i \in 1..Len(s) : u[i] = s[i]
  BY <1>1, JoinedLeft
<1>5. \A i \in 1..(Len(s) + Len(c)) : i > Len(s) => u[i] = c[i - Len(s)]
  BY <1>1, JoinedRight
<1>6. \A i \in 1..Len(u) : i > Len(s) => u[i] \in Plain
  <2> SUFFICES ASSUME NEW i \in 1..Len(u), i > Len(s) PROVE u[i] \in Plain
    OBVIOUS
  <2>1. i - Len(s) \in 1..Len(c) /\ i \in 1..(Len(s) + Len(c))
    BY <1>1, <1>3
  <2> QED BY <1>5, <2>1 DEF Blockless
<1>7. Apart(u)
  <2> SUFFICES ASSUME NEW i \in 1..(Len(u) - 1), u[i] # NL PROVE u[i + 1] = NL
    BY DEF Apart
  <2>1. CASE i < Len(s)
    <3>1. i \in 1..(Len(s) - 1) /\ i \in 1..Len(s) /\ i + 1 \in 1..Len(s)
      BY <1>1, <2>1
    <3> QED BY <1>1, <1>4, <3>1 DEF Apart
  <2>2. CASE i = Len(s)
    <3>1. i \in 1..Len(s) /\ Len(s) # 0
      BY <1>1, <2>2
    <3>2. ~LastIsNL(s) /\ s # <<>>
      BY <1>4, <2>2, <3>1, EmptySeq DEF LastIsNL
    <3>3. i + 1 \in 1..(Len(s) + Len(c)) /\ i + 1 > Len(s) /\ (i + 1) - Len(s) = 1
      BY <1>1, <1>3, <2>2
    <3> QED BY <1>5, <3>2, <3>3
  <2>3. CASE i > Len(s)
    <3> DEFINE j == i - Len(s)
    <3>1. /\ j \in 1..(Len(c) - 1) /\ i \in 1..(Len(s) + Len(c)) /\ i + 1 \in 1..(Len(s) + Len(c))
          /\ i + 1 > Len(s) /\ (i + 1) - Len(s) = j + 1
      BY <1>1, <1>3, <2>3
    <3>2. u[i] = c[j] /\ u[i + 1] = c[j + 1]
      BY <1>5, <2>3, <3>1
    <3> QED BY <3>1, <3>2 DEF Apart
  <2> QED BY <1>1, <2>1, <2>2, <2>3
<1>8. CASE Blockless(s)
  <2>1. Blockless(u)
    BY <1>1, <1>3, <1>4, <1>6, <1>8 DEF Blockless
  <2> QED BY <1>2, <1>7, <2>1 DEF Sound
<1>9. ASSUME NEW b \in Nat, BlockAt(s, b) PROVE Sound(u)
  <2>1. b \in 1..Len(s) /\ b + 1 \in 1..Len(s) /\ b + 2 \in 1..Len(s) /\ b + 3 \in 1..Len(s) /\ b + 4 \in 1..Len(s)
    BY <1>1, <1>9 DEF BlockAt
  <2>2. b \in 1..Len(u) /\ b + 4 \in 1..Len(u)
    BY <1>1, <1>3, <2>1
  <2>3. \A i \in 1..Len(u) : i < b \/ i > b + 4 => u[i] \in Plain
    BY <1>1, <1>3, <1>4, <1>6, <1>9 DEF BlockAt
  <2>4. u[b] = s[b] /\ u[b + 1] = s[b + 1] /\ u[b + 2] = s[b + 2] /\ u[b + 3] = s[b + 3] /\ u[b + 4] = s[b + 4]
    BY <1>4, <2>1
  <2>5. BlockAt(u, b)
    BY <1>9, <2>2, <2>3, <2>4 DEF BlockAt
  <2> QED BY <1>2, <1>7, <2>5 DEF Sound
<1> QED BY <1>8, <1>9 DEF Sound

LEMMA LineShape ==
    ASSUME StatuslineAssumption, NEW t \in Text
    PROVE  LET c == <<t, NL>> IN
           /\ c \in Seq(Content) /\ Len(c) = 2 /\ c[1] = t /\ c[2] = NL
           /\ Blockless(c) /\ Apart(c) /\ OwnText(c) = <<t>>
<1> DEFINE c == <<t, NL>>
<1>1. c \in Seq(Content) /\ Len(c) = 2 /\ c[1] = t /\ c[2] = NL /\ t \in Plain /\ NL \in Plain
  BY PlainText DEF Plain
<1>2. OwnText(c) = <<t>>
  BY TextOfOne
<1> HIDE DEF c
<1>3. \A i \in 1..2 : i = 1 \/ i = 2
  OBVIOUS
<1>4. Blockless(c)
  BY <1>1, <1>3 DEF Blockless
<1>5. Apart(c)
  <2> SUFFICES ASSUME NEW i \in 1..(Len(c) - 1) PROVE c[i + 1] = NL
    BY DEF Apart
  <2>1. i + 1 = 2
    BY <1>1
  <2> QED BY <1>1, <2>1
<1> QED BY <1>1, <1>2, <1>4, <1>5 DEF c

LEMMA NewlineAdded ==
    ASSUME StatuslineAssumption, NEW s, Sound(s)
    PROVE  Sound(Append(s, NL)) /\ LastIsNL(Append(s, NL)) /\ OwnText(Append(s, NL)) = OwnText(s)
<1> DEFINE c == <<NL>>
<1>1. s \in Seq(Content) /\ NL \in Content /\ Len(s) \in Nat
  BY PlainText, LenProperties DEF Sound
<1>2. Append(s, NL) = Join(s, c)
  BY <1>1, AppendIsConcat, Zenon DEF Join
<1>3. LastIsNL(Append(s, NL))
  BY <1>1, AppendProperties DEF LastIsNL
<1>4. c \in Seq(Content) /\ Len(c) = 1 /\ c[1] = NL /\ NL \in Plain
  BY PlainText DEF Plain
<1> HIDE DEF c
<1>5. \A i \in 1..1 : i = 1
  OBVIOUS
<1>6. Blockless(c) /\ (\A i \in 1..Len(c) : c[i] \notin Text)
  BY <1>4, <1>5, PlainText DEF Blockless
<1>7. Apart(c)
  <2>1. 1..(Len(c) - 1) = {}
    BY <1>4
  <2> QED BY <2>1 DEF Apart
<1>8. OwnText(c) = <<>>
  BY <1>4, <1>6, NoText
<1>9. OwnText(s) \in Seq(Text) /\ OwnText(Join(s, c)) = Join(OwnText(s), OwnText(c))
  BY <1>1, <1>4, OwnTextType, JoinedText
<1>10. OwnText(Join(s, c)) = OwnText(s)
  BY <1>8, <1>9, JoinedNone
<1>11. Sound(Join(s, c))
  BY <1>4, <1>6, <1>7, Lengthened
<1> QED BY <1>2, <1>3, <1>10, <1>11

LEMMA LineAppended ==
    ASSUME StatuslineAssumption, NEW s, Sound(s), NEW t \in Text,
           NEW u, u = (IF s = <<>> \/ LastIsNL(s) THEN s ELSE Append(s, NL)) \o <<t, NL>>
    PROVE  Sound(u) /\ OwnText(u) = Append(OwnText(s), t)
<1> DEFINE c == <<t, NL>>
           base == IF s = <<>> \/ LastIsNL(s) THEN s ELSE Append(s, NL)
<1>1. u = Join(base, c)
  BY Zenon DEF Join
<1>2. Sound(base) /\ (base = <<>> \/ LastIsNL(base)) /\ OwnText(base) = OwnText(s)
  BY NewlineAdded
<1>3. c \in Seq(Content) /\ Blockless(c) /\ Apart(c) /\ OwnText(c) = <<t>>
  BY LineShape
<1> HIDE DEF c, base
<1>4. Sound(u)
  BY <1>1, <1>2, <1>3, Lengthened
<1>5. s \in Seq(Content) /\ base \in Seq(Content)
  BY <1>2 DEF Sound
<1>6. OwnText(u) = Join(OwnText(s), <<t>>)
  BY <1>1, <1>2, <1>3, <1>5, JoinedText
<1>7. Append(OwnText(s), t) = Join(OwnText(s), <<t>>)
  <2>1. OwnText(s) \in Seq(Text)
    BY <1>5, OwnTextType
  <2> QED BY <2>1, AppendIsConcat, Zenon DEF Join
<1> QED BY <1>4, <1>6, <1>7

LEMMA Prepended ==
    ASSUME StatuslineAssumption, NEW s, Sound(s), NEW c \in Seq(Content), Len(c) = 2, c[1] \in Plain, c[2] = NL,
           NEW u, u = Join(c, s)
    PROVE  Sound(u)
<1>2. NL \in Plain
  BY DEF Plain
<1>3. s \in Seq(Content) /\ Len(s) \in Nat /\ Apart(s)
  BY LenProperties DEF Sound
<1>4. u \in Seq(Content)
  BY <1>3, Joined
<1>5. Len(u) = Len(c) + Len(s)
  BY <1>3, Joined
<1>6. \A i \in 1..Len(c) : u[i] = c[i]
  BY <1>3, JoinedLeft
<1>7. \A i \in 1..(Len(c) + Len(s)) : i > Len(c) => u[i] = s[i - Len(c)]
  <2>1. c \in Seq(Content) /\ s \in Seq(Content) /\ u = Join(c, s)
    BY <1>3
  <2> QED BY ONLY <2>1, JoinedRight
<1>8. u[1] = c[1] /\ u[2] = NL /\ Len(u) = Len(s) + 2
  <2>1. 1 \in 1..Len(c) /\ 2 \in 1..Len(c)
    OBVIOUS
  <2> QED BY <1>3, <1>5, <1>6, <2>1
<1>9. \A i \in 1..Len(u) : i > 2 => i - 2 \in 1..Len(s) /\ u[i] = s[i - 2]
  BY <1>2, <1>3, <1>7, <1>8
<1>10. Apart(u)
  <2> SUFFICES ASSUME NEW i \in 1..(Len(u) - 1), u[i] # NL PROVE u[i + 1] = NL
    BY DEF Apart
  <2>1. CASE i = 1
    BY <1>8, <2>1
  <2>2. CASE i = 2
    BY <1>8, <2>2
  <2>3. CASE i > 2
    <3>1. i \in 1..Len(u) /\ i + 1 \in 1..Len(u) /\ i - 2 \in 1..(Len(s) - 1) /\ (i + 1) - 2 = (i - 2) + 1 /\ i + 1 > 2
      BY <1>3, <1>8, <2>3
    <3>2. u[i] = s[i - 2] /\ u[i + 1] = s[(i - 2) + 1]
      BY <1>9, <2>3, <3>1
    <3> QED BY <1>3, <3>1, <3>2 DEF Apart
  <2> QED BY <2>1, <2>2, <2>3
<1>11. CASE Blockless(s)
  <2>1. ASSUME NEW i \in 1..Len(u) PROVE u[i] \in Plain
    <3>1. i = 1 \/ i = 2 \/ i > 2
      OBVIOUS
    <3> QED BY <1>2, <1>8, <1>9, <1>11, <3>1 DEF Blockless
  <2>2. Blockless(u)
    BY <2>1 DEF Blockless
  <2> QED BY <1>4, <1>10, <2>2 DEF Sound
<1>12. ASSUME NEW b \in Nat, BlockAt(s, b) PROVE Sound(u)
  <2> DEFINE d == b + 2
  <2>1. b \in 1..Len(s) /\ b + 4 \in 1..Len(s)
    BY <1>12 DEF BlockAt
  <2>2. d \in Nat /\ d \in 1..Len(u) /\ d + 4 \in 1..Len(u)
    BY <1>3, <1>8, <2>1
  <2>3. /\ d + 1 \in 1..Len(u) /\ d + 2 \in 1..Len(u) /\ d + 3 \in 1..Len(u)
        /\ d > 2 /\ d + 1 > 2 /\ d + 2 > 2 /\ d + 3 > 2 /\ d + 4 > 2
        /\ d - 2 = b /\ (d + 1) - 2 = b + 1 /\ (d + 2) - 2 = b + 2 /\ (d + 3) - 2 = b + 3 /\ (d + 4) - 2 = b + 4
    BY <1>3, <1>8, <2>1
  <2>4. u[d] = s[b] /\ u[d + 1] = s[b + 1] /\ u[d + 2] = s[b + 2] /\ u[d + 3] = s[b + 3] /\ u[d + 4] = s[b + 4]
    BY <1>9, <2>2, <2>3
  <2>5. \A i \in 1..Len(u) : i < d \/ i > d + 4 => u[i] \in Plain
    <3> SUFFICES ASSUME NEW i \in 1..Len(u), i < d \/ i > d + 4 PROVE u[i] \in Plain
      OBVIOUS
    <3>1. i = 1 \/ i = 2 \/ (i > 2 /\ (i - 2 < b \/ i - 2 > b + 4))
      OBVIOUS
    <3> QED BY <1>2, <1>8, <1>9, <1>12, <3>1 DEF BlockAt
  <2> HIDE DEF d
  <2>6. BlockAt(u, d)
    BY <1>12, <2>2, <2>4, <2>5 DEF BlockAt
  <2> QED BY <1>4, <1>10, <2>2, <2>6 DEF Sound
<1> QED BY <1>11, <1>12 DEF Sound

LEMMA LinePrepended ==
    ASSUME StatuslineAssumption, NEW s, Sound(s), NEW t \in Text, NEW u, u = <<t, NL>> \o s
    PROVE  Sound(u) /\ OwnText(u) = <<t>> \o OwnText(s)
<1> DEFINE c == <<t, NL>>
<1>1. u = Join(c, s)
  BY Zenon DEF Join
<1>2. c \in Seq(Content) /\ Len(c) = 2 /\ c[1] = t /\ t \in Plain /\ c[2] = NL /\ OwnText(c) = <<t>>
  BY LineShape DEF Plain
<1> HIDE DEF c
<1>3. Sound(Join(c, s))
  BY <1>2, Prepended
<1>4. OwnText(Join(c, s)) = Join(<<t>>, OwnText(s))
  BY <1>2, JoinedText DEF Sound
<1> QED BY <1>1, <1>3, <1>4, Zenon DEF Join

LEMMA BodyEmptied ==
    ASSUME StatuslineAssumption, NEW s, Sound(s), HasBlock(s),
           NEW u, u = [s EXCEPT ![BlockStart(s) + 2] = NL]
    PROVE  Sound(u) /\ OwnText(u) = OwnText(s)
<1>1. s \in Seq(Content) /\ Len(s) \in Nat /\ Apart(s)
  BY LenProperties DEF Sound
<1>2. PICK b \in Nat : BlockAt(s, b)
  BY <1>1, BlocklessHasNone DEF Sound
<1>3. BlockStart(s) = b /\ b \in 1..Len(s) /\ b + 2 \in 1..Len(s) /\ b + 4 \in 1..Len(s)
  <2>1. b \in 1..Len(s) /\ b + 4 \in 1..Len(s)
    BY <1>2 DEF BlockAt
  <2> QED BY <1>1, <1>2, <2>1, Bounds
<1>4. /\ u \in Seq(Content) /\ Len(u) = Len(s)
      /\ \A j \in 1..Len(s) : u[j] = IF j = b + 2 THEN NL ELSE s[j]
  BY <1>1, <1>3, PlainText, ExceptSeq
<1>5. s[b + 2] \notin Text
  BY <1>2, PlainText DEF BlockAt
<1>6. OwnText(u) = OwnText(s)
  <2>1. \A i \in 1..Len(s) : s[i] = u[i] \/ (s[i] \notin Text /\ u[i] \notin Text)
    BY <1>4, <1>5, PlainText
  <2> QED BY <1>1, <1>4, <2>1, SameText
<1>7. \A j \in 1..Len(u) : j # b + 2 => u[j] = s[j]
  BY <1>4
<1>8. u[b + 2] = NL
  BY <1>3, <1>4
<1>9. Apart(u)
  <2> SUFFICES ASSUME NEW i \in 1..(Len(u) - 1), u[i] # NL PROVE u[i + 1] = NL
    BY DEF Apart
  <2>1. i \in 1..(Len(s) - 1) /\ i \in 1..Len(u) /\ i + 1 \in 1..Len(u)
    BY <1>1, <1>4
  <2>2. i # b + 2 /\ u[i] = s[i]
    BY <1>7, <1>8, <2>1
  <2>3. s[i + 1] = NL
    BY <1>1, <2>1, <2>2 DEF Apart
  <2> QED BY <1>7, <1>8, <2>1, <2>3
<1>10. BlockAt(u, b)
  <2>1. /\ b + 1 \in 1..Len(u) /\ b + 3 \in 1..Len(u) /\ b \in 1..Len(u) /\ b + 4 \in 1..Len(u)
        /\ b # b + 2 /\ b + 1 # b + 2 /\ b + 3 # b + 2 /\ b + 4 # b + 2
    BY <1>1, <1>3, <1>4
  <2>2. u[b] = s[b] /\ u[b + 1] = s[b + 1] /\ u[b + 3] = s[b + 3] /\ u[b + 4] = s[b + 4]
    BY <1>7, <2>1
  <2>3. \A i \in 1..Len(u) : i < b \/ i > b + 4 => u[i] \in Plain
    BY <1>2, <1>4, <1>7 DEF BlockAt
  <2> QED BY <1>2, <1>8, <2>1, <2>2, <2>3 DEF BlockAt
<1> QED BY <1>4, <1>6, <1>9, <1>10 DEF Sound

LEMMA NewlineCut ==
    ASSUME StatuslineAssumption, NEW s, Sound(s), LastIsNL(s), NEW u, u = SubSeq(s, 1, Len(s) - 1)
    PROVE  Sound(u) /\ OwnText(u) = OwnText(s)
<1>1. s \in Seq(Content) /\ Len(s) \in Nat /\ Apart(s)
  BY LenProperties DEF Sound
<1>2. /\ u \in Seq(Content) /\ Len(u) = Len(s) - 1
      /\ \A i \in 1..(Len(s) - 1) : u[i] = s[i]
      /\ OwnText(u) = OwnText(s)
  BY <1>1, Trimmed
<1>3. \A i \in 1..Len(u) : i \in 1..Len(s) /\ u[i] = s[i]
  BY <1>1, <1>2
<1>4. Apart(u)
  <2> SUFFICES ASSUME NEW i \in 1..(Len(u) - 1), u[i] # NL PROVE u[i + 1] = NL
    BY DEF Apart
  <2>1. i \in 1..Len(u) /\ i + 1 \in 1..Len(u) /\ i \in 1..(Len(s) - 1)
    BY <1>1, <1>2
  <2> QED BY <1>1, <1>3, <2>1 DEF Apart
<1>5. CASE Blockless(s)
  BY <1>2, <1>3, <1>4, <1>5 DEF Sound, Blockless
<1>6. ASSUME NEW b \in Nat, BlockAt(s, b) PROVE Sound(u)
  <2>1. b \in 1..Len(s) /\ b + 4 \in 1..Len(s) /\ s[b + 4] = End /\ s[Len(s)] = NL
    BY <1>6 DEF BlockAt, LastIsNL
  <2>2. b + 4 # Len(s)
    BY <2>1, PlainText
  <2>3. b \in 1..Len(u) /\ b + 1 \in 1..Len(u) /\ b + 2 \in 1..Len(u) /\ b + 3 \in 1..Len(u) /\ b + 4 \in 1..Len(u)
    BY <1>1, <1>2, <2>1, <2>2
  <2>4. u[b] = s[b] /\ u[b + 1] = s[b + 1] /\ u[b + 2] = s[b + 2] /\ u[b + 3] = s[b + 3] /\ u[b + 4] = s[b + 4]
    BY <1>3, <2>3
  <2>5. \A i \in 1..Len(u) : i < b \/ i > b + 4 => u[i] \in Plain
    BY <1>3, <1>6 DEF BlockAt
  <2>6. BlockAt(u, b)
    BY <1>6, <2>3, <2>4, <2>5 DEF BlockAt
  <2> QED BY <1>2, <1>4, <2>6 DEF Sound
<1> QED BY <1>2, <1>5, <1>6 DEF Sound

-----------------------------------------------------------------------------
(* What is pending is as sound as the script: it was computed from a       *)
(* script with the same lines, since the user does not edit in between.    *)

Kept(s, o) == Sound(s) /\ OwnText(s) = o

PendingKept == \A p \in Cmds : pending[p] # Idle /\ pending[p][1] = "script" => Kept(pending[p][2], own)

Inv == TypeOK /\ Kept(script, own) /\ PendingKept

LEMMA WriteFields ==
    ASSUME TypeOK, NEW p \in Cmds, NEW f, NEW v, <<f, v>> \in Writable, Writes(p, f, v)
    PROVE  /\ pending' \in [Cmds -> Writable \cup {Idle}]
           /\ pending'[p] = <<f, v>> /\ \A q \in Cmds \ {p} : pending'[q] = pending[q]
<1> DEFINE w == <<f, v>>
<1>1. pending' = [pending EXCEPT ![p] = w] /\ w \in Writable
  BY DEF Writes
<1> HIDE DEF w
<1>2. /\ pending' \in [Cmds -> Writable \cup {Idle}]
      /\ pending'[p] = w /\ \A q \in Cmds \ {p} : pending'[q] = pending[q]
  BY <1>1 DEF TypeOK
<1> QED BY <1>2 DEF w

LEMMA ScriptWritten ==
    ASSUME TypeOK, PendingKept, NEW p \in Cmds, NEW v, Kept(v, own), Writes(p, "script", v), own' = own
    PROVE  pending' \in [Cmds -> Writable \cup {Idle}] /\ PendingKept'
<1>1. <<"script", v>> \in Writable
  BY DEF Kept, Sound, Writable
<1>2. /\ pending' \in [Cmds -> Writable \cup {Idle}]
      /\ pending'[p] = <<"script", v>> /\ \A q \in Cmds \ {p} : pending'[q] = pending[q]
  BY <1>1, WriteFields
<1>3. ASSUME NEW q \in Cmds, pending'[q] # Idle, pending'[q][1] = "script" PROVE Kept(pending'[q][2], own)
  <2>1. CASE q = p
    <3>1. pending'[q][2] = v
      BY <1>2, <2>1
    <3> QED BY <3>1
  <2>2. CASE q # p
    <3>1. pending'[q] = pending[q]
      BY <1>2, <2>2
    <3> QED BY <1>3, <3>1 DEF PendingKept
  <2> QED BY <2>1, <2>2
<1> QED BY <1>2, <1>3 DEF PendingKept

LEMMA SettingsWritten ==
    ASSUME TypeOK, PendingKept, NEW p \in Cmds, NEW k \in Kinds, Writes(p, "settings", k), own' = own
    PROVE  pending' \in [Cmds -> Writable \cup {Idle}] /\ PendingKept'
<1>1. <<"settings", k>> \in Writable
  BY DEF Writable
<1>2. /\ pending' \in [Cmds -> Writable \cup {Idle}]
      /\ pending'[p] = <<"settings", k>> /\ \A q \in Cmds \ {p} : pending'[q] = pending[q]
  BY <1>1, WriteFields
<1>3. ASSUME NEW q \in Cmds, pending'[q] # Idle, pending'[q][1] = "script" PROVE Kept(pending'[q][2], own)
  <2>1. q # p
    BY <1>2, <1>3
  <2>2. pending'[q] = pending[q]
    BY <1>2, <2>1
  <2> QED BY <1>3, <2>2 DEF PendingKept
<1> QED BY <1>2, <1>3 DEF PendingKept

LEMMA EditMoves ==
    ASSUME TypeOK, Edit, own' \in Seq(Text), script' \in Seq(Content), cmd' \in Kinds
    PROVE  TypeOK' /\ PendingKept'
<1>1. pending' = pending /\ edits' \in Nat /\ \A p \in Cmds : pending'[p] = Idle
  BY DEF TypeOK, Edit
<1> QED BY <1>1 DEF TypeOK, PendingKept

LEMMA InvInit == Init => Inv
<1> SUFFICES ASSUME Init PROVE Inv
  OBVIOUS
<1>1. PICK t \in Text : own = <<t>> /\ script \in {<<t>>, <<t, NL>>}
  BY DEF Init
<1>2. pending = [p \in Cmds |-> Idle] /\ cmd \in Kinds /\ edits = 0
  BY DEF Init
<1>3. <<t>> \in Seq(Content) /\ <<t, NL>> \in Seq(Content) /\ own \in Seq(Text)
  BY <1>1, StatuslineAssumption, PlainText
<1>4. OwnText(script) = own
  BY <1>1, StatuslineAssumption, TextOfOne
<1>5. Apart(<<t>>) /\ Blockless(<<t>>)
  <2>1. Len(<<t>>) = 1 /\ <<t>>[1] \in Plain
    BY DEF Plain
  <2> QED BY <2>1 DEF Apart, Blockless
<1>6. Apart(<<t, NL>>) /\ Blockless(<<t, NL>>)
  BY StatuslineAssumption, LineShape
<1>7. Sound(script)
  BY <1>1, <1>3, <1>5, <1>6, Zenon DEF Sound
<1>8. TypeOK
  BY <1>1, <1>2, <1>3 DEF TypeOK
<1>9. PendingKept
  BY <1>2 DEF PendingKept
<1> QED BY <1>4, <1>7, <1>8, <1>9 DEF Inv, Kept

LEMMA InvStep == Inv /\ [Next]_vars => Inv'
<1> SUFFICES ASSUME Inv, [Next]_vars PROVE Inv'
  OBVIOUS
<1> USE StatuslineAssumption
<1>0. /\ TypeOK /\ Kept(script, own) /\ PendingKept
      /\ Sound(script) /\ OwnText(script) = own /\ script \in Seq(Content) /\ own \in Seq(Text)
      /\ cmd \in Kinds /\ edits \in Nat
  BY DEF Inv, Kept, TypeOK
<1>1. ASSUME NEW p \in Cmds, On(p) PROVE Inv'
  <2>1. cmd' = cmd /\ script' = script /\ edits' = edits /\ own' = own
    BY <1>1 DEF On
  <2>2. pending' \in [Cmds -> Writable \cup {Idle}] /\ PendingKept'
    <3>1. CASE Writes(p, "settings", "target")
      BY <1>0, <2>1, <3>1, SettingsWritten DEF Kinds
    <3>2. CASE Writes(p, "script", BlockUpsert(script))
      <4>1. Kept(BlockUpsert(script), own)
        BY <1>0, UpsertSound DEF Kept
      <4> QED BY <1>0, <2>1, <3>2, <4>1, ScriptWritten
    <3> QED BY <1>1, <3>1, <3>2 DEF On
  <2> QED BY <1>0, <2>1, <2>2 DEF Inv, TypeOK, Kept
<1>2. ASSUME NEW p \in Cmds, Off(p) PROVE Inv'
  <2>1. cmd' = cmd /\ script' = script /\ edits' = edits /\ own' = own
    BY <1>2 DEF Off
  <2>2. pending' \in [Cmds -> Writable \cup {Idle}] /\ PendingKept'
    <3>1. CASE Writes(p, "settings", "none")
      BY <1>0, <2>1, <3>1, SettingsWritten DEF Kinds
    <3>2. CASE Writes(p, "script", BlockRemove(script))
      <4>1. Kept(BlockRemove(script), own)
        BY <1>0, RemoveSound DEF Kept
      <4> QED BY <1>0, <2>1, <3>2, <4>1, ScriptWritten
    <3> QED BY <1>2, <3>1, <3>2 DEF Off
  <2> QED BY <1>0, <2>1, <2>2 DEF Inv, TypeOK, Kept
<1>3. ASSUME NEW p \in Cmds, Install(p) PROVE Inv'
  <2>1. cmd' = cmd /\ script' = script /\ edits' = edits /\ own' = own /\ Writes(p, "settings", "ccb")
    BY <1>3 DEF Install
  <2>2. pending' \in [Cmds -> Writable \cup {Idle}] /\ PendingKept'
    BY <1>0, <2>1, SettingsWritten DEF Kinds
  <2> QED BY <1>0, <2>1, <2>2 DEF Inv, TypeOK, Kept
<1>4. ASSUME NEW p \in Cmds, Write(p) PROVE Inv'
  <2>1. /\ edits' = edits /\ own' = own /\ pending[p] # Idle
        /\ cmd' = IF pending[p][1] = "settings" THEN pending[p][2] ELSE cmd
        /\ script' = IF pending[p][1] = "script" THEN pending[p][2] ELSE script
        /\ pending' = [pending EXCEPT ![p] = Idle]
    BY <1>4 DEF Write
  <2>2. pending[p] \in Writable
    BY <1>0, <2>1 DEF TypeOK
  <2>3. cmd' \in Kinds
    BY <1>0, <2>1, <2>2 DEF Writable
  <2>4. Kept(script', own)
    BY <1>0, <2>1 DEF PendingKept
  <2>5. /\ pending' \in [Cmds -> Writable \cup {Idle}]
        /\ \A q \in Cmds : pending'[q] = Idle \/ pending'[q] = pending[q]
    BY <1>0, <2>1 DEF TypeOK
  <2>6. PendingKept'
    BY <1>0, <2>1, <2>5 DEF PendingKept
  <2>7. TypeOK'
    BY <1>0, <2>1, <2>3, <2>4, <2>5 DEF TypeOK, Kept, Sound
  <2> QED BY <2>1, <2>4, <2>6, <2>7 DEF Inv
<1>5. ASSUME SetCommand PROVE Inv'
  <2>1. Edit /\ script' = script /\ own' = own /\ cmd' \in Kinds
    BY <1>5 DEF SetCommand, Kinds
  <2> QED BY <1>0, <2>1, EditMoves DEF Inv, Kept
<1>6. ASSUME AppendLine PROVE Inv'
  <2>1. PICK t \in Text :
           /\ script' = (IF script = <<>> \/ LastIsNL(script) THEN script ELSE Append(script, NL)) \o <<t, NL>>
           /\ own' = Append(own, t)
    BY <1>6 DEF AppendLine
  <2>2. Sound(script') /\ OwnText(script') = own'
    <3>1. \A u : u = (IF script = <<>> \/ LastIsNL(script) THEN script ELSE Append(script, NL)) \o <<t, NL>>
                   => Sound(u) /\ OwnText(u) = Append(OwnText(script), t)
      BY <1>0, LineAppended
    <3> QED BY <1>0, <2>1, <3>1, Zenon
  <2>3. script' \in Seq(Content)
    BY <2>2 DEF Sound
  <2>4. own' \in Seq(Text)
    BY <1>0, <2>1, AppendProperties
  <2>5. Edit /\ cmd' \in Kinds
    BY <1>0, <1>6 DEF AppendLine
  <2>6. TypeOK' /\ PendingKept'
    BY <1>0, <2>3, <2>4, <2>5, EditMoves
  <2> QED BY <2>2, <2>6 DEF Inv, Kept
<1>7. ASSUME PrependLine PROVE Inv'
  <2>1. PICK t \in Text : script' = <<t, NL>> \o script /\ own' = <<t>> \o own
    BY <1>7 DEF PrependLine
  <2>2. Sound(script') /\ OwnText(script') = own'
    <3>1. \A u : u = <<t, NL>> \o script => Sound(u) /\ OwnText(u) = <<t>> \o OwnText(script)
      BY <1>0, LinePrepended
    <3> QED BY <1>0, <2>1, <3>1, Zenon
  <2>3. script' \in Seq(Content)
    BY <2>2 DEF Sound
  <2>4. own' \in Seq(Text)
    BY <2>2, <2>3, OwnTextType
  <2>5. Edit /\ cmd' \in Kinds
    BY <1>0, <1>7 DEF PrependLine
  <2>6. TypeOK' /\ PendingKept'
    BY <1>0, <2>3, <2>4, <2>5, EditMoves
  <2> QED BY <2>2, <2>6 DEF Inv, Kept
<1>8. ASSUME Tamper PROVE Inv'
  <2>1. Edit /\ cmd' = cmd /\ own' = own
    BY <1>8 DEF Tamper
  <2>2. Sound(script') /\ OwnText(script') = own
    <3>1. CASE HasBlock(script) /\ script' = [script EXCEPT ![BlockStart(script) + 2] = NL]
      <4>1. \A u : u = [script EXCEPT ![BlockStart(script) + 2] = NL] => Sound(u) /\ OwnText(u) = OwnText(script)
        BY <1>0, <3>1, BodyEmptied
      <4> QED BY <1>0, <3>1, <4>1, Zenon
    <3>2. CASE LastIsNL(script) /\ script' = SubSeq(script, 1, Len(script) - 1)
      <4>1. \A u : u = SubSeq(script, 1, Len(script) - 1) => Sound(u) /\ OwnText(u) = OwnText(script)
        BY <1>0, <3>2, NewlineCut
      <4> QED BY <1>0, <3>2, <4>1, Zenon
    <3> QED BY <1>8, <3>1, <3>2, Zenon DEF Tamper
  <2>3. script' \in Seq(Content)
    BY <2>2 DEF Sound
  <2>4. TypeOK' /\ PendingKept'
    BY <1>0, <2>1, <2>3, EditMoves
  <2> QED BY <2>1, <2>2, <2>4 DEF Inv, Kept
<1>9. ASSUME UNCHANGED vars PROVE Inv'
  BY <1>9 DEF vars, Inv, TypeOK, Kept, PendingKept
<1> QED BY <1>1, <1>2, <1>3, <1>4, <1>5, <1>6, <1>7, <1>8, <1>9 DEF Next

LEMMA InvAlways == Spec => []Inv
  BY InvInit, InvStep, PTL DEF Spec

\* The variables keep their types.
THEOREM TypeCorrect == Spec => []TypeOK
<1>1. Inv => TypeOK
  BY DEF Inv
<1> QED BY <1>1, InvAlways, PTL

\* Whatever commands and edits run in whatever order, also of several sessions
\* at once, the script has the user's lines, in their order: blockUpsert and
\* blockRemove touch no line of the user.
THEOREM TextStays == Spec => []OwnTextKept
<1>1. Inv => OwnTextKept
  BY DEF Inv, Kept, OwnTextKept
<1> QED BY <1>1, InvAlways, PTL

\* There is one block, also when two sessions run `on` and the user edited
\* around it: what blockBounds finds is the only block.
THEOREM BlockAlone == Spec => []OneBlock
<1>1. Inv => OneBlock
  <2> SUFFICES ASSUME Inv, NEW i \in 1..Len(script), NEW j \in 1..Len(script),
                      script[i] = script[j], script[i] \in {Begin, End}
               PROVE  i = j
    BY DEF OneBlock
  <2>1. Sound(script) /\ Len(script) \in Nat
    BY LenProperties DEF Inv, Kept, Sound
  <2>2. ~Blockless(script)
    BY StatuslineAssumption, PlainText DEF Blockless
  <2>3. PICK b \in Nat : BlockAt(script, b)
    BY <2>1, <2>2 DEF Sound
  <2>4. b \in 1..Len(script) /\ b + 4 \in 1..Len(script)
    BY <2>3 DEF BlockAt
  <2>5. \A k \in 1..Len(script) : script[k] \in {Begin, End} =>
           (script[k] = Begin /\ k = b) \/ (script[k] = End /\ k = b + 4)
    <3> SUFFICES ASSUME NEW k \in 1..Len(script), script[k] \in {Begin, End}
                 PROVE  (script[k] = Begin /\ k = b) \/ (script[k] = End /\ k = b + 4)
      OBVIOUS
    <3>1. ~(k < b \/ k > b + 4)
      BY <2>3, StatuslineAssumption, PlainText DEF BlockAt
    <3>2. k = b \/ k = b + 1 \/ k = b + 2 \/ k = b + 3 \/ k = b + 4
      BY <2>1, <2>4, <3>1
    <3> QED BY <2>3, <3>2, StatuslineAssumption, PlainText DEF BlockAt
  <2> QED BY <2>5, StatuslineAssumption, PlainText
<1> QED BY <1>1, InvAlways, PTL

\* Two lines never become one, whether the script had a last newline or not
\* and whatever the user appended behind the block.
THEOREM LinesStayApart == Spec => []LinesApart
<1>1. Inv => LinesApart
  BY DEF Inv, Kept, Sound, Apart, LinesApart
<1> QED BY <1>1, InvAlways, PTL

-----------------------------------------------------------------------------
(* Off undoes on: where the two files and the pending writes can be        *)
(* between an `on` on untouched files c and s and the `off` that follows.  *)

Wrote(p, w) == pending[p] = w /\ \A q \in Cmds \ {p} : pending[q] = Idle
Only(w) == \A q \in Cmds : pending[q] \in {Idle, w}

Turned(c, s) ==
    \/ /\ c = "none" /\ cmd = "none" /\ script = s
       /\ \E p \in Cmds : Wrote(p, <<"settings", "target">>)
    \/ c = "none" /\ cmd \in {"target", "none"} /\ script = s /\ Only(<<"settings", "none">>)
    \/ /\ c = "script" /\ cmd = "script" /\ script = s
       /\ \E p \in Cmds : Wrote(p, <<"script", BlockUpsert(s)>>)
    \/ c = "script" /\ cmd = "script" /\ script \in {BlockUpsert(s), s} /\ Only(<<"script", s>>)

UndoKnown == undo # <<>> => \E c, s : undo = <<c, s>> /\ Sound(s) /\ ~HasBlock(s) /\ Turned(c, s)

LEMMA WritableWords ==
    ASSUME NEW s \in Seq(Content)
    PROVE  /\ <<"settings", "target">> \in Writable /\ <<"settings", "none">> \in Writable
           /\ <<"script", s>> \in Writable
           /\ <<"settings", "target">> # Idle /\ <<"settings", "none">> # Idle /\ <<"script", s>> # Idle
<1>1. <<"settings", "target">> \in Writable /\ <<"settings", "none">> \in Writable /\ <<"script", s>> \in Writable
  BY DEF Writable, Kinds
<1> QED BY <1>1, StatuslineAssumption

\* What a step that changes neither file leaves of Turned.
LEMMA OnlyMore ==
    ASSUME TypeOK, NEW p \in Cmds, NEW f, NEW v, <<f, v>> \in Writable, Writes(p, f, v), Only(<<f, v>>)
    PROVE  Only(<<f, v>>)'
  BY WriteFields DEF Only

LEMMA OnTurns ==
    ASSUME Inv, NEW p \in Cmds, On(p), undo' # <<>>, NEW c, NEW s, c = cmd, s = script
    PROVE  undo' = <<c, s>> /\ Sound(s) /\ ~HasBlock(s) /\ Turned(c, s)'
<1>1. /\ undo' = <<c, s>> /\ c # "ccb" /\ ~HasBlock(s) /\ \A q \in Cmds : pending[q] = Idle
      /\ cmd' = c /\ script' = s
  BY DEF On
<1>2. TypeOK /\ Sound(s) /\ s \in Seq(Content)
  BY DEF Inv, Kept, Sound
<1>3. CASE c = "none" /\ Writes(p, "settings", "target")
  <2>1. pending'[p] = <<"settings", "target">> /\ \A q \in Cmds \ {p} : pending'[q] = pending[q]
    BY <1>2, <1>3, WritableWords, WriteFields
  <2>2. Wrote(p, <<"settings", "target">>)'
    BY <1>1, <2>1 DEF Wrote
  <2> QED BY <1>1, <1>2, <1>3, <2>2, Zenon DEF Turned
<1>4. CASE c = "script" /\ Writes(p, "script", BlockUpsert(s))
  <2>1. BlockUpsert(s) \in Seq(Content)
    BY <1>2, StatuslineAssumption, UpsertSound DEF Sound
  <2>2. /\ pending'[p] = <<"script", BlockUpsert(s)>>
        /\ \A q \in Cmds \ {p} : pending'[q] = pending[q]
    BY <1>2, <1>4, <2>1, WritableWords, WriteFields
  <2> QED BY <1>1, <1>2, <1>4, <2>2, Zenon DEF Turned, Wrote
<1> QED BY <1>1, <1>3, <1>4 DEF On

LEMMA OffTurns ==
    ASSUME Inv, NEW p \in Cmds, Off(p), NEW c, NEW s, Sound(s), ~HasBlock(s), Turned(c, s)
    PROVE  Turned(c, s)'
<1>1. /\ TypeOK /\ s \in Seq(Content) /\ cmd' = cmd /\ script' = script
      /\ \/ cmd \in {"target", "ccb"} /\ Writes(p, "settings", "none")
         \/ cmd = "script" /\ BlockRemove(script) # script /\ Writes(p, "script", BlockRemove(script))
  BY DEF Inv, Sound, Off, IsCcb
<1>2. BlockRemove(s) = s /\ BlockRemove(BlockUpsert(s)) = s
  BY StatuslineAssumption, Undone DEF BlockRemove
<1>3. CASE c = "none" /\ cmd \in {"target", "none"} /\ script = s /\ Only(<<"settings", "none">>)
  <2>1. Writes(p, "settings", "none") /\ cmd = "target"
    BY <1>1, <1>3
  <2>2. Only(<<"settings", "none">>)'
    BY <1>1, <1>3, <2>1, WritableWords, OnlyMore
  <2> QED BY <1>1, <1>3, <2>1, <2>2 DEF Turned
<1>4. CASE c = "script" /\ cmd = "script" /\ script \in {BlockUpsert(s), s} /\ Only(<<"script", s>>)
  <2>1. BlockRemove(script) = s /\ Writes(p, "script", s)
    BY <1>1, <1>2, <1>4
  <2>2. Only(<<"script", s>>)'
    BY <1>1, <1>4, <2>1, WritableWords, OnlyMore
  <2> QED BY <1>1, <1>4, <2>2, Zenon DEF Turned
<1>5. CASE c = "none" /\ cmd = "none"
  BY <1>1, <1>5
<1>6. CASE c = "script" /\ cmd = "script" /\ script = s
  BY <1>1, <1>2, <1>6
<1> QED BY <1>3, <1>4, <1>5, <1>6 DEF Turned

\* The write that ends an `on` or an `off`.
LEMMA WriteTurns ==
    ASSUME Inv, NEW p \in Cmds, Write(p), NEW c, NEW s, Sound(s), ~HasBlock(s), Turned(c, s)
    PROVE  /\ Turned(c, s)'
           /\ pending[p] \in {<<"settings", "none">>, <<"script", BlockRemove(script)>>} => cmd' = c /\ script' = s
<1>1. /\ TypeOK /\ s \in Seq(Content) /\ pending[p] # Idle
      /\ cmd' = IF pending[p][1] = "settings" THEN pending[p][2] ELSE cmd
      /\ script' = IF pending[p][1] = "script" THEN pending[p][2] ELSE script
  BY DEF Inv, Sound, Write
<1>2. pending'[p] = Idle /\ \A q \in Cmds \ {p} : pending'[q] = pending[q]
  BY <1>1 DEF TypeOK, Write
<1>3. BlockRemove(s) = s /\ BlockUpsert(s) # s
  BY StatuslineAssumption, Undone DEF BlockRemove
<1>4. ASSUME NEW w, Only(w) PROVE Only(w)'
  BY <1>2, <1>4 DEF Only
<1>5. ASSUME NEW w, NEW o \in Cmds, Wrote(o, w) PROVE o = p /\ pending[p] = w /\ \A q \in Cmds : pending'[q] = Idle
  BY <1>1, <1>2, <1>5 DEF Wrote
<1>6. CASE c = "none" /\ cmd = "none" /\ script = s /\ \E o \in Cmds : Wrote(o, <<"settings", "target">>)
  <2>1. pending[p] = <<"settings", "target">> /\ \A q \in Cmds : pending'[q] = Idle
    BY <1>5, <1>6
  <2>2. cmd' = "target" /\ script' = s
    BY <1>1, <1>6, <2>1
  <2>3. Only(<<"settings", "none">>)'
    BY <2>1 DEF Only
  <2>4. pending[p] \notin {<<"settings", "none">>, <<"script", BlockRemove(script)>>}
    BY <2>1
  <2> QED BY <1>6, <2>2, <2>3, <2>4 DEF Turned
<1>7. CASE c = "none" /\ cmd \in {"target", "none"} /\ script = s /\ Only(<<"settings", "none">>)
  <2>1. pending[p] = <<"settings", "none">>
    BY <1>1, <1>7 DEF Only
  <2>2. cmd' = "none" /\ script' = s
    BY <1>1, <1>7, <2>1
  <2> QED BY <1>4, <1>7, <2>2 DEF Turned
<1>8. CASE c = "script" /\ cmd = "script" /\ script = s /\ \E o \in Cmds : Wrote(o, <<"script", BlockUpsert(s)>>)
  <2>1. pending[p] = <<"script", BlockUpsert(s)>> /\ \A q \in Cmds : pending'[q] = Idle
    BY <1>5, <1>8
  <2>2. cmd' = "script" /\ script' = BlockUpsert(s)
    BY <1>1, <1>8, <2>1
  <2>3. Only(<<"script", s>>)'
    BY <2>1 DEF Only
  <2>4. pending[p] \notin {<<"settings", "none">>, <<"script", BlockRemove(script)>>}
    BY <1>3, <1>8, <2>1
  <2> QED BY <1>8, <2>2, <2>3, <2>4 DEF Turned
<1>9. CASE c = "script" /\ cmd = "script" /\ script \in {BlockUpsert(s), s} /\ Only(<<"script", s>>)
  <2>1. pending[p] = <<"script", s>>
    BY <1>1, <1>9 DEF Only
  <2>2. cmd' = "script" /\ script' = s
    BY <1>1, <1>9, <2>1
  <2> QED BY <1>4, <1>9, <2>2 DEF Turned
<1> QED BY <1>6, <1>7, <1>8, <1>9 DEF Turned

LEMMA UndoStep == Inv /\ UndoKnown /\ [Next]_vars => UndoKnown'
<1> SUFFICES ASSUME Inv, UndoKnown, [Next]_vars, undo' # <<>>
             PROVE  \E c, s : undo' = <<c, s>> /\ Sound(s) /\ ~HasBlock(s) /\ Turned(c, s)'
  BY DEF UndoKnown
<1>1. ASSUME NEW p \in Cmds, On(p)
      PROVE  \E c, s : undo' = <<c, s>> /\ Sound(s) /\ ~HasBlock(s) /\ Turned(c, s)'
  <2>1. \A c, s : c = cmd /\ s = script => undo' = <<c, s>> /\ Sound(s) /\ ~HasBlock(s) /\ Turned(c, s)'
    BY <1>1, OnTurns
  <2> QED BY <2>1
<1>2. ASSUME undo' = undo, NEW c, NEW s, undo = <<c, s>>, Sound(s), ~HasBlock(s), Turned(c, s)'
      PROVE  \E d, t : undo' = <<d, t>> /\ Sound(t) /\ ~HasBlock(t) /\ Turned(d, t)'
  BY <1>2
<1>3. CASE undo' = undo
  <2>1. PICK c, s : undo = <<c, s>> /\ Sound(s) /\ ~HasBlock(s) /\ Turned(c, s)
    BY <1>3 DEF UndoKnown
  <2>2. ASSUME NEW p \in Cmds, Off(p) PROVE Turned(c, s)'
    BY <2>1, <2>2, OffTurns
  <2>3. ASSUME NEW p \in Cmds, Write(p) PROVE Turned(c, s)'
    BY <2>1, <2>3, WriteTurns
  <2>4. ASSUME UNCHANGED vars PROVE Turned(c, s)'
    BY <2>1, <2>4 DEF vars, Turned, Wrote, Only
  <2>5. ASSUME NEW p \in Cmds, On(p) PROVE \E d, t : undo' = <<d, t>> /\ Sound(t) /\ ~HasBlock(t) /\ Turned(d, t)'
    BY <1>1, <2>5
  <2>6. ~Edit /\ ~(\E p \in Cmds : Install(p))
    BY DEF Edit, Install
  <2>7. \/ \E p \in Cmds : On(p) \/ Off(p) \/ Write(p)
        \/ UNCHANGED vars
    BY <2>6 DEF Next, SetCommand, AppendLine, PrependLine, Tamper
  <2> QED BY <1>2, <1>3, <2>1, <2>2, <2>3, <2>4, <2>5, <2>7
<1>4. CASE undo' # undo
  <2>1. \E p \in Cmds : On(p)
    BY <1>4 DEF Next, Off, Install, Write, SetCommand, AppendLine, PrependLine, Tamper, Edit, vars
  <2> QED BY <1>1, <2>1
<1> QED BY <1>3, <1>4

\* "`off` removes exactly whatever `on` added": the write of an `off` that
\* follows an `on` leaves both files as they were before the `on`, for a
\* statusLine of ccb and for the block in the user's own script, also when
\* several sessions run the `off`.
THEOREM OffReverts == Spec => OffUndoesOn
<1> DEFINE Reverts ==
        \A p \in Cmds : undo # <<>> /\ pending[p] # Idle /\ pending'[p] = Idle
            /\ pending[p] \in {<<"settings", "none">>, <<"script", BlockRemove(script)>>}
            /\ (\A q \in Cmds : q # p => pending[q] = Idle)
            => <<cmd', script'>> = undo
<1>1. Init => UndoKnown
  BY DEF Init, UndoKnown
<1>2. Inv /\ UndoKnown /\ [Next]_vars => [Reverts]_vars
  <2> SUFFICES ASSUME Inv, UndoKnown, Next, NEW p \in Cmds, undo # <<>>, pending[p] # Idle, pending'[p] = Idle,
                      pending[p] \in {<<"settings", "none">>, <<"script", BlockRemove(script)>>}
               PROVE  <<cmd', script'>> = undo
    BY Zenon
  <2>1. PICK c, s : undo = <<c, s>> /\ Sound(s) /\ ~HasBlock(s) /\ Turned(c, s)
    BY DEF UndoKnown
  <2>2. pending' # pending /\ pending \in [Cmds -> Writable \cup {Idle}]
    BY DEF Inv, TypeOK
  <2>3. PICK q \in Cmds : On(q) \/ Off(q) \/ Install(q) \/ Write(q)
    BY <2>2 DEF Next, SetCommand, AppendLine, PrependLine, Tamper, Edit
  <2>4. q = p
    <3>1. \E w : pending' = [pending EXCEPT ![q] = w]
      BY <2>3 DEF On, Off, Install, Write, Writes
    <3>2. q # p => pending'[p] = pending[p]
      BY <2>2, <3>1
    <3> QED BY <3>2
  <2>5. Write(p)
    BY <2>3, <2>4 DEF On, Off, Install
  <2>6. cmd' = c /\ script' = s
    BY <2>1, <2>5, WriteTurns
  <2> QED BY <2>1, <2>6
<1>3. Init /\ [][Next]_vars => [](Inv /\ UndoKnown)
  BY <1>1, InvInit, InvStep, UndoStep, PTL
<1>4. Spec => [][Reverts]_vars
  BY <1>2, <1>3, PTL DEF Spec
<1> QED BY <1>4 DEF OffUndoesOn
=============================================================================
