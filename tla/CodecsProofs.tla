---------------------------- MODULE CodecsProofs ----------------------------
(***************************************************************************)
(* Proofs about Codecs, for any inputs that CodecsAssumption admits: rows  *)
(* of any length with any texts and numbers are read as they were written, *)
(* in either protocol, the server gets the arguments of statements and of  *)
(* queries, and client and server cut the same fields out of a datagram,   *)
(* whatever the texts in it.                                               *)
(*                                                                         *)
(* The library has induction only as theorems about operators, which no    *)
(* prover here can instantiate.  Induction is therefore done on sets of    *)
(* positions (Induction, UpTo), recursion with tables of steps             *)
(* (Recursion), and two recursive definitions are the same function when   *)
(* they start alike and take the same steps (SameChain).                   *)
(*                                                                         *)
(* The writer's packet is FlattenSeq of parts; each part begins where the  *)
(* one before it ends (Located), and the reader, at that place, takes      *)
(* exactly this part whatever follows it (TextPartBack, BinaryPartBack,    *)
(* ArgumentPartBack).  A query is read by an automaton: what it has found  *)
(* behind a piece follows from what it had found before (PieceBack).       *)
(***************************************************************************)
EXTENDS Codecs, TLAPS, SequenceTheorems, WellFoundedInduction, FiniteSetTheorems

-----------------------------------------------------------------------------
(* Induction and recursion over the positions of a sequence.               *)

LEMMA Induction ==
  ASSUME NEW G, 0 \in G, \A n \in Nat : n \in G => n + 1 \in G
  PROVE  \A n \in Nat : n \in G
<1>. DEFINE Bad == {n \in Nat : n \notin G}
<1>1. SUFFICES ASSUME Bad # {} PROVE FALSE
  OBVIOUS
<1>2. PICK n \in Bad : \A k \in Bad : ~(<<k, n>> \in OpToRel(<, Nat))
  BY <1>1, NatLessThanWellFounded, WFMin, Zenon
<1>3. n \in Nat /\ n \notin G /\ n # 0
  BY <1>2
<1>4. n - 1 \in Nat /\ n - 1 < n /\ (n - 1) + 1 = n
  BY <1>3
<1>5. n - 1 \in G
  <2>1. SUFFICES ASSUME n - 1 \notin G PROVE FALSE
    OBVIOUS
  <2>2. n - 1 \in Bad
    BY <2>1, <1>4
  <2>. QED
    BY <1>2, <1>3, <1>4, <2>2 DEF OpToRel
<1>. QED
  BY <1>3, <1>4, <1>5

Steps(n, X) == [1..n -> [X -> X]]

\* The values of a recursive definition over 0..n.
IsChain(f, n, X, base, step) ==
  f \in [0..n -> X] /\ f[0] = base /\ \A i \in 1..n : f[i] = step[i][f[i - 1]]

LEMMA Recursion ==
  ASSUME NEW X, NEW base \in X, NEW n \in Nat, NEW step \in Steps(n, X)
  PROVE  \E f : IsChain(f, n, X, base, step)
<1>. USE DEF Steps, IsChain
<1>. DEFINE Good(m) == \E f \in [0..m -> X] : f[0] = base /\ \A i \in 1..m : f[i] = step[i][f[i - 1]]
            G == {m \in Nat : m <= n => Good(m)}
<1>1. 0 \in G
  <2>. DEFINE f == [i \in 0..0 |-> base]
  <2>1. f \in [0..0 -> X] /\ f[0] = base /\ 1..0 = {}
    OBVIOUS
  <2>2. Good(0)
    BY <2>1
  <2>. QED
    BY <2>2
<1>2. ASSUME NEW m \in Nat, m \in G PROVE m + 1 \in G
  <2>1. SUFFICES ASSUME m + 1 <= n PROVE Good(m + 1)
    OBVIOUS
  <2>2. PICK f \in [0..m -> X] : f[0] = base /\ \A i \in 1..m : f[i] = step[i][f[i - 1]]
    BY <1>2, <2>1
  <2>. DEFINE g == [i \in 0..m + 1 |-> IF i = m + 1 THEN step[m + 1][f[m]] ELSE f[i]]
  <2>3. m \in 0..m /\ m + 1 \in 1..n /\ (m + 1) - 1 = m
    BY <2>1
  <2>4. step[m + 1][f[m]] \in X
    BY <2>2, <2>3
  <2>5. \A i \in 0..m + 1 : i # m + 1 => i \in 0..m
    OBVIOUS
  <2>6. g \in [0..m + 1 -> X]
    BY <2>2, <2>4, <2>5
  <2>7. g[0] = base
    BY <2>2
  <2>8. ASSUME NEW i \in 1..m + 1 PROVE g[i] = step[i][g[i - 1]]
    <3>1. i - 1 \in 0..m /\ i - 1 \in 0..m + 1 /\ i - 1 # m + 1 /\ i \in 0..m + 1
      OBVIOUS
    <3>2. g[i - 1] = f[i - 1]
      BY <3>1
    <3>3. CASE i = m + 1
      BY <2>3, <3>1, <3>2, <3>3
    <3>4. CASE i # m + 1
      <4>1. i \in 1..m
        BY <3>4
      <4>2. g[i] = f[i]
        BY <3>1, <3>4
      <4>. QED
        BY <2>2, <3>2, <4>1, <4>2
    <3>. QED
      BY <3>3, <3>4
  <2>. HIDE DEF g
  <2>. QED
    BY <2>6, <2>7, <2>8
<1>. HIDE DEF G
<1>3. n \in G
  BY <1>1, <1>2, Induction
<1>. QED
  BY <1>3 DEF G

\* A sequence of sequences, one after the other.
LEMMA Flatten ==
  ASSUME NEW S, NEW parts \in Seq(Seq(S))
  PROVE  \E pre \in [0..Len(parts) -> Seq(S)] :
           /\ pre[0] = <<>> /\ FlattenSeq(parts) = pre[Len(parts)]
           /\ \A i \in 1..Len(parts) : pre[i] = pre[i - 1] \o parts[i]
<1>. DEFINE n == Len(parts)
            X == Seq(S)
            step == [i \in 1..n |-> [x \in X |-> x \o parts[i]]]
<1>1. n \in Nat /\ <<>> \in X /\ \A i \in 1..n : parts[i] \in X
  BY LenProperties, ElementOfSeq, EmptySeq
<1>2. step \in [1..n -> [X -> X]]
  <2>1. \A i \in 1..n, x \in X : x \o parts[i] \in X
    BY <1>1, ConcatProperties
  <2>. HIDE DEF X
  <2>. QED
    BY <2>1
<1>3. PICK pre \in [0..n -> X] : pre[0] = <<>> /\ \A i \in 1..n : pre[i] = step[i][pre[i - 1]]
  <2>1. <<>> \in X /\ n \in Nat /\ step \in Steps(n, X)
    BY <1>1, <1>2 DEF Steps
  <2>2. \E f : IsChain(f, n, X, <<>>, step)
    <3>. HIDE DEF step, n, X
    <3>. QED
      BY <2>1, Recursion
  <2>. QED
    BY <2>2 DEF IsChain
<1>4. \A i \in 1..n : i - 1 \in 0..n /\ pre[i - 1] \in X
  <2>. HIDE DEF n, X
  <2>. QED
    BY <1>1, <1>3
<1>5. \A i \in 1..n : pre[i] = pre[i - 1] \o parts[i]
  BY <1>3, <1>4
<1>. HIDE DEF step
<1>6. FlattenSeq(parts) = pre[n]
  <2>1. CASE n = 0
    <3>1. parts = <<>>
      BY <2>1, EmptySeq
    <3>. QED
      BY <1>3, <2>1, <3>1 DEF FlattenSeq
  <2>2. CASE n # 0
    <3>. DEFINE Is(f) == f = [i \in 1..n |-> IF i = 1 THEN parts[i] ELSE f[i - 1] \o parts[i]]
                g == CHOOSE f : Is(f)
                h == [i \in 1..n |-> pre[i]]
    <3>1. FlattenSeq(parts) = g[n]
      BY <2>2 DEF FlattenSeq
    <3>2. 1 \in 1..n /\ n \in 1..n /\ pre[1] = parts[1]
      <4>1. 1 \in 1..n /\ n \in 1..n
        BY <1>1, <2>2
      <4>2. pre[1] = pre[0] \o parts[1]
        <5>1. pre[1] = pre[1 - 1] \o parts[1]
          BY <1>5, <4>1
        <5>2. 1 - 1 = 0
          OBVIOUS
        <5>. QED
          BY <5>1, <5>2
      <4>3. <<>> \o parts[1] = parts[1]
        BY <1>1, <4>1, ConcatEmptySeq
      <4>. QED
        BY <1>3, <4>1, <4>2, <4>3
    <3>3. Is(h)
      <4>1. \A i \in 1..n : h[i] = IF i = 1 THEN parts[i] ELSE h[i - 1] \o parts[i]
        <5>1. TAKE i \in 1..n
        <5>2. CASE i = 1
          BY <3>2, <5>2
        <5>3. CASE i # 1
          <6>1. i - 1 \in 1..n
            BY <1>1, <5>3
          <6>. QED
            BY <1>5, <5>3, <6>1
        <5>. QED
          BY <5>2, <5>3
      <4>. QED
        BY <4>1
    <3>4. Is(g)
      <4>. HIDE DEF Is, h
      <4>. QED
        BY <3>3
    <3>. HIDE DEF h
    <3>5. \A i \in 1..n : g[i] = IF i = 1 THEN parts[i] ELSE g[i - 1] \o parts[i]
      BY <3>4
    <3>. HIDE DEF Is, g
    <3>6. \A k \in Nat : k \in {j \in Nat : j + 1 \in 1..n => g[j + 1] = pre[j + 1]}
      <4>. DEFINE G == {j \in Nat : j + 1 \in 1..n => g[j + 1] = pre[j + 1]}
      <4>1. 0 \in G
        <5>1. g[1] = parts[1]
          BY <3>2, <3>5
        <5>. QED
          BY <3>2, <5>1
      <4>2. ASSUME NEW k \in Nat, k \in G PROVE k + 1 \in G
        <5>1. SUFFICES ASSUME (k + 1) + 1 \in 1..n PROVE g[(k + 1) + 1] = pre[(k + 1) + 1]
          OBVIOUS
        <5>2. k + 1 \in 1..n /\ ((k + 1) + 1) - 1 = k + 1 /\ (k + 1) + 1 # 1
          BY <1>1, <5>1
        <5>3. g[(k + 1) + 1] = g[k + 1] \o parts[(k + 1) + 1]
          BY <3>5, <5>1, <5>2
        <5>4. pre[(k + 1) + 1] = pre[k + 1] \o parts[(k + 1) + 1]
          BY <1>5, <5>1, <5>2
        <5>. QED
          BY <4>2, <5>2, <5>3, <5>4
      <4>. HIDE DEF G
      <4>3. \A k \in Nat : k \in G
        BY <4>1, <4>2, Induction
      <4>. QED
        BY <4>3 DEF G
    <3>7. n - 1 \in Nat /\ (n - 1) + 1 = n
      BY <1>1, <2>2
    <3>8. n - 1 \in {j \in Nat : j + 1 \in 1..n => g[j + 1] = pre[j + 1]}
      BY <3>6, <3>7
    <3>9. g[n] = pre[n]
      BY <3>2, <3>7, <3>8
    <3>. QED
      BY <3>1, <3>9
  <2>. QED
    BY <2>1, <2>2
<1>. QED
  BY <1>3, <1>5, <1>6

\* Induction up to a bound.
LEMMA UpTo ==
  ASSUME NEW n \in Nat, NEW G, 0 \in G, \A i \in 1..n : i - 1 \in G => i \in G
  PROVE  \A i \in 0..n : i \in G
<1>. DEFINE H == {i \in Nat : i <= n => i \in G}
<1>1. 0 \in H
  OBVIOUS
<1>2. ASSUME NEW i \in Nat, i \in H PROVE i + 1 \in H
  <2>1. SUFFICES ASSUME i + 1 <= n PROVE i + 1 \in G
    OBVIOUS
  <2>2. i + 1 \in 1..n /\ (i + 1) - 1 = i /\ i \in G
    BY <1>2, <2>1
  <2>. QED
    BY <2>2
<1>. HIDE DEF H
<1>3. \A i \in Nat : i \in H
  BY <1>1, <1>2, Induction
<1>. QED
  BY <1>3 DEF H

\* What follows a recursive definition as the chain does equals it.
LEMMA SameChain ==
  ASSUME NEW n \in Nat, NEW f, NEW g, f[0] = g[0],
         \A i \in 1..n : f[i - 1] = g[i - 1] => f[i] = g[i]
  PROVE  \A i \in 0..n : f[i] = g[i]
<1>. DEFINE G == {i \in 0..n : f[i] = g[i]}
<1>1. 0 \in G /\ \A i \in 1..n : i - 1 \in G => i \in G
  OBVIOUS
<1>. HIDE DEF G
<1>2. \A i \in 0..n : i \in G
  BY <1>1, UpTo
<1>. QED
  BY <1>2 DEF G

-----------------------------------------------------------------------------
(* Sequences put together and cut.                                         *)

LEMMA Parts ==
  ASSUME NEW S, NEW u \in Seq(S), NEW s \in Seq(S), NEW t \in Seq(S)
  PROVE  /\ u \o s \o t \in Seq(S)
         /\ Len(u \o s \o t) = Len(u) + Len(s) + Len(t)
         /\ DOMAIN (u \o s \o t) = 1..Len(u) + Len(s) + Len(t)
         /\ Len(u) \in Nat /\ Len(s) \in Nat /\ Len(t) \in Nat
         /\ \A i \in 1..Len(u) : (u \o s \o t)[i] = u[i]
         /\ \A i \in 1..Len(s) : (u \o s \o t)[Len(u) + i] = s[i]
         /\ \A i \in 1..Len(t) : (u \o s \o t)[Len(u) + Len(s) + i] = t[i]
<1>. DEFINE v == u \o s
            w == v \o t
<1>1. v \in Seq(S) /\ Len(v) = Len(u) + Len(s)
      /\ \A i \in 1..Len(u) + Len(s) : v[i] = IF i <= Len(u) THEN u[i] ELSE s[i - Len(u)]
  BY ConcatProperties
<1>. HIDE DEF v
<1>2. w \in Seq(S) /\ Len(w) = Len(v) + Len(t)
      /\ \A i \in 1..Len(v) + Len(t) : w[i] = IF i <= Len(v) THEN v[i] ELSE t[i - Len(v)]
  <2>1. v \in Seq(S)
    BY <1>1
  <2>. QED
    BY ONLY <2>1, t \in Seq(S), ConcatProperties
<1>. HIDE DEF w
<1>3. Len(u) \in Nat /\ Len(s) \in Nat /\ Len(t) \in Nat /\ DOMAIN w = 1..Len(w)
  BY <1>2, LenProperties
<1>4. \A i \in 1..Len(u) : w[i] = u[i]
  BY <1>1, <1>2, <1>3
<1>5. ASSUME NEW i \in 1..Len(s) PROVE w[Len(u) + i] = s[i]
  <2>1. Len(u) + i \in 1..Len(v) /\ ~(Len(u) + i <= Len(u)) /\ (Len(u) + i) - Len(u) = i
    BY <1>1, <1>3
  <2>2. v[Len(u) + i] = s[i]
    BY <1>1, <2>1
  <2>. QED
    BY <1>1, <1>2, <1>3, <2>1, <2>2
<1>6. ASSUME NEW i \in 1..Len(t) PROVE w[Len(u) + Len(s) + i] = t[i]
  <2>1. Len(u) + Len(s) + i \in 1..Len(v) + Len(t) /\ ~(Len(u) + Len(s) + i <= Len(v))
        /\ (Len(u) + Len(s) + i) - Len(v) = i
    BY <1>1, <1>3
  <2>. QED
    BY <1>2, <2>1
<1>7. Len(w) = Len(u) + Len(s) + Len(t)
  BY <1>1, <1>2, <1>3
<1>. QED
  BY <1>2, <1>3, <1>4, <1>5, <1>6, <1>7 DEF w, v

LEMMA Middle ==
  ASSUME NEW S, NEW u \in Seq(S), NEW s \in Seq(S), NEW t \in Seq(S)
  PROVE  SubSeq(u \o s \o t, Len(u) + 1, Len(u) + Len(s)) = s
<1>. DEFINE w == u \o s \o t
            v == SubSeq(w, Len(u) + 1, Len(u) + Len(s))
<1>1. /\ Len(u) \in Nat /\ Len(s) \in Nat
      /\ \A i \in 1..Len(s) : w[Len(u) + i] = s[i] /\ s[i] \in S
  BY Parts, ElementOfSeq
<1>. HIDE DEF w
<1>2. Len(u) + 1 \in Int /\ Len(u) + Len(s) \in Int /\ (Len(u) + Len(s)) - (Len(u) + 1) + 1 = Len(s)
      /\ (Len(u) + 1 <= Len(u) + Len(s) <=> Len(s) # 0)
  BY <1>1
<1>3. ASSUME NEW i \in Len(u) + 1..Len(u) + Len(s) PROVE w[i] \in S
  <2>1. i - Len(u) \in 1..Len(s) /\ Len(u) + (i - Len(u)) = i
    BY <1>1
  <2>. QED
    BY <1>1, <2>1
<1>4. /\ v \in Seq(S)
      /\ Len(v) = IF Len(u) + 1 <= Len(u) + Len(s) THEN (Len(u) + Len(s)) - (Len(u) + 1) + 1 ELSE 0
      /\ \A i \in 1..(Len(u) + Len(s)) - (Len(u) + 1) + 1 : v[i] = w[(Len(u) + 1) + i - 1]
  BY <1>2, <1>3, SubSeqProperties
<1>. HIDE DEF v
<1>5. Len(v) = Len(s)
  BY <1>1, <1>2, <1>4
<1>6. \A i \in 1..Len(v) : v[i] = s[i]
  <2>1. TAKE i \in 1..Len(v)
  <2>2. (Len(u) + 1) + i - 1 = Len(u) + i
    BY <1>1
  <2>. QED
    BY <1>1, <1>2, <1>4, <1>5, <2>2
<1>7. v = s
  BY <1>4, <1>5, <1>6, SeqEqual
<1>. QED
  BY <1>7 DEF v, w

\* The same with nothing before, or nothing behind.
LEMMA Ends ==
  ASSUME NEW S, NEW s \in Seq(S), NEW t \in Seq(S)
  PROVE  /\ SubSeq(s \o t, 1, Len(s)) = s
         /\ SubSeq(s \o t, Len(s) + 1, Len(s) + Len(t)) = t
<1>1. <<>> \in Seq(S) /\ Len(<<>>) = 0 /\ Len(s) \in Nat /\ s \o t \in Seq(S)
  BY EmptySeq, LenProperties, ConcatProperties
<1>2. <<>> \o s \o t = s \o t /\ s \o t \o <<>> = s \o t
  BY <1>1, ConcatEmptySeq
<1>3. SubSeq(<<>> \o s \o t, Len(<<>>) + 1, Len(<<>>) + Len(s)) = s
  BY <1>1, Middle
<1>4. SubSeq(s \o t \o <<>>, Len(s) + 1, Len(s) + Len(t)) = t
  BY <1>1, Middle
<1>5. Len(<<>>) + 1 = 1 /\ Len(<<>>) + Len(s) = Len(s)
  BY <1>1
<1>. QED
  BY <1>2, <1>3, <1>4, <1>5

-----------------------------------------------------------------------------
(* The fields of a datagram.                                               *)

Slash == <<"/">>
Free == Char \ {"/"}

\* Text without '/' is text over the other characters.
LEMMA FreeText ==
  ASSUME NEW s \in Seq(Char)
  PROVE  Slashes(s) = {} <=> s \in Seq(Free)
<1>1. Len(s) \in Nat /\ DOMAIN s = 1..Len(s) /\ s \in [1..Len(s) -> Char]
  BY LenProperties
<1>2. ASSUME Slashes(s) = {} PROVE s \in Seq(Free)
  <2>1. \A i \in 1..Len(s) : s[i] \in Free
    BY <1>1, <1>2 DEF Slashes, Free
  <2>2. s \in [1..Len(s) -> Free]
    BY <1>1, <2>1
  <2>. QED
    BY <1>1, <2>2, SeqDef
<1>3. ASSUME s \in Seq(Free) PROVE Slashes(s) = {}
  <2>1. \A i \in 1..Len(s) : s[i] \in Free
    BY <1>3, ElementOfSeq
  <2>. QED
    BY <1>1, <2>1 DEF Slashes, Free
<1>. QED
  BY <1>2, <1>3

\* The characters that CompressStr keeps, after each position.
LEMMA Kept ==
  ASSUME NEW S, NEW s \in Seq(S)
  PROVE  \E f \in [0..Len(s) -> Seq(S)] :
           /\ f[0] = <<>> /\ CompressStr(s) = f[Len(s)]
           /\ \A i \in 1..Len(s) :
                f[i] = IF s[i] \in White THEN f[i - 1] ELSE Append(f[i - 1], s[i])
<1>. DEFINE n == Len(s)
            X == Seq(S)
            step == [i \in 1..n |-> [x \in X |-> IF s[i] \in White THEN x ELSE Append(x, s[i])]]
            Is(f) == f = [i \in 0..n |-> IF i = 0 THEN <<>> ELSE IF s[i] \in White THEN f[i - 1]
                                         ELSE Append(f[i - 1], s[i])]
            g == CHOOSE f : Is(f)
<1>1. n \in Nat /\ <<>> \in X /\ \A i \in 1..n : s[i] \in S
  BY LenProperties, EmptySeq, ElementOfSeq
<1>2. step \in Steps(n, X)
  <2>1. \A i \in 1..n, x \in X : (IF s[i] \in White THEN x ELSE Append(x, s[i])) \in X
    BY <1>1, AppendProperties
  <2>. HIDE DEF X
  <2>. QED
    BY <2>1 DEF Steps
<1>3. \E f : IsChain(f, n, X, <<>>, step)
  <2>. HIDE DEF step, n, X
  <2>. QED
    BY <1>1, <1>2, Recursion
<1>4. PICK f : f \in [0..n -> X] /\ f[0] = <<>> /\ \A i \in 1..n : f[i] = step[i][f[i - 1]]
  BY <1>3 DEF IsChain
<1>5. \A i \in 1..n : f[i] = IF s[i] \in White THEN f[i - 1] ELSE Append(f[i - 1], s[i])
  <2>1. TAKE i \in 1..n
  <2>2. f[i - 1] \in X
    <3>. HIDE DEF X
    <3>. QED
      BY <1>1, <1>4
  <2>. HIDE DEF X
  <2>. QED
    BY <1>4, <2>2
<1>. HIDE DEF step
<1>6. Is(f)
  <2>. HIDE DEF X
  <2>1. \A i \in 0..n : i # 0 => i \in 1..n
    BY <1>1
  <2>2. \A i \in 0..n : f[i] = IF i = 0 THEN <<>> ELSE IF s[i] \in White THEN f[i - 1]
                               ELSE Append(f[i - 1], s[i])
    BY <1>4, <1>5, <2>1
  <2>. QED
    BY <1>4, <2>2
<1>7. Is(g)
  <2>. HIDE DEF Is
  <2>. QED
    BY <1>6
<1>8. CompressStr(s) = g[n]
  BY DEF CompressStr
<1>9. \A i \in 0..n : f[i] = g[i]
  <2>1. n \in 0..n /\ 0 \in 0..n
    BY <1>1
  <2>2. g[0] = <<>>
    BY <1>7, <2>1
  <2>3. \A i \in 1..n : i \in 0..n /\ i # 0
    BY <1>1
  <2>4. \A i \in 1..n : g[i] = IF s[i] \in White THEN g[i - 1] ELSE Append(g[i - 1], s[i])
    BY <1>7, <2>3
  <2>. HIDE DEF g, Is, X, n
  <2>5. f[0] = g[0] /\ \A i \in 1..n : f[i - 1] = g[i - 1] => f[i] = g[i]
    BY <1>4, <1>5, <2>2, <2>4
  <2>. QED
    BY ONLY <1>1, <2>5, SameChain
<1>10. f[n] = g[n]
  BY <1>1, <1>9
<1>. HIDE DEF g, Is
<1>. QED
  BY <1>4, <1>5, <1>8, <1>10

LEMMA CompressedType ==
  ASSUME NEW S, NEW s \in Seq(S)
  PROVE  CompressStr(s) \in Seq(S)
<1>1. PICK f \in [0..Len(s) -> Seq(S)] : CompressStr(s) = f[Len(s)]
  BY Kept
<1>2. Len(s) \in 0..Len(s)
  BY LenProperties
<1>. QED
  BY <1>1, <1>2

\* A '/' stays.
LEMMA CompressedSlash == CompressStr(Slash) = Slash
<1>1. Slash \in Seq({"/"}) /\ Len(Slash) = 1 /\ Slash[1] = "/"
  BY DEF Slash
<1>2. PICK f \in [0..Len(Slash) -> Seq({"/"})] :
        /\ f[0] = <<>> /\ CompressStr(Slash) = f[Len(Slash)]
        /\ \A i \in 1..Len(Slash) : f[i] = IF Slash[i] \in White THEN f[i - 1] ELSE Append(f[i - 1], Slash[i])
  BY <1>1, Kept
<1>3. 1 \in 1..Len(Slash) /\ 1 - 1 = 0 /\ "/" \notin White
  BY <1>1 DEF White
<1>4. f[1] = Append(<<>>, "/")
  BY <1>1, <1>2, <1>3
<1>. QED
  BY <1>1, <1>2, <1>4 DEF Slash

\* Text is compressed piece by piece.
LEMMA CompressedParts ==
  ASSUME NEW S, NEW a \in Seq(S), NEW b \in Seq(S)
  PROVE  CompressStr(a \o b) = CompressStr(a) \o CompressStr(b)
<1>. DEFINE w == a \o b
            m == Len(a)
            n == Len(b)
<1>1. /\ w \in Seq(S) /\ Len(w) = m + n /\ m \in Nat /\ n \in Nat
      /\ \A i \in 1..m : w[i] = a[i] /\ a[i] \in S
      /\ \A i \in 1..n : w[m + i] = b[i] /\ b[i] \in S
  <2>1. w \in Seq(S) /\ Len(w) = m + n /\ m \in Nat /\ n \in Nat
        /\ \A i \in 1..m + n : w[i] = IF i <= m THEN a[i] ELSE b[i - m]
    BY ConcatProperties, LenProperties
  <2>2. (\A i \in 1..m : a[i] \in S) /\ \A i \in 1..n : b[i] \in S
    BY ElementOfSeq
  <2>. HIDE DEF w, m, n
  <2>3. \A i \in 1..m : w[i] = a[i]
    BY <2>1
  <2>4. \A i \in 1..n : w[m + i] = b[i]
    <3>1. TAKE i \in 1..n
    <3>2. m + i \in 1..m + n /\ ~(m + i <= m) /\ (m + i) - m = i
      BY <2>1
    <3>. QED
      BY <2>1, <3>2
  <2>. QED
    BY <2>1, <2>2, <2>3, <2>4
<1>2. PICK f :
        /\ f \in [0..m -> Seq(S)]
        /\ f[0] = <<>> /\ CompressStr(a) = f[m]
        /\ \A i \in 1..m : f[i] = IF a[i] \in White THEN f[i - 1] ELSE Append(f[i - 1], a[i])
  BY Kept
<1>3. PICK g :
        /\ g \in [0..n -> Seq(S)]
        /\ g[0] = <<>> /\ CompressStr(b) = g[n]
        /\ \A i \in 1..n : g[i] = IF b[i] \in White THEN g[i - 1] ELSE Append(g[i - 1], b[i])
  BY Kept
<1>. HIDE DEF w
<1>4. PICK h :
        /\ h \in [0..Len(w) -> Seq(S)]
        /\ h[0] = <<>> /\ CompressStr(w) = h[Len(w)]
        /\ \A i \in 1..Len(w) : h[i] = IF w[i] \in White THEN h[i - 1] ELSE Append(h[i - 1], w[i])
  <2>1. w \in Seq(S)
    BY <1>1
  <2>2. \E h \in [0..Len(w) -> Seq(S)] :
          /\ h[0] = <<>> /\ CompressStr(w) = h[Len(w)]
          /\ \A i \in 1..Len(w) : h[i] = IF w[i] \in White THEN h[i - 1] ELSE Append(h[i - 1], w[i])
    BY ONLY <2>1, Kept
  <2>. QED
    BY <2>2
<1>. HIDE DEF m, n
<1>5. \A i \in 0..m : h[i] = f[i]
  <2>1. \A i \in 1..m : i \in 1..Len(w)
    BY <1>1
  <2>2. h[0] = f[0] /\ \A i \in 1..m : h[i - 1] = f[i - 1] => h[i] = f[i]
    BY <1>1, <1>2, <1>4, <2>1
  <2>3. m \in Nat
    BY <1>1
  <2>. QED
    BY ONLY <2>2, <2>3, SameChain
<1>6. f[m] \in Seq(S) /\ h[m] = f[m] /\ \A i \in 0..n : g[i] \in Seq(S)
  BY <1>1, <1>2, <1>3, <1>5
<1>7. \A i \in 0..n : h[m + i] = f[m] \o g[i]
  <2>. DEFINE H == [i \in 0..n |-> h[m + i]]
              G == [i \in 0..n |-> f[m] \o g[i]]
  <2>1. H[0] = G[0]
    <3>1. m + 0 = m /\ 0 \in 0..n
      BY <1>1
    <3>2. f[m] \o <<>> = f[m]
      BY <1>6, ConcatEmptySeq
    <3>. QED
      BY <1>3, <1>6, <3>1, <3>2
  <2>2. ASSUME NEW i \in 1..n, H[i - 1] = G[i - 1] PROVE H[i] = G[i]
    <3>1. i \in 0..n /\ i - 1 \in 0..n /\ m + i \in 1..Len(w) /\ (m + i) - 1 = m + (i - 1)
      BY <1>1
    <3>2. h[(m + i) - 1] = f[m] \o g[i - 1]
      BY <2>2, <3>1
    <3>3. h[m + i] = IF b[i] \in White THEN f[m] \o g[i - 1] ELSE Append(f[m] \o g[i - 1], b[i])
      BY <1>1, <1>4, <3>1, <3>2
    <3>4. Append(f[m] \o g[i - 1], b[i]) = f[m] \o Append(g[i - 1], b[i])
      <4>. DEFINE x == f[m]
                  y == g[i - 1]
                  e == b[i]
      <4>1. x \in Seq(S) /\ y \in Seq(S) /\ e \in S
        BY <1>1, <1>6, <3>1
      <4>. HIDE DEF x, y, e
      <4>2. <<e>> \in Seq(S)
        BY <4>1
      <4>3. x \o y \in Seq(S)
        BY <4>1, ConcatProperties
      <4>4. Append(x \o y, e) = (x \o y) \o <<e>> /\ Append(y, e) = y \o <<e>>
        BY <4>1, <4>3, AppendIsConcat
      <4>5. (x \o y) \o <<e>> = x \o (y \o <<e>>)
        BY ONLY <4>1, <4>2, ConcatAssociative
      <4>. QED
        BY <4>4, <4>5 DEF x, y, e
    <3>. QED
      BY <1>3, <3>1, <3>3, <3>4
  <2>. HIDE DEF H, G
  <2>3. n \in Nat /\ \A i \in 1..n : H[i - 1] = G[i - 1] => H[i] = G[i]
    BY <1>1, <2>2
  <2>4. \A i \in 0..n : H[i] = G[i]
    BY ONLY <2>1, <2>3, SameChain
  <2>. QED
    BY <2>4 DEF H, G
<1>8. n \in 0..n
  BY <1>1
<1>9. h[Len(w)] = f[m] \o g[n]
  BY <1>1, <1>7, <1>8
<1>. QED
  BY <1>2, <1>3, <1>4, <1>9 DEF w

\* Where the '/' of a text are: those before one that is put in, it, and those
\* behind it.
LEMMA SlashesOf ==
  ASSUME NEW S, NEW u \in Seq(S), NEW t \in Seq(S), "/" \in S
  PROVE  /\ u \o Slash \o t \in Seq(S)
         /\ Len(u) \in Nat /\ Len(t) \in Nat /\ Len(u \o Slash \o t) = Len(u) + 1 + Len(t)
         /\ Len(u) + 1 \in Slashes(u \o Slash \o t)
         /\ Slashes(u \o Slash \o t) \subseteq 1..Len(u) + 1 + Len(t)
         /\ \A i \in 1..Len(u) : i \in Slashes(u \o Slash \o t) <=> i \in Slashes(u)
         /\ \A i \in 1..Len(t) : Len(u) + 1 + i \in Slashes(u \o Slash \o t) <=> i \in Slashes(t)
<1>1. PICK s \in Seq(S) : s = Slash /\ Len(s) = 1 /\ s[1] = "/"
  <2>1. Slash \in Seq(S) /\ Len(Slash) = 1 /\ Slash[1] = "/"
    BY DEF Slash
  <2>. QED
    BY <2>1
<1>. DEFINE w == u \o s \o t
<1>2. /\ w \in Seq(S) /\ Len(w) = Len(u) + Len(s) + Len(t)
      /\ DOMAIN w = 1..Len(u) + Len(s) + Len(t)
      /\ Len(u) \in Nat /\ Len(s) \in Nat /\ Len(t) \in Nat
      /\ \A i \in 1..Len(u) : w[i] = u[i]
      /\ \A i \in 1..Len(s) : w[Len(u) + i] = s[i]
      /\ \A i \in 1..Len(t) : w[Len(u) + Len(s) + i] = t[i]
  BY Parts
<1>3. DOMAIN u = 1..Len(u) /\ DOMAIN t = 1..Len(t)
  BY LenProperties
<1>. HIDE DEF w
<1>4. 1 \in 1..Len(s)
  BY <1>1
<1>5. w[Len(u) + 1] = "/"
  BY <1>1, <1>2, <1>4
<1>6. Len(u) + 1 \in Slashes(w)
  BY <1>1, <1>2, <1>5 DEF Slashes
<1>7. \A i \in 1..Len(u) : i \in Slashes(w) <=> i \in Slashes(u)
  <2>1. \A i \in 1..Len(u) : i \in DOMAIN w
    BY <1>1, <1>2
  <2>. QED
    BY <1>2, <1>3, <2>1 DEF Slashes
<1>8. \A i \in 1..Len(t) : Len(u) + 1 + i \in Slashes(w) <=> i \in Slashes(t)
  <2>1. TAKE i \in 1..Len(t)
  <2>2. Len(u) + 1 + i \in DOMAIN w /\ w[Len(u) + 1 + i] = t[i]
    BY <1>1, <1>2
  <2>. QED
    BY <1>3, <2>2 DEF Slashes
<1>9. Slashes(w) \subseteq 1..Len(u) + 1 + Len(t)
  BY <1>1, <1>2 DEF Slashes
<1>. QED
  BY <1>1, <1>2, <1>6, <1>7, <1>8, <1>9 DEF w

\* Text over Free has no '/'.
LEMMA NoSlash ==
  ASSUME NEW s \in Seq(Free)
  PROVE  s \in Seq(Char) /\ Slashes(s) = {}
<1>1. Free \subseteq Char
  BY DEF Free
<1>2. s \in Seq(Char)
  BY <1>1, SeqMonotonic
<1>. QED
  BY <1>2, FreeText

\* The first field ends at the first '/'.
LEMMA FirstField ==
  ASSUME NEW s \in Seq(Free), NEW t \in Seq(Char), "/" \in Char
  PROVE  LET w == s \o Slash \o t IN
         /\ Index(w) = Len(s) /\ Slashes(w) # {}
         /\ Slice(w, 0, Len(s)) = s
         /\ Slice(w, Len(s) + 1, Len(w)) = t
<1>. DEFINE w == s \o Slash \o t
            p == CHOOSE i \in Slashes(w) : \A j \in Slashes(w) : i <= j
<1>1. s \in Seq(Char) /\ Slashes(s) = {}
  BY NoSlash
<1>2. /\ w \in Seq(Char)
      /\ Len(s) \in Nat /\ Len(t) \in Nat /\ Len(w) = Len(s) + 1 + Len(t)
      /\ Len(s) + 1 \in Slashes(w)
      /\ Slashes(w) \subseteq 1..Len(s) + 1 + Len(t)
      /\ \A i \in 1..Len(s) : i \in Slashes(w) <=> i \in Slashes(s)
  BY <1>1, SlashesOf
<1>3. Slash \in Seq(Char) /\ Len(Slash) = 1
  BY DEF Slash
<1>4. SubSeq(w, 1, Len(s)) = s /\ SubSeq(w, Len(s) + 1 + 1, Len(s) + 1 + Len(t)) = t
  <2>1. <<>> \in Seq(Char) /\ Len(<<>>) = 0 /\ s \o Slash \in Seq(Char) /\ Len(s \o Slash) = Len(s) + 1
    BY <1>1, <1>3, EmptySeq, ConcatProperties
  <2>2. SubSeq((s \o Slash) \o t, Len(s \o Slash) + 1, Len(s \o Slash) + Len(t)) = t
    BY <2>1, Ends
  <2>3. Slash \o t \in Seq(Char) /\ w = s \o (Slash \o t)
    BY <1>1, <1>3, ConcatProperties, ConcatAssociative
  <2>4. SubSeq(s \o (Slash \o t), 1, Len(s)) = s
    BY <1>1, <2>3, Ends
  <2>. QED
    BY <2>1, <2>2, <2>3, <2>4
<1>. HIDE DEF w
<1>5. \A j \in Slashes(w) : Len(s) + 1 <= j
  BY <1>1, <1>2
<1>6. p \in Slashes(w) /\ \A j \in Slashes(w) : p <= j
  BY <1>2, <1>5
<1>7. p = Len(s) + 1
  BY <1>2, <1>5, <1>6
<1>8. Index(w) = IF Slashes(w) = {} THEN -1 ELSE p - 1
  BY DEF Index
<1>. HIDE DEF p
<1>9. Index(w) = Len(s)
  BY <1>2, <1>7, <1>8
<1>. QED
  BY <1>2, <1>4, <1>9 DEF Slice, w

\* The last one begins at the last '/'.
LEMMA LastField ==
  ASSUME NEW u \in Seq(Char), NEW t \in Seq(Free), "/" \in Char
  PROVE  LET w == u \o Slash \o t IN
         /\ LastIndex(w) = Len(u) /\ Slashes(w) # {}
         /\ Slice(w, Len(u) + 1, Len(w)) = t
<1>. DEFINE w == u \o Slash \o t
            p == CHOOSE i \in Slashes(w) : \A j \in Slashes(w) : i >= j
<1>1. t \in Seq(Char) /\ Slashes(t) = {}
  BY NoSlash
<1>2. /\ w \in Seq(Char)
      /\ Len(u) \in Nat /\ Len(t) \in Nat /\ Len(w) = Len(u) + 1 + Len(t)
      /\ Len(u) + 1 \in Slashes(w)
      /\ Slashes(w) \subseteq 1..Len(u) + 1 + Len(t)
      /\ \A i \in 1..Len(t) : Len(u) + 1 + i \in Slashes(w) <=> i \in Slashes(t)
  BY <1>1, SlashesOf
<1>3. Slash \in Seq(Char) /\ Len(Slash) = 1
  BY DEF Slash
<1>4. SubSeq(w, Len(u) + 1 + 1, Len(u) + 1 + Len(t)) = t
  <2>1. u \o Slash \in Seq(Char) /\ Len(u \o Slash) = Len(u) + 1
    <3>1. Slash \in Seq(Char)
      BY <1>3
    <3>2. u \o Slash \in Seq(Char) /\ Len(u \o Slash) = Len(u) + Len(Slash)
      BY ONLY <3>1, u \in Seq(Char), ConcatProperties
    <3>. QED
      BY <1>3, <3>2
  <2>2. SubSeq((u \o Slash) \o t, Len(u \o Slash) + 1, Len(u \o Slash) + Len(t)) = t
    BY <1>1, <2>1, Ends
  <2>. QED
    BY <2>1, <2>2
<1>. HIDE DEF w
<1>5. ASSUME NEW j \in Slashes(w) PROVE Len(u) + 1 >= j
  <2>1. SUFFICES ASSUME j > Len(u) + 1 PROVE FALSE
    BY <1>2
  <2>2. j - (Len(u) + 1) \in 1..Len(t) /\ Len(u) + 1 + (j - (Len(u) + 1)) = j
    BY <1>2, <2>1
  <2>. QED
    BY <1>1, <1>2, <2>2
<1>6. p \in Slashes(w) /\ \A j \in Slashes(w) : p >= j
  BY <1>2, <1>5
<1>7. p = Len(u) + 1
  BY <1>2, <1>5, <1>6
<1>8. LastIndex(w) = IF Slashes(w) = {} THEN -1 ELSE p - 1
  BY DEF LastIndex
<1>. HIDE DEF p
<1>9. LastIndex(w) = Len(u)
  BY <1>2, <1>7, <1>8
<1>. QED
  BY <1>2, <1>4, <1>9 DEF Slice, w

\* Fields and '/' can be put together in any order.
LEMMA Regroup ==
  ASSUME NEW a \in Seq(Char), NEW m \in Seq(Char), NEW l \in Seq(Char), "/" \in Char
  PROVE  a \o Slash \o (m \o Slash \o l) = a \o Slash \o m \o Slash \o l
<1>. DEFINE p == a \o Slash
            q == m \o Slash
<1>1. Slash \in Seq(Char)
  BY DEF Slash
<1>2. p \in Seq(Char) /\ q \in Seq(Char)
  BY <1>1, ConcatProperties
<1>3. p \o q = (p \o m) \o Slash
  <2>1. PICK x, y \in Seq(Char) : x = p /\ y = Slash
    BY <1>1, <1>2
  <2>2. (x \o m) \o y = x \o (m \o y)
    BY ONLY x \in Seq(Char), m \in Seq(Char), y \in Seq(Char), ConcatAssociative
  <2>. QED
    BY <2>1, <2>2
<1>. HIDE DEF p, q
<1>4. p \o (q \o l) = (p \o q) \o l
  BY ONLY <1>2, l \in Seq(Char), ConcatAssociative
<1>. QED
  BY <1>3, <1>4 DEF p, q

LEMMA Joined ==
  ASSUME NEW a \in Seq(Char), NEW b \in Seq(Char), "/" \in Char
  PROVE  a \o Slash \in Seq(Char) /\ a \o Slash \o b \in Seq(Char)
<1>1. Slash \in Seq(Char)
  BY DEF Slash
<1>2. a \o Slash \in Seq(Char)
  BY <1>1, ConcatProperties
<1>. QED
  BY <1>2, ConcatProperties

\* A datagram of three fields, the outer ones without '/'.
LEMMA ThreeFields ==
  ASSUME NEW data, NEW a \in Seq(Free), NEW m \in Seq(Char), NEW l \in Seq(Free), "/" \in Char,
         CompressStr(data) = a \o Slash \o m \o Slash \o l
  PROVE  Three(data) = [first |-> a, middle |-> m, last |-> l]
<1>. DEFINE s == CompressStr(data)
            t == m \o Slash \o l
            u == a \o Slash \o m
<1>1. a \in Seq(Char) /\ l \in Seq(Char) /\ Slash \in Seq(Char) /\ Len(Slash) = 1
  BY NoSlash DEF Slash
<1>2. t \in Seq(Char) /\ u \in Seq(Char)
  BY <1>1, Joined
<1>3. s = a \o Slash \o t /\ s = u \o Slash \o l
  BY <1>1, Regroup
<1>4. Index(s) = Len(a) /\ Slice(s, 0, Len(a)) = a /\ Slice(s, Len(a) + 1, Len(s)) = t
  <2>1. s = a \o Slash \o t
    BY <1>3
  <2>. HIDE DEF s, t
  <2>2. LET w == a \o Slash \o t IN
        Index(w) = Len(a) /\ Slice(w, 0, Len(a)) = a /\ Slice(w, Len(a) + 1, Len(w)) = t
    BY <1>2, FirstField
  <2>. QED
    BY <2>1, <2>2
<1>5. LastIndex(s) = Len(u) /\ Slice(s, Len(u) + 1, Len(s)) = l
  BY <1>2, <1>3, LastField
<1>6. Len(u) = Len(a) + 1 + Len(m) /\ Len(a) \in Nat /\ Len(m) \in Nat
  BY <1>1, SlashesOf
<1>7. Slice(s, Len(a) + 1, Len(u)) = m
  <2>1. a \o Slash \in Seq(Char) /\ Len(a \o Slash) = Len(a) + 1 /\ Slash \o l \in Seq(Char)
    <3>1. \A x, y \in Seq(Char) : x \o y \in Seq(Char) /\ Len(x \o y) = Len(x) + Len(y)
      BY ConcatProperties
    <3>. QED
      BY <1>1, <3>1
  <2>2. s = (a \o Slash) \o m \o (Slash \o l)
    BY <1>1, <1>2, <1>3, <2>1, ConcatAssociative
  <2>3. SubSeq((a \o Slash) \o m \o (Slash \o l), Len(a \o Slash) + 1, Len(a \o Slash) + Len(m)) = m
    BY ONLY <2>1, m \in Seq(Char), Middle
  <2>. QED
    BY <1>6, <2>1, <2>2, <2>3 DEF Slice
<1>8. Len(a) # -1 /\ Len(a) # Len(u)
  BY <1>6
<1>. HIDE DEF s, t, u
<1>. QED
  BY <1>4, <1>5, <1>7, <1>8 DEF Three, s

\* A datagram of two fields, the first without '/'.
LEMMA TwoFields ==
  ASSUME NEW data, NEW a \in Seq(Free), NEW t \in Seq(Char), "/" \in Char,
         CompressStr(data) = a \o Slash \o t
  PROVE  Two(data) = [first |-> a, last |-> t]
<1>. DEFINE s == CompressStr(data)
<1>1. Index(s) = Len(a) /\ Slice(s, 0, Len(a)) = a /\ Slice(s, Len(a) + 1, Len(s)) = t
  BY FirstField
<1>2. Len(a) # -1
  BY LenProperties
<1>. HIDE DEF s
<1>. QED
  BY <1>1, <1>2 DEF Two, s

\* A text with a '/' is cut at its last one.
LEMMA Cut ==
  ASSUME NEW t \in Seq(Char), "/" \in Char, t \notin Seq(Free)
  PROVE  \E t1 \in Seq(Char), t2 \in Seq(Free) : t = t1 \o Slash \o t2
<1>. DEFINE n == Len(t)
            Left == {n - i : i \in Slashes(t)}
<1>1. Slashes(t) # {} /\ n \in Nat /\ DOMAIN t = 1..n /\ \A i \in 1..n : t[i] \in Char
  BY FreeText, LenProperties, ElementOfSeq
<1>2. Left \subseteq Nat /\ Left # {}
  BY <1>1 DEF Slashes
<1>3. PICK k \in Left : \A j \in Left : ~(<<j, k>> \in OpToRel(<, Nat))
  <2>. HIDE DEF Left
  <2>. QED
    BY <1>2, NatLessThanWellFounded, WFMin, Zenon
<1>4. PICK p \in Slashes(t) : k = n - p
  BY <1>3
<1>5. p \in 1..n /\ t[p] = "/"
  BY <1>1, <1>4 DEF Slashes
<1>6. ASSUME NEW i \in p + 1..n PROVE t[i] \in Free
  <2>1. SUFFICES ASSUME t[i] = "/" PROVE FALSE
    BY <1>1, <1>5 DEF Free
  <2>2. i \in Slashes(t) /\ n - i \in Left /\ n - i < n - p /\ n - i \in Nat /\ n - p \in Nat
    BY <1>1, <1>5, <2>1 DEF Slashes
  <2>. QED
    BY <1>3, <1>4, <2>2 DEF OpToRel
<1>. DEFINE t1 == SubSeq(t, 1, p - 1)
            t2 == SubSeq(t, p + 1, n)
<1>7. t1 \in Seq(Char)
  <2>1. 1 \in Int /\ p - 1 \in Int /\ \A i \in 1..p - 1 : t[i] \in Char
    BY <1>1, <1>5
  <2>. QED
    BY <2>1, SubSeqProperties
<1>8. t2 \in Seq(Free)
  <2>1. p + 1 \in Int /\ n \in Int /\ \A i \in p + 1..n : t[i] \in Free
    BY <1>1, <1>5, <1>6
  <2>. HIDE DEF n
  <2>. QED
    BY <2>1, SubSeqProperties
<1>9. SubSeq(t, p, p) = Slash
  <2>. DEFINE v == SubSeq(t, p, p)
  <2>1. p \in Int /\ p - p + 1 = 1 /\ \A i \in p..p : t[i] \in Char
    BY <1>1, <1>5
  <2>2. v \in Seq(Char) /\ Len(v) = 1 /\ v[1] = t[p]
    <3>1. /\ v \in Seq(Char) /\ Len(v) = IF p <= p THEN p - p + 1 ELSE 0
          /\ \A i \in 1..p - p + 1 : v[i] = t[p + i - 1]
      BY ONLY <2>1, SubSeqProperties
    <3>2. 1 \in 1..p - p + 1 /\ p + 1 - 1 = p
      BY <2>1
    <3>3. v[1] = t[p + 1 - 1]
      BY <3>1, <3>2
    <3>. QED
      BY <2>1, <3>1, <3>2, <3>3
  <2>. HIDE DEF v
  <2>3. Slash \in Seq(Char) /\ Len(Slash) = 1 /\ Slash[1] = "/"
    BY DEF Slash
  <2>4. v = Slash
    BY <1>5, <2>2, <2>3, SeqEqual
  <2>. QED
    BY <2>4 DEF v
<1>10. t = t1 \o Slash \o t2
  <2>1. SubSeq(t, 1, p - 1) \o SubSeq(t, (p - 1) + 1, p) = SubSeq(t, 1, p)
    <3>1. 1 \in 1..Len(t) + 1 /\ p - 1 \in 1 - 1..Len(t) /\ p \in p - 1..Len(t)
      BY <1>1, <1>5
    <3>. QED
      BY <3>1, ConcatAdjacentSubSeq
  <2>2. SubSeq(t, 1, p) \o SubSeq(t, p + 1, Len(t)) = SubSeq(t, 1, Len(t))
    <3>1. 1 \in 1..Len(t) + 1 /\ p \in 1 - 1..Len(t) /\ Len(t) \in p..Len(t)
      BY <1>1, <1>5
    <3>. QED
      BY <3>1, ConcatAdjacentSubSeq
  <2>3. SubSeq(t, 1, Len(t)) = t /\ (p - 1) + 1 = p
    BY <1>5, SubSeqFull
  <2>. QED
    BY <1>9, <2>1, <2>2, <2>3
<1>. QED
  BY <1>7, <1>8, <1>10

\* The last field of a login does not depend on the one before it.
LEMMA LoginFields ==
  ASSUME NEW a \in Seq(Free), NEW l \in Seq(Char), "/" \in Char
  PROVE  \E x : \A m \in Seq(Char) : \A data :
           CompressStr(data) = a \o Slash \o m \o Slash \o l
             => Three(data).first = a /\ Three(data).last = x
<1>1. CASE l \in Seq(Free)
  <2>1. \A m \in Seq(Char) : \A data :
          CompressStr(data) = a \o Slash \o m \o Slash \o l
            => Three(data) = [first |-> a, middle |-> m, last |-> l]
    BY <1>1, ThreeFields
  <2>2. \A m \in Seq(Char) : \A data :
          CompressStr(data) = a \o Slash \o m \o Slash \o l
            => Three(data).first = a /\ Three(data).last = l
    <3>. TAKE m \in Seq(Char)
    <3>. TAKE data
    <3>. HAVE CompressStr(data) = a \o Slash \o m \o Slash \o l
    <3>1. Three(data) = [first |-> a, middle |-> m, last |-> l]
      BY <2>1
    <3>. QED
      BY <3>1
  <2>. QED
    BY <2>2
<1>2. CASE l \notin Seq(Free)
  <2>1. PICK t1 \in Seq(Char), t2 \in Seq(Free) : l = t1 \o Slash \o t2
    BY <1>2, Cut
  <2>2. a \in Seq(Char) /\ t2 \in Seq(Char)
    BY NoSlash
  <2>3. \A m \in Seq(Char) : \A data :
          CompressStr(data) = a \o Slash \o m \o Slash \o l
            => Three(data) = [first |-> a, middle |-> m \o Slash \o t1, last |-> t2]
    <3>1. SUFFICES ASSUME NEW m \in Seq(Char), NEW data, CompressStr(data) = a \o Slash \o m \o Slash \o l
                   PROVE  Three(data) = [first |-> a, middle |-> m \o Slash \o t1, last |-> t2]
      OBVIOUS
    <3>2. a \o Slash \o m \in Seq(Char) /\ m \o Slash \o t1 \in Seq(Char)
      BY <2>2, Joined
    <3>3. (a \o Slash \o m) \o Slash \o (t1 \o Slash \o t2)
            = (a \o Slash \o m) \o Slash \o t1 \o Slash \o t2
      <4>. DEFINE x == a \o Slash \o m
      <4>1. x \in Seq(Char)
        BY <3>2
      <4>. HIDE DEF x
      <4>2. x \o Slash \o (t1 \o Slash \o t2) = x \o Slash \o t1 \o Slash \o t2
        BY ONLY <2>2, <4>1, t1 \in Seq(Char), "/" \in Char, Regroup
      <4>. QED
        BY <4>2 DEF x
    <3>4. a \o Slash \o (m \o Slash \o t1) = a \o Slash \o m \o Slash \o t1
      <4>1. a \in Seq(Char)
        BY <2>2
      <4>. QED
        BY ONLY <4>1, m \in Seq(Char), t1 \in Seq(Char), "/" \in Char, Regroup, Zenon
    <3>5. CompressStr(data) = a \o Slash \o (m \o Slash \o t1) \o Slash \o t2
      BY <2>1, <3>1, <3>3, <3>4
    <3>. QED
      BY <3>2, <3>5, ThreeFields
  <2>4. \A m \in Seq(Char) : \A data :
          CompressStr(data) = a \o Slash \o m \o Slash \o l
            => Three(data).first = a /\ Three(data).last = t2
    <3>. TAKE m \in Seq(Char)
    <3>. TAKE data
    <3>. HAVE CompressStr(data) = a \o Slash \o m \o Slash \o l
    <3>1. Three(data) = [first |-> a, middle |-> m \o Slash \o t1, last |-> t2]
      BY <2>3
    <3>. QED
      BY <3>1
  <2>. QED
    BY <2>4
<1>. QED
  BY <1>1, <1>2

\* What CompressStr leaves of a request of two fields, and of three.
LEMMA CompressedRequest ==
  ASSUME NEW a \in Seq(Char), NEW b \in Seq(Char), NEW c \in Seq(Char), "/" \in Char
  PROVE  /\ CompressStr(a \o Slash \o b) = CompressStr(a) \o Slash \o CompressStr(b)
         /\ CompressStr(a \o Slash \o b \o Slash \o c)
              = CompressStr(a) \o Slash \o CompressStr(b) \o Slash \o CompressStr(c)
<1>1. Slash \in Seq(Char) /\ a \o Slash \in Seq(Char) /\ a \o Slash \o b \in Seq(Char)
      /\ (a \o Slash \o b) \o Slash \in Seq(Char)
  BY Joined DEF Slash
<1>2. \A x, y \in Seq(Char) : CompressStr(x \o y) = CompressStr(x) \o CompressStr(y)
  BY CompressedParts
<1>3. \A x \in Seq(Char) : CompressStr(x \o Slash) = CompressStr(x) \o Slash
  <2>1. PICK y \in Seq(Char) : y = Slash
    BY <1>1
  <2>2. \A x \in Seq(Char) : CompressStr(x \o y) = CompressStr(x) \o CompressStr(y)
    BY <1>2
  <2>. QED
    BY <2>1, <2>2, CompressedSlash
<1>4. CompressStr(a \o Slash \o b) = CompressStr(a) \o Slash \o CompressStr(b)
  <2>1. CompressStr((a \o Slash) \o b) = CompressStr(a \o Slash) \o CompressStr(b)
    BY <1>1, <1>2
  <2>2. CompressStr(a \o Slash) = CompressStr(a) \o Slash
    BY <1>3
  <2>. QED
    BY <2>1, <2>2
<1>5. CompressStr((a \o Slash \o b) \o Slash) = CompressStr(a \o Slash \o b) \o Slash
  BY <1>1, <1>3
<1>6. CompressStr((a \o Slash \o b) \o Slash \o c) = CompressStr((a \o Slash \o b) \o Slash) \o CompressStr(c)
  BY <1>1, <1>2
<1>. QED
  BY <1>4, <1>5, <1>6

\* A field of an answer ends at the next '/'.
LEMMA NextField ==
  ASSUME NEW u \in Seq(Char), NEW s \in Seq(Free), NEW t \in Seq(Char), "/" \in Char
  PROVE  /\ NextSlash(u \o s \o Slash \o t, Len(u)) = Len(u) + Len(s)
         /\ SubSeq(u \o s \o Slash \o t, Len(u) + 1, Len(u) + Len(s)) = s
         /\ u \o s \o Slash \in Seq(Char) /\ Len(u \o s \o Slash) = Len(u) + Len(s) + 1
         /\ Len(u) \in Nat /\ Len(s) \in Nat
<1>1. s \in Seq(Char) /\ Slashes(s) = {} /\ DOMAIN s = 1..Len(s)
  BY NoSlash, LenProperties
<1>. DEFINE v == u \o s
            w == v \o Slash \o t
            behind == {j \in Slashes(w) : j > Len(u)}
            p == CHOOSE j \in behind : \A k \in behind : j <= k
<1>2. /\ v \in Seq(Char) /\ Len(v) = Len(u) + Len(s) /\ DOMAIN v = 1..Len(v)
      /\ \A i \in 1..Len(u) + Len(s) : v[i] = IF i <= Len(u) THEN u[i] ELSE s[i - Len(u)]
  <2>1. /\ v \in Seq(Char) /\ Len(v) = Len(u) + Len(s)
        /\ \A i \in 1..Len(u) + Len(s) : v[i] = IF i <= Len(u) THEN u[i] ELSE s[i - Len(u)]
    BY <1>1, ConcatProperties
  <2>. HIDE DEF v
  <2>. QED
    BY <2>1, LenProperties
<1>3. Slash \in Seq(Char) /\ Len(Slash) = 1 /\ Len(u) \in Nat /\ Len(s) \in Nat
  BY LenProperties DEF Slash
<1>4. v \o Slash \in Seq(Char) /\ Len(v \o Slash) = Len(u) + Len(s) + 1
  <2>1. \A x, y \in Seq(Char) : x \o y \in Seq(Char) /\ Len(x \o y) = Len(x) + Len(y)
    BY ConcatProperties
  <2>. HIDE DEF v
  <2>. QED
    BY <1>2, <1>3, <2>1
<1>5. SubSeq(w, Len(u) + 1, Len(u) + Len(s)) = s
  <2>1. w = v \o (Slash \o t) /\ Slash \o t \in Seq(Char)
    <3>. HIDE DEF v
    <3>1. PICK y \in Seq(Char) : y = Slash
      BY <1>3
    <3>2. (v \o y) \o t = v \o (y \o t)
      BY ONLY <1>2, y \in Seq(Char), t \in Seq(Char), ConcatAssociative
    <3>. QED
      BY <1>2, <1>3, <3>1, <3>2, ConcatProperties
  <2>2. SubSeq(u \o s \o (Slash \o t), Len(u) + 1, Len(u) + Len(s)) = s
    <3>1. PICK y \in Seq(Char) : y = Slash \o t
      BY <2>1
    <3>2. SubSeq(u \o s \o y, Len(u) + 1, Len(u) + Len(s)) = s
      BY <1>1, Middle
    <3>. QED
      BY <3>1, <3>2
  <2>. QED
    BY <2>1, <2>2
<1>6. /\ Len(v) + 1 \in Slashes(w)
      /\ Slashes(w) \subseteq 1..Len(v) + 1 + Len(t)
      /\ \A i \in 1..Len(v) : i \in Slashes(w) <=> i \in Slashes(v)
      /\ Len(t) \in Nat
  <2>. HIDE DEF v
  <2>. QED
    BY <1>2, SlashesOf
<1>. HIDE DEF w, v
<1>7. ASSUME NEW i \in 1..Len(v), i > Len(u) PROVE i \notin Slashes(w)
  <2>1. i - Len(u) \in 1..Len(s) /\ v[i] = s[i - Len(u)]
    BY <1>2, <1>3, <1>7
  <2>2. i \notin Slashes(v)
    BY <1>1, <2>1 DEF Slashes
  <2>. QED
    BY <1>6, <2>2
<1>8. Len(v) + 1 \in behind /\ \A k \in behind : Len(v) + 1 <= k
  <2>1. Len(v) + 1 \in behind
    BY <1>2, <1>3, <1>6
  <2>2. ASSUME NEW k \in behind PROVE Len(v) + 1 <= k
    <3>1. k \in 1..Len(v) + 1 + Len(t) /\ k \in Slashes(w) /\ k > Len(u)
      BY <1>6, <2>2
    <3>. QED
      BY <1>2, <1>3, <1>7, <3>1
  <2>. QED
    BY <2>1, <2>2
<1>9. p \in behind /\ \A k \in behind : p <= k
  BY <1>8
<1>10. p = Len(v) + 1
  BY <1>2, <1>3, <1>6, <1>8, <1>9
<1>11. NextSlash(w, Len(u)) = IF behind = {} THEN 0 ELSE p - 1
  BY DEF NextSlash
<1>. HIDE DEF p, behind
<1>12. NextSlash(w, Len(u)) = Len(u) + Len(s)
  BY <1>2, <1>3, <1>8, <1>10, <1>11
<1>. QED
  BY <1>3, <1>4, <1>5, <1>12 DEF w, v

\* The last field goes to the end.
LEMMA FinalField ==
  ASSUME NEW u \in Seq(Char), NEW s \in Seq(Free)
  PROVE  /\ NextSlash(u \o s, Len(u)) = 0
         /\ SubSeq(u \o s, Len(u) + 1, Len(u \o s)) = s
<1>1. s \in Seq(Char) /\ Slashes(s) = {} /\ DOMAIN s = 1..Len(s) /\ Len(s) \in Nat /\ Len(u) \in Nat
  BY NoSlash, LenProperties
<1>. DEFINE w == u \o s
            behind == {j \in Slashes(w) : j > Len(u)}
<1>2. /\ w \in Seq(Char) /\ Len(w) = Len(u) + Len(s)
      /\ \A i \in 1..Len(u) + Len(s) : w[i] = IF i <= Len(u) THEN u[i] ELSE s[i - Len(u)]
  BY <1>1, ConcatProperties
<1>3. SubSeq(w, Len(u) + 1, Len(w)) = s
  BY <1>1, <1>2, Ends
<1>. HIDE DEF w
<1>4. DOMAIN w = 1..Len(w)
  BY <1>2, LenProperties
<1>5. ASSUME NEW j \in behind PROVE FALSE
  <2>1. j \in 1..Len(w) /\ j > Len(u) /\ w[j] = "/"
    BY <1>4, <1>5 DEF Slashes
  <2>2. j - Len(u) \in 1..Len(s) /\ w[j] = s[j - Len(u)]
    BY <1>1, <1>2, <2>1
  <2>. QED
    BY <1>1, <2>1, <2>2 DEF Slashes
<1>6. behind = {}
  BY <1>5
<1>7. NextSlash(w, Len(u)) = 0
  BY <1>6 DEF NextSlash
<1>. QED
  BY <1>3, <1>7 DEF w

\* What the client cuts out of an answer with four fields.
LEMMA AnswerRead ==
  ASSUME NEW i \in Seq(Free), NEW m \in Seq(Free), NEW n \in Seq(Free), NEW r \in Seq(Free),
         NEW code \in Seq(Char), Len(code) = 4, "/" \in Char
  PROVE  ReadMsg(code \o i \o Slash \o m \o Slash \o n \o Slash \o r)
           = [id |-> i, msg |-> m, name |-> n, room |-> r]
<1>. DEFINE u2 == code \o i \o Slash
            u3 == u2 \o m \o Slash
            u4 == u3 \o n \o Slash
            w == u4 \o r
<1>1. i \in Seq(Char) /\ m \in Seq(Char) /\ n \in Seq(Char) /\ r \in Seq(Char)
  BY NoSlash
<1>0. \A x, y, z \in Seq(Char) : x \o Slash \o (y \o Slash \o z) = x \o Slash \o y \o Slash \o z
  <2>. TAKE x, y, z \in Seq(Char)
  <2>. QED
    BY ONLY x \in Seq(Char), y \in Seq(Char), z \in Seq(Char), "/" \in Char, Regroup, Zenon
<1>2. u2 \in Seq(Char) /\ Len(u2) = 4 + Len(i) + 1 /\ Len(i) \in Nat
  BY <1>1, NextField
<1>. HIDE DEF u2
<1>3. u3 \in Seq(Char) /\ Len(u3) = Len(u2) + Len(m) + 1 /\ Len(m) \in Nat
  BY <1>1, <1>2, NextField
<1>. HIDE DEF u3
<1>4. u4 \in Seq(Char) /\ Len(u4) = Len(u3) + Len(n) + 1 /\ Len(n) \in Nat
  BY <1>1, <1>3, NextField
<1>5. NextSlash(w, Len(u3)) = Len(u3) + Len(n) /\ SubSeq(w, Len(u3) + 1, Len(u3) + Len(n)) = n
  <2>1. /\ NextSlash(u3 \o n \o Slash \o r, Len(u3)) = Len(u3) + Len(n)
        /\ SubSeq(u3 \o n \o Slash \o r, Len(u3) + 1, Len(u3) + Len(n)) = n
    <3>1. u3 \in Seq(Char) /\ r \in Seq(Char)
      BY <1>1, <1>3
    <3>. QED
      BY ONLY <3>1, n \in Seq(Free), "/" \in Char, NextField
  <2>. QED
    BY <2>1
<1>6. /\ NextSlash(w, Len(u2)) = Len(u2) + Len(m)
      /\ SubSeq(w, Len(u2) + 1, Len(u2) + Len(m)) = m
  <2>. DEFINE t == n \o Slash \o r
              x == u2 \o m
  <2>1. t \in Seq(Char) /\ x \in Seq(Char)
    BY <1>1, <1>2, Joined, ConcatProperties
  <2>2. w = x \o Slash \o t
    <3>. HIDE DEF x
    <3>1. x \o Slash \o (n \o Slash \o r) = x \o Slash \o n \o Slash \o r
      BY ONLY <1>0, <1>1, <2>1, ZenonT(60)
    <3>. QED
      BY <3>1 DEF x, u3
  <2>. HIDE DEF t
  <2>3. /\ NextSlash(u2 \o m \o Slash \o t, Len(u2)) = Len(u2) + Len(m)
        /\ SubSeq(u2 \o m \o Slash \o t, Len(u2) + 1, Len(u2) + Len(m)) = m
    BY <1>2, <2>1, NextField
  <2>. HIDE DEF w
  <2>. QED
    BY <2>2, <2>3
<1>7. NextSlash(w, 4) = 4 + Len(i) /\ SubSeq(w, 5, 4 + Len(i)) = i
  <2>. DEFINE t == n \o Slash \o r
              x == code \o i
              y == m \o Slash \o t
  <2>1. t \in Seq(Char) /\ x \in Seq(Char)
    BY <1>1, Joined, ConcatProperties
  <2>2. w = x \o Slash \o m \o Slash \o t
    <3>. DEFINE z == u2 \o m
    <3>1. z \in Seq(Char)
      BY <1>1, <1>2, ConcatProperties
    <3>. HIDE DEF z
    <3>2. z \o Slash \o (n \o Slash \o r) = z \o Slash \o n \o Slash \o r
      BY ONLY <1>0, <1>1, <3>1, ZenonT(60)
    <3>. QED
      BY <3>2 DEF z, u2, u3
  <2>. HIDE DEF t
  <2>3. x \o Slash \o (m \o Slash \o t) = x \o Slash \o m \o Slash \o t
    <3>. HIDE DEF x
    <3>. QED
      BY ONLY <1>0, <1>1, <2>1, ZenonT(60)
  <2>4. y \in Seq(Char)
    BY <1>1, <2>1, Joined
  <2>5. w = x \o Slash \o y
    BY <2>2, <2>3
  <2>. HIDE DEF y, w
  <2>6. /\ NextSlash(code \o i \o Slash \o y, Len(code)) = Len(code) + Len(i)
        /\ SubSeq(code \o i \o Slash \o y, Len(code) + 1, Len(code) + Len(i)) = i
    BY <2>4, NextField
  <2>7. Len(code) + 1 = 5
    OBVIOUS
  <2>. QED
    BY <2>5, <2>6, <2>7
<1>. HIDE DEF u4
<1>8. NextSlash(w, Len(u4)) = 0 /\ SubSeq(w, Len(u4) + 1, Len(w)) = r
  BY <1>4, FinalField
<1>. HIDE DEF w
<1>. DEFINE arr1 == 4 + Len(i)
            arr2 == Len(u2) + Len(m)
            arr3 == Len(u3) + Len(n)
<1>9. /\ arr1 # 0 /\ arr2 # 0 /\ arr3 # 0 /\ arr1 + 1 = Len(u2) /\ arr2 + 1 = Len(u3) /\ arr3 + 1 = Len(u4)
      /\ arr1 + 1 # 0 /\ arr2 + 1 # 0
  BY <1>2, <1>3, <1>4
<1>10. Mid(w, 4, arr1 - 4) = i
  BY <1>2, <1>7 DEF Mid
<1>11. Mid(w, arr1 + 1, arr2 - arr1 - 1) = m
  <2>1. arr2 - arr1 - 1 = Len(m) /\ ~(Len(m) < 0)
    BY <1>2, <1>3
  <2>2. arr1 + 1 = Len(u2)
    BY <1>9
  <2>. HIDE DEF arr1, arr2
  <2>. QED
    BY <1>6, <2>1, <2>2 DEF Mid
<1>12. Mid(w, arr2 + 1, arr3 - arr2 - 1) = n
  <2>1. arr3 - arr2 - 1 = Len(n) /\ ~(Len(n) < 0)
    BY <1>2, <1>3, <1>4
  <2>2. arr2 + 1 = Len(u3)
    BY <1>9
  <2>. HIDE DEF arr2, arr3
  <2>. QED
    BY <1>5, <2>1, <2>2 DEF Mid
<1>13. Mid(w, arr3 + 1, -1) = r
  <2>1. arr3 + 1 = Len(u4)
    BY <1>9
  <2>. HIDE DEF arr3
  <2>. QED
    BY <1>8, <2>1 DEF Mid
<1>14. NextSlash(w, 4) = arr1 /\ NextSlash(w, arr1 + 1) = arr2 /\ NextSlash(w, arr2 + 1) = arr3
       /\ NextSlash(w, arr3 + 1) = 0
  BY <1>5, <1>6, <1>7, <1>8, <1>9
<1>. HIDE DEF arr1, arr2, arr3
<1>15. ReadMsg(w) = [id |-> i, msg |-> m, name |-> n, room |-> r]
  BY <1>9, <1>10, <1>11, <1>12, <1>13, <1>14 DEF ReadMsg
<1>. QED
  BY <1>15 DEF w, u4, u3, u2

-----------------------------------------------------------------------------
(* The invariant: a task is one of the inputs, and once it is done its     *)
(* result is what the conversion makes of it.                              *)

TextInv == task.kind = "text" =>
  task.in \in TextRows /\ (done => result = ReadTextRow(TextRow(task.in), Len(task.in)))

BinaryInv == task.kind = "binary" =>
  task.in \in BinaryRows
    /\ (done => result = ReadBinaryRow(BinaryRow(task.in.cols, task.in.row), task.in.cols))

\* What Execute makes of arguments.
Sent(e) ==
  LET packet == ExecutePacket(e.args, e.max, 4)
      length == PacketLength(packet)
  IN  [args |-> IF length > e.max THEN <<>> ELSE Executed(packet), length |-> length, long |-> packet.long]

ExecuteInv == task.kind = "execute" => task.in \in Executions /\ (done => result = Sent(task.in))

\* What Query makes of them.
Asked(q) ==
  LET query == Interpolate(<<"x", "?", "y", "?">>, q.args, q.nb, q.max) IN
  IF query = Error THEN <<>> ELSE Lex(query.is, q.nb)

QueryInv == task.kind = "query" => task.in \in Queries /\ (done => result = Asked(task.in))

\* What Talk makes of a chat.
Talked(c) ==
  [shown |-> ReadMsg(ChatAnswer(ChatRequest(c.room, c.id, c.text), c.name).bytes),
   join  |-> Two(JoinRequest(c.room, c.id)),
   quit  |-> Two(QuitRequest(c.id, c.room)),
   login |-> Three(LoginRequest(c.id, c.name, c.text)),
   again |-> Three(LoginRequest(c.id, c.room, c.text))]

ChatInv == task.kind = "chat" => task.in \in Chats /\ (done => result = Talked(task.in))

IInv == TextInv /\ BinaryInv /\ ExecuteInv /\ QueryInv /\ ChatInv

LEMMA InitHolds == Init => IInv
<1>. SUFFICES ASSUME Init PROVE IInv
  OBVIOUS
<1>. USE DEF Init, Task
<1>1. TextInv
  BY DEF TextInv
<1>2. BinaryInv
  BY DEF BinaryInv
<1>3. ExecuteInv
  BY DEF ExecuteInv
<1>4. QueryInv
  BY DEF QueryInv
<1>5. ChatInv
  BY DEF ChatInv
<1>. QED
  BY <1>1, <1>2, <1>3, <1>4, <1>5 DEF IInv

LEMMA NextHolds == IInv /\ [Next]_vars => IInv'
<1>. SUFFICES ASSUME IInv, [Next]_vars PROVE IInv'
  OBVIOUS
<1>1. CASE ReadText
  BY <1>1 DEF ReadText, Do, IInv, TextInv, BinaryInv, ExecuteInv, QueryInv, ChatInv
<1>2. CASE ReadBinary
  BY <1>2 DEF ReadBinary, Do, IInv, TextInv, BinaryInv, ExecuteInv, QueryInv, ChatInv
<1>3. CASE Execute
  BY <1>3 DEF Execute, Sent, Do, IInv, TextInv, BinaryInv, ExecuteInv, QueryInv, ChatInv
<1>4. CASE Query
  BY <1>4 DEF Query, Asked, Do, IInv, TextInv, BinaryInv, ExecuteInv, QueryInv, ChatInv
<1>5. CASE DateColumn
  BY <1>5 DEF DateColumn, Do, IInv, TextInv, BinaryInv, ExecuteInv, QueryInv, ChatInv
<1>6. CASE TimeColumn
  BY <1>6 DEF TimeColumn, Do, IInv, TextInv, BinaryInv, ExecuteInv, QueryInv, ChatInv
<1>7. CASE Configure
  BY <1>7 DEF Configure, Do, IInv, TextInv, BinaryInv, ExecuteInv, QueryInv, ChatInv
<1>8. CASE Talk
  BY <1>8 DEF Talk, Talked, Do, IInv, TextInv, BinaryInv, ExecuteInv, QueryInv, ChatInv
<1>9. CASE UNCHANGED vars
  BY <1>9 DEF vars, IInv, TextInv, BinaryInv, ExecuteInv, QueryInv, ChatInv
<1>. QED
  BY <1>1, <1>2, <1>3, <1>4, <1>5, <1>6, <1>7, <1>8, <1>9 DEF Next

\* Whatever the inputs are, what a task leaves is the result of its
\* conversion and of nothing else.
THEOREM CodecsInvariance == Spec => []IInv
<1>. QED
  BY InitHolds, NextHolds, PTL DEF Spec

-----------------------------------------------------------------------------
(* The chat.                                                               *)

\* The texts of a chat that came from the inputs.
LEMMA ChatTexts ==
  ASSUME NEW c \in Chats
  PROVE  /\ c.room \in Seq(Char) /\ c.id \in Seq(Char) /\ c.name \in Seq(Char) /\ c.text \in Seq(Char)
         /\ {"/", "0", "1", "3"} \subseteq Char
BY CodecsAssumption DEF CodecsAssumption

LEMMA TalkShown ==
  ASSUME NEW c \in Chats, c.room \in Seq(Free), c.id \in Seq(Free), c.name \in Seq(Free), c.text \in Seq(Free)
  PROVE  Talked(c).shown = [id |-> CompressStr(c.id), msg |-> CompressStr(c.text),
                            name |-> c.name, room |-> CompressStr(c.room)]
<1>. DEFINE data == ChatRequest(c.room, c.id, c.text)
            r == CompressStr(c.room)
            i == CompressStr(c.id)
            m == CompressStr(c.text)
            code == <<"1", "0", "0", "3">>
<1>1. r \in Seq(Free) /\ i \in Seq(Free) /\ m \in Seq(Free) /\ i \in Seq(Char) /\ "/" \in Char
  BY CompressedType, NoSlash, ChatTexts
<1>2. CompressStr(data) = r \o Slash \o i \o Slash \o m
  BY ChatTexts, CompressedRequest DEF ChatRequest, Slash
<1>. HIDE DEF data, r, i, m
<1>3. Three(data) = [first |-> r, middle |-> i, last |-> m]
  BY <1>1, <1>2, ThreeFields
<1>4. Three(data) # Panics
  <2>1. "error" \in DOMAIN Panics /\ "error" \notin DOMAIN Three(data)
    BY <1>3 DEF Panics
  <2>. QED
    BY <2>1
<1>5. ChatAnswer(data, c.name).bytes = code \o i \o Slash \o m \o Slash \o c.name \o Slash \o r
  <2>. DEFINE t == Three(data)
              all == code \o t.middle \o Slash \o t.last \o Slash \o c.name \o Slash \o t.first
  <2>1. ChatAnswer(data, c.name) = IF t = Panics THEN Panics ELSE [bytes |-> all]
    BY DEF ChatAnswer, Slash
  <2>2. t.first = r /\ t.middle = i /\ t.last = m
    BY <1>3
  <2>3. all = code \o i \o Slash \o m \o Slash \o c.name \o Slash \o r
    <3>. HIDE DEF t, code
    <3>. QED
      BY <2>2
  <2>4. t # Panics
    BY <1>4
  <2>. HIDE DEF all, t
  <2>5. ChatAnswer(data, c.name).bytes = all
    BY <2>1, <2>4
  <2>. QED
    BY <2>3, <2>5
<1>6. code \in Seq(Char) /\ Len(code) = 4
  <2>1. "0" \in Char /\ "1" \in Char /\ "3" \in Char
    BY ChatTexts
  <2>. QED
    BY <2>1
<1>. HIDE DEF code
<1>7. ReadMsg(code \o i \o Slash \o m \o Slash \o c.name \o Slash \o r)
        = [id |-> i, msg |-> m, name |-> c.name, room |-> r]
  BY <1>1, <1>6, AnswerRead
<1>. QED
  BY <1>5, <1>7 DEF Talked, data, r, i, m

LEMMA TalkQuits ==
  ASSUME NEW c \in Chats, c.room \in Seq(Free), c.id \in Seq(Free)
  PROVE  Talked(c).join.first = Talked(c).quit.last /\ Talked(c).join.last = Talked(c).quit.first
<1>. DEFINE join == JoinRequest(c.room, c.id)
            quit == QuitRequest(c.id, c.room)
            r == CompressStr(c.room)
            i == CompressStr(c.id)
<1>1. r \in Seq(Free) /\ i \in Seq(Free) /\ r \in Seq(Char) /\ i \in Seq(Char) /\ "/" \in Char
  BY CompressedType, NoSlash, ChatTexts
<1>2. CompressStr(join) = r \o Slash \o i
  BY ChatTexts, CompressedRequest DEF JoinRequest, Slash
<1>3. CompressStr(quit) = i \o Slash \o r
  BY ChatTexts, CompressedRequest DEF QuitRequest, Slash
<1>. HIDE DEF join, quit, r, i
<1>4. Two(join) = [first |-> r, last |-> i]
  BY <1>1, <1>2, TwoFields
<1>5. Two(quit) = [first |-> i, last |-> r]
  BY <1>1, <1>3, TwoFields
<1>. QED
  BY <1>4, <1>5 DEF Talked, join, quit

LEMMA TalkLogin ==
  ASSUME NEW c \in Chats, c.id \in Seq(Free)
  PROVE  /\ Talked(c).login.first = Talked(c).again.first
         /\ Talked(c).login.last = Talked(c).again.last
<1>. DEFINE login == LoginRequest(c.id, c.name, c.text)
            again == LoginRequest(c.id, c.room, c.text)
            i == CompressStr(c.id)
            n == CompressStr(c.name)
            r == CompressStr(c.room)
            t == CompressStr(c.text)
<1>1. i \in Seq(Free) /\ n \in Seq(Char) /\ r \in Seq(Char) /\ t \in Seq(Char) /\ "/" \in Char
  BY CompressedType, ChatTexts
<1>2. CompressStr(login) = i \o Slash \o n \o Slash \o t
  BY ChatTexts, CompressedRequest DEF LoginRequest, Slash
<1>3. CompressStr(again) = i \o Slash \o r \o Slash \o t
  BY ChatTexts, CompressedRequest DEF LoginRequest, Slash
<1>. HIDE DEF login, again, i, n, r, t
<1>4. Three(login).first = Three(again).first /\ Three(login).last = Three(again).last
  <2>1. PICK x : \A m \in Seq(Char) : \A data :
          CompressStr(data) = i \o Slash \o m \o Slash \o t
            => Three(data).first = i /\ Three(data).last = x
    BY <1>1, LoginFields
  <2>. QED
    BY <1>1, <1>2, <1>3, <2>1
<1>. QED
  BY <1>4 DEF Talked, login, again

\* Client and server cut the same fields out of a datagram, whatever the
\* texts are: a message is shown as typed but for white space, a user leaves
\* the room he joined, and a login finds the password of the sign-up.
THEOREM FieldsCut == Spec => []FieldsIntact
<1>1. IInv => FieldsIntact
  <2>. SUFFICES ASSUME IInv, Done("chat")
                PROVE  ChatIntact /\ QuitsWhatWasJoined /\ SameCredentials
    BY DEF FieldsIntact
  <2>. DEFINE c == task.in
  <2>1. c \in Chats /\ result = Talked(c)
    BY DEF IInv, ChatInv, Done
  <2>2. c.room \in Seq(Char) /\ c.id \in Seq(Char) /\ c.name \in Seq(Char) /\ c.text \in Seq(Char)
    BY <2>1, ChatTexts
  <2>3. SlashFree => c.room \in Seq(Free) /\ c.id \in Seq(Free) /\ c.name \in Seq(Free) /\ c.text \in Seq(Free)
    BY <2>2, FreeText DEF SlashFree
  <2>4. Slashes(c.id) = {} => c.id \in Seq(Free)
    BY <2>2, FreeText
  <2>5. ChatIntact
    BY <2>1, <2>3, TalkShown DEF ChatIntact
  <2>6. QuitsWhatWasJoined
    BY <2>1, <2>3, TalkQuits DEF QuitsWhatWasJoined
  <2>7. SameCredentials
    BY <2>1, <2>4, TalkLogin DEF SameCredentials
  <2>. QED
    BY <2>5, <2>6, <2>7
<1>. QED
  BY <1>1, CodecsInvariance, PTL

-----------------------------------------------------------------------------
(* Numbers in bytes.                                                       *)

Byte == 0..255

\* What four bytes can hold ends here.
Limit == 4294967296

LEMMA FunctionSeq ==
  ASSUME NEW S, NEW n \in Nat, NEW f \in [1..n -> S]
  PROVE  f \in Seq(S) /\ Len(f) = n
<1>1. f \in Seq(S)
  BY SeqDef
<1>2. DOMAIN f = 1..Len(f) /\ Len(f) \in Nat
  BY <1>1, LenProperties
<1>3. DOMAIN f = 1..n
  OBVIOUS
<1>. HIDE DEF Seq
<1>. QED
  BY <1>1, <1>2, <1>3

LEMMA Powers ==
  /\ 256^0 = 1 /\ 256^1 = 256 /\ 256^2 = 65536 /\ 256^3 = 16777216
  /\ 2^7 = 128 /\ 2^8 = 256 /\ 2^15 = 32768 /\ 2^16 = 65536
BY SMT

\* The i-th byte of a number.
ByteOf(n, i) == IF i > 4 THEN 0 ELSE (n \div 256^(i - 1)) % 256

LEMMA BytesAre ==
  ASSUME NEW n \in Nat
  PROVE  /\ ByteOf(n, 1) = n % 256 /\ ByteOf(n, 2) = (n \div 256) % 256
         /\ ByteOf(n, 3) = (n \div 65536) % 256 /\ ByteOf(n, 4) = (n \div 16777216) % 256
         /\ ByteOf(n, 5) = 0 /\ ByteOf(n, 6) = 0 /\ ByteOf(n, 7) = 0 /\ ByteOf(n, 8) = 0
<1>1. 1 - 1 = 0 /\ 2 - 1 = 1 /\ 3 - 1 = 2 /\ 4 - 1 = 3 /\ n \div 1 = n
  OBVIOUS
<1>. QED
  BY <1>1, Powers DEF ByteOf

LEMMA BytesOf ==
  ASSUME NEW n \in Nat, NEW w \in Nat
  PROVE  /\ ToBytes(n, w) \in Seq(Byte) /\ Len(ToBytes(n, w)) = w
         /\ \A i \in 1..w : ToBytes(n, w)[i] = ByteOf(n, i)
<1>. DEFINE b == ToBytes(n, w)
<1>1. b = [i \in 1..w |-> ByteOf(n, i)]
  BY DEF ToBytes, ByteOf
<1>2. ASSUME NEW i \in 1..w PROVE ByteOf(n, i) \in Byte
  <2>1. CASE i > 4
    BY <2>1 DEF ByteOf, Byte
  <2>2. CASE ~(i > 4)
    <3>1. i = 1 \/ i = 2 \/ i = 3 \/ i = 4
      BY <2>2
    <3>2. n \div 256 \in Nat /\ n \div 65536 \in Nat /\ n \div 16777216 \in Nat
      OBVIOUS
    <3>3. \A x \in Nat : x % 256 \in Byte
      BY DEF Byte
    <3>4. ByteOf(n, 1) \in Byte /\ ByteOf(n, 2) \in Byte /\ ByteOf(n, 3) \in Byte /\ ByteOf(n, 4) \in Byte
      <4>1. /\ ByteOf(n, 1) = n % 256 /\ ByteOf(n, 2) = (n \div 256) % 256
            /\ ByteOf(n, 3) = (n \div 65536) % 256 /\ ByteOf(n, 4) = (n \div 16777216) % 256
            /\ ByteOf(n, 5) = 0 /\ ByteOf(n, 6) = 0 /\ ByteOf(n, 7) = 0 /\ ByteOf(n, 8) = 0
        BY ONLY n \in Nat, BytesAre
      <4>. QED
        BY <3>2, <3>3, <4>1
    <3>. QED
      BY <3>1, <3>4
  <2>. QED
    BY <2>1, <2>2
<1>. HIDE DEF b
<1>3. b \in [1..w -> Byte]
  BY <1>1, <1>2
<1>4. b \in Seq(Byte) /\ Len(b) = w
  BY <1>3, FunctionSeq
<1>. QED
  BY <1>1, <1>4 DEF b

\* The steps of Number.
LEMMA NumberSteps ==
  ASSUME NEW b \in Seq(Byte)
  PROVE  \E f : /\ f[0] = 0 /\ Number(b) = f[Len(b)] /\ f \in [0..Len(b) -> Nat]
                /\ \A i \in 1..Len(b) : f[i] = b[Len(b) + 1 - i] + 256 * f[i - 1]
<1>. DEFINE n == Len(b)
            X == Nat
            step == [i \in 1..n |-> [x \in X |-> b[n + 1 - i] + 256 * x]]
            Is(f) == f = [i \in 0..n |-> IF i = 0 THEN 0 ELSE b[n + 1 - i] + 256 * f[i - 1]]
            g == CHOOSE f : Is(f)
<1>1. n \in Nat /\ \A i \in 1..n : b[n + 1 - i] \in Nat
  <2>1. n \in Nat
    BY LenProperties
  <2>2. \A i \in 1..n : n + 1 - i \in 1..n
    BY <2>1
  <2>3. \A j \in 1..n : b[j] \in Byte
    BY ElementOfSeq
  <2>4. Byte \subseteq Nat
    BY DEF Byte
  <2>5. \A i \in 1..n : b[n + 1 - i] \in Byte
    BY <2>2, <2>3
  <2>. HIDE DEF n
  <2>. QED
    BY <2>1, <2>4, <2>5
<1>2. step \in Steps(n, X)
  <2>1. \A i \in 1..n, x \in X : b[n + 1 - i] + 256 * x \in X
    BY <1>1
  <2>. HIDE DEF X
  <2>. QED
    BY <2>1 DEF Steps
<1>3. \E f : IsChain(f, n, X, 0, step)
  <2>1. 0 \in X
    OBVIOUS
  <2>. HIDE DEF step, n, X
  <2>. QED
    BY <1>1, <1>2, <2>1, Recursion
<1>4. PICK f : f \in [0..n -> X] /\ f[0] = 0 /\ \A i \in 1..n : f[i] = step[i][f[i - 1]]
  BY <1>3 DEF IsChain
<1>5. \A i \in 1..n : f[i] = b[n + 1 - i] + 256 * f[i - 1]
  <2>1. TAKE i \in 1..n
  <2>2. f[i - 1] \in X
    <3>. HIDE DEF X
    <3>. QED
      BY <1>1, <1>4
  <2>. HIDE DEF X
  <2>. QED
    BY <1>4, <2>2
<1>. HIDE DEF step
<1>6. Is(f)
  <2>. HIDE DEF X
  <2>1. \A i \in 0..n : i # 0 => i \in 1..n
    BY <1>1
  <2>2. \A i \in 0..n : f[i] = IF i = 0 THEN 0 ELSE b[n + 1 - i] + 256 * f[i - 1]
    BY <1>4, <1>5, <2>1
  <2>. QED
    BY <1>4, <2>2
<1>7. Is(g)
  <2>. HIDE DEF Is
  <2>. QED
    BY <1>6
<1>8. Number(b) = g[n]
  BY DEF Number
<1>9. \A i \in 0..n : f[i] = g[i]
  <2>1. n \in 0..n /\ 0 \in 0..n
    BY <1>1
  <2>2. g[0] = 0
    BY <1>7, <2>1
  <2>3. \A i \in 1..n : i \in 0..n /\ i # 0
    BY <1>1
  <2>4. \A i \in 1..n : g[i] = b[n + 1 - i] + 256 * g[i - 1]
    BY <1>7, <2>3
  <2>. HIDE DEF g, Is, X, n
  <2>5. f[0] = g[0] /\ \A i \in 1..n : f[i - 1] = g[i - 1] => f[i] = g[i]
    BY <1>4, <1>5, <2>2, <2>4
  <2>. QED
    BY ONLY <1>1, <2>5, SameChain
<1>10. f[n] = g[n]
  BY <1>1, <1>9
<1>. HIDE DEF g, Is
<1>. QED
  BY <1>4, <1>5, <1>8, <1>10

\* Numbers of one, two, three and eight bytes.
LEMMA ShortNumbers ==
  ASSUME NEW b \in Seq(Byte)
  PROVE  /\ Len(b) = 1 => Number(b) = b[1]
         /\ Len(b) = 2 => Number(b) = b[1] + 256 * b[2]
         /\ Len(b) = 3 => Number(b) = b[1] + 256 * (b[2] + 256 * b[3])
         /\ Len(b) = 8 /\ b[5] = 0 /\ b[6] = 0 /\ b[7] = 0 /\ b[8] = 0
              => Number(b) = b[1] + 256 * (b[2] + 256 * (b[3] + 256 * b[4]))
<1>1. PICK f : /\ f[0] = 0 /\ Number(b) = f[Len(b)] /\ f \in [0..Len(b) -> Nat]
               /\ \A i \in 1..Len(b) : f[i] = b[Len(b) + 1 - i] + 256 * f[i - 1]
  BY NumberSteps
<1>2. \A j \in 1..Len(b) : b[j] \in Nat
  <2>1. \A j \in 1..Len(b) : b[j] \in Byte
    BY ElementOfSeq
  <2>2. Byte \subseteq Nat
    BY DEF Byte
  <2>. QED
    BY <2>1, <2>2
<1>. DEFINE Step(i, j, k) == i \in 1..Len(b) /\ j = Len(b) + 1 - i /\ k = i - 1
<1>3. \A i, j, k : Step(i, j, k) => f[i] = b[j] + 256 * f[k]
  BY <1>1
<1>4. CASE Len(b) = 1
  <2>1. Step(1, 1, 0)
    BY <1>4
  <2>2. f[1] = b[1] + 256 * f[0]
    <3>. HIDE DEF Step
    <3>. QED
      BY <1>3, <2>1
  <2>3. b[1] \in Nat
    BY <1>2, <1>4
  <2>. HIDE DEF Step
  <2>. QED
    BY <1>1, <1>4, <2>2, <2>3
<1>5. CASE Len(b) = 2
  <2>1. Step(1, 2, 0) /\ Step(2, 1, 1)
    BY <1>5
  <2>2. f[1] = b[2] + 256 * f[0] /\ f[2] = b[1] + 256 * f[1]
    <3>. HIDE DEF Step
    <3>. QED
      BY <1>3, <2>1
  <2>3. b[1] \in Nat /\ b[2] \in Nat
    BY <1>2, <1>5
  <2>. HIDE DEF Step
  <2>. QED
    BY <1>1, <1>5, <2>2, <2>3
<1>6. CASE Len(b) = 3
  <2>1. Step(1, 3, 0) /\ Step(2, 2, 1) /\ Step(3, 1, 2)
    BY <1>6
  <2>2. f[1] = b[3] + 256 * f[0] /\ f[2] = b[2] + 256 * f[1] /\ f[3] = b[1] + 256 * f[2]
    <3>. HIDE DEF Step
    <3>. QED
      BY <1>3, <2>1
  <2>3. b[1] \in Nat /\ b[2] \in Nat /\ b[3] \in Nat
    BY <1>2, <1>6
  <2>. HIDE DEF Step
  <2>. QED
    BY <1>1, <1>6, <2>2, <2>3
<1>7. CASE Len(b) = 8 /\ b[5] = 0 /\ b[6] = 0 /\ b[7] = 0 /\ b[8] = 0
  <2>1. Step(1, 8, 0) /\ Step(2, 7, 1) /\ Step(3, 6, 2) /\ Step(4, 5, 3) /\ Step(5, 4, 4) /\ Step(6, 3, 5) /\ Step(7, 2, 6) /\ Step(8, 1, 7)
    BY <1>7
  <2>2. f[1] = b[8] + 256 * f[0] /\ f[2] = b[7] + 256 * f[1] /\ f[3] = b[6] + 256 * f[2] /\ f[4] = b[5] + 256 * f[3] /\ f[5] = b[4] + 256 * f[4] /\ f[6] = b[3] + 256 * f[5] /\ f[7] = b[2] + 256 * f[6] /\ f[8] = b[1] + 256 * f[7]
    <3>. HIDE DEF Step
    <3>. QED
      BY <1>3, <2>1
  <2>3. b[1] \in Nat /\ b[2] \in Nat /\ b[3] \in Nat /\ b[4] \in Nat
    BY <1>2, <1>7
  <2>. HIDE DEF Step
  <2>. QED
    BY <1>1, <1>7, <2>2, <2>3
<1>. QED
  BY <1>4, <1>5, <1>6, <1>7

\* These bytes hold the number.
Encodes(n, w) ==
  ToBytes(n, w) \in Seq(Byte) /\ Len(ToBytes(n, w)) = w /\ Number(ToBytes(n, w)) = n

\* What ToBytes writes Number reads, where it fits.
LEMMA NumbersBack ==
  ASSUME NEW n \in Nat
  PROVE  /\ n < 256 => Encodes(n, 1)
         /\ n < 65536 => Encodes(n, 2)
         /\ n < 16777216 => Encodes(n, 3)
         /\ n < Limit => Encodes(n, 8)
<1>. DEFINE q1 == n \div 256
            q2 == n \div 65536
            q3 == n \div 16777216
<1>1. n = (n % 256) + 256 * q1 /\ q1 \in Nat
  OBVIOUS
<1>2. q2 = q1 \div 256 /\ q3 = q2 \div 256
  OBVIOUS
<1>3. q1 = (q1 % 256) + 256 * q2 /\ q2 \in Nat
  <2>. HIDE DEF q1, q2
  <2>. QED
    BY <1>1, <1>2
<1>4. q2 = (q2 % 256) + 256 * q3 /\ q3 \in Nat
  <2>. HIDE DEF q2, q3
  <2>. QED
    BY <1>2, <1>3
<1>5. /\ q1 % 256 = (n \div 256) % 256 /\ q2 % 256 = (n \div 65536) % 256
      /\ q3 % 256 = (n \div 16777216) % 256
  OBVIOUS
<1>. HIDE DEF q1, q2, q3
<1>0. /\ ByteOf(n, 1) = n % 256 /\ ByteOf(n, 2) = q1 % 256 /\ ByteOf(n, 3) = q2 % 256
      /\ ByteOf(n, 4) = q3 % 256
      /\ ByteOf(n, 5) = 0 /\ ByteOf(n, 6) = 0 /\ ByteOf(n, 7) = 0 /\ ByteOf(n, 8) = 0
  <2>1. /\ ByteOf(n, 1) = n % 256 /\ ByteOf(n, 2) = (n \div 256) % 256
        /\ ByteOf(n, 3) = (n \div 65536) % 256 /\ ByteOf(n, 4) = (n \div 16777216) % 256
        /\ ByteOf(n, 5) = 0 /\ ByteOf(n, 6) = 0 /\ ByteOf(n, 7) = 0 /\ ByteOf(n, 8) = 0
    BY ONLY n \in Nat, BytesAre
  <2>. QED
    BY <1>5, <2>1
<1>6. ASSUME n < 256 PROVE Encodes(n, 1)
  <2>. DEFINE b == ToBytes(n, 1)
  <2>1. b \in Seq(Byte) /\ Len(b) = 1 /\ b[1] = n % 256
    <3>1. 1 \in Nat
      OBVIOUS
    <3>2. b \in Seq(Byte) /\ Len(b) = 1 /\ \A i \in 1..1 : b[i] = ByteOf(n, i)
      BY <3>1, BytesOf
    <3>. HIDE DEF b
    <3>. QED
      BY <1>0, <3>2
  <2>. HIDE DEF b
  <2>2. Number(b) = n % 256
    BY <2>1, ShortNumbers
  <2>3. n % 256 = n
    BY <1>6
  <2>. QED
    BY <2>1, <2>2, <2>3 DEF b, Encodes
<1>7. ASSUME n < 65536 PROVE Encodes(n, 2)
  <2>. DEFINE b == ToBytes(n, 2)
  <2>1. b \in Seq(Byte) /\ Len(b) = 2 /\ b[1] = n % 256 /\ b[2] = q1 % 256
    <3>1. 2 \in Nat
      OBVIOUS
    <3>2. b \in Seq(Byte) /\ Len(b) = 2 /\ \A i \in 1..2 : b[i] = ByteOf(n, i)
      BY <3>1, BytesOf
    <3>. HIDE DEF b
    <3>. QED
      BY <1>0, <3>2
  <2>. HIDE DEF b
  <2>2. Number(b) = (n % 256) + 256 * (q1 % 256)
    BY <2>1, ShortNumbers
  <2>3. q1 % 256 = q1
    BY <1>1, <1>7
  <2>. QED
    BY <1>1, <2>1, <2>2, <2>3 DEF b, Encodes
<1>8. ASSUME n < 16777216 PROVE Encodes(n, 3)
  <2>. DEFINE b == ToBytes(n, 3)
  <2>1. b \in Seq(Byte) /\ Len(b) = 3 /\ b[1] = n % 256 /\ b[2] = q1 % 256 /\ b[3] = q2 % 256
    <3>1. 3 \in Nat
      OBVIOUS
    <3>2. b \in Seq(Byte) /\ Len(b) = 3 /\ \A i \in 1..3 : b[i] = ByteOf(n, i)
      BY <3>1, BytesOf
    <3>. HIDE DEF b
    <3>. QED
      BY <1>0, <3>2
  <2>. HIDE DEF b
  <2>2. Number(b) = (n % 256) + 256 * ((q1 % 256) + 256 * (q2 % 256))
    BY <2>1, ShortNumbers
  <2>3. q2 % 256 = q2
    BY <1>1, <1>3, <1>8
  <2>. QED
    BY <1>1, <1>3, <2>1, <2>2, <2>3 DEF b, Encodes
<1>9. ASSUME n < Limit PROVE Encodes(n, 8)
  <2>. DEFINE b == ToBytes(n, 8)
  <2>1. /\ b \in Seq(Byte) /\ Len(b) = 8 /\ b[1] = n % 256 /\ b[2] = q1 % 256 /\ b[3] = q2 % 256
        /\ b[4] = q3 % 256 /\ b[5] = 0 /\ b[6] = 0 /\ b[7] = 0 /\ b[8] = 0
    <3>1. 8 \in Nat
      OBVIOUS
    <3>2. b \in Seq(Byte) /\ Len(b) = 8 /\ \A i \in 1..8 : b[i] = ByteOf(n, i)
      BY <3>1, BytesOf
    <3>. HIDE DEF b
    <3>. QED
      BY <1>0, <3>2
  <2>. HIDE DEF b
  <2>2. Number(b) = (n % 256) + 256 * ((q1 % 256) + 256 * ((q2 % 256) + 256 * (q3 % 256)))
    BY <2>1, ShortNumbers
  <2>3. q3 % 256 = q3
    BY <1>1, <1>3, <1>4, <1>9, SMT DEF Limit
  <2>. QED
    BY <1>1, <1>3, <1>4, <2>1, <2>2, <2>3 DEF b, Encodes
<1>. QED
  BY <1>6, <1>7, <1>8, <1>9

-----------------------------------------------------------------------------
(* Length-encoded integers and strings.                                    *)

\* A byte in front of others.
LEMMA FirstByte ==
  ASSUME NEW c \in Byte, NEW t \in Seq(Byte), NEW x \in Seq(Byte)
  PROVE  /\ <<c>> \o t \in Seq(Byte) /\ Len(<<c>> \o t) = 1 + Len(t)
         /\ <<c>> \o t \o x \in Seq(Byte) /\ Len(t) \in Nat
         /\ <<c>> \o t \o x # <<>> /\ (<<c>> \o t \o x)[1] = c
         /\ SubSeq(<<c>> \o t \o x, 2, 1 + Len(t)) = t
<1>1. PICK s \in Seq(Byte) : s = <<c>> /\ Len(s) = 1 /\ s[1] = c
  <2>1. <<c>> \in Seq(Byte) /\ Len(<<c>>) = 1 /\ <<c>>[1] = c
    OBVIOUS
  <2>. QED
    BY <2>1
<1>2. /\ s \o t \o x \in Seq(Byte) /\ Len(s \o t \o x) = Len(s) + Len(t) + Len(x)
      /\ Len(t) \in Nat /\ Len(x) \in Nat
      /\ \A i \in 1..Len(s) : (s \o t \o x)[i] = s[i]
  BY Parts
<1>3. SubSeq(s \o t \o x, Len(s) + 1, Len(s) + Len(t)) = t
  BY Middle
<1>4. s \o t \in Seq(Byte) /\ Len(s \o t) = Len(s) + Len(t)
  BY ConcatProperties
<1>5. s \o t \o x # <<>>
  BY <1>1, <1>2, EmptySeq
<1>6. 1 \in 1..Len(s)
  BY <1>1
<1>7. (s \o t \o x)[1] = c
  BY <1>1, <1>2, <1>6
<1>8. SubSeq(s \o t \o x, 2, 1 + Len(t)) = t
  BY <1>1, <1>3
<1>9. Len(s \o t) = 1 + Len(t)
  BY <1>1, <1>4
<1>. QED
  BY <1>1, <1>2, <1>4, <1>5, <1>7, <1>8, <1>9

LEMMA Follows ==
  (\A c \in 0..250 : Follow(c) = 0) /\ Follow(252) = 2 /\ Follow(253) = 3 /\ Follow(254) = 8
<1>1. ASSUME NEW c \in 0..250 PROVE Follow(c) = 0
  BY DEF Follow
<1>2. Follow(252) = 2
  BY DEF Follow
<1>3. Follow(253) = 3
  BY DEF Follow
<1>4. Follow(254) = 8
  BY DEF Follow
<1>. QED
  BY <1>1, <1>2, <1>3, <1>4

\* A length in the bytes that follow the first one.
LEMMA LengthIn ==
  ASSUME NEW c \in Byte, NEW t \in Seq(Byte), NEW x \in Seq(Byte), Follow(c) = Len(t), c # 251
  PROVE  /\ <<c>> \o t \in Seq(Byte) /\ Len(<<c>> \o t) \in Nat
         /\ ReadLength(<<c>> \o t \o x)
              = [num |-> IF Len(t) = 0 THEN c ELSE Number(t), null |-> FALSE, n |-> Len(<<c>> \o t)]
<1>1. /\ <<c>> \o t \in Seq(Byte) /\ Len(<<c>> \o t) = 1 + Len(t)
      /\ <<c>> \o t \o x \in Seq(Byte) /\ Len(t) \in Nat
      /\ <<c>> \o t \o x # <<>> /\ (<<c>> \o t \o x)[1] = c
      /\ SubSeq(<<c>> \o t \o x, 2, 1 + Len(t)) = t
  BY FirstByte
<1>. DEFINE l == <<c>> \o t
            b == l \o x
<1>2. b # <<>> /\ b[1] = c /\ SubSeq(b, 2, Len(t) + 1) = t
  BY <1>1
<1>3. l \in Seq(Byte) /\ Len(l) = Len(t) + 1 /\ Len(t) \in Nat
  BY <1>1
<1>. HIDE DEF l, b
<1>4. ReadLength(b) = [num |-> IF Len(t) = 0 THEN c ELSE Number(t), null |-> FALSE, n |-> Len(t) + 1]
  BY <1>2 DEF ReadLength
<1>5. Len(l) \in Nat /\ ReadLength(b) = [num |-> IF Len(t) = 0 THEN c ELSE Number(t), null |-> FALSE, n |-> Len(l)]
  BY <1>3, <1>4
<1>. QED
  BY <1>3, <1>5 DEF l, b

\* The first byte of a length, and those that follow it.
Written(n, c, t) ==
  /\ c \in Byte /\ c # 251 /\ t \in Seq(Byte) /\ Follow(c) = Len(t)
  /\ AppendLength(n) = <<c>> \o t
  /\ n = IF Len(t) = 0 THEN c ELSE Number(t)

LEMMA LengthWritten ==
  ASSUME NEW n \in Nat, n < Limit
  PROVE  \E c, t : Written(n, c, t)
<1>1. /\ n < 256 => Encodes(n, 1)
      /\ n < 65536 => Encodes(n, 2)
      /\ n < 16777216 => Encodes(n, 3)
      /\ n < Limit => Encodes(n, 8)
  BY ONLY n \in Nat, NumbersBack, SMT
<1>2. 252 \in Byte /\ 253 \in Byte /\ 254 \in Byte
  BY DEF Byte
<1>3. CASE n <= 250
  <2>1. n \in Byte /\ n # 251 /\ n \in 0..250
    BY <1>3 DEF Byte
  <2>2. <<>> \in Seq(Byte) /\ Len(<<>>) = 0 /\ Follow(n) = 0
    BY <2>1, EmptySeq, Follows
  <2>3. AppendLength(n) = <<n>> \o <<>>
    BY <1>3, SMT DEF AppendLength
  <2>4. Written(n, n, <<>>)
    BY <2>1, <2>2, <2>3 DEF Written
  <2>. QED
    BY <2>4
<1>4. CASE 250 < n /\ n <= 65535
  <2>1. Encodes(n, 2)
    BY <1>1, <1>4, SMT
  <2>. DEFINE t == ToBytes(n, 2)
  <2>2. AppendLength(n) = <<252>> \o t
    BY <1>4, SMT DEF AppendLength
  <2>3. t \in Seq(Byte) /\ Len(t) = 2 /\ Number(t) = n
    BY <2>1 DEF Encodes
  <2>. HIDE DEF t
  <2>4. Written(n, 252, t)
    BY <1>2, <2>2, <2>3, Follows DEF Written
  <2>. QED
    BY <2>4
<1>5. CASE 65535 < n /\ n <= 16777215
  <2>1. Encodes(n, 3)
    BY <1>1, <1>5, SMT
  <2>. DEFINE t == ToBytes(n, 3)
  <2>2. AppendLength(n) = <<253>> \o t
    BY <1>5, SMT DEF AppendLength
  <2>3. t \in Seq(Byte) /\ Len(t) = 3 /\ Number(t) = n
    BY <2>1 DEF Encodes
  <2>. HIDE DEF t
  <2>4. Written(n, 253, t)
    BY <1>2, <2>2, <2>3, Follows DEF Written
  <2>. QED
    BY <2>4
<1>6. CASE n > 16777215
  <2>1. Encodes(n, 8)
    BY <1>1, <1>6, SMT
  <2>. DEFINE t == ToBytes(n, 8)
  <2>2. AppendLength(n) = <<254>> \o t
    BY <1>6, SMT DEF AppendLength
  <2>3. t \in Seq(Byte) /\ Len(t) = 8 /\ Number(t) = n
    BY <2>1 DEF Encodes
  <2>. HIDE DEF t
  <2>4. Written(n, 254, t)
    BY <1>2, <2>2, <2>3, Follows DEF Written
  <2>. QED
    BY <2>4
<1>. QED
  BY <1>3, <1>4, <1>5, <1>6, SMT

\* A length is read as it was written, whatever follows.
LEMMA LengthBack ==
  ASSUME NEW n \in Nat, n < Limit, NEW x \in Seq(Byte)
  PROVE  /\ AppendLength(n) \in Seq(Byte) /\ Len(AppendLength(n)) \in Nat
         /\ ReadLength(AppendLength(n) \o x) = [num |-> n, null |-> FALSE, n |-> Len(AppendLength(n))]
<1>1. PICK c, t : Written(n, c, t)
  BY LengthWritten
<1>2. /\ c \in Byte /\ c # 251 /\ t \in Seq(Byte) /\ Follow(c) = Len(t)
      /\ AppendLength(n) = <<c>> \o t
      /\ n = IF Len(t) = 0 THEN c ELSE Number(t)
  BY <1>1 DEF Written
<1>3. /\ <<c>> \o t \in Seq(Byte) /\ Len(<<c>> \o t) \in Nat
      /\ ReadLength(<<c>> \o t \o x)
           = [num |-> IF Len(t) = 0 THEN c ELSE Number(t), null |-> FALSE, n |-> Len(<<c>> \o t)]
  BY <1>2, LengthIn
<1>. QED
  BY <1>2, <1>3

LEMMA StringBack ==
  ASSUME NEW s \in Seq(Byte), Len(s) < Limit, NEW x \in Seq(Byte)
  PROVE  /\ AppendString(s) \in Seq(Byte)
         /\ ReadString(AppendString(s) \o x) = [n |-> Len(AppendString(s)), value |-> Bytes(s)]
<1>. DEFINE l == AppendLength(Len(s))
            y == s \o x
            b == l \o s \o x
<1>1. y \in Seq(Byte) /\ Len(s) \in Nat
  BY ConcatProperties, LenProperties
<1>2. /\ l \in Seq(Byte) /\ Len(l) \in Nat
      /\ ReadLength(l \o y) = [num |-> Len(s), null |-> FALSE, n |-> Len(l)]
  <2>. HIDE DEF y
  <2>. QED
    BY <1>1, LengthBack
<1>. HIDE DEF l
<1>3. l \o y = b
  BY <1>2, ConcatAssociative
<1>4. l \o s \in Seq(Byte) /\ Len(l \o s) = Len(l) + Len(s)
  BY <1>2, ConcatProperties
<1>5. Len(b) = Len(l) + Len(s) + Len(x) /\ Len(x) \in Nat
  BY <1>2, Parts
<1>6. SubSeq(b, Len(l) + 1, Len(l) + Len(s)) = s
  BY <1>2, Middle
<1>. HIDE DEF b, y
<1>7. ReadLength(b) = [num |-> Len(s), null |-> FALSE, n |-> Len(l)]
  BY <1>2, <1>3
<1>8. Len(b) >= Len(l) + Len(s)
  BY <1>1, <1>2, <1>5
<1>9. ReadString(b) = [n |-> Len(l) + Len(s), value |-> Bytes(s)]
  <2>1. ReadLength(b).n = Len(l) /\ ReadLength(b).num = Len(s) /\ ReadLength(b).null = FALSE
    BY <1>7
  <2>. QED
    BY <1>6, <1>8, <2>1 DEF ReadString
<1>. QED
  BY <1>4, <1>9 DEF AppendString, l, b

LEMMA NullBack ==
  ASSUME NEW x \in Seq(Byte)
  PROVE  ReadString(<<251>> \o x) = [n |-> 1, value |-> Null]
<1>. DEFINE b == <<251>> \o x
<1>1. b # <<>> /\ b[1] = 251
  <2>1. 251 \in Byte /\ <<>> \in Seq(Byte)
    BY EmptySeq DEF Byte
  <2>2. <<251>> \o <<>> \o x # <<>> /\ (<<251>> \o <<>> \o x)[1] = 251
    BY <2>1, FirstByte
  <2>3. <<251>> \o <<>> = <<251>>
    OBVIOUS
  <2>. QED
    BY <2>2, <2>3
<1>. HIDE DEF b
<1>2. ReadLength(b) = [num |-> 0, null |-> TRUE, n |-> 1]
  BY <1>1 DEF ReadLength
<1>3. ReadString(b) = [n |-> 1, value |-> Null]
  BY <1>2 DEF ReadString
<1>. QED
  BY <1>3 DEF b

\* A value of a text row.
TextPart(v) == IF v = Null THEN <<251>> ELSE AppendString(v.is)

LEMMA TextsAre ==
  ASSUME NEW v \in Texts
  PROVE  v.is \in Seq(Byte) /\ Len(v.is) < Limit /\ v = Bytes(v.is) /\ v # Null /\ v # Error
<1>1. v \in [kind : {"bytes"}, is : {b \in Seq(0..255) : Len(b) <= 2147483647}]
  BY DEF Texts
<1>2. v.is \in Seq(Byte) /\ Len(v.is) \in Nat /\ Len(v.is) < Limit
  BY <1>1, SMT DEF Byte, Limit
<1>3. v = [kind |-> "bytes", is |-> v.is] /\ v.kind = "bytes"
  BY <1>1, SMT
<1>4. v # Null /\ v # Error
  BY <1>3 DEF Null, Error
<1>. QED
  BY <1>2, <1>3, <1>4 DEF Bytes

LEMMA TextPartBack ==
  ASSUME NEW v \in {Null} \cup Texts, NEW x \in Seq(Byte)
  PROVE  /\ TextPart(v) \in Seq(Byte)
         /\ ReadString(TextPart(v) \o x) = [n |-> Len(TextPart(v)), value |-> v]
<1>1. CASE v = Null
  <2>1. TextPart(v) = <<251>>
    BY <1>1 DEF TextPart
  <2>2. <<251>> \in Seq(Byte) /\ Len(<<251>>) = 1
    BY DEF Byte
  <2>. QED
    BY <1>1, <2>1, <2>2, NullBack
<1>2. CASE v # Null
  <2>1. v.is \in Seq(Byte) /\ Len(v.is) < Limit /\ v = Bytes(v.is)
    BY <1>2, TextsAre
  <2>2. TextPart(v) = AppendString(v.is)
    BY <1>2 DEF TextPart
  <2>3. /\ AppendString(v.is) \in Seq(Byte)
        /\ ReadString(AppendString(v.is) \o x) = [n |-> Len(AppendString(v.is)), value |-> Bytes(v.is)]
    BY <2>1, StringBack
  <2>. QED
    BY <2>1, <2>2, <2>3
<1>. QED
  BY <1>1, <1>2

-----------------------------------------------------------------------------
(* Where the parts of a packet begin.                                      *)

LEMMA Rests ==
  ASSUME NEW S, NEW parts \in Seq(Seq(S))
  PROVE  \E pre \in [0..Len(parts) -> Seq(S)] :
           /\ pre[0] = <<>> /\ FlattenSeq(parts) = pre[Len(parts)]
           /\ \A i \in 1..Len(parts) : pre[i] = pre[i - 1] \o parts[i]
           /\ \A i \in 0..Len(parts) : \E rest \in Seq(S) : pre[Len(parts)] = pre[i] \o rest
<1>. DEFINE n == Len(parts)
<1>0. PICK pre \in [0..n -> Seq(S)] :
        /\ pre[0] = <<>> /\ FlattenSeq(parts) = pre[n]
        /\ \A i \in 1..n : pre[i] = pre[i - 1] \o parts[i]
  BY Flatten
<1>. n \in Nat
  BY LenProperties
<1>. \A i \in 1..n : parts[i] \in Seq(S)
  BY ElementOfSeq
<1>. HIDE DEF n
<1>. DEFINE G == {k \in 0..n : \E rest \in Seq(S) : pre[n] = pre[n - k] \o rest}
<1>1. 0 \in G
  <2>1. 0 \in 0..n /\ n - 0 = n /\ n \in 0..n
    OBVIOUS
  <2>2. <<>> \in Seq(S) /\ pre[n] \in Seq(S)
    BY <2>1, EmptySeq
  <2>3. pre[n] = pre[n] \o <<>>
    BY <2>2, ConcatEmptySeq
  <2>. QED
    BY <2>1, <2>2, <2>3
<1>2. ASSUME NEW k \in 1..n, k - 1 \in G PROVE k \in G
  <2>. DEFINE j == n - k
  <2>1. j \in 0..n /\ j + 1 \in 1..n /\ n - (k - 1) = j + 1 /\ (j + 1) - 1 = j /\ k \in 0..n
    OBVIOUS
  <2>2. PICK rest \in Seq(S) : pre[n] = pre[j + 1] \o rest
    BY <1>2, <2>1
  <2>3. pre[j + 1] = pre[j] \o parts[j + 1] /\ parts[j + 1] \in Seq(S)
    BY <1>0, <2>1
  <2>4. pre[j] \in Seq(S)
    BY <2>1
  <2>. DEFINE p == parts[j + 1]
              r == p \o rest
              q == pre[j]
  <2>. HIDE DEF j
  <2>5. p \in Seq(S) /\ q \in Seq(S)
    BY <2>3, <2>4
  <2>. HIDE DEF p, q
  <2>6. r \in Seq(S) /\ (q \o p) \o rest = q \o r
    BY <2>5, ConcatProperties, ConcatAssociative
  <2>7. pre[n] = q \o r
    BY <2>2, <2>3, <2>6 DEF p, q
  <2>. HIDE DEF r
  <2>8. \E x \in Seq(S) : pre[n] = pre[j] \o x
    BY <2>6, <2>7 DEF q
  <2>. QED
    BY <2>1, <2>8 DEF j
<1>. HIDE DEF G
<1>3. \A k \in 0..n : k \in G
  BY <1>1, <1>2, UpTo
<1>4. \A i \in 0..n : n - i \in 0..n /\ n - (n - i) = i
  OBVIOUS
<1>5. \A i \in 0..n : \E rest \in Seq(S) : pre[n] = pre[i] \o rest
  BY <1>3, <1>4 DEF G
<1>. QED
  BY <1>0, <1>5 DEF n

\* Where each part begins, behind a head; the last place is the end.
Located(place, S, head, parts) ==
  /\ place \in [0..Len(parts) -> Nat]
  /\ place[0] = Len(head) + 1
  /\ \A i \in 1..Len(parts) :
       /\ place[i] = place[i - 1] + Len(parts[i])
       /\ \E rest \in Seq(S) : From(head \o FlattenSeq(parts), place[i - 1]) = parts[i] \o rest

LEMMA Places ==
  ASSUME NEW S, NEW head \in Seq(S), NEW parts \in Seq(Seq(S))
  PROVE  \E place : Located(place, S, head, parts)
<1>. DEFINE n == Len(parts)
            data == head \o FlattenSeq(parts)
<1>1. PICK pre \in [0..n -> Seq(S)] :
        /\ pre[0] = <<>> /\ FlattenSeq(parts) = pre[n]
        /\ \A i \in 1..n : pre[i] = pre[i - 1] \o parts[i]
        /\ \A i \in 0..n : \E rest \in Seq(S) : pre[n] = pre[i] \o rest
  BY Rests
<1>2. n \in Nat /\ Len(head) \in Nat /\ \A i \in 1..n : parts[i] \in Seq(S)
  BY LenProperties, ElementOfSeq
<1>. HIDE DEF n
<1>. DEFINE place == [i \in 0..n |-> Len(head) + Len(pre[i]) + 1]
<1>4. \A i \in 0..n : pre[i] \in Seq(S) /\ Len(pre[i]) \in Nat
  <2>1. \A i \in 0..n : pre[i] \in Seq(S)
    OBVIOUS
  <2>. QED
    BY <2>1, LenProperties
<1>5. place \in [0..n -> Nat]
  BY <1>2, <1>4
<1>6. place[0] = Len(head) + 1
  <2>1. Len(<<>>) = 0 /\ 0 \in 0..n
    BY <1>2
  <2>. QED
    BY <1>1, <1>2, <2>1
<1>7. ASSUME NEW i \in 1..n
      PROVE  /\ place[i] = place[i - 1] + Len(parts[i])
             /\ \E rest \in Seq(S) : From(data, place[i - 1]) = parts[i] \o rest
  <2>. DEFINE q == pre[i - 1]
              p == parts[i]
  <2>1. i - 1 \in 0..n /\ i \in 0..n
    BY <1>2
  <2>2. p \in Seq(S) /\ q \in Seq(S) /\ Len(q) \in Nat /\ Len(p) \in Nat
    BY <1>2, <1>4, <2>1, LenProperties
  <2>3. pre[i] = q \o p
    BY <1>1
  <2>4. PICK rest \in Seq(S) : FlattenSeq(parts) = (q \o p) \o rest
    BY <1>1, <2>1, <2>3
  <2>5. place[i - 1] = Len(head) + Len(q) + 1 /\ place[i] = Len(head) + Len(pre[i]) + 1
    BY <2>1
  <2>. HIDE DEF p, q, place
  <2>6. Len(q \o p) = Len(q) + Len(p)
    BY <2>2, ConcatProperties
  <2>7. place[i] = place[i - 1] + Len(p)
    BY <1>2, <2>2, <2>3, <2>5, <2>6
  <2>. DEFINE a == head \o q
              b == p \o rest
  <2>8. a \in Seq(S) /\ b \in Seq(S) /\ Len(a) = Len(head) + Len(q)
    BY <2>2, ConcatProperties
  <2>9. data = a \o b
    <3>1. (q \o p) \o rest = q \o b
      BY <2>2, ConcatAssociative
    <3>2. head \o (q \o b) = (head \o q) \o b
      <4>1. b \in Seq(S) /\ q \in Seq(S)
        BY <2>2, <2>8
      <4>. HIDE DEF b
      <4>. QED
        BY ONLY <4>1, head \in Seq(S), ConcatAssociative
    <3>. QED
      BY <2>4, <3>1, <3>2
  <2>. HIDE DEF a, b, data
  <2>10. SubSeq(a \o b, Len(a) + 1, Len(a) + Len(b)) = b /\ Len(a \o b) = Len(a) + Len(b)
    <3>1. a \in Seq(S) /\ b \in Seq(S)
      BY <2>8
    <3>2. SubSeq(a \o b, Len(a) + 1, Len(a) + Len(b)) = b
      BY ONLY <3>1, Ends
    <3>3. Len(a \o b) = Len(a) + Len(b)
      BY ONLY <3>1, ConcatProperties
    <3>. QED
      BY <3>2, <3>3
  <2>11. From(data, place[i - 1]) = b
    BY <2>5, <2>8, <2>9, <2>10 DEF From
  <2>. QED
    BY <2>7, <2>11 DEF b, p
<1>. HIDE DEF place, data
<1>8. /\ place[0] = Len(head) + 1
      /\ \A i \in 1..n : /\ place[i] = place[i - 1] + Len(parts[i])
                         /\ \E rest \in Seq(S) : From(data, place[i - 1]) = parts[i] \o rest
  BY <1>6, <1>7
<1>9. Located(place, S, head, parts)
  BY <1>5, <1>8 DEF n, data, Located
<1>. QED
  BY <1>9

-----------------------------------------------------------------------------
(* Rows of the text protocol.                                              *)

\* The beginnings of a sequence.
LEMMA Beginnings ==
  ASSUME NEW S, NEW s \in Seq(S)
  PROVE  /\ SubSeq(s, 1, 0) = <<>> /\ SubSeq(s, 1, Len(s)) = s
         /\ \A i \in 1..Len(s) :
              /\ Append(SubSeq(s, 1, i - 1), s[i]) = SubSeq(s, 1, i)
              /\ i > 1 => Last(SubSeq(s, 1, i - 1)) = s[i - 1]
<1>. DEFINE n == Len(s)
            pre(i) == SubSeq(s, 1, i)
<1>1. n \in Nat /\ \A i \in 1..n : s[i] \in S
  BY LenProperties, ElementOfSeq
<1>2. ASSUME NEW i \in 0..n
      PROVE  pre(i) \in Seq(S) /\ Len(pre(i)) = i /\ \A j \in 1..i : pre(i)[j] = s[j]
  <2>1. 1 \in Int /\ i \in Int /\ \A j \in 1..i : s[j] \in S
    BY <1>1
  <2>2. i - 1 + 1 = i /\ (1 <= i <=> i # 0) /\ \A j \in 1..i : 1 + j - 1 = j
    BY <1>1
  <2>3. /\ pre(i) \in Seq(S)
        /\ Len(pre(i)) = IF 1 <= i THEN i - 1 + 1 ELSE 0
        /\ \A j \in 1..i - 1 + 1 : pre(i)[j] = s[1 + j - 1]
    BY <2>1, SubSeqProperties
  <2>. HIDE DEF pre
  <2>. QED
    BY <2>2, <2>3
<1>. HIDE DEF n
<1>3. 0 \in 0..n /\ n \in 0..n
  BY <1>1
<1>4. pre(0) = <<>>
  <2>. HIDE DEF pre
  <2>. QED
    BY <1>2, <1>3, EmptySeq
<1>5. pre(n) = s
  <2>. HIDE DEF pre
  <2>1. pre(n) \in Seq(S) /\ Len(pre(n)) = Len(s) /\ \A j \in 1..Len(pre(n)) : pre(n)[j] = s[j]
    BY <1>2, <1>3 DEF n
  <2>. QED
    BY ONLY <2>1, s \in Seq(S), SeqEqual
<1>6. ASSUME NEW i \in 1..n
      PROVE  Append(pre(i - 1), s[i]) = pre(i) /\ (i > 1 => Last(pre(i - 1)) = s[i - 1])
  <2>1. i - 1 \in 0..n /\ i \in 0..n /\ s[i] \in S
    BY <1>1
  <2>. DEFINE p == pre(i - 1)
              q == pre(i)
              a == Append(p, s[i])
  <2>2. p \in Seq(S) /\ Len(p) = i - 1 /\ \A j \in 1..i - 1 : p[j] = s[j]
    BY <1>2, <2>1
  <2>3. q \in Seq(S) /\ Len(q) = i /\ \A j \in 1..i : q[j] = s[j]
    BY <1>2, <2>1
  <2>. HIDE DEF p, q, pre
  <2>4. a \in Seq(S) /\ Len(a) = Len(p) + 1 /\ a[Len(p) + 1] = s[i] /\ \A j \in 1..Len(p) : a[j] = p[j]
    BY <2>1, <2>2, AppendProperties
  <2>. HIDE DEF a
  <2>5. Len(a) = Len(q) /\ \A j \in 1..Len(a) : a[j] = q[j]
    BY <2>2, <2>3, <2>4
  <2>6. a = q
    BY ONLY <2>3, <2>4, <2>5, SeqEqual
  <2>7. ASSUME i > 1 PROVE Last(p) = s[i - 1]
    <3>1. i - 1 \in 1..i - 1
      BY <2>7
    <3>. QED
      BY <2>2, <3>1 DEF Last
  <2>. QED
    BY <2>6, <2>7 DEF a, p, q
<1>. HIDE DEF pre
<1>7. /\ pre(0) = <<>> /\ pre(n) = s
      /\ \A i \in 1..n : /\ Append(pre(i - 1), s[i]) = pre(i)
                         /\ i > 1 => Last(pre(i - 1)) = s[i - 1]
  BY <1>4, <1>5, <1>6
<1>. QED
  BY ONLY <1>7, Zenon DEF pre, n

LEMMA TextRowBack ==
  ASSUME NEW values \in Seq({Null} \cup Texts)
  PROVE  ReadTextRow(TextRow(values), Len(values)) = values
<1>. DEFINE V == {Null} \cup Texts
            n == Len(values)
            data == TextRow(values)
            parts == [i \in 1..n |-> TextPart(values[i])]
<1>1. n \in Nat /\ DOMAIN values = 1..n /\ \A i \in 1..n : values[i] \in V
  <2>. HIDE DEF V
  <2>. QED
    BY LenProperties, ElementOfSeq DEF V
<1>2. <<>> \in Seq(Byte) /\ Len(<<>>) = 0
  BY EmptySeq
<1>3. \A v \in V : TextPart(v) \in Seq(Byte)
  BY <1>2, TextPartBack
<1>. HIDE DEF V, n
<1>4. parts \in [1..n -> Seq(Byte)] /\ \A i \in 1..n : parts[i] = TextPart(values[i])
  BY <1>1, <1>3
<1>5. data = FlattenSeq(parts)
  BY <1>1 DEF TextRow, TextPart
<1>. HIDE DEF parts
<1>6. parts \in Seq(Seq(Byte)) /\ Len(parts) = n
  <2>1. n \in Nat
    BY <1>1
  <2>. QED
    BY ONLY <1>4, <2>1, FunctionSeq
<1>7. <<>> \o data = data
  <2>1. PICK pre \in [0..n -> Seq(Byte)] : FlattenSeq(parts) = pre[n]
    BY <1>6, Flatten
  <2>2. data \in Seq(Byte)
    BY <1>1, <1>5, <2>1
  <2>. HIDE DEF data
  <2>. QED
    BY <2>2, ConcatEmptySeq
<1>8. PICK place \in [0..n -> Nat] :
        /\ place[0] = 1
        /\ \A i \in 1..n :
             /\ place[i] = place[i - 1] + Len(parts[i])
             /\ \E rest \in Seq(Byte) : From(data, place[i - 1]) = parts[i] \o rest
  <2>0. <<>> \in Seq(Byte) /\ <<>> = <<>> /\ Len(<<>>) + 1 = 1
    BY <1>2
  <2>. PICK head \in Seq(Byte) : head = <<>> /\ Len(head) + 1 = 1
    BY <2>0, Zenon
  <2>1. PICK place : Located(place, Byte, head, parts)
    BY <1>6, Places
  <2>2. head \o FlattenSeq(parts) = data
    BY <1>5, <1>7
  <2>. HIDE DEF data
  <2>. QED
    BY <1>6, <2>1, <2>2 DEF Located
<1>. HIDE DEF data
<1>. DEFINE Is(f) == f = [i \in 0..n |-> IF i = 0 THEN [pos |-> 1, dest |-> <<>>] ELSE NextText(data, f[i - 1])]
            g == CHOOSE f : Is(f)
            h == [i \in 0..n |-> [pos |-> place[i], dest |-> SubSeq(values, 1, i)]]
<1>9. ReadTextRow(data, n) = g[n].dest
  BY DEF ReadTextRow
<1>10. /\ SubSeq(values, 1, 0) = <<>> /\ SubSeq(values, 1, n) = values
       /\ \A i \in 1..n : /\ Append(SubSeq(values, 1, i - 1), values[i]) = SubSeq(values, 1, i)
                          /\ i > 1 => Last(SubSeq(values, 1, i - 1)) = values[i - 1]
  BY ONLY values \in Seq(V), Beginnings DEF n, V
<1>11. h[0] = [pos |-> 1, dest |-> <<>>]
  BY <1>1, <1>8, <1>10
<1>12. ASSUME NEW i \in 1..n PROVE NextText(data, h[i - 1]) = h[i]
  <2>. DEFINE row == h[i - 1]
  <2>1. i - 1 \in 0..n /\ i \in 0..n /\ values[i] \in V
    BY <1>1
  <2>2. row.pos = place[i - 1] /\ row.dest = SubSeq(values, 1, i - 1)
    BY <2>1
  <2>3. PICK rest \in Seq(Byte) : From(data, place[i - 1]) = parts[i] \o rest
    BY <1>8
  <2>4. ReadString(From(data, row.pos)) = [n |-> Len(parts[i]), value |-> values[i]]
    <3>1. ReadString(TextPart(values[i]) \o rest) = [n |-> Len(TextPart(values[i])), value |-> values[i]]
      BY ONLY <2>1, TextPartBack, rest \in Seq(Byte) DEF V
    <3>. HIDE DEF row
    <3>. QED
      BY <1>4, <2>2, <2>3, <3>1
  <2>5. ~(row.dest # <<>> /\ Last(row.dest) = Error)
    <3>1. CASE i = 1
      <4>1. i - 1 = 0
        BY <3>1
      <4>. HIDE DEF row
      <4>. QED
        BY <1>10, <2>2, <4>1
    <3>2. CASE i # 1
      <4>1. i > 1 /\ i - 1 \in 1..n
        BY <1>1, <3>2
      <4>2. Last(row.dest) = values[i - 1] /\ values[i - 1] \in V
        <5>. HIDE DEF row
        <5>. QED
          BY <1>1, <1>10, <2>2, <4>1
      <4>3. values[i - 1] # Error
        <5>1. Null # Error
          BY DEF Null, Error
        <5>. QED
          BY <4>2, <5>1, TextsAre DEF V
      <4>. QED
        BY <4>2, <4>3
    <3>. QED
      BY <3>1, <3>2
  <2>. DEFINE s == ReadString(From(data, row.pos))
  <2>6. NextText(data, row) = [pos |-> row.pos + s.n, dest |-> Append(row.dest, s.value)]
    <3>1. NextText(data, row) = IF row.dest # <<>> /\ Last(row.dest) = Error THEN row
                                ELSE [pos |-> row.pos + s.n, dest |-> Append(row.dest, s.value)]
      BY DEF NextText
    <3>. HIDE DEF row, s
    <3>. QED
      BY <2>5, <3>1
  <2>7. s.n = Len(parts[i]) /\ s.value = values[i]
    BY <2>4
  <2>8. h[i] = [pos |-> place[i], dest |-> SubSeq(values, 1, i)]
    BY <2>1
  <2>. HIDE DEF s, h
  <2>9. row.pos + s.n = place[i] /\ Append(row.dest, s.value) = SubSeq(values, 1, i)
    <3>. HIDE DEF row
    <3>. QED
      BY <1>8, <1>10, <2>2, <2>7
  <2>. HIDE DEF row
  <2>10. NextText(data, row) = h[i]
    BY <2>6, <2>8, <2>9
  <2>. QED
    BY <2>10 DEF row
<1>13. Is(h)
  <2>1. \A i \in 0..n : h[i] = IF i = 0 THEN [pos |-> 1, dest |-> <<>>] ELSE NextText(data, h[i - 1])
    <3>1. TAKE i \in 0..n
    <3>2. CASE i = 0
      BY <1>11, <3>2
    <3>3. CASE i # 0
      <4>1. i \in 1..n
        BY <1>1, <3>3
      <4>. HIDE DEF h
      <4>. QED
        BY <1>12, <3>3, <4>1
    <3>. QED
      BY <3>2, <3>3
  <2>2. h = [i \in 0..n |-> h[i]]
    OBVIOUS
  <2>. HIDE DEF h
  <2>. QED
    BY <2>1, <2>2
<1>14. Is(g)
  <2>. HIDE DEF Is, h
  <2>. QED
    BY <1>13
<1>15. h[n].dest = values
  <2>1. n \in 0..n
    BY <1>1
  <2>. QED
    BY <1>10, <2>1
<1>16. \A i \in 0..n : g[i] = h[i]
  <2>1. 0 \in 0..n /\ \A i \in 1..n : i \in 0..n /\ i # 0
    BY <1>1
  <2>. HIDE DEF h, g
  <2>2. g[0] = [pos |-> 1, dest |-> <<>>] /\ \A i \in 1..n : g[i] = NextText(data, g[i - 1])
    BY <1>14, <2>1
  <2>. HIDE DEF Is
  <2>3. g[0] = h[0] /\ \A i \in 1..n : g[i - 1] = h[i - 1] => g[i] = h[i]
    BY <1>11, <1>12, <2>2
  <2>4. n \in Nat
    BY <1>1
  <2>. QED
    BY ONLY <2>3, <2>4, SameChain
<1>. HIDE DEF g, h
<1>17. g[n] = h[n]
  <2>1. n \in 0..n
    BY <1>1
  <2>. QED
    BY <1>16, <2>1
<1>. QED
  BY <1>9, <1>15, <1>17 DEF n, data

-----------------------------------------------------------------------------
(* Rows of the binary protocol.                                            *)

LEMMA Twos ==
  2^0 = 1 /\ 2^1 = 2 /\ 2^2 = 4 /\ 2^3 = 8 /\ 2^4 = 16 /\ 2^5 = 32 /\ 2^6 = 64 /\ 2^7 = 128
BY SMT

\* A bit of the i-th byte of a bitmap.
Flag(bits, i, k) == IF 8 * (i - 1) + k \in bits THEN 1 ELSE 0

LEMMA BitmapBytes ==
  ASSUME NEW bits, NEW bytes \in Nat
  PROVE  /\ Bitmap(bits, bytes) \in Seq(Byte) /\ Len(Bitmap(bits, bytes)) = bytes
         /\ \A i \in 1..bytes :
              Bitmap(bits, bytes)[i]
                = Flag(bits, i, 0) + 2 * Flag(bits, i, 1) + 4 * Flag(bits, i, 2) + 8 * Flag(bits, i, 3)
                    + 16 * Flag(bits, i, 4) + 32 * Flag(bits, i, 5) + 64 * Flag(bits, i, 6)
                    + 128 * Flag(bits, i, 7)
<1>. DEFINE sum(i) == Flag(bits, i, 0) + 2 * Flag(bits, i, 1) + 4 * Flag(bits, i, 2) + 8 * Flag(bits, i, 3)
                        + 16 * Flag(bits, i, 4) + 32 * Flag(bits, i, 5) + 64 * Flag(bits, i, 6)
                        + 128 * Flag(bits, i, 7)
            b == Bitmap(bits, bytes)
            g == [i \in 1..bytes |-> sum(i)]
            F(i, k) == IF 8 * (i - 1) + k \in bits THEN 2^k ELSE 0
<1>1. ASSUME NEW i \in 1..bytes
      PROVE  F(i, 0) + F(i, 1) + F(i, 2) + F(i, 3) + F(i, 4) + F(i, 5) + F(i, 6) + F(i, 7) = sum(i)
  <2>1. /\ F(i, 0) = Flag(bits, i, 0) /\ F(i, 1) = 2 * Flag(bits, i, 1) /\ F(i, 2) = 4 * Flag(bits, i, 2)
        /\ F(i, 3) = 8 * Flag(bits, i, 3) /\ F(i, 4) = 16 * Flag(bits, i, 4) /\ F(i, 5) = 32 * Flag(bits, i, 5)
        /\ F(i, 6) = 64 * Flag(bits, i, 6) /\ F(i, 7) = 128 * Flag(bits, i, 7)
    BY Twos DEF Flag
  <2>. HIDE DEF F
  <2>. QED
    BY <2>1
<1>2. ASSUME NEW i \in 1..bytes PROVE sum(i) \in Byte
  <2>1. \A k : Flag(bits, i, k) = 0 \/ Flag(bits, i, k) = 1
    BY DEF Flag
  <2>2. \A k : Flag(bits, i, k) \in 0..1
    BY <2>1
  <2>. QED
    BY <2>2, SMT DEF Byte
<1>3. b = [i \in 1..bytes |-> F(i, 0) + F(i, 1) + F(i, 2) + F(i, 3) + F(i, 4) + F(i, 5) + F(i, 6) + F(i, 7)]
  BY DEF Bitmap
<1>. HIDE DEF b, F, sum
<1>4. b = g
  BY <1>1, <1>3
<1>5. b \in [1..bytes -> Byte] /\ \A i \in 1..bytes : b[i] = sum(i)
  BY <1>2, <1>4
<1>6. b \in Seq(Byte) /\ Len(b) = bytes
  BY <1>5, FunctionSeq
<1>. QED
  BY <1>5, <1>6 DEF b, sum

\* The bits of a bitmap are those it was made of.
LEMMA BitBack ==
  ASSUME NEW bits, NEW bytes \in Nat, NEW k \in Nat, k < 8 * bytes
  PROVE  Bit(Bitmap(bits, bytes), k) <=> k \in bits
<1>. DEFINE i == k \div 8 + 1
            r == k % 8
            s == Bitmap(bits, bytes)[i]
<1>1. i \in 1..bytes /\ r \in 0..7 /\ 8 * (i - 1) + r = k
  BY SMT
<1>2. Bit(Bitmap(bits, bytes), k) <=> (s \div 2^r) % 2 = 1
  BY DEF Bit
<1>. HIDE DEF i, r
<1>3. s = Flag(bits, i, 0) + 2 * Flag(bits, i, 1) + 4 * Flag(bits, i, 2) + 8 * Flag(bits, i, 3)
            + 16 * Flag(bits, i, 4) + 32 * Flag(bits, i, 5) + 64 * Flag(bits, i, 6)
            + 128 * Flag(bits, i, 7)
  BY <1>1, BitmapBytes
<1>4. \A j : Flag(bits, i, j) \in 0..1
  BY DEF Flag
<1>. HIDE DEF s
<1>5. /\ (s \div 1) % 2 = Flag(bits, i, 0) /\ (s \div 2) % 2 = Flag(bits, i, 1)
      /\ (s \div 4) % 2 = Flag(bits, i, 2) /\ (s \div 8) % 2 = Flag(bits, i, 3)
      /\ (s \div 16) % 2 = Flag(bits, i, 4) /\ (s \div 32) % 2 = Flag(bits, i, 5)
      /\ (s \div 64) % 2 = Flag(bits, i, 6) /\ (s \div 128) % 2 = Flag(bits, i, 7)
  <2>1. /\ Flag(bits, i, 0) \in 0..1 /\ Flag(bits, i, 1) \in 0..1 /\ Flag(bits, i, 2) \in 0..1
        /\ Flag(bits, i, 3) \in 0..1 /\ Flag(bits, i, 4) \in 0..1 /\ Flag(bits, i, 5) \in 0..1
        /\ Flag(bits, i, 6) \in 0..1 /\ Flag(bits, i, 7) \in 0..1
    BY <1>4
  <2>2. (s \div 1) % 2 = Flag(bits, i, 0)
    BY ONLY <1>3, <2>1, SMT
  <2>3. (s \div 2) % 2 = Flag(bits, i, 1)
    BY ONLY <1>3, <2>1, SMT
  <2>4. (s \div 4) % 2 = Flag(bits, i, 2)
    BY ONLY <1>3, <2>1, SMT
  <2>5. (s \div 8) % 2 = Flag(bits, i, 3)
    BY ONLY <1>3, <2>1, SMT
  <2>6. (s \div 16) % 2 = Flag(bits, i, 4)
    BY ONLY <1>3, <2>1, SMT
  <2>7. (s \div 32) % 2 = Flag(bits, i, 5)
    BY ONLY <1>3, <2>1, SMT
  <2>8. (s \div 64) % 2 = Flag(bits, i, 6)
    BY ONLY <1>3, <2>1, SMT
  <2>9. (s \div 128) % 2 = Flag(bits, i, 7)
    BY ONLY <1>3, <2>1, SMT
  <2>. QED
    BY <2>2, <2>3, <2>4, <2>5, <2>6, <2>7, <2>8, <2>9
<1>6. (s \div 2^r) % 2 = Flag(bits, i, r)
  <2>1. r = 0 \/ r = 1 \/ r = 2 \/ r = 3 \/ r = 4 \/ r = 5 \/ r = 6 \/ r = 7
    BY <1>1
  <2>. QED
    BY <1>5, <2>1, Twos
<1>7. Flag(bits, i, r) = 1 <=> k \in bits
  BY <1>1 DEF Flag
<1>. QED
  BY <1>2, <1>6, <1>7

LEMMA Widths == Width("tiny") = 1 /\ Width("short") = 2
BY DEF Width

\* Two's complement, in one byte and in two.
LEMMA SignsBack ==
  /\ \A m \in Int : -128 <= m /\ m < 128 =>
       0 <= Unsigned(m, 1) /\ Unsigned(m, 1) < 256 /\ Signed(Unsigned(m, 1), 1) = m
  /\ \A m \in Int : -32768 <= m /\ m < 32768 =>
       0 <= Unsigned(m, 2) /\ Unsigned(m, 2) < 65536 /\ Signed(Unsigned(m, 2), 2) = m
  /\ \A m \in Int : 0 <= m => Unsigned(m, 1) = m /\ Unsigned(m, 2) = m
  /\ \A m \in Int : Unsigned(m, 1) \in Int /\ Unsigned(m, 2) \in Int
<1>1. 8 * 1 - 1 = 7 /\ 8 * 1 = 8 /\ 8 * 2 - 1 = 15 /\ 8 * 2 = 16
  OBVIOUS
<1>2. \A n : Signed(n, 1) = (IF n >= 128 THEN n - 256 ELSE n) /\ Unsigned(n, 1) = (IF n < 0 THEN n + 256 ELSE n)
  BY <1>1, Powers DEF Signed, Unsigned
<1>3. \A n : Signed(n, 2) = (IF n >= 32768 THEN n - 65536 ELSE n) /\ Unsigned(n, 2) = (IF n < 0 THEN n + 65536 ELSE n)
  BY <1>1, Powers DEF Signed, Unsigned
<1>4. ASSUME NEW m \in Int, -128 <= m, m < 128
      PROVE  0 <= Unsigned(m, 1) /\ Unsigned(m, 1) < 256 /\ Signed(Unsigned(m, 1), 1) = m
  BY <1>2, <1>4, SMT
<1>5. ASSUME NEW m \in Int, -32768 <= m, m < 32768
      PROVE  0 <= Unsigned(m, 2) /\ Unsigned(m, 2) < 65536 /\ Signed(Unsigned(m, 2), 2) = m
  BY <1>3, <1>5, SMT
<1>6. ASSUME NEW m \in Int, 0 <= m PROVE Unsigned(m, 1) = m /\ Unsigned(m, 2) = m
  BY <1>2, <1>3, <1>6, SMT
<1>7. ASSUME NEW m \in Int PROVE Unsigned(m, 1) \in Int /\ Unsigned(m, 2) \in Int
  BY <1>2, <1>3, SMT
<1>. QED
  BY <1>4, <1>5, <1>6, <1>7, SMT

\* These bytes hold the number, whatever follows.
Holding(n, w, x) ==
  /\ ToBytes(n, w) \in Seq(Byte) /\ Len(ToBytes(n, w)) = w
  /\ Number(SubSeq(ToBytes(n, w) \o x, 1, w)) = n

LEMMA FixedBack ==
  ASSUME NEW n \in Nat, NEW w \in 1..2, w = 1 => n < 256, w = 2 => n < 65536, NEW x \in Seq(Byte)
  PROVE  Holding(n, w, x)
<1>1. /\ n < 256 => Encodes(n, 1)
      /\ n < 65536 => Encodes(n, 2)
      /\ n < 16777216 => Encodes(n, 3)
      /\ n < Limit => Encodes(n, 8)
  BY ONLY n \in Nat, NumbersBack, SMT
<1>2. w = 1 \/ w = 2
  OBVIOUS
<1>3. Encodes(n, w)
  BY <1>1, <1>2
<1>. DEFINE t == ToBytes(n, w)
<1>4. t \in Seq(Byte) /\ Len(t) = w /\ Number(t) = n
  BY <1>3 DEF Encodes
<1>. HIDE DEF t
<1>. DEFINE z == SubSeq(t \o x, 1, w)
<1>5. z = t
  BY <1>4, Ends
<1>. HIDE DEF z
<1>6. Number(z) = n
  BY ONLY <1>4, <1>5
<1>7. t \in Seq(Byte) /\ Len(t) = w /\ Number(SubSeq(t \o x, 1, w)) = n
  BY ONLY <1>4, <1>6 DEF z
<1>. QED
  BY ONLY <1>7 DEF t, Holding

\* A value of a binary row.
BinaryPart(col, v) ==
  CASE v = Null -> <<>>
    [] v # Null /\ col.type = "bytes" -> AppendString(v.is)
    [] OTHER -> LET w == Width(col.type) IN ToBytes(Unsigned(v.is, w), w)

LEMMA BinaryPartBack ==
  ASSUME NEW col \in Columns, NEW v, Holds(col, v), NEW x \in Seq(Byte)
  PROVE  /\ BinaryPart(col, v) \in Seq(Byte) /\ Len(BinaryPart(col, v)) \in Nat
         /\ v = Null => Len(BinaryPart(col, v)) = 0
         /\ v # Null => ReadBinaryValue(col, BinaryPart(col, v) \o x)
                          = [value |-> v, n |-> Len(BinaryPart(col, v))]
<1>. DEFINE p == BinaryPart(col, v)
<1>1. CASE v = Null
  <2>1. p = <<>>
    BY <1>1 DEF BinaryPart
  <2>2. <<>> \in Seq(Byte) /\ Len(<<>>) = 0 /\ 0 \in Nat
    BY EmptySeq
  <2>. HIDE DEF p
  <2>3. p \in Seq(Byte) /\ Len(p) = 0 /\ Len(p) \in Nat
    BY <2>1, <2>2
  <2>. QED
    BY <1>1, <2>3 DEF p
<1>2. CASE v # Null /\ col.type = "bytes"
  <2>1. v \in Texts
    BY <1>2 DEF Holds
  <2>2. v.is \in Seq(Byte) /\ Len(v.is) < Limit /\ v = Bytes(v.is)
    BY <2>1, TextsAre
  <2>3. p = AppendString(v.is)
    BY <1>2 DEF BinaryPart
  <2>. HIDE DEF p
  <2>4. p \in Seq(Byte) /\ ReadString(p \o x) = [n |-> Len(p), value |-> v]
    BY <2>2, <2>3, StringBack
  <2>5. ReadBinaryValue(col, p \o x) = ReadString(p \o x)
    BY <1>2 DEF ReadBinaryValue
  <2>6. Len(p) \in Nat
    BY <2>4, LenProperties
  <2>7. ReadBinaryValue(col, p \o x) = [value |-> v, n |-> Len(p)]
    BY <2>4, <2>5
  <2>. QED
    BY <1>2, <2>4, <2>6, <2>7 DEF p
<1>3. CASE v # Null /\ col.type # "bytes"
  <2>. DEFINE w == Width(col.type)
              n == Unsigned(v.is, w)
  <2>1. col.type \in {"tiny", "short"} /\ col.unsigned \in BOOLEAN
    BY <1>3 DEF Columns
  <2>2. p = ToBytes(n, w)
    BY <1>3 DEF BinaryPart
  <2>3. ReadBinaryValue(col, p \o x)
          = [value |-> Num(IF col.unsigned THEN Number(SubSeq(p \o x, 1, w))
                           ELSE Signed(Number(SubSeq(p \o x, 1, w)), w)), n |-> w]
    BY <1>3 DEF ReadBinaryValue
  <2>4. /\ w \in 1..2 /\ n \in Nat /\ (w = 1 => n < 256) /\ (w = 2 => n < 65536)
        /\ v = Num(IF col.unsigned THEN n ELSE Signed(n, w))
    <3>1. CASE col.type = "tiny"
      <4>1. w = 1
        BY <3>1, Widths
      <4>2. Fits(v, col.unsigned, 128)
        BY <1>3, <3>1 DEF Holds
      <4>3. v = Num(v.is) /\ v.is \in Int
        BY <4>2 DEF Fits, Num
      <4>4. IF col.unsigned THEN 0 <= v.is /\ v.is < 256 ELSE -128 <= v.is /\ v.is < 128
        BY <4>2, <4>3, SMT DEF Fits
      <4>. HIDE DEF w
      <4>5. n = Unsigned(v.is, 1)
        BY <4>1
      <4>. HIDE DEF n
      <4>6. n \in Nat /\ n < 256 /\ v.is = IF col.unsigned THEN n ELSE Signed(n, 1)
        <5>1. CASE col.unsigned
          BY <4>3, <4>4, <4>5, <5>1, SignsBack, SMT
        <5>2. CASE ~col.unsigned
          BY <4>3, <4>4, <4>5, <5>2, SignsBack, SMT
        <5>. QED
          BY <5>1, <5>2
      <4>7. w \in 1..2 /\ n \in Nat /\ (w = 1 => n < 256) /\ (w = 2 => n < 65536)
        BY <4>1, <4>6, SMT
      <4>8. v = Num(IF col.unsigned THEN n ELSE Signed(n, w))
        BY <4>1, <4>3, <4>6
      <4>. QED
        BY <4>7, <4>8
    <3>2. CASE col.type = "short"
      <4>1. w = 2
        BY <3>2, Widths
      <4>2. Fits(v, col.unsigned, 32768)
        BY <1>3, <3>2 DEF Holds
      <4>3. v = Num(v.is) /\ v.is \in Int
        BY <4>2 DEF Fits, Num
      <4>4. IF col.unsigned THEN 0 <= v.is /\ v.is < 65536 ELSE -32768 <= v.is /\ v.is < 32768
        BY <4>2, <4>3, SMT DEF Fits
      <4>. HIDE DEF w
      <4>5. n = Unsigned(v.is, 2)
        BY <4>1
      <4>. HIDE DEF n
      <4>6. n \in Nat /\ n < 65536 /\ v.is = IF col.unsigned THEN n ELSE Signed(n, 2)
        <5>1. CASE col.unsigned
          BY <4>3, <4>4, <4>5, <5>1, SignsBack, SMT
        <5>2. CASE ~col.unsigned
          BY <4>3, <4>4, <4>5, <5>2, SignsBack, SMT
        <5>. QED
          BY <5>1, <5>2, SMT
      <4>7. w \in 1..2 /\ n \in Nat /\ (w = 1 => n < 256) /\ (w = 2 => n < 65536)
        BY <4>1, <4>6, SMT
      <4>8. v = Num(IF col.unsigned THEN n ELSE Signed(n, w))
        BY <4>1, <4>3, <4>6
      <4>. QED
        BY <4>7, <4>8
    <3>. QED
      BY <2>1, <3>1, <3>2, SMT
  <2>. HIDE DEF w, n
  <2>5. p \in Seq(Byte) /\ Len(p) = w /\ Number(SubSeq(p \o x, 1, w)) = n
    <3>1. /\ ToBytes(n, w) \in Seq(Byte) /\ Len(ToBytes(n, w)) = w
          /\ Number(SubSeq(ToBytes(n, w) \o x, 1, w)) = n
      <4>1. Holding(n, w, x)
        BY <2>4, FixedBack
      <4>. QED
        BY <4>1 DEF Holding
    <3>. HIDE DEF p
    <3>. QED
      BY <2>2, <3>1
  <2>. HIDE DEF p
  <2>6. Len(p) \in Nat /\ ReadBinaryValue(col, p \o x) = [value |-> v, n |-> Len(p)]
    BY <2>3, <2>4, <2>5
  <2>. QED
    BY <1>3, <2>5, <2>6 DEF p
<1>. QED
  BY <1>1, <1>2, <1>3

Numbers == [kind : {"num"}, is : Int]

\* A binary row and its columns.
IsRow(cols, values) ==
  /\ cols \in Seq(Columns)
  /\ values \in Seq({Null} \cup Texts \cup Numbers) /\ Len(values) = Len(cols)
  /\ \A i \in 1..Len(cols) : Holds(cols[i], values[i])

LEMMA BinaryRowBack ==
  ASSUME NEW cols, NEW values, IsRow(cols, values)
  PROVE  ReadBinaryRow(BinaryRow(cols, values), cols) = values
<1>. DEFINE V == {Null} \cup Texts \cup Numbers
            n == Len(cols)
            bytes == (n + 9) \div 8
            nulls == {i + 1 : i \in Nulls(values)}
            bitmap == Bitmap(nulls, bytes)
            head == <<0>> \o bitmap
            parts == [i \in 1..n |-> BinaryPart(cols[i], values[i])]
            tail == FlattenSeq(parts)
            data == head \o tail
            mask == SubSeq(data, 2, 1 + bytes)
<1>1. /\ n \in Nat /\ DOMAIN values = 1..n /\ Len(values) = n /\ values \in Seq(V)
      /\ \A i \in 1..n : cols[i] \in Columns /\ Holds(cols[i], values[i])
  <2>1. cols \in Seq(Columns) /\ values \in Seq(V) /\ Len(values) = n
    BY DEF IsRow
  <2>2. n \in Nat /\ \A i \in 1..n : cols[i] \in Columns
    BY <2>1, LenProperties, ElementOfSeq
  <2>3. DOMAIN values = 1..n
    <3>. HIDE DEF V, n
    <3>. QED
      BY <2>1, LenProperties
  <2>. QED
    BY <2>1, <2>2, <2>3 DEF IsRow
<1>. HIDE DEF V, n
<1>2. bytes \in Nat /\ n + 1 < 8 * bytes
  BY <1>1, SMT
<1>3. \A i \in 1..n : BinaryPart(cols[i], values[i]) \in Seq(Byte)
  <2>1. <<>> \in Seq(Byte)
    BY EmptySeq
  <2>. QED
    BY <1>1, <2>1, BinaryPartBack
<1>. HIDE DEF bytes
<1>4. BinaryRow(cols, values) = data
  BY <1>1 DEF BinaryRow, BinaryPart, bytes, n
<1>5. parts \in [1..n -> Seq(Byte)] /\ \A i \in 1..n : parts[i] = BinaryPart(cols[i], values[i])
  BY <1>3
<1>. HIDE DEF parts
<1>6. parts \in Seq(Seq(Byte)) /\ Len(parts) = n
  <2>1. n \in Nat
    BY <1>1
  <2>. QED
    BY ONLY <1>5, <2>1, FunctionSeq
<1>7. tail \in Seq(Byte)
  <2>1. PICK pre \in [0..n -> Seq(Byte)] : FlattenSeq(parts) = pre[n]
    BY <1>6, Flatten
  <2>. QED
    BY <1>1, <2>1
<1>. HIDE DEF nulls, tail
<1>8. bitmap \in Seq(Byte) /\ Len(bitmap) = bytes
  BY <1>2, BitmapBytes
<1>. HIDE DEF bitmap
<1>9. head \in Seq(Byte) /\ Len(head) = 1 + bytes /\ mask = bitmap
  <2>1. PICK c \in Byte : c = 0
    BY DEF Byte
  <2>2. /\ <<c>> \o bitmap \in Seq(Byte) /\ Len(<<c>> \o bitmap) = 1 + Len(bitmap)
        /\ SubSeq(<<c>> \o bitmap \o tail, 2, 1 + Len(bitmap)) = bitmap
    BY <1>7, <1>8, FirstByte
  <2>. QED
    BY <1>8, <2>1, <2>2
<1>. HIDE DEF head
<1>10. PICK place : Located(place, Byte, head, parts)
  BY <1>6, <1>9, Places
<1>11. /\ place \in [0..n -> Nat] /\ place[0] = 2 + bytes
       /\ \A i \in 1..n :
            /\ place[i] = place[i - 1] + Len(parts[i])
            /\ \E rest \in Seq(Byte) : From(data, place[i - 1]) = parts[i] \o rest
  <2>1. 1 + bytes + 1 = 2 + bytes
    BY <1>2
  <2>. QED
    BY <1>6, <1>9, <1>10, <2>1 DEF Located, tail
<1>12. \A i \in 1..n : RowNull(mask, i) <=> values[i] = Null
  <2>1. TAKE i \in 1..n
  <2>2. i + 1 \in Nat /\ i + 1 < 8 * bytes
    BY <1>1, <1>2
  <2>3. Bit(bitmap, i + 1) <=> i + 1 \in nulls
    BY <1>2, <2>2, BitBack DEF bitmap
  <2>4. i + 1 \in nulls <=> values[i] = Null
    <3>1. ASSUME i + 1 \in nulls PROVE values[i] = Null
      <4>1. PICK j \in Nulls(values) : i + 1 = j + 1
        BY <3>1 DEF nulls
      <4>2. j \in 1..n /\ values[j] = Null
        BY <1>1 DEF Nulls
      <4>3. j = i
        BY <1>1, <4>1, <4>2
      <4>. QED
        BY <4>2, <4>3
    <3>2. ASSUME values[i] = Null PROVE i + 1 \in nulls
      <4>1. i \in Nulls(values)
        BY <1>1, <3>2 DEF Nulls
      <4>. QED
        BY <4>1 DEF nulls
    <3>. QED
      BY <3>1, <3>2
  <2>. HIDE DEF mask
  <2>. QED
    BY <1>9, <2>3, <2>4 DEF RowNull
<1>. HIDE DEF mask, data
<1>. DEFINE Is(f) == f = [i \in 0..n |-> IF i = 0 THEN [pos |-> 2 + bytes, dest |-> <<>>]
                                         ELSE NextBinary(data, cols, mask, i, f[i - 1])]
            g == CHOOSE f : Is(f)
            h == [i \in 0..n |-> [pos |-> place[i], dest |-> SubSeq(values, 1, i)]]
<1>13. ReadBinaryRow(data, cols) = g[n].dest
  BY DEF ReadBinaryRow, n, bytes, mask
<1>14. /\ SubSeq(values, 1, 0) = <<>> /\ SubSeq(values, 1, n) = values
       /\ \A i \in 1..n : Append(SubSeq(values, 1, i - 1), values[i]) = SubSeq(values, 1, i)
  <2>1. Len(values) = n /\ values \in Seq(V)
    BY <1>1
  <2>. QED
    BY <2>1, Beginnings
<1>15. h[0] = [pos |-> 2 + bytes, dest |-> <<>>]
  BY <1>1, <1>11, <1>14
<1>16. ASSUME NEW i \in 1..n PROVE NextBinary(data, cols, mask, i, h[i - 1]) = h[i]
  <2>. DEFINE row == h[i - 1]
  <2>1. i - 1 \in 0..n /\ i \in 0..n /\ cols[i] \in Columns /\ Holds(cols[i], values[i])
    BY <1>1
  <2>2. row.pos = place[i - 1] /\ row.dest = SubSeq(values, 1, i - 1)
    BY <2>1
  <2>3. PICK rest \in Seq(Byte) : From(data, place[i - 1]) = parts[i] \o rest
    BY <1>11
  <2>4. h[i] = [pos |-> place[i], dest |-> SubSeq(values, 1, i)]
    BY <2>1
  <2>. HIDE DEF row, h
  <2>5. /\ Len(parts[i]) \in Nat
        /\ values[i] = Null => Len(parts[i]) = 0
        /\ values[i] # Null => ReadBinaryValue(cols[i], parts[i] \o rest) = [value |-> values[i], n |-> Len(parts[i])]
    <3>1. LET p == BinaryPart(cols[i], values[i]) IN
          /\ Len(p) \in Nat
          /\ values[i] = Null => Len(p) = 0
          /\ values[i] # Null => ReadBinaryValue(cols[i], p \o rest) = [value |-> values[i], n |-> Len(p)]
      BY <2>1, BinaryPartBack
    <3>. QED
      BY <1>5, <3>1
  <2>. DEFINE s == IF RowNull(mask, i) THEN [value |-> Null, n |-> 0]
                   ELSE ReadBinaryValue(cols[i], From(data, row.pos))
  <2>6. NextBinary(data, cols, mask, i, row) = [pos |-> row.pos + s.n, dest |-> Append(row.dest, s.value)]
    BY DEF NextBinary
  <2>7. s.n = Len(parts[i]) /\ s.value = values[i]
    <3>1. CASE values[i] = Null
      BY <1>12, <2>5, <3>1
    <3>2. CASE values[i] # Null
      <4>1. s = ReadBinaryValue(cols[i], parts[i] \o rest)
        BY <1>12, <2>2, <2>3, <3>2
      <4>. HIDE DEF s
      <4>. QED
        BY <2>5, <3>2, <4>1
    <3>. QED
      BY <3>1, <3>2
  <2>. HIDE DEF s
  <2>8. row.pos + s.n = place[i] /\ Append(row.dest, s.value) = SubSeq(values, 1, i)
    BY <1>11, <1>14, <2>2, <2>7
  <2>. QED
    BY <2>4, <2>6, <2>8 DEF row
<1>17. Is(h)
  <2>1. \A i \in 0..n : h[i] = IF i = 0 THEN [pos |-> 2 + bytes, dest |-> <<>>]
                               ELSE NextBinary(data, cols, mask, i, h[i - 1])
    <3>1. TAKE i \in 0..n
    <3>2. CASE i = 0
      BY <1>15, <3>2
    <3>3. CASE i # 0
      <4>1. i \in 1..n
        BY <1>1, <3>3
      <4>. HIDE DEF h
      <4>. QED
        BY <1>16, <3>3, <4>1
    <3>. QED
      BY <3>2, <3>3
  <2>2. h = [i \in 0..n |-> h[i]]
    OBVIOUS
  <2>. HIDE DEF h
  <2>. QED
    BY <2>1, <2>2
<1>18. Is(g)
  <2>. HIDE DEF Is, h
  <2>. QED
    BY <1>17
<1>19. h[n].dest = values
  <2>1. n \in 0..n
    BY <1>1
  <2>. QED
    BY <1>14, <2>1
<1>20. \A i \in 0..n : g[i] = h[i]
  <2>1. 0 \in 0..n /\ \A i \in 1..n : i \in 0..n /\ i # 0
    BY <1>1
  <2>. HIDE DEF h, g
  <2>2. /\ g[0] = [pos |-> 2 + bytes, dest |-> <<>>]
        /\ \A i \in 1..n : g[i] = NextBinary(data, cols, mask, i, g[i - 1])
    BY <1>18, <2>1
  <2>. HIDE DEF Is
  <2>3. g[0] = h[0] /\ \A i \in 1..n : g[i - 1] = h[i - 1] => g[i] = h[i]
    BY <1>15, <1>16, <2>2
  <2>4. n \in Nat
    BY <1>1
  <2>. QED
    BY ONLY <2>3, <2>4, SameChain
<1>. HIDE DEF g, h
<1>21. g[n] = h[n]
  <2>1. n \in 0..n
    BY <1>1
  <2>. QED
    BY <1>20, <2>1
<1>. QED
  BY <1>4, <1>13, <1>19, <1>21

\* A row is read as it was written, whatever is in it, in either protocol.
THEOREM RowsBack == Spec => []RowsIntact
<1>1. IInv => RowsIntact
  <2>. SUFFICES ASSUME IInv PROVE RowsIntact
    OBVIOUS
  <2>1. Done("text") => result = task.in
    <3>. SUFFICES ASSUME Done("text") PROVE result = task.in
      OBVIOUS
    <3>1. task.in \in TextRows /\ result = ReadTextRow(TextRow(task.in), Len(task.in))
      BY DEF IInv, TextInv, Done
    <3>2. task.in \in Seq({Null} \cup Texts)
      BY <3>1, CodecsAssumption DEF CodecsAssumption
    <3>. QED
      BY <3>1, <3>2, TextRowBack
  <2>2. Done("binary") => result = task.in.row
    <3>. SUFFICES ASSUME Done("binary") PROVE result = task.in.row
      OBVIOUS
    <3>1. /\ task.in \in BinaryRows
          /\ result = ReadBinaryRow(BinaryRow(task.in.cols, task.in.row), task.in.cols)
      BY DEF IInv, BinaryInv, Done
    <3>2. IsRow(task.in.cols, task.in.row)
      BY <3>1, CodecsAssumption DEF CodecsAssumption, IsRow, Numbers
    <3>. QED
      BY <3>1, <3>2, BinaryRowBack
  <2>. QED
    BY <2>1, <2>2 DEF RowsIntact
<1>. QED
  BY <1>1, CodecsInvariance, PTL

-----------------------------------------------------------------------------
(* Executing a statement.                                                  *)

LEMMA Pieces ==
  ASSUME NEW l \in Nat, NEW w \in Nat, w > 0
  PROVE  /\ (l + w - 1) \div w \in Nat
         /\ ((l + w - 1) \div w) * w >= l
         /\ \A k \in 1..(l + w - 1) \div w : (k - 1) * w \in Nat /\ (k - 1) * w < l /\ k * w = (k - 1) * w + w
<1>. DEFINE m == (l + w - 1) \div w
            a == l + w - 1
<1>1. a \in Nat /\ a = m * w + (a % w) /\ a % w \in 0..w - 1 /\ m \in Nat
  OBVIOUS
<1>. HIDE DEF m
<1>2. m * w >= l /\ m * w <= l + w - 1
  BY <1>1
<1>3. ASSUME NEW k \in 1..m PROVE (k - 1) * w \in Nat /\ (k - 1) * w < l /\ k * w = (k - 1) * w + w
  <2>1. k * w = (k - 1) * w + w /\ (k - 1) * w \in Int
    OBVIOUS
  <2>2. m * w = k * w + (m - k) * w /\ (m - k) * w \in Int
    BY <1>1
  <2>3. (m - k) * w >= 0
    <3>1. m - k \in Nat
      BY <1>1
    <3>. QED
      BY <3>1
  <2>4. (k - 1) * w >= 0
    <3>1. k - 1 \in Nat
      OBVIOUS
    <3>. QED
      BY <3>1
  <2>. DEFINE x == k * w  y == (k - 1) * w z == (m - k) * w u == m * w
  <2>5. u >= l /\ u <= l + w - 1 /\ x = y + w /\ u = x + z /\ z >= 0 /\ y >= 0 /\ y \in Int /\ z \in Int
    BY <1>2, <2>1, <2>2, <2>3, <2>4
  <2>. HIDE DEF x, y, z, u
  <2>6. y \in Nat /\ y < l /\ x = y + w
    BY <2>5
  <2>. QED
    BY <2>6 DEF x, y
<1>. QED
  BY <1>1, <1>2, <1>3 DEF m

\* The packets of long data put together are the argument, and each has room
\* for what stands before its data.
LEMMA LongBack ==
  ASSUME NEW arg \in Seq(Byte), NEW max \in Nat, Offset + 1 < max
  PROVE  /\ FlattenSeq(LongData(arg, max)) = arg
         /\ \A k \in DOMAIN LongData(arg, max) : Offset + Len(LongData(arg, max)[k]) < max
<1>. DEFINE w == max - 8
            l == Len(arg)
            m == (l + w - 1) \div w
            parts == LongData(arg, max)
            end(k) == Lesser(l, k * w)
<1>0. Offset = 7 /\ w \in Nat /\ w > 0 /\ max = w + 8 /\ l \in Nat
  BY LenProperties DEF Offset
<1>. HIDE DEF w
<1>1. parts = [k \in 1..m |-> SubSeq(arg, (k - 1) * w + 1, Lesser(l, (k - 1) * w + max - 1 - Offset))]
  <2>1. NextPart(max - 1) = w
    BY <1>0 DEF NextPart
  <2>. QED
    BY <2>1 DEF LongData
<1>2. /\ m \in Nat /\ m * w >= l
      /\ \A k \in 1..m : (k - 1) * w \in Nat /\ (k - 1) * w < l /\ k * w = (k - 1) * w + w
  <2>. HIDE DEF l
  <2>. QED
    BY ONLY <1>0, Pieces
<1>. HIDE DEF l, m, parts
<1>3. ASSUME NEW k \in 1..m
      PROVE  /\ end(k - 1) \in 0..l /\ end(k) \in end(k - 1)..l /\ end(k) <= end(k - 1) + w
             /\ parts[k] = SubSeq(arg, end(k - 1) + 1, end(k))
  <2>. DEFINE x == (k - 1) * w  y == k * w
  <2>1. x \in Nat /\ x < l /\ y = x + w
    BY <1>2
  <2>2. parts[k] = SubSeq(arg, x + 1, Lesser(l, x + max - 1 - Offset))
    BY <1>1
  <2>. HIDE DEF x, y
  <2>3. x + max - 1 - Offset = y
    BY <1>0, <2>1
  <2>4. Lesser(l, x) = x /\ Lesser(l, y) \in x..l /\ Lesser(l, y) <= x + w
    BY <1>0, <2>1 DEF Lesser
  <2>5. /\ Lesser(l, x) \in 0..l /\ Lesser(l, y) \in Lesser(l, x)..l /\ Lesser(l, y) <= Lesser(l, x) + w
        /\ parts[k] = SubSeq(arg, Lesser(l, x) + 1, Lesser(l, y))
    BY <1>0, <2>1, <2>2, <2>3, <2>4
  <2>. QED
    BY <2>5 DEF x, y
<1>4. end(0) = 0 /\ end(m) = l
  <2>1. 0 * w = 0
    BY <1>0
  <2>. DEFINE y == m * w
  <2>2. y >= l /\ y \in Int
    BY <1>0, <1>2
  <2>. HIDE DEF y
  <2>3. Lesser(l, 0) = 0 /\ Lesser(l, y) = l
    BY <1>0, <2>2 DEF Lesser
  <2>. QED
    BY <2>1, <2>3 DEF y
<1>. HIDE DEF end
<1>5. ASSUME NEW k \in 1..m
      PROVE  parts[k] \in Seq(Byte) /\ Offset + Len(parts[k]) < max
  <2>. DEFINE a == end(k - 1)  b == end(k)
  <2>1. a \in 0..l /\ b \in a..l /\ b <= a + w /\ parts[k] = SubSeq(arg, a + 1, b)
    BY <1>3
  <2>. HIDE DEF a, b
  <2>2. \A i \in 1..l : arg[i] \in Byte
    BY ElementOfSeq DEF l
  <2>3. a + 1 \in Int /\ b \in Int /\ \A i \in a + 1..b : arg[i] \in Byte
    BY <1>0, <2>1, <2>2
  <2>4. SubSeq(arg, a + 1, b) \in Seq(Byte)
        /\ Len(SubSeq(arg, a + 1, b)) = IF a + 1 <= b THEN b - (a + 1) + 1 ELSE 0
    BY ONLY <2>3, SubSeqProperties
  <2>5. Len(parts[k]) <= w /\ Len(parts[k]) \in Nat
    BY <1>0, <2>1, <2>4
  <2>. QED
    BY <1>0, <2>1, <2>4, <2>5
<1>6. parts \in Seq(Seq(Byte)) /\ Len(parts) = m /\ DOMAIN parts = 1..m
  <2>1. parts \in [1..m -> Seq(Byte)]
    BY <1>1, <1>5
  <2>2. DOMAIN parts = 1..m
    BY <2>1
  <2>. QED
    BY <1>2, <2>1, <2>2, FunctionSeq
<1>7. PICK pre \in [0..m -> Seq(Byte)] :
        /\ pre[0] = <<>> /\ FlattenSeq(parts) = pre[m]
        /\ \A i \in 1..m : pre[i] = pre[i - 1] \o parts[i]
  BY <1>6, Flatten
<1>. DEFINE G == {k \in 0..m : pre[k] = SubSeq(arg, 1, end(k))}
<1>8. SubSeq(arg, 1, 0) = <<>> /\ SubSeq(arg, 1, l) = arg
  BY Beginnings DEF l
<1>9. 0 \in G
  BY <1>2, <1>4, <1>7, <1>8
<1>10. ASSUME NEW k \in 1..m, k - 1 \in G PROVE k \in G
  <2>. DEFINE a == end(k - 1)  b == end(k)
  <2>1. a \in 0..l /\ b \in a..l /\ parts[k] = SubSeq(arg, a + 1, b)
    BY <1>3
  <2>2. pre[k - 1] = SubSeq(arg, 1, a) /\ pre[k] = pre[k - 1] \o parts[k]
    BY <1>7, <1>10
  <2>. HIDE DEF a, b
  <2>3. 1 \in 1..Len(arg) + 1 /\ a \in 1 - 1..Len(arg) /\ b \in a..Len(arg)
    BY <1>0, <2>1 DEF l
  <2>4. SubSeq(arg, 1, a) \o SubSeq(arg, a + 1, b) = SubSeq(arg, 1, b)
    BY ONLY <2>3, arg \in Seq(Byte), ConcatAdjacentSubSeq
  <2>5. pre[k] = SubSeq(arg, 1, b)
    BY <2>1, <2>2, <2>4
  <2>. QED
    BY <1>2, <2>5 DEF b
<1>. HIDE DEF G
<1>11. m \in G
  <2>1. \A k \in 0..m : k \in G
    BY <1>2, <1>9, <1>10, UpTo
  <2>. QED
    BY <1>2, <2>1
<1>12. FlattenSeq(parts) = arg
  BY <1>4, <1>7, <1>8, <1>11 DEF G
<1>. QED
  BY <1>5, <1>6, <1>12 DEF parts

\* What an argument is in the execute packet; `ahead' when it went ahead of it.
ArgumentPart(v, ahead) ==
  CASE ahead \/ v = Null -> <<>>
    [] ~ahead /\ v.kind = "bytes" -> AppendString(v.is)
    [] v.kind = "num" -> ToBytes(v.is, 8)

LEMMA KindsAre ==
  ASSUME NEW v \in Args
  PROVE  /\ v.kind \in {"null", "bytes", "num"}
         /\ v.kind = "null" <=> v = Null
         /\ v.kind = "bytes" <=> v \in Texts
         /\ v.kind = "num" <=> v \in Counts
<1>1. Null.kind = "null" /\ Null \notin Texts /\ Null \notin Counts
  BY DEF Null, Texts, Counts
<1>2. v \in Texts => v.kind = "bytes" /\ v \notin Counts
  BY DEF Texts, Counts
<1>3. v \in Counts => v.kind = "num" /\ v \notin Texts
  BY DEF Texts, Counts
<1>. QED
  BY <1>1, <1>2, <1>3 DEF Args

LEMMA ArgumentPartBack ==
  ASSUME NEW v \in Args, NEW ahead \in BOOLEAN, ahead => v \in Texts, NEW x \in Seq(Byte)
  PROVE  /\ ArgumentPart(v, ahead) \in Seq(Byte)
         /\ v = Null \/ ahead => Len(ArgumentPart(v, ahead)) = 0
         /\ v \in Texts /\ ~ahead => ReadString(ArgumentPart(v, ahead) \o x)
                                       = [n |-> Len(ArgumentPart(v, ahead)), value |-> v]
         /\ v \in Counts => /\ Len(ArgumentPart(v, ahead)) = 8
                            /\ Num(Number(SubSeq(ArgumentPart(v, ahead) \o x, 1, 8))) = v
<1>. DEFINE p == ArgumentPart(v, ahead)
<1>1. /\ v.kind \in {"null", "bytes", "num"}
      /\ v.kind = "null" <=> v = Null
      /\ v.kind = "bytes" <=> v \in Texts
      /\ v.kind = "num" <=> v \in Counts
  BY KindsAre
<1>2. CASE v = Null \/ ahead
  <2>0. v.kind # "num" /\ ~(~ahead /\ v.kind = "bytes")
    BY <1>1, <1>2
  <2>1. p = <<>>
    BY <1>2, <2>0 DEF ArgumentPart
  <2>2. <<>> \in Seq(Byte) /\ Len(<<>>) = 0
    BY EmptySeq
  <2>3. v \notin Counts /\ ~(v \in Texts /\ ~ahead)
    BY <1>1, <1>2
  <2>. HIDE DEF p
  <2>4. p \in Seq(Byte) /\ Len(p) = 0
    BY <2>1, <2>2
  <2>. QED
    BY <2>3, <2>4 DEF p
<1>3. CASE v \in Texts /\ ~ahead
  <2>1. v.is \in Seq(Byte) /\ Len(v.is) < Limit /\ v = Bytes(v.is) /\ v # Null
    BY <1>3, TextsAre
  <2>2. p = AppendString(v.is)
    BY <1>1, <1>3, <2>1 DEF ArgumentPart
  <2>. HIDE DEF p
  <2>3. p \in Seq(Byte) /\ ReadString(p \o x) = [n |-> Len(p), value |-> v]
    BY <2>1, <2>2, StringBack
  <2>4. v \notin Counts
    BY <1>1, <1>3
  <2>. QED
    BY <1>3, <2>1, <2>3, <2>4 DEF p
<1>4. CASE v \in Counts /\ ~ahead
  <2>1. v.is \in Nat /\ v.is < Limit /\ v = Num(v.is)
    <3>1. v.is \in Nat /\ v.is < Limit
      BY <1>4, SMT DEF Counts, Limit
    <3>2. v = Num(v.is)
      BY <1>4 DEF Counts, Num
    <3>. QED
      BY <3>1, <3>2
  <2>2. v # Null /\ v \notin Texts
    BY <1>1, <1>4
  <2>3. p = ToBytes(v.is, 8)
    BY <1>1, <1>4, <2>2 DEF ArgumentPart
  <2>4. Encodes(v.is, 8)
    BY ONLY <2>1, NumbersBack
  <2>. HIDE DEF p
  <2>5. p \in Seq(Byte) /\ Len(p) = 8 /\ Number(p) = v.is
    BY <2>3, <2>4 DEF Encodes
  <2>6. SubSeq(p \o x, 1, 8) = p
    BY <2>5, Ends
  <2>7. Num(Number(SubSeq(p \o x, 1, 8))) = v
    BY <2>1, <2>5, <2>6
  <2>. QED
    BY <1>4, <2>2, <2>5, <2>7 DEF p
<1>. QED
  BY <1>1, <1>2, <1>3, <1>4

\* What the packets of a statement come to at the server.
LEMMA ExecuteBack ==
  ASSUME NEW args \in Seq(Args), NEW max \in Nat, Offset + 1 < max, NEW least,
         NEW packet, packet = ExecutePacket(args, max, least)
  PROVE  /\ Executed(packet) = args
         /\ \A i \in DOMAIN packet.long : \A k \in DOMAIN packet.long[i] :
              Offset + Len(packet.long[i][k]) < max
<1>. DEFINE n == Len(args)
            size == LongDataSize(Len(args), max, least)
            long == {i \in DOMAIN args : args[i].kind = "bytes" /\ Len(args[i].is) >= size}
            bits == {i - 1 : i \in Nulls(args)}
            bytes == (Len(args) + 7) \div 8
            parts == [i \in 1..n |-> ArgumentPart(args[i], i \in long)]
            data == FlattenSeq(parts)
            mask == Bitmap(bits, bytes)
<1>1. n \in Nat /\ DOMAIN args = 1..n /\ Len(args) = n /\ \A i \in 1..n : args[i] \in Args
  <2>. HIDE DEF Args
  <2>. QED
    BY LenProperties, ElementOfSeq
<1>2. bytes \in Nat /\ n <= 8 * bytes
  <2>. HIDE DEF n
  <2>1. bytes = (n + 7) \div 8
    BY <1>1
  <2>. HIDE DEF bytes
  <2>. QED
    BY <1>1, <2>1, SMT
<1>3. /\ packet.long = [i \in long |-> LongData(args[i].is, max)]
      /\ packet.mask = mask
      /\ packet.types = [i \in 1..n |-> args[i].kind]
      /\ packet.values = data
  <2>1. packet = [long   |-> [i \in long |-> LongData(args[i].is, max)],
                  mask   |-> mask,
                  types  |-> [i \in DOMAIN args |-> args[i].kind],
                  values |-> FlattenSeq([i \in DOMAIN args |->
                               CASE i \in long \/ args[i] = Null -> <<>>
                                 [] i \notin long /\ args[i].kind = "bytes" -> AppendString(args[i].is)
                                 [] args[i].kind = "num" -> ToBytes(args[i].is, 8)])]
    BY Zenon DEF ExecutePacket
  <2>. DEFINE values == [i \in 1..n |->
                               CASE i \in long \/ args[i] = Null -> <<>>
                                 [] i \notin long /\ args[i].kind = "bytes" -> AppendString(args[i].is)
                                 [] args[i].kind = "num" -> ToBytes(args[i].is, 8)]
  <2>2. values = parts
    <3>. HIDE DEF n, long
    <3>. QED
      BY DEF ArgumentPart
  <2>. HIDE DEF n, long, parts, mask
  <2>3. packet = [long   |-> [i \in long |-> LongData(args[i].is, max)],
                  mask   |-> mask,
                  types  |-> [i \in 1..n |-> args[i].kind],
                  values |-> FlattenSeq(values)]
    BY <1>1, <2>1
  <2>. HIDE DEF values
  <2>. QED
    BY <2>2, <2>3
<1>4. \A i \in long : i \in 1..n /\ args[i] \in Texts
  <2>1. \A i \in 1..n : args[i].kind = "bytes" => args[i] \in Texts
    BY <1>1, KindsAre
  <2>. HIDE DEF n
  <2>. QED
    BY <1>1, <2>1
<1>. HIDE DEF n, size, long, bits, bytes
<1>5. ASSUME NEW i \in long
      PROVE  FlattenSeq(LongData(args[i].is, max)) = args[i].is /\ args[i] = Bytes(args[i].is)
             /\ \A k \in DOMAIN LongData(args[i].is, max) : Offset + Len(LongData(args[i].is, max)[k]) < max
  <2>1. args[i].is \in Seq(Byte) /\ args[i] = Bytes(args[i].is)
    BY <1>4, TextsAre
  <2>. QED
    BY <2>1, LongBack
<1>6. \A i \in 1..n : ArgumentPart(args[i], i \in long) \in Seq(Byte)
  <2>1. TAKE i \in 1..n
  <2>2. <<>> \in Seq(Byte) /\ args[i] \in Args /\ (i \in long) \in BOOLEAN /\ (i \in long => args[i] \in Texts)
    BY <1>1, <1>4, EmptySeq
  <2>. QED
    BY <2>2, ArgumentPartBack
<1>7. parts \in [1..n -> Seq(Byte)] /\ \A i \in 1..n : parts[i] = ArgumentPart(args[i], i \in long)
  BY <1>6
<1>. HIDE DEF parts
<1>8. parts \in Seq(Seq(Byte)) /\ Len(parts) = n
  <2>1. n \in Nat
    BY <1>1
  <2>. QED
    BY ONLY <1>7, <2>1, FunctionSeq
<1>9. <<>> \o data = data
  <2>1. PICK pre \in [0..n -> Seq(Byte)] : FlattenSeq(parts) = pre[n]
    BY <1>8, Flatten
  <2>2. data \in Seq(Byte)
    BY <1>1, <2>1
  <2>. HIDE DEF data
  <2>. QED
    BY <2>2, ConcatEmptySeq
<1>10. PICK place \in [0..n -> Nat] :
        /\ place[0] = 1
        /\ \A i \in 1..n :
             /\ place[i] = place[i - 1] + Len(parts[i])
             /\ \E rest \in Seq(Byte) : From(data, place[i - 1]) = parts[i] \o rest
  <2>0. <<>> \in Seq(Byte) /\ <<>> = <<>> /\ Len(<<>>) + 1 = 1
    BY EmptySeq
  <2>. PICK head \in Seq(Byte) : head = <<>> /\ Len(head) + 1 = 1
    BY <2>0, Zenon
  <2>1. PICK place : Located(place, Byte, head, parts)
    BY <1>8, Places
  <2>2. head \o FlattenSeq(parts) = data
    BY <1>9
  <2>. HIDE DEF data
  <2>. QED
    BY <1>8, <2>1, <2>2 DEF Located
<1>. HIDE DEF data
<1>11. \A i \in 1..n : Bit(mask, i - 1) <=> args[i] = Null
  <2>1. TAKE i \in 1..n
  <2>2. i - 1 \in Nat /\ i - 1 < 8 * bytes
    BY <1>1, <1>2
  <2>3. Bit(mask, i - 1) <=> i - 1 \in bits
    BY <1>2, <2>2, BitBack
  <2>4. i - 1 \in bits <=> args[i] = Null
    <3>1. ASSUME i - 1 \in bits PROVE args[i] = Null
      <4>1. PICK j \in Nulls(args) : i - 1 = j - 1
        BY <3>1 DEF bits
      <4>2. j \in 1..n /\ args[j] = Null
        BY <1>1 DEF Nulls
      <4>3. j = i
        BY <1>1, <4>1, <4>2
      <4>. QED
        BY <4>2, <4>3
    <3>2. ASSUME args[i] = Null PROVE i - 1 \in bits
      <4>1. i \in Nulls(args)
        BY <1>1, <3>2 DEF Nulls
      <4>. QED
        BY <4>1 DEF bits
    <3>. QED
      BY <3>1, <3>2
  <2>. HIDE DEF mask
  <2>. QED
    BY <2>3, <2>4
<1>. HIDE DEF mask
<1>. DEFINE Is(f) == f = [i \in 0..n |-> IF i = 0 THEN [pos |-> 1, dest |-> <<>>]
                                         ELSE NextArgument(packet, i, f[i - 1])]
            g == CHOOSE f : Is(f)
            h == [i \in 0..n |-> [pos |-> place[i], dest |-> SubSeq(args, 1, i)]]
<1>12. Executed(packet) = g[n].dest
  <2>1. Len(packet.types) = n
    <3>1. packet.types \in [1..n -> {args[i].kind : i \in 1..n}]
      BY <1>3
    <3>. QED
      BY <1>1, <3>1, FunctionSeq
  <2>. DEFINE k == Len(packet.types)
              F(f) == f = [i \in 0..k |-> IF i = 0 THEN [pos |-> 1, dest |-> <<>>]
                                          ELSE NextArgument(packet, i, f[i - 1])]
  <2>2. Executed(packet) = (CHOOSE f : F(f))[k].dest
    BY DEF Executed
  <2>. HIDE DEF k
  <2>3. k = n
    BY <2>1 DEF k
  <2>. QED
    BY <2>2, <2>3
<1>13. /\ SubSeq(args, 1, 0) = <<>> /\ SubSeq(args, 1, n) = args
       /\ \A i \in 1..n : Append(SubSeq(args, 1, i - 1), args[i]) = SubSeq(args, 1, i)
  BY Beginnings DEF n
<1>14. h[0] = [pos |-> 1, dest |-> <<>>]
  BY <1>1, <1>10, <1>13
<1>15. ASSUME NEW i \in 1..n PROVE NextArgument(packet, i, h[i - 1]) = h[i]
  <2>. DEFINE row == h[i - 1]
  <2>1. i - 1 \in 0..n /\ i \in 0..n /\ args[i] \in Args
    BY <1>1
  <2>2. row.pos = place[i - 1] /\ row.dest = SubSeq(args, 1, i - 1)
    BY <2>1
  <2>3. PICK rest \in Seq(Byte) : From(data, place[i - 1]) = parts[i] \o rest
    BY <1>10
  <2>4. h[i] = [pos |-> place[i], dest |-> SubSeq(args, 1, i)]
    BY <2>1
  <2>. HIDE DEF row, h
  <2>5. /\ args[i] = Null \/ i \in long => Len(parts[i]) = 0
        /\ args[i] \in Texts /\ i \notin long => ReadString(parts[i] \o rest) = [n |-> Len(parts[i]), value |-> args[i]]
        /\ args[i] \in Counts => /\ Len(parts[i]) = 8
                                 /\ Num(Number(SubSeq(parts[i] \o rest, 1, 8))) = args[i]
    <3>1. (i \in long) \in BOOLEAN /\ (i \in long => args[i] \in Texts)
      BY <1>4
    <3>2. parts[i] = ArgumentPart(args[i], i \in long)
      BY <1>7
    <3>3. PICK ahead \in BOOLEAN : ahead <=> i \in long
      OBVIOUS
    <3>4. parts[i] = ArgumentPart(args[i], ahead) /\ (ahead => args[i] \in Texts)
      <4>1. ahead = (i \in long)
        BY <3>3
      <4>. QED
        BY <3>1, <3>2, <4>1
    <3>5. LET p == ArgumentPart(args[i], ahead) IN
          /\ args[i] = Null \/ ahead => Len(p) = 0
          /\ args[i] \in Texts /\ ~ahead => ReadString(p \o rest) = [n |-> Len(p), value |-> args[i]]
          /\ args[i] \in Counts => /\ Len(p) = 8
                                   /\ Num(Number(SubSeq(p \o rest, 1, 8))) = args[i]
      BY ONLY <2>1, <3>4, rest \in Seq(Byte), ahead \in BOOLEAN, ArgumentPartBack
    <3>. QED
      BY <3>3, <3>4, <3>5
  <2>. DEFINE b == From(packet.values, row.pos)
              s == IF Bit(packet.mask, i - 1) THEN [value |-> Null, n |-> 0]
                   ELSE IF i \in DOMAIN packet.long THEN [value |-> Bytes(FlattenSeq(packet.long[i])), n |-> 0]
                   ELSE IF packet.types[i] = "bytes" THEN ReadString(b)
                   ELSE [value |-> Num(Number(SubSeq(b, 1, 8))), n |-> 8]
  <2>6. NextArgument(packet, i, row) = [pos |-> row.pos + s.n, dest |-> Append(row.dest, s.value)]
    BY DEF NextArgument
  <2>7. b = parts[i] \o rest /\ packet.types[i] = args[i].kind /\ DOMAIN packet.long = long
        /\ (Bit(packet.mask, i - 1) <=> args[i] = Null)
    BY <1>3, <1>11, <2>2, <2>3
  <2>8. /\ args[i].kind \in {"null", "bytes", "num"}
        /\ args[i].kind = "null" <=> args[i] = Null
        /\ args[i].kind = "bytes" <=> args[i] \in Texts
        /\ args[i].kind = "num" <=> args[i] \in Counts
    BY <2>1, KindsAre
  <2>. HIDE DEF b
  <2>9. s.n = Len(parts[i]) /\ s.value = args[i]
    <3>1. CASE args[i] = Null
      BY <2>5, <2>7, <3>1
    <3>2. CASE args[i] # Null /\ i \in long
      <4>1. packet.long[i] = LongData(args[i].is, max)
        BY <1>3, <3>2
      <4>2. s = [value |-> Bytes(FlattenSeq(packet.long[i])), n |-> 0]
        BY <2>7, <3>2
      <4>3. s.value = args[i]
        BY <1>5, <3>2, <4>1, <4>2
      <4>. QED
        BY <2>5, <3>2, <4>2, <4>3
    <3>3. CASE args[i] \in Texts /\ i \notin long
      <4>1. s = ReadString(b)
        BY <2>7, <2>8, <3>3
      <4>. HIDE DEF s
      <4>. QED
        BY <2>5, <2>7, <3>3, <4>1
    <3>4. CASE args[i] \in Counts
      <4>1. s = [value |-> Num(Number(SubSeq(b, 1, 8))), n |-> 8]
        BY <1>4, <2>7, <2>8, <3>4
      <4>. HIDE DEF s
      <4>. QED
        BY <2>5, <2>7, <3>4, <4>1
    <3>. QED
      BY <2>8, <3>1, <3>2, <3>3, <3>4
  <2>. HIDE DEF s
  <2>10. row.pos + s.n = place[i] /\ Append(row.dest, s.value) = SubSeq(args, 1, i)
    BY <1>10, <1>13, <2>2, <2>9
  <2>. QED
    BY <2>4, <2>6, <2>10 DEF row
<1>16. Is(h)
  <2>1. \A i \in 0..n : h[i] = IF i = 0 THEN [pos |-> 1, dest |-> <<>>]
                               ELSE NextArgument(packet, i, h[i - 1])
    <3>1. TAKE i \in 0..n
    <3>2. CASE i = 0
      BY <1>14, <3>2
    <3>3. CASE i # 0
      <4>1. i \in 1..n
        BY <1>1, <3>3
      <4>. HIDE DEF h
      <4>. QED
        BY <1>15, <3>3, <4>1
    <3>. QED
      BY <3>2, <3>3
  <2>2. h = [i \in 0..n |-> h[i]]
    OBVIOUS
  <2>. HIDE DEF h
  <2>. QED
    BY <2>1, <2>2
<1>17. Is(g)
  <2>. HIDE DEF Is, h
  <2>. QED
    BY <1>16
<1>18. h[n].dest = args
  <2>1. n \in 0..n
    BY <1>1
  <2>. QED
    BY <1>13, <2>1
<1>19. \A i \in 0..n : g[i] = h[i]
  <2>1. 0 \in 0..n /\ \A i \in 1..n : i \in 0..n /\ i # 0
    BY <1>1
  <2>. HIDE DEF h, g
  <2>2. /\ g[0] = [pos |-> 1, dest |-> <<>>]
        /\ \A i \in 1..n : g[i] = NextArgument(packet, i, g[i - 1])
    BY <1>17, <2>1
  <2>. HIDE DEF Is
  <2>3. g[0] = h[0] /\ \A i \in 1..n : g[i - 1] = h[i - 1] => g[i] = h[i]
    BY <1>14, <1>15, <2>2
  <2>4. n \in Nat
    BY <1>1
  <2>. DEFINE G == {i \in 0..n : g[i] = h[i]}
  <2>5. 0 \in G /\ \A i \in 1..n : i - 1 \in G => i \in G
    BY <2>1, <2>3
  <2>. HIDE DEF G
  <2>6. \A i \in 0..n : i \in G
    BY <2>4, <2>5, UpTo
  <2>. QED
    BY <2>6 DEF G
<1>. HIDE DEF g, h
<1>20. g[n] = h[n]
  <2>1. n \in 0..n
    BY <1>1
  <2>. QED
    BY <1>19, <2>1
<1>21. \A i \in DOMAIN packet.long : \A k \in DOMAIN packet.long[i] : Offset + Len(packet.long[i][k]) < max
  <2>1. DOMAIN packet.long = long /\ \A i \in long : packet.long[i] = LongData(args[i].is, max)
    BY <1>3
  <2>. QED
    BY <1>5, <2>1
<1>. QED
  BY <1>12, <1>18, <1>20, <1>21

-----------------------------------------------------------------------------
(* Literals in a query.                                                    *)

LEMMA Short ==
  ASSUME NEW S, NEW c \in S, NEW d \in S
  PROVE  /\ <<c>> \in Seq(S) /\ Len(<<c>>) = 1 /\ <<c>>[1] = c
         /\ <<c>> \o <<d>> = <<c, d>> /\ <<c, d>> \in Seq(S) /\ Len(<<c, d>>) = 2
<1>1. <<c>> \in Seq(S) /\ Len(<<c>>) = 1 /\ <<c>>[1] = c
  OBVIOUS
<1>2. <<d>> \in Seq(S) /\ Len(<<d>>) = 1 /\ <<d>>[1] = d
  OBVIOUS
<1>3. <<c, d>> \in Seq(S) /\ Len(<<c, d>>) = 2 /\ <<c, d>>[1] = c /\ <<c, d>>[2] = d
  OBVIOUS
<1>4. <<c>> \o <<d>> = <<c, d>>
  <2>1. PICK a \in Seq(S) : a = <<c>> /\ Len(a) = 1 /\ a[1] = c
    BY <1>1, Zenon
  <2>2. PICK b \in Seq(S) : b = <<d>> /\ Len(b) = 1 /\ b[1] = d
    BY <1>2, Zenon
  <2>3. PICK e \in Seq(S) : e = <<c, d>> /\ Len(e) = 2 /\ e[1] = c /\ e[2] = d
    BY <1>3, Zenon
  <2>4. /\ a \o b \in Seq(S) /\ Len(a \o b) = Len(a) + Len(b)
        /\ \A i \in 1..Len(a) + Len(b) : (a \o b)[i] = IF i <= Len(a) THEN a[i] ELSE b[i - Len(a)]
    BY ConcatProperties
  <2>. DEFINE ab == a \o b
  <2>5. ab \in Seq(S) /\ Len(ab) = 2 /\ ab[1] = c /\ ab[2] = d
    BY <2>1, <2>2, <2>4
  <2>6. ab = e
    <3>. HIDE DEF ab
    <3>1. Len(ab) = Len(e) /\ \A i \in 1..Len(ab) : ab[i] = e[i]
      BY <2>3, <2>5
    <3>. QED
      BY ONLY <2>5, <3>1, e \in Seq(S), SeqEqual
  <2>. QED
    BY <2>1, <2>2, <2>3, <2>6
<1>. QED
  BY <1>1, <1>3, <1>4

\* The states behind each of the characters.
IsRun(run, s, chars, nb) ==
  run = [i \in 0..Len(chars) |-> IF i = 0 THEN s ELSE LexStep(run[i - 1], chars[i], nb)]

LEMMA LexRun ==
  ASSUME NEW s, NEW chars \in Seq(Letter), NEW nb
  PROVE  \E run : IsRun(run, s, chars, nb) /\ LexFrom(s, chars, nb) = run[Len(chars)]
<1>. DEFINE n == Len(chars)
            Behind(f, m) == f = [i \in 0..m |-> IF i = 0 THEN s ELSE LexStep(f[i - 1], chars[i], nb)]
            G == {m \in Nat : \E f : Behind(f, m)}
<1>1. n \in Nat
  BY LenProperties
<1>2. 0 \in G
  <2>. DEFINE f == [i \in 0..0 |-> s]
  <2>1. Behind(f, 0)
    <3>1. \A i \in 0..0 : i = 0
      OBVIOUS
    <3>. QED
      BY <3>1
  <2>. HIDE DEF f
  <2>2. \E x : Behind(x, 0)
    BY <2>1
  <2>. QED
    BY <2>2
<1>3. ASSUME NEW m \in Nat, m \in G PROVE m + 1 \in G
  <2>1. PICK f : Behind(f, m)
    BY <1>3
  <2>. DEFINE g == [i \in 0..m + 1 |-> IF i = m + 1 THEN LexStep(f[m], chars[m + 1], nb) ELSE f[i]]
  <2>2. \A i \in 0..m : f[i] = IF i = 0 THEN s ELSE LexStep(f[i - 1], chars[i], nb)
    BY <2>1
  <2>3. \A i \in 0..m : g[i] = f[i]
    OBVIOUS
  <2>4. g[m + 1] = LexStep(g[m], chars[m + 1], nb)
    OBVIOUS
  <2>5. \A i \in 0..m + 1 : g[i] = IF i = 0 THEN s ELSE LexStep(g[i - 1], chars[i], nb)
    <3>1. TAKE i \in 0..m + 1
    <3>. HIDE DEF g, Behind
    <3>2. CASE i = m + 1
      <4>1. (m + 1) - 1 = m /\ m + 1 # 0
        OBVIOUS
      <4>. QED
        BY <2>4, <3>2, <4>1
    <3>3. CASE i # m + 1
      <4>1. i \in 0..m /\ (i # 0 => i - 1 \in 0..m)
        BY <3>3
      <4>. QED
        BY <2>2, <2>3, <4>1
    <3>. QED
      BY <3>2, <3>3
  <2>6. g = [i \in 0..m + 1 |-> g[i]]
    OBVIOUS
  <2>. HIDE DEF g
  <2>7. Behind(g, m + 1)
    BY <2>5, <2>6
  <2>8. \E x : Behind(x, m + 1)
    BY <2>7
  <2>. QED
    BY <2>8
<1>4. n \in G
  <2>. HIDE DEF G
  <2>. QED
    BY <1>1, <1>2, <1>3, Induction
<1>5. PICK f : Behind(f, n)
  BY <1>4
<1>. DEFINE run == CHOOSE r : Behind(r, n)
<1>6. Behind(run, n)
  <2>. HIDE DEF Behind
  <2>. QED
    BY <1>5
<1>7. LexFrom(s, chars, nb) = run[n]
  BY DEF LexFrom
<1>. QED
  BY <1>6, <1>7 DEF IsRun

LEMMA LexNone ==
  ASSUME NEW s, NEW nb
  PROVE  LexFrom(s, <<>>, nb) = s
<1>1. PICK c \in Seq(Letter) : c = <<>> /\ Len(c) = 0
  <2>1. <<>> \in Seq(Letter) /\ Len(<<>>) = 0
    OBVIOUS
  <2>. QED
    BY <2>1
<1>2. PICK run : IsRun(run, s, c, nb) /\ LexFrom(s, c, nb) = run[Len(c)]
  BY LexRun
<1>. QED
  BY <1>1, <1>2 DEF IsRun

\* One character more.
LEMMA LexMore ==
  ASSUME NEW s, NEW u \in Seq(Letter), NEW c \in Letter, NEW nb
  PROVE  /\ u \o <<c>> \in Seq(Letter)
         /\ LexFrom(s, u \o <<c>>, nb) = LexStep(LexFrom(s, u, nb), c, nb)
<1>. DEFINE v == u \o <<c>>
            n == Len(u)
<1>1. n \in Nat /\ v \in Seq(Letter) /\ Len(v) = n + 1 /\ v[n + 1] = c /\ \A i \in 1..n : v[i] = u[i]
  <2>1. PICK t \in Seq(Letter) : t = <<c>> /\ Len(t) = 1 /\ t[1] = c
    <3>1. <<c>> \in Seq(Letter) /\ Len(<<c>>) = 1 /\ <<c>>[1] = c
      BY Short
    <3>. QED
      BY <3>1
  <2>2. Len(u) \in Nat
    BY LenProperties
  <2>3. /\ u \o t \in Seq(Letter) /\ Len(u \o t) = Len(u) + Len(t)
        /\ \A i \in 1..Len(u) + Len(t) : (u \o t)[i] = IF i <= Len(u) THEN u[i] ELSE t[i - Len(u)]
    BY ConcatProperties
  <2>4. n + 1 = Len(u) + Len(t) /\ ~(n + 1 <= Len(u)) /\ (n + 1) - Len(u) = 1 /\ n + 1 \in 1..Len(u) + Len(t)
    BY <2>1, <2>2
  <2>5. (u \o t)[n + 1] = c
    BY <2>1, <2>3, <2>4
  <2>6. \A i \in 1..n : (u \o t)[i] = u[i]
    BY <2>1, <2>2, <2>3
  <2>7. v = u \o t
    BY <2>1
  <2>. HIDE DEF v
  <2>. QED
    BY <2>1, <2>2, <2>3, <2>4, <2>5, <2>6, <2>7
<1>. HIDE DEF v
<1>2. PICK r : IsRun(r, s, u, nb) /\ LexFrom(s, u, nb) = r[n]
  BY LexRun
<1>3. PICK q : IsRun(q, s, v, nb) /\ LexFrom(s, v, nb) = q[n + 1]
  BY <1>1, LexRun
<1>. HIDE DEF n
<1>4. r[0] = s /\ \A i \in 1..n : r[i] = LexStep(r[i - 1], u[i], nb)
  <2>1. r = [i \in 0..n |-> IF i = 0 THEN s ELSE LexStep(r[i - 1], u[i], nb)]
    BY <1>2 DEF IsRun, n
  <2>2. 0 \in 0..n /\ \A i \in 1..n : i \in 0..n /\ i # 0
    BY <1>1
  <2>. QED
    BY <2>1, <2>2
<1>5. q[0] = s /\ \A i \in 1..n + 1 : q[i] = LexStep(q[i - 1], v[i], nb)
  <2>1. q = [i \in 0..n + 1 |-> IF i = 0 THEN s ELSE LexStep(q[i - 1], v[i], nb)]
    BY <1>1, <1>3 DEF IsRun
  <2>2. 0 \in 0..n + 1 /\ \A i \in 1..n + 1 : i \in 0..n + 1 /\ i # 0
    BY <1>1
  <2>. QED
    BY <2>1, <2>2
<1>. DEFINE G == {i \in 0..n : q[i] = r[i]}
<1>6. 0 \in G
  BY <1>1, <1>4, <1>5
<1>7. ASSUME NEW i \in 1..n, i - 1 \in G PROVE i \in G
  <2>1. i \in 1..n + 1 /\ i \in 0..n
    BY <1>1
  <2>. QED
    BY <1>1, <1>4, <1>5, <1>7, <2>1
<1>. HIDE DEF G
<1>8. n \in G
  <2>1. \A i \in 0..n : i \in G
    BY <1>1, <1>6, <1>7, UpTo
  <2>. QED
    BY <1>1, <2>1
<1>9. q[n] = r[n]
  BY <1>8 DEF G
<1>10. q[n + 1] = LexStep(q[n], c, nb)
  <2>1. n + 1 \in 1..n + 1 /\ (n + 1) - 1 = n
    BY <1>1
  <2>. QED
    BY <1>1, <1>5, <2>1
<1>. QED
  BY <1>1, <1>2, <1>3, <1>9, <1>10 DEF v

\* Two characters more.
LEMMA LexTwo ==
  ASSUME NEW s, NEW u \in Seq(Letter), NEW c \in Letter, NEW d \in Letter, NEW nb
  PROVE  /\ u \o <<c, d>> \in Seq(Letter)
         /\ LexFrom(s, u \o <<c, d>>, nb) = LexStep(LexStep(LexFrom(s, u, nb), c, nb), d, nb)
<1>. DEFINE v == u \o <<c>>
<1>1. v \in Seq(Letter) /\ LexFrom(s, v, nb) = LexStep(LexFrom(s, u, nb), c, nb)
  BY LexMore
<1>. HIDE DEF v
<1>2. v \o <<d>> \in Seq(Letter) /\ LexFrom(s, v \o <<d>>, nb) = LexStep(LexFrom(s, v, nb), d, nb)
  BY <1>1, LexMore
<1>3. v \o <<d>> = u \o <<c, d>>
  <2>1. PICK a \in Seq(Letter) : a = <<c>>
    BY Short
  <2>2. PICK b \in Seq(Letter) : b = <<d>>
    BY Short
  <2>3. (u \o a) \o b = u \o (a \o b)
    BY ConcatAssociative
  <2>4. <<c>> \o <<d>> = <<c, d>>
    BY Short
  <2>. QED
    BY <2>1, <2>2, <2>3, <2>4 DEF v
<1>. QED
  BY <1>1, <1>2, <1>3

\* The server's state: where it is, the text so far and the values found.
LexState(in, text, found) == [in |-> in, text |-> text, found |-> found]

LEMMA LexSteps ==
  ASSUME NEW text, NEW found, NEW c, NEW nb \in BOOLEAN
  PROVE  /\ LexStep(LexState("query", text, found), "'", nb) = LexState("text", <<>>, found)
         /\ c # "'" /\ c # "NULL" => LexStep(LexState("query", text, found), c, nb) = LexState("query", text, found)
         /\ LexStep(LexState("query", text, found), "NULL", nb) = LexState("query", text, Append(found, Null))
         /\ ~nb => LexStep(LexState("text", text, found), "\\", nb) = LexState("escape", text, found)
         /\ LexStep(LexState("text", text, found), "'", nb) = LexState("quote", text, found)
         /\ c # "'" /\ (c # "\\" \/ nb) =>
              LexStep(LexState("text", text, found), c, nb) = LexState("text", Append(text, c), found)
         /\ (\A x \in DOMAIN Specials : Specials[x] # c) =>
              LexStep(LexState("escape", text, found), c, nb) = LexState("text", Append(text, c), found)
         /\ LexStep(LexState("quote", text, found), "'", nb) = LexState("text", Append(text, "'"), found)
         /\ c # "'" /\ c # "NULL" =>
              LexStep(LexState("quote", text, found), c, nb) = LexState("query", <<>>, Append(found, Bytes(text)))
<1>1. LexStep(LexState("query", text, found), "'", nb) = LexState("text", <<>>, found)
  BY DEF LexStep, LexState
<1>2. c # "'" /\ c # "NULL" => LexStep(LexState("query", text, found), c, nb) = LexState("query", text, found)
  BY DEF LexStep, LexState
<1>3. LexStep(LexState("query", text, found), "NULL", nb) = LexState("query", text, Append(found, Null))
  BY DEF LexStep, LexState
<1>4. ~nb => LexStep(LexState("text", text, found), "\\", nb) = LexState("escape", text, found)
  BY DEF LexStep, LexState
<1>5. LexStep(LexState("text", text, found), "'", nb) = LexState("quote", text, found)
  BY DEF LexStep, LexState
<1>6. c # "'" /\ (c # "\\" \/ nb) =>
              LexStep(LexState("text", text, found), c, nb) = LexState("text", Append(text, c), found)
  BY DEF LexStep, LexState
<1>7. (\A x \in DOMAIN Specials : Specials[x] # c) =>
              LexStep(LexState("escape", text, found), c, nb) = LexState("text", Append(text, c), found)
  BY DEF LexStep, LexState
<1>8. LexStep(LexState("quote", text, found), "'", nb) = LexState("text", Append(text, "'"), found)
  BY DEF LexStep, LexState
<1>9. c # "'" /\ c # "NULL" =>
              LexStep(LexState("quote", text, found), c, nb) = LexState("query", <<>>, Append(found, Bytes(text)))
  BY DEF LexStep, LexState
<1>. QED
  BY <1>1, <1>2, <1>3, <1>4, <1>5, <1>6, <1>7, <1>8, <1>9

\* A special character is found again from what stands for it.
LEMMA SpecialsBack ==
  ASSUME NEW c \in DOMAIN Specials
  PROVE  /\ Specials[c] \in Letter
         /\ \E x \in DOMAIN Specials : Specials[x] = Specials[c]
         /\ (CHOOSE x \in DOMAIN Specials : Specials[x] = Specials[c]) = c
<1>1. DOMAIN Specials = {"nul", "newline", "return", "sub"}
  BY DEF Specials
<1>2. Specials["nul"] = "0" /\ Specials["newline"] = "n" /\ Specials["return"] = "r" /\ Specials["sub"] = "Z"
  BY DEF Specials
<1>3. \A x \in DOMAIN Specials : Specials[x] = Specials[c] => x = c
  BY <1>1, <1>2
<1>4. Specials[c] \in Letter
  <2>1. "0" \in Letter /\ "n" \in Letter /\ "r" \in Letter /\ "Z" \in Letter
    BY CodecsAssumption DEF CodecsAssumption
  <2>2. c = "nul" \/ c = "newline" \/ c = "return" \/ c = "sub"
    BY <1>1
  <2>. QED
    BY <1>2, <2>1, <2>2
<1>. QED
  BY <1>3, <1>4

LEMMA LexSpecial ==
  ASSUME NEW text, NEW found, NEW c \in DOMAIN Specials, NEW nb \in BOOLEAN
  PROVE  LexStep(LexState("escape", text, found), Specials[c], nb) = LexState("text", Append(text, c), found)
<1>. DEFINE d == Specials[c]
            e == CHOOSE x \in DOMAIN Specials : Specials[x] = d
<1>1. e = c /\ \E x \in DOMAIN Specials : Specials[x] = d
  BY SpecialsBack
<1>. HIDE DEF d
<1>2. LexStep(LexState("escape", text, found), d, nb) = LexState("text", Append(text, e), found)
  BY <1>1 DEF LexStep, LexState
<1>. QED
  BY <1>1, <1>2 DEF d

\* What a character becomes in a literal.
CharLiteral(c, nb) == IF nb THEN EscapeQuotes(c) ELSE EscapeBackslash(c)

\* The server takes back from it the character.
LEMMA CharacterBack ==
  ASSUME NEW s, NEW u \in Seq(Letter), NEW text, NEW found, NEW nb \in BOOLEAN,
         LexFrom(s, u, nb) = LexState("text", text, found), NEW c \in Letter
  PROVE  /\ CharLiteral(c, nb) \in Seq(Letter) /\ Len(CharLiteral(c, nb)) <= 2
         /\ u \o CharLiteral(c, nb) \in Seq(Letter)
         /\ LexFrom(s, u \o CharLiteral(c, nb), nb) = LexState("text", Append(text, c), found)
<1>. DEFINE Good(e) == /\ e \in Seq(Letter) /\ Len(e) <= 2 /\ u \o e \in Seq(Letter)
                       /\ LexFrom(s, u \o e, nb) = LexState("text", Append(text, c), found)
<1>1. "'" \in Letter /\ "\\" \in Letter
  BY CodecsAssumption DEF CodecsAssumption
<1>2. /\ ~nb => LexStep(LexState("text", text, found), "\\", nb) = LexState("escape", text, found)
      /\ LexStep(LexState("text", text, found), "'", nb) = LexState("quote", text, found)
      /\ c # "'" /\ (c # "\\" \/ nb) =>
           LexStep(LexState("text", text, found), c, nb) = LexState("text", Append(text, c), found)
      /\ (\A x \in DOMAIN Specials : Specials[x] # c) =>
           LexStep(LexState("escape", text, found), c, nb) = LexState("text", Append(text, c), found)
      /\ LexStep(LexState("quote", text, found), "'", nb) = LexState("text", Append(text, "'"), found)
  BY LexSteps
<1>3. ASSUME c # "'" /\ (c # "\\" \/ nb) PROVE Good(<<c>>)
  <2>1. u \o <<c>> \in Seq(Letter) /\ LexFrom(s, u \o <<c>>, nb) = LexStep(LexFrom(s, u, nb), c, nb)
    BY LexMore
  <2>2. <<c>> \in Seq(Letter) /\ Len(<<c>>) = 1
    BY Short
  <2>. QED
    BY <1>2, <1>3, <2>1, <2>2
<1>4. ASSUME NEW x \in Letter, NEW y \in Letter,
             LexStep(LexStep(LexState("text", text, found), x, nb), y, nb) = LexState("text", Append(text, c), found)
      PROVE  Good(<<x, y>>)
  <2>1. /\ u \o <<x, y>> \in Seq(Letter)
        /\ LexFrom(s, u \o <<x, y>>, nb) = LexStep(LexStep(LexFrom(s, u, nb), x, nb), y, nb)
    BY LexTwo
  <2>2. <<x, y>> \in Seq(Letter) /\ Len(<<x, y>>) = 2
    BY Short
  <2>. QED
    BY <1>4, <2>1, <2>2
<1>. HIDE DEF Good
<1>5. CASE nb /\ c = "'"
  <2>1. Good(<<"'", "'">>)
    BY <1>1, <1>2, <1>4, <1>5
  <2>2. CharLiteral(c, nb) = <<"'", "'">>
    BY <1>5 DEF CharLiteral, EscapeQuotes
  <2>. QED
    BY <2>1, <2>2 DEF Good
<1>6. CASE nb /\ c # "'"
  <2>1. CharLiteral(c, nb) = <<c>>
    BY <1>6 DEF CharLiteral, EscapeQuotes
  <2>. QED
    BY <1>3, <1>6, <2>1 DEF Good
<1>7. CASE ~nb /\ c \in DOMAIN Specials
  <2>1. Specials[c] \in Letter
    BY <1>7, SpecialsBack
  <2>2. LexStep(LexState("escape", text, found), Specials[c], nb) = LexState("text", Append(text, c), found)
    BY <1>7, LexSpecial
  <2>3. Good(<<"\\", Specials[c]>>)
    BY <1>1, <1>2, <1>4, <1>7, <2>1, <2>2
  <2>4. c \notin Quoted
    BY <1>7 DEF Specials, Quoted
  <2>5. CharLiteral(c, nb) = <<"\\", Specials[c]>>
    BY <1>7, <2>4 DEF CharLiteral, EscapeBackslash
  <2>. QED
    BY <2>3, <2>5 DEF Good
<1>8. CASE ~nb /\ c \in Quoted
  <2>1. c \notin DOMAIN Specials /\ \A x \in DOMAIN Specials : Specials[x] # c
    <3>1. DOMAIN Specials = {"nul", "newline", "return", "sub"}
      BY DEF Specials
    <3>2. Specials["nul"] = "0" /\ Specials["newline"] = "n" /\ Specials["return"] = "r" /\ Specials["sub"] = "Z"
      BY DEF Specials
    <3>. QED
      BY <1>8, <3>1, <3>2 DEF Quoted
  <2>2. Good(<<"\\", c>>)
    BY <1>1, <1>2, <1>4, <1>8, <2>1
  <2>3. CharLiteral(c, nb) = <<"\\", c>>
    BY <1>8, <2>1 DEF CharLiteral, EscapeBackslash
  <2>. QED
    BY <2>2, <2>3 DEF Good
<1>9. CASE ~nb /\ c \notin DOMAIN Specials /\ c \notin Quoted
  <2>1. c # "'" /\ c # "\\"
    BY <1>9 DEF Quoted
  <2>2. CharLiteral(c, nb) = <<c>>
    BY <1>9 DEF CharLiteral, EscapeBackslash
  <2>. QED
    BY <1>3, <2>1, <2>2 DEF Good
<1>. QED
  BY <1>5, <1>6, <1>7, <1>8, <1>9

\* A literal: whatever its text, it ends where it was written to end.
LEMMA LiteralBack ==
  ASSUME NEW s, NEW u \in Seq(Letter), NEW old, NEW found, NEW nb \in BOOLEAN,
         LexFrom(s, u, nb) = LexState("query", old, found), NEW text \in Seq(Letter)
  PROVE  /\ Literal(text, nb) \in Seq(Letter) /\ Len(Literal(text, nb)) <= 2 * Len(text) + 2
         /\ u \o Literal(text, nb) \in Seq(Letter)
         /\ LexFrom(s, u \o Literal(text, nb), nb) = LexState("quote", text, found)
<1>. DEFINE n == Len(text)
            parts == [i \in 1..n |-> CharLiteral(text[i], nb)]
            body == FlattenSeq(parts)
<1>1. n \in Nat /\ DOMAIN text = 1..n /\ \A i \in 1..n : text[i] \in Letter
  BY LenProperties, ElementOfSeq
<1>2. "'" \in Letter
  BY CodecsAssumption DEF CodecsAssumption
<1>3. PICK q \in Seq(Letter) : q = <<"'">> /\ Len(q) = 1
  <2>1. <<"'">> \in Seq(Letter) /\ Len(<<"'">>) = 1
    BY <1>2, Short
  <2>. QED
    BY <2>1, Zenon
<1>. HIDE DEF n
<1>4. Literal(text, nb) = q \o body \o q
  <2>1. parts = [i \in DOMAIN text |-> IF nb THEN EscapeQuotes(text[i]) ELSE EscapeBackslash(text[i])]
    BY <1>1 DEF CharLiteral
  <2>. HIDE DEF parts
  <2>. QED
    BY <1>3, <2>1 DEF Literal
<1>. DEFINE v == u \o q
<1>5. v \in Seq(Letter) /\ LexFrom(s, v, nb) = LexState("text", <<>>, found)
  <2>1. u \o <<"'">> \in Seq(Letter) /\ LexFrom(s, u \o <<"'">>, nb) = LexStep(LexState("query", old, found), "'", nb)
    BY <1>2, LexMore
  <2>2. LexStep(LexState("query", old, found), "'", nb) = LexState("text", <<>>, found)
    BY LexSteps
  <2>. QED
    BY <1>3, <2>1, <2>2
<1>. HIDE DEF v
<1>6. ASSUME NEW i \in 1..n PROVE CharLiteral(text[i], nb) \in Seq(Letter) /\ Len(CharLiteral(text[i], nb)) <= 2
  <2>1. text[i] \in Letter
    BY <1>1
  <2>2. PICK t : t = <<>>
    OBVIOUS
  <2>3. v \in Seq(Letter) /\ LexFrom(s, v, nb) = LexState("text", t, found)
    BY <1>5, <2>2
  <2>4. PICK x \in Letter : x = text[i]
    BY <2>1
  <2>5. /\ CharLiteral(x, nb) \in Seq(Letter) /\ Len(CharLiteral(x, nb)) <= 2
        /\ v \o CharLiteral(x, nb) \in Seq(Letter)
        /\ LexFrom(s, v \o CharLiteral(x, nb), nb) = LexState("text", Append(t, x), found)
    BY ONLY nb \in BOOLEAN, x \in Letter, <2>3, CharacterBack
  <2>. QED
    BY <2>4, <2>5
<1>7. parts \in [1..n -> Seq(Letter)] /\ \A i \in 1..n : parts[i] = CharLiteral(text[i], nb)
  BY <1>6
<1>. HIDE DEF parts
<1>8. parts \in Seq(Seq(Letter)) /\ Len(parts) = n
  <2>1. n \in Nat
    BY <1>1
  <2>. QED
    BY ONLY <1>7, <2>1, FunctionSeq
<1>9. PICK pre \in [0..n -> Seq(Letter)] :
        /\ pre[0] = <<>> /\ body = pre[n]
        /\ \A i \in 1..n : pre[i] = pre[i - 1] \o parts[i]
  BY <1>8, Flatten
<1>10. /\ SubSeq(text, 1, 0) = <<>> /\ SubSeq(text, 1, n) = text
       /\ \A i \in 1..n : Append(SubSeq(text, 1, i - 1), text[i]) = SubSeq(text, 1, i)
  BY Beginnings DEF n
<1>. DEFINE G == {k \in 0..n : /\ v \o pre[k] \in Seq(Letter) /\ Len(pre[k]) <= 2 * k
                               /\ LexFrom(s, v \o pre[k], nb) = LexState("text", SubSeq(text, 1, k), found)}
<1>11. 0 \in G
  <2>1. v \o <<>> = v
    BY <1>5, ConcatEmptySeq
  <2>2. Len(<<>>) <= 2 * 0 /\ 0 \in 0..n
    BY <1>1
  <2>3. v \o pre[0] \in Seq(Letter) /\ Len(pre[0]) <= 2 * 0
    BY <1>5, <1>9, <2>1, <2>2
  <2>4. LexFrom(s, v \o pre[0], nb) = LexState("text", SubSeq(text, 1, 0), found)
    BY <1>5, <1>9, <1>10, <2>1
  <2>. QED
    BY <2>2, <2>3, <2>4
<1>12. ASSUME NEW k \in 1..n, k - 1 \in G PROVE k \in G
  <2>. DEFINE e == CharLiteral(text[k], nb)
              w == v \o pre[k - 1]
              p == pre[k - 1]
  <2>1. k - 1 \in 0..n /\ k \in 0..n /\ text[k] \in Letter
    BY <1>1
  <2>2. /\ w \in Seq(Letter) /\ Len(p) <= 2 * (k - 1)
        /\ LexFrom(s, w, nb) = LexState("text", SubSeq(text, 1, k - 1), found)
    BY <1>12
  <2>3. p \in Seq(Letter)
    BY <2>1
  <2>. HIDE DEF w
  <2>4. /\ e \in Seq(Letter) /\ Len(e) <= 2 /\ w \o e \in Seq(Letter)
        /\ LexFrom(s, w \o e, nb) = LexState("text", Append(SubSeq(text, 1, k - 1), text[k]), found)
    <3>1. PICK t : t = SubSeq(text, 1, k - 1)
      OBVIOUS
    <3>2. LexFrom(s, w, nb) = LexState("text", t, found) /\ w \in Seq(Letter)
      BY <2>2, <3>1
    <3>3. PICK x \in Letter : x = text[k]
      BY <2>1
    <3>4. /\ CharLiteral(x, nb) \in Seq(Letter) /\ Len(CharLiteral(x, nb)) <= 2 /\ w \o CharLiteral(x, nb) \in Seq(Letter)
          /\ LexFrom(s, w \o CharLiteral(x, nb), nb) = LexState("text", Append(t, x), found)
      BY ONLY nb \in BOOLEAN, x \in Letter, <3>2, CharacterBack
    <3>. QED
      BY <3>1, <3>3, <3>4
  <2>5. pre[k] = p \o e
    BY <1>7, <1>9
  <2>. HIDE DEF p, e
  <2>6. v \o (p \o e) = (v \o p) \o e /\ Len(p \o e) = Len(p) + Len(e) /\ Len(p) \in Nat /\ Len(e) \in Nat
    <3>1. v \in Seq(Letter) /\ p \in Seq(Letter) /\ e \in Seq(Letter)
      BY <1>5, <2>3, <2>4
    <3>2. v \o (p \o e) = (v \o p) \o e
      <4>1. \A a, b, c \in Seq(Letter) : a \o (b \o c) = (a \o b) \o c
        <5>1. TAKE a, b, c \in Seq(Letter)
        <5>2. (a \o b) \o c = a \o (b \o c)
          BY ONLY a \in Seq(Letter), b \in Seq(Letter), c \in Seq(Letter), ConcatAssociative
        <5>. QED
          BY <5>2
      <4>. QED
        BY <3>1, <4>1, Zenon
    <3>3. Len(p \o e) = Len(p) + Len(e)
      BY ONLY <3>1, ConcatProperties
    <3>. QED
      BY <3>1, <3>2, <3>3, LenProperties
  <2>7. v \o pre[k] = w \o e
    BY <2>5, <2>6 DEF w, p
  <2>8. Len(pre[k]) <= 2 * k
    BY <1>1, <2>2, <2>4, <2>5, <2>6
  <2>9. LexFrom(s, v \o pre[k], nb) = LexState("text", SubSeq(text, 1, k), found)
    BY <1>10, <2>4, <2>7
  <2>10. v \o pre[k] \in Seq(Letter)
    BY <2>4, <2>7
  <2>. QED
    BY <2>1, <2>8, <2>9, <2>10
<1>. HIDE DEF G
<1>13. n \in G
  <2>1. \A k \in 0..n : k \in G
    BY <1>1, <1>11, <1>12, UpTo
  <2>. QED
    BY <1>1, <2>1
<1>14. /\ v \o body \in Seq(Letter) /\ Len(body) <= 2 * n
       /\ LexFrom(s, v \o body, nb) = LexState("text", text, found)
  BY <1>9, <1>10, <1>13 DEF G
<1>15. body \in Seq(Letter)
  BY <1>1, <1>9
<1>. HIDE DEF body
<1>16. /\ (v \o body) \o q \in Seq(Letter)
       /\ LexFrom(s, (v \o body) \o q, nb) = LexState("quote", text, found)
  <2>. DEFINE w == v \o body
  <2>1. w \o <<"'">> \in Seq(Letter) /\ LexFrom(s, w \o <<"'">>, nb) = LexStep(LexFrom(s, w, nb), "'", nb)
    <3>1. w \in Seq(Letter)
      BY <1>14
    <3>. HIDE DEF w
    <3>. QED
      BY <1>2, <3>1, LexMore
  <2>2. LexStep(LexState("text", text, found), "'", nb) = LexState("quote", text, found)
    BY LexSteps
  <2>. QED
    BY <1>3, <1>14, <2>1, <2>2
<1>17. /\ q \o body \o q \in Seq(Letter) /\ Len(q \o body \o q) = Len(q) + Len(body) + Len(q)
       /\ Len(body) \in Nat
  BY <1>15, Parts
<1>18. u \o (q \o body \o q) = (v \o body) \o q
  <2>1. q \o body \in Seq(Letter)
    BY <1>15, ConcatProperties
  <2>2. u \o (q \o body) = (u \o q) \o body
    BY <1>15, ConcatAssociative
  <2>. DEFINE x == q \o body
  <2>3. u \o (x \o q) = (u \o x) \o q
    <3>1. x \in Seq(Letter)
      BY <2>1
    <3>. HIDE DEF x
    <3>. QED
      BY <3>1, ConcatAssociative
  <2>. QED
    BY <2>2, <2>3 DEF v
<1>19. Len(q \o body \o q) <= 2 * n + 2
  BY <1>1, <1>3, <1>14, <1>17
<1>. QED
  BY <1>4, <1>16, <1>17, <1>18, <1>19 DEF n

\* What stands for an argument in a query.
Piece(v, nb) == IF v = Null THEN <<"NULL">> ELSE Literal(v.is, nb)

\* The server takes from it the argument, when it sees what follows.
Carried(s, u, found, nb, v, c) ==
  /\ Piece(v, nb) \in Seq(Letter) /\ Len(Piece(v, nb)) <= Longest(v)
  /\ (u \o Piece(v, nb)) \o <<c>> \in Seq(Letter)
  /\ LexFrom(s, (u \o Piece(v, nb)) \o <<c>>, nb) = LexState("query", <<>>, Append(found, v))

LEMMA PieceBack ==
  ASSUME NEW s, NEW u \in Seq(Letter), NEW found, NEW nb \in BOOLEAN,
         LexFrom(s, u, nb) = LexState("query", <<>>, found),
         NEW v \in {Null} \cup Strs, NEW c \in {"y", "end"}
  PROVE  Carried(s, u, found, nb, v, c)
<1>. DEFINE w == u \o Piece(v, nb)
<1>1. c \in Letter /\ "NULL" \in Letter /\ c # "'" /\ c # "NULL"
  BY CodecsAssumption DEF CodecsAssumption
<1>2. CASE v = Null
  <2>1. Piece(v, nb) = <<"NULL">> /\ Longest(v) = 1
    BY <1>2 DEF Piece, Longest
  <2>2. <<"NULL">> \in Seq(Letter) /\ Len(<<"NULL">>) = 1
    BY <1>1, Short
  <2>3. /\ u \o <<"NULL">> \in Seq(Letter)
        /\ LexFrom(s, u \o <<"NULL">>, nb) = LexStep(LexState("query", <<>>, found), "NULL", nb)
    BY <1>1, LexMore
  <2>4. LexStep(LexState("query", <<>>, found), "NULL", nb) = LexState("query", <<>>, Append(found, Null))
    BY LexSteps
  <2>5. w \in Seq(Letter) /\ LexFrom(s, w, nb) = LexState("query", <<>>, Append(found, v))
    BY <1>2, <2>1, <2>3, <2>4
  <2>. HIDE DEF w
  <2>6. w \o <<c>> \in Seq(Letter) /\ LexFrom(s, w \o <<c>>, nb) = LexStep(LexFrom(s, w, nb), c, nb)
    BY <1>1, <2>5, LexMore
  <2>7. LexStep(LexState("query", <<>>, Append(found, v)), c, nb) = LexState("query", <<>>, Append(found, v))
    BY <1>1, LexSteps
  <2>8. Piece(v, nb) \in Seq(Letter) /\ Len(Piece(v, nb)) <= Longest(v)
    BY <2>1, <2>2
  <2>. QED
    BY <2>5, <2>6, <2>7, <2>8 DEF w, Carried
<1>3. CASE v # Null
  <2>1. v.is \in Seq(Letter) /\ v = Bytes(v.is)
    <3>1. v \in [kind : {"bytes"}, is : Seq(Letter)]
      BY <1>3 DEF Strs
    <3>. QED
      BY <3>1 DEF Bytes
  <2>2. Piece(v, nb) = Literal(v.is, nb) /\ Longest(v) = 2 * Len(v.is) + 2
    BY <1>3 DEF Piece, Longest
  <2>3. /\ Literal(v.is, nb) \in Seq(Letter) /\ Len(Literal(v.is, nb)) <= 2 * Len(v.is) + 2
        /\ u \o Literal(v.is, nb) \in Seq(Letter)
        /\ LexFrom(s, u \o Literal(v.is, nb), nb) = LexState("quote", v.is, found)
    <3>1. PICK t \in Seq(Letter) : t = v.is
      BY <2>1
    <3>2. PICK x \in Seq(Letter) : x = u
      OBVIOUS
    <3>3. LexFrom(s, x, nb) = LexState("query", <<>>, found)
      BY <3>2
    <3>4. /\ Literal(t, nb) \in Seq(Letter) /\ Len(Literal(t, nb)) <= 2 * Len(t) + 2
          /\ x \o Literal(t, nb) \in Seq(Letter)
          /\ LexFrom(s, x \o Literal(t, nb), nb) = LexState("quote", t, found)
      BY ONLY <3>3, x \in Seq(Letter), t \in Seq(Letter), nb \in BOOLEAN, LiteralBack
    <3>. QED
      BY ONLY <3>1, <3>2, <3>4
  <2>4. w \in Seq(Letter) /\ LexFrom(s, w, nb) = LexState("quote", v.is, found)
    BY <2>2, <2>3
  <2>. HIDE DEF w
  <2>6. w \o <<c>> \in Seq(Letter) /\ LexFrom(s, w \o <<c>>, nb) = LexStep(LexFrom(s, w, nb), c, nb)
    BY <1>1, <2>4, LexMore
  <2>7. LexStep(LexState("quote", v.is, found), c, nb) = LexState("query", <<>>, Append(found, Bytes(v.is)))
    BY <1>1, LexSteps
  <2>8. Piece(v, nb) \in Seq(Letter) /\ Len(Piece(v, nb)) <= Longest(v)
    BY <2>2, <2>3
  <2>. QED
    BY <2>1, <2>4, <2>6, <2>7, <2>8 DEF w, Carried
<1>. QED
  BY <1>2, <1>3

\* A query with two placeholders, as Query interpolates it.
LEMMA QueryBack ==
  ASSUME NEW args \in Seq({Null} \cup Strs), Len(args) = 2, NEW nb \in BOOLEAN, NEW max \in Nat,
         NEW query, query = Interpolate(<<"x", "?", "y", "?">>, args, nb, max)
  PROVE  \/ query = Error /\ 2 + Longest(args[1]) + Longest(args[2]) + 4 > max
         \/ query # Error /\ Lex(query.is, nb) = args
<1>. DEFINE q == <<"x", "?", "y", "?">>
            marks(i) == Cardinality({k \in 1..i : q[k] = "?"})
            piece(i) == IF q[i] # "?" THEN <<q[i]>>
                        ELSE IF args[marks(i)] = Null THEN <<"NULL">>
                        ELSE Literal(args[marks(i)].is, nb)
            upTo(n) == FlattenSeq([i \in 1..n |-> piece(i)])
            long(i) == q[i] = "?" /\ args[marks(i)] # Null /\ Len(upTo(i)) + 4 > max
            P1 == Piece(args[1], nb)
            P2 == Piece(args[2], nb)
<1>1. query = IF marks(Len(q)) # Len(args) \/ \E i \in DOMAIN q : long(i) THEN Error ELSE Bytes(upTo(Len(q)))
  BY DEF Interpolate
<1>2. /\ Len(q) = 4 /\ DOMAIN q = 1..4
      /\ q[1] = "x" /\ q[2] = "?" /\ q[3] = "y" /\ q[4] = "?"
  OBVIOUS
<1>. HIDE DEF q
<1>3. marks(2) = 1 /\ marks(4) = 2
  <2>1. {k \in 1..2 : q[k] = "?"} = {2}
    BY <1>2
  <2>2. {k \in 1..4 : q[k] = "?"} = {2} \cup {4}
    <3>1. \A k \in 1..4 : k = 1 \/ k = 2 \/ k = 3 \/ k = 4
      OBVIOUS
    <3>. QED
      BY <1>2, <3>1
  <2>3. IsFiniteSet({2}) /\ Cardinality({2}) = 1
    BY FS_Singleton
  <2>4. Cardinality({2} \cup {4}) = 2
    <3>1. PICK S : S = {2} /\ IsFiniteSet(S) /\ Cardinality(S) = 1 /\ 4 \notin S
      BY <2>3
    <3>2. Cardinality(S \cup {4}) = IF 4 \in S THEN Cardinality(S) ELSE Cardinality(S) + 1
      BY <3>1, FS_AddElement, Zenon
    <3>3. PICK c : c = Cardinality(S \cup {4})
      OBVIOUS
    <3>4. c = Cardinality(S) + 1
      BY <3>1, <3>2, <3>3, Zenon
    <3>5. c = 1 + 1
      BY <3>1, <3>4, Zenon
    <3>6. c = 2
      BY ONLY <3>5
    <3>. QED
      BY <3>1, <3>3, <3>6, Zenon
  <2>. QED
    BY <2>1, <2>2, <2>3, <2>4, Zenon
<1>. HIDE DEF marks
<1>4. piece(1) = <<"x">> /\ piece(2) = P1 /\ piece(3) = <<"y">> /\ piece(4) = P2
  <2>1. "x" # "?" /\ "y" # "?"
    OBVIOUS
  <2>2. piece(1) = <<"x">> /\ piece(3) = <<"y">>
    BY <1>2, <2>1
  <2>3. piece(2) = P1
    BY <1>2, <1>3 DEF Piece
  <2>4. piece(4) = P2
    BY <1>2, <1>3 DEF Piece
  <2>. QED
    BY <2>2, <2>3, <2>4
<1>. HIDE DEF piece
<1>5. "x" \in Letter /\ "y" \in Letter /\ "end" \in Letter
  BY CodecsAssumption DEF CodecsAssumption
<1>6. args[1] \in {Null} \cup Strs /\ args[2] \in {Null} \cup Strs
  <2>. DEFINE V == {Null} \cup Strs
  <2>1. args \in Seq(V) /\ 1 \in 1..Len(args) /\ 2 \in 1..Len(args)
    OBVIOUS
  <2>. HIDE DEF V
  <2>2. args[1] \in V /\ args[2] \in V
    BY <2>1, ElementOfSeq
  <2>. QED
    BY <2>2 DEF V
<1>. DEFINE s0 == LexState("query", <<>>, <<>>)
            u1 == <<>> \o <<"x">>
            u2 == (u1 \o P1) \o <<"y">>
            u3 == (u2 \o P2) \o <<"end">>
<1>7. u1 \in Seq(Letter) /\ LexFrom(s0, u1, nb) = s0 /\ Len(u1) = 1
  <2>1. PICK e \in Seq(Letter) : e = <<>>
    BY EmptySeq
  <2>2. e \o <<"x">> \in Seq(Letter) /\ LexFrom(s0, e \o <<"x">>, nb) = LexStep(LexFrom(s0, e, nb), "x", nb)
    BY <1>5, LexMore
  <2>3. LexFrom(s0, e, nb) = s0
    BY <2>1, LexNone
  <2>4. LexStep(s0, "x", nb) = s0
    <3>1. "x" # "'" /\ "x" # "NULL"
      OBVIOUS
    <3>. QED
      BY <3>1, LexSteps
  <2>5. <<"x">> \in Seq(Letter) /\ Len(<<"x">>) = 1
    BY <1>5, Short
  <2>6. u1 = <<"x">>
    BY <2>5, ConcatEmptySeq
  <2>. QED
    BY <2>1, <2>2, <2>3, <2>4, <2>5, <2>6
<1>. HIDE DEF u1, s0
<1>8. /\ P1 \in Seq(Letter) /\ Len(P1) <= Longest(args[1])
      /\ u2 \in Seq(Letter)
      /\ LexFrom(s0, u2, nb) = LexState("query", <<>>, Append(<<>>, args[1]))
  <2>1. LexFrom(s0, u1, nb) = LexState("query", <<>>, <<>>)
    BY <1>7 DEF s0
  <2>2. PICK f : f = <<>>
    OBVIOUS
  <2>3. LexFrom(s0, u1, nb) = LexState("query", <<>>, f) /\ "y" \in {"y", "end"}
    BY <2>1, <2>2
  <2>4. PICK v \in {Null} \cup Strs : v = args[1]
    BY <1>6
  <2>5. PICK c \in {"y", "end"} : c = "y"
    OBVIOUS
  <2>6. u1 \in Seq(Letter)
    BY <1>7
  <2>7. Carried(s0, u1, f, nb, v, c)
    BY ONLY <2>3, <2>6, nb \in BOOLEAN, v \in {Null} \cup Strs, c \in {"y", "end"}, PieceBack
  <2>. QED
    BY <2>2, <2>4, <2>5, <2>7 DEF Carried
<1>9. Len(u2) = 2 + Len(P1)
  <2>. DEFINE a == u1 \o P1
  <2>1. a \in Seq(Letter) /\ Len(a) = Len(u1) + Len(P1)
    BY <1>7, <1>8, ConcatProperties
  <2>2. PICK y \in Seq(Letter) : y = <<"y">> /\ Len(y) = 1
    <3>1. <<"y">> \in Seq(Letter) /\ Len(<<"y">>) = 1
      BY <1>5, Short
    <3>. QED
      BY <3>1, Zenon
  <2>. HIDE DEF a
  <2>3. Len(a \o y) = Len(a) + Len(y)
    BY <2>1, ConcatProperties
  <2>4. Len(P1) \in Nat
    BY <1>8, LenProperties
  <2>. QED
    BY <1>7, <2>1, <2>2, <2>3, <2>4 DEF a
<1>. HIDE DEF u2
<1>10. /\ P2 \in Seq(Letter) /\ Len(P2) <= Longest(args[2])
       /\ u3 \in Seq(Letter)
       /\ LexFrom(s0, u3, nb) = LexState("query", <<>>, Append(Append(<<>>, args[1]), args[2]))
  <2>1. PICK c \in {"y", "end"} : c = "end"
    OBVIOUS
  <2>2. PICK v \in {Null} \cup Strs : v = args[2]
    BY <1>6
  <2>3. Carried(s0, u2, Append(<<>>, args[1]), nb, v, c)
    BY <1>8, PieceBack
  <2>. QED
    BY <2>1, <2>2, <2>3 DEF Carried
<1>11. Append(Append(<<>>, args[1]), args[2]) = args
  <2>. DEFINE V == {Null} \cup Strs
  <2>1. args \in Seq(V) /\ 1 \in 1..Len(args) /\ 2 \in 1..Len(args) /\ Len(args) = 2
    OBVIOUS
  <2>. HIDE DEF V
  <2>2. /\ SubSeq(args, 1, 0) = <<>> /\ SubSeq(args, 1, Len(args)) = args
        /\ \A i \in 1..Len(args) : Append(SubSeq(args, 1, i - 1), args[i]) = SubSeq(args, 1, i)
    BY <2>1, Beginnings
  <2>3. 1 - 1 = 0 /\ 2 - 1 = 1
    OBVIOUS
  <2>4. Append(<<>>, args[1]) = SubSeq(args, 1, 1) /\ Append(SubSeq(args, 1, 1), args[2]) = SubSeq(args, 1, 2)
    BY <2>1, <2>2, <2>3
  <2>. QED
    BY <2>1, <2>2, <2>4
<1>. HIDE DEF P1, P2
<1>12. upTo(2) = u1 \o P1 /\ upTo(4) = u2 \o P2
  <2>1. \A i \in 1..4 : piece(i) \in Seq(Letter)
    <3>1. <<"x">> \in Seq(Letter) /\ <<"y">> \in Seq(Letter)
      BY <1>5, Short
    <3>2. \A k \in 1..4 : k = 1 \/ k = 2 \/ k = 3 \/ k = 4
      OBVIOUS
    <3>. QED
      BY <1>4, <1>8, <1>10, <3>1, <3>2
  <2>2. ASSUME NEW n \in {2, 4}
        PROVE  \E pre \in [0..n -> Seq(Letter)] :
                 /\ pre[0] = <<>> /\ upTo(n) = pre[n]
                 /\ \A i \in 1..n : pre[i] = pre[i - 1] \o piece(i)
    <3>. DEFINE parts == [i \in 1..n |-> piece(i)]
    <3>1. n \in Nat /\ \A i \in 1..n : i \in 1..4
      OBVIOUS
    <3>2. parts \in [1..n -> Seq(Letter)]
      BY <2>1, <3>1
    <3>3. parts \in Seq(Seq(Letter)) /\ Len(parts) = n
      <4>. HIDE DEF parts
      <4>. QED
        BY ONLY <3>1, <3>2, FunctionSeq
    <3>4. \A i \in 1..n : parts[i] = piece(i)
      OBVIOUS
    <3>5. upTo(n) = FlattenSeq(parts)
      OBVIOUS
    <3>. HIDE DEF parts, upTo
    <3>6. \E pre \in [0..Len(parts) -> Seq(Letter)] :
            /\ pre[0] = <<>> /\ FlattenSeq(parts) = pre[Len(parts)]
            /\ \A i \in 1..Len(parts) : pre[i] = pre[i - 1] \o parts[i]
      BY ONLY <3>3, Flatten
    <3>7. PICK pre \in [0..n -> Seq(Letter)] :
            /\ pre[0] = <<>> /\ FlattenSeq(parts) = pre[n]
            /\ \A i \in 1..n : pre[i] = pre[i - 1] \o parts[i]
      BY <3>3, <3>6
    <3>. QED
      BY <3>4, <3>5, <3>7
  <2>. HIDE DEF upTo
  <2>3. upTo(2) = u1 \o P1
    <3>1. PICK pre \in [0..2 -> Seq(Letter)] :
            /\ pre[0] = <<>> /\ upTo(2) = pre[2]
            /\ \A i \in 1..2 : pre[i] = pre[i - 1] \o piece(i)
      BY <2>2
    <3>2. 1 \in 1..2 /\ 2 \in 1..2 /\ 1 - 1 = 0 /\ 2 - 1 = 1
      OBVIOUS
    <3>3. pre[1] = pre[0] \o piece(1) /\ pre[2] = pre[1] \o piece(2)
      BY <3>1, <3>2
    <3>. QED
      BY <1>4, <3>1, <3>3 DEF u1
  <2>4. upTo(4) = u2 \o P2
    <3>1. PICK pre \in [0..4 -> Seq(Letter)] :
            /\ pre[0] = <<>> /\ upTo(4) = pre[4]
            /\ \A i \in 1..4 : pre[i] = pre[i - 1] \o piece(i)
      BY <2>2
    <3>2. 1 \in 1..4 /\ 2 \in 1..4 /\ 3 \in 1..4 /\ 4 \in 1..4 /\ 1 - 1 = 0 /\ 2 - 1 = 1 /\ 3 - 1 = 2 /\ 4 - 1 = 3
      OBVIOUS
    <3>3. /\ pre[1] = pre[0] \o piece(1) /\ pre[2] = pre[1] \o piece(2)
          /\ pre[3] = pre[2] \o piece(3) /\ pre[4] = pre[3] \o piece(4)
      BY <3>1, <3>2
    <3>4. pre[1] = u1
      BY <1>4, <3>1, <3>3 DEF u1
    <3>5. pre[3] = u2
      BY <1>4, <3>3, <3>4 DEF u2
    <3>. QED
      BY <1>4, <3>1, <3>3, <3>5
  <2>. QED
    BY <2>3, <2>4
<1>. HIDE DEF upTo
<1>13. Len(upTo(2)) = 1 + Len(P1) /\ Len(upTo(4)) = 2 + Len(P1) + Len(P2) /\ Len(P1) \in Nat /\ Len(P2) \in Nat
  <2>1. Len(u1 \o P1) = Len(u1) + Len(P1) /\ Len(u2 \o P2) = Len(u2) + Len(P2)
    BY <1>7, <1>8, <1>10, ConcatProperties
  <2>2. Len(P1) \in Nat /\ Len(P2) \in Nat
    BY <1>8, <1>10, LenProperties
  <2>. QED
    BY <1>7, <1>9, <1>12, <2>1, <2>2
<1>14. Longest(args[1]) \in Nat /\ Longest(args[2]) \in Nat
  <2>1. ASSUME NEW v \in {Null} \cup Strs PROVE Longest(v) \in Nat
    <3>1. CASE v = Null
      BY <3>1 DEF Longest
    <3>2. CASE v # Null
      <4>1. v.is \in Seq(Letter)
        BY <3>2 DEF Strs
      <4>2. Len(v.is) \in Nat
        BY <4>1, LenProperties
      <4>. QED
        BY <3>2, <4>2 DEF Longest
    <3>. QED
      BY <3>1, <3>2
  <2>. QED
    BY <1>6, <2>1
<1>15. CASE \E i \in DOMAIN q : long(i)
  <2>1. PICK i \in 1..4 : q[i] = "?" /\ Len(upTo(i)) + 4 > max
    BY <1>2, <1>15
  <2>2. i = 2 \/ i = 4
    <3>1. i = 1 \/ i = 2 \/ i = 3 \/ i = 4
      OBVIOUS
    <3>2. "x" # "?" /\ "y" # "?"
      OBVIOUS
    <3>. QED
      BY <1>2, <2>1, <3>1, <3>2
  <2>3. query = Error
    BY <1>1, <1>15
  <2>4. Len(upTo(i)) <= 2 + Longest(args[1]) + Longest(args[2])
    BY <1>8, <1>10, <1>13, <1>14, <2>2
  <2>5. 2 + Longest(args[1]) + Longest(args[2]) + 4 > max
    <3>1. Len(upTo(i)) \in Nat
      BY <1>13, <2>2
    <3>. QED
      BY <1>14, <2>1, <2>4, <3>1
  <2>. QED
    BY <2>3, <2>5
<1>16. CASE ~(\E i \in DOMAIN q : long(i))
  <2>1. query = Bytes(upTo(4))
    BY <1>1, <1>2, <1>3, <1>16
  <2>2. query # Error /\ query.is = upTo(4)
    BY <2>1 DEF Bytes, Error
  <2>3. Lex(query.is, nb) = LexFrom(s0, u3, nb).found
    BY <1>12, <2>2 DEF Lex, LexState, s0
  <2>4. LexFrom(s0, u3, nb).found = args
    <3>1. LexState("query", <<>>, args).found = args
      BY DEF LexState
    <3>. QED
      BY <1>10, <1>11, <3>1
  <2>. QED
    BY <2>2, <2>3, <2>4
<1>. QED
  BY <1>15, <1>16

\* The server gets the arguments of a statement: of a prepared one whatever
\* their lengths and however small maxAllowedPacket is, in packets no longer
\* than that; of an interpolated one whatever characters are in them, in
\* either escape mode.
THEOREM ArgumentsBack == Spec => []ArgumentsArrive
<1>1. IInv => ArgumentsArrive
  <2>. SUFFICES ASSUME IInv PROVE ArgumentsArrive
    OBVIOUS
  <2>1. ASSUME Done("execute")
        PROVE  /\ IF result.length > task.in.max THEN result.args = <<>> ELSE result.args = task.in.args
               /\ \A i \in DOMAIN result.long : \A k \in DOMAIN result.long[i] :
                    Offset + Len(result.long[i][k]) < task.in.max
    <3>. DEFINE e == task.in
    <3>1. e \in Executions /\ result = Sent(e)
      BY <2>1 DEF IInv, ExecuteInv, Done
    <3>2. e.args \in Seq(Args) /\ e.max \in Nat /\ Offset + 1 < e.max
      <4>1. PICK x \in Executions : x = e
        BY <3>1
      <4>2. x.args \in Seq(Args) /\ x.max \in Nat /\ Offset + 1 < x.max
        BY CodecsAssumption DEF CodecsAssumption
      <4>. HIDE DEF e
      <4>. QED
        BY ONLY <4>1, <4>2
    <3>. HIDE DEF e
    <3>3. PICK packet : packet = ExecutePacket(e.args, e.max, 4)
      OBVIOUS
    <3>4. /\ result.args = IF PacketLength(packet) > e.max THEN <<>> ELSE Executed(packet)
          /\ result.length = PacketLength(packet) /\ result.long = packet.long
      BY <3>1, <3>3 DEF Sent
    <3>5. /\ Executed(packet) = e.args
          /\ \A i \in DOMAIN packet.long : \A k \in DOMAIN packet.long[i] :
               Offset + Len(packet.long[i][k]) < e.max
      BY <3>2, <3>3, ExecuteBack
    <3>. QED
      BY <3>4, <3>5 DEF e
  <2>2. ASSUME Done("query")
        PROVE  \/ result = task.in.args
               \/ result = <<>> /\ 2 + Longest(task.in.args[1]) + Longest(task.in.args[2]) + 4 > task.in.max
    <3>. DEFINE q == task.in
    <3>1. q \in Queries /\ result = Asked(q)
      BY <2>2 DEF IInv, QueryInv, Done
    <3>2. q.args \in Seq({Null} \cup Strs) /\ Len(q.args) = 2 /\ q.nb \in BOOLEAN /\ q.max \in Nat
      BY <3>1, CodecsAssumption DEF CodecsAssumption, Strs
    <3>. HIDE DEF q
    <3>3. PICK query : query = Interpolate(<<"x", "?", "y", "?">>, q.args, q.nb, q.max)
      OBVIOUS
    <3>4. result = IF query = Error THEN <<>> ELSE Lex(query.is, q.nb)
      BY <3>1, <3>3 DEF Asked
    <3>5. \/ query = Error /\ 2 + Longest(q.args[1]) + Longest(q.args[2]) + 4 > q.max
          \/ query # Error /\ Lex(query.is, q.nb) = q.args
      BY <3>2, <3>3, QueryBack
    <3>. QED
      BY <3>4, <3>5 DEF q
  <2>. QED
    BY <2>1, <2>2 DEF ArgumentsArrive
<1>. QED
  BY <1>1, CodecsInvariance, PTL

=============================================================================
