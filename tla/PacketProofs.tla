---------------------------- MODULE PacketProofs ----------------------------
(***************************************************************************)
(* Proofs about NcpPackets, for any contents, names, ids, lengths and       *)
(* sizes of buffers: a complete packet is the encoding of its content, the  *)
(* reader finds that content, nothing leaves the buffer, and the text of a  *)
(* packet says all of it.                                                   *)
(***************************************************************************)
EXTENDS NcpPackets, FiniteSetTheorems, WellFoundedInduction, TLAPS

(* s is in the buffer b from position at on *)
Holds(b, at, s) == \A k \in 1..Len(s) : b[at + k - 1] = s[k]

FieldSeqs(c) == [i \in 1..Len(c) |-> EncodeField(c[i])]
ParamSeqs(f) == [i \in 1..Len(f.params) |-> EncodeParam(f.params[i])]
EncodedFields(c) == FlattenSeq(FieldSeqs(c))

(* How many elements the first i - 1 sequences have together *)
Before(s, i) == Len(FlattenSeq(SubSeq(s, 1, i - 1)))

FieldStart(c, i) == HeaderSize + Before(FieldSeqs(c), i)
ParamStart(c, f, i) == FieldStart(c, f) + FieldSize + Before(ParamSeqs(c[f]), i)

(* The tables of the reader, of a packet that contains c *)
FieldRows(c) ==
  [i \in 1..Len(c) |-> [name |-> c[i].name, id |-> c[i].id,
                        start |-> FieldStart(c, i), end |-> FieldStart(c, i + 1)]]
ParamRows(c, f) ==
  [i \in 1..Len(c[f].params) |->
     [name |-> c[f].params[i].name, type |-> c[f].params[i].type,
      start |-> ParamStart(c, f, i), len |-> Len(c[f].params[i].data)]]

BuildingInv ==
  Writing =>
    /\ position = HeaderSize + Len(EncodedFields(content))
    /\ position + FooterSize <= MaxWords /\ position + FooterSize <= size
    /\ state = "writing" => content = <<>> /\ tag = 0
    /\ state = "fieldWritten" =>
         /\ content # <<>> /\ tag = FieldStart(content, Len(content)) + 1
         /\ Holds([buffer EXCEPT ![tag] = position - tag + 1], HeaderSize, EncodedFields(content))

(* The buffer is a packet that contains c. *)
Carries(b, c) ==
  /\ b[SizeWord] = HeaderSize + Len(Encode(c)) /\ b[SizeWord] <= MaxWords
  /\ Holds(b, HeaderSize, Encode(c))

CompleteInv == state = "complete" => Carries(buffer, content) /\ buffer[SizeWord] <= size

ReceivingInv ==
  state = "rxHdrOk" =>
    /\ buffer[SizeWord] = HeaderSize + Len(Encode(arriving))
    /\ buffer[SizeWord] <= MaxWords /\ buffer[SizeWord] <= size
    /\ received >= HeaderSize
    /\ received <= buffer[SizeWord]
    /\ \A k \in 1..received - HeaderSize : buffer[HeaderSize + k - 1] = Encode(arriving)[k]

ReadingInv ==
  readOk =>
    /\ state = "complete"
    /\ fieldData = FieldRows(content)
    /\ paramData = IF fieldIndex = 0 THEN <<>> ELSE ParamRows(content, fieldIndex)

IInv ==
  /\ TypeOK /\ content \in Contents /\ arriving \in Contents
  /\ BuildingInv /\ CompleteInv /\ ReceivingInv /\ ReadingInv

-----------------------------------------------------------------------------
(* Induction without a predicate, and what FlattenSeq makes *)

LEMMA NatSetMin ==
  ASSUME NEW T \in SUBSET Nat, T # {}
  PROVE  \E x \in T : \A y \in T : x <= y
<1> DEFINE U == {0..n : n \in T}
<1>1. IsWellFoundedOn(StrictSubsetOrdering(Nat), FiniteSubsetsOf(Nat)) 
 BY FS_StrictSubsetOrderingWellFounded
<1>2. U \subseteq FiniteSubsetsOf(Nat) 
  <2>1. SUFFICES ASSUME NEW n \in T PROVE 0..n \in FiniteSubsetsOf(Nat) OBVIOUS
  <2>2. n \in Nat /\ 0 \in Int /\ n \in Int OBVIOUS
  <2>3. IsFiniteSet(0..n) BY <2>2, FS_Interval
  <2> QED BY <2>2, <2>3 DEF FiniteSubsetsOf
<1>3. U # {} OBVIOUS
<1>4. PICK u \in U : \A v \in U : ~(<<v, u>> \in StrictSubsetOrdering(Nat))
  <2> HIDE DEF U
  <2> QED BY <1>1, <1>2, <1>3, WFMin
<1>5. PICK n \in T : u = 0..n OBVIOUS
<1>6. ASSUME NEW m \in T PROVE n <= m
  <2>1. ~(<<0..m, 0..n>> \in StrictSubsetOrdering(Nat)) BY <1>4, <1>5
  <2>2. n \in Nat /\ m \in Nat OBVIOUS
  <2>3. CASE m < n
    <3>1. 0..m \subseteq 0..n BY <2>2, <2>3
    <3>2. n \in 0..n /\ n \notin 0..m BY <2>2, <2>3
    <3>3. 0..m # 0..n BY <3>2
    <3>4. 0..m \in SUBSET Nat /\ 0..n \in SUBSET Nat BY <2>2
    <3> QED BY <2>1, <3>1, <3>3, <3>4 DEF StrictSubsetOrdering
  <2> QED BY <2>2, <2>3
<1> QED BY <1>6

(* Induction over the numbers, with a set in the place of a predicate *)
LEMMA NatSetInduction ==
  ASSUME NEW S, 0 \in S, \A n \in Nat : n \in S => n + 1 \in S
  PROVE  \A n \in Nat : n \in S
<1> SUFFICES ASSUME Nat \ S # {} PROVE FALSE OBVIOUS
<1>1. PICK x \in Nat \ S : \A y \in Nat \ S : x <= y BY NatSetMin
<1>2. x # 0 /\ x \in Nat BY <1>1
<1>3. x - 1 \in Nat BY <1>2
<1>4. x - 1 \in S BY <1>1, <1>3
<1> QED BY <1>1, <1>3, <1>4

Flattening(s) == CHOOSE f : f = [i \in 1..Len(s) |-> IF i = 1 THEN s[i] ELSE f[i-1] \o s[i]]

LEMMA FlattenIs ==
  ASSUME NEW s
  PROVE  FlattenSeq(s) = IF Len(s) = 0 THEN s ELSE Flattening(s)[Len(s)]
BY DEF FlattenSeq, Flattening

(* The function that FlattenSeq chooses exists. *)
LEMMA FlattenDef == ASSUME NEW T, NEW s \in Seq(Seq(T)) 
 PROVE Flattening(s) = [i \in 1..Len(s) |-> IF i = 1 THEN s[i] ELSE Flattening(s)[i-1] \o s[i]]
<1> DEFINE Good(n) == \E f : f = [i \in 1..n |-> IF i = 1 THEN s[i] ELSE f[i-1] \o s[i]]
           G == {n \in Nat : Good(n)}
<1>1. 0 \in G 
  <2>1. \A i : i \notin 1..0 OBVIOUS
  <2>2. <<>> = [i \in 1..0 |-> IF i = 1 THEN s[i] ELSE <<>>[i-1] \o s[i]] BY <2>1
  <2> QED BY <2>2
<1>2. ASSUME NEW n \in Nat, n \in G PROVE n + 1 \in G
  <2>1. PICK f : f = [i \in 1..n |-> IF i = 1 THEN s[i] ELSE f[i-1] \o s[i]] BY <1>2
  <2> DEFINE g == [i \in 1..n+1 |-> IF i <= n THEN f[i] ELSE IF i = 1 THEN s[i] ELSE f[i-1] \o s[i]]
  <2>2. ASSUME NEW i \in 1..n+1 PROVE g[i] = IF i = 1 THEN s[i] ELSE g[i-1] \o s[i]
    <3>1. CASE i <= n 
      <4>1. i \in 1..n BY <3>1
      <4>2. f[i] = IF i = 1 THEN s[i] ELSE f[i-1] \o s[i] BY <2>1, <4>1
      <4>3. i # 1 => i - 1 \in 1..n+1 /\ i - 1 <= n BY <4>1
      <4> QED BY <4>1, <4>2, <4>3
    <3>2. CASE ~(i <= n) 
      <4>1. i # 1 => i - 1 \in 1..n+1 /\ i - 1 <= n BY <3>2
      <4> QED BY <4>1, <3>2
    <3> QED BY <3>1, <3>2
  <2>3. g = [i \in 1..n+1 |-> IF i = 1 THEN s[i] ELSE g[i-1] \o s[i]] 
    <3> DEFINE h == [i \in 1..n+1 |-> IF i = 1 THEN s[i] ELSE g[i-1] \o s[i]]
    <3>1. DOMAIN g = 1..n+1 /\ DOMAIN h = 1..n+1 OBVIOUS
    <3>2. \A i \in 1..n+1 : g[i] = h[i] BY <2>2
    <3>3. g = h 
      <4> HIDE DEF g
      <4>1. g = [i \in 1..n+1 |-> g[i]] BY DEF g
      <4> QED BY <3>2, <4>1
    <3> QED BY <3>3
  <2>4. Good(n+1) 
    <3> HIDE DEF g
    <3> QED BY <2>3
  <2> HIDE DEF Good
  <2> QED BY <2>4
<1>3. \A n \in Nat : n \in G 
  <2> HIDE DEF G
  <2> QED BY <1>1, <1>2, NatSetInduction
<1>4. Len(s) \in Nat OBVIOUS
<1>5. \E f : f = [i \in 1..Len(s) |-> IF i = 1 THEN s[i] ELSE f[i-1] \o s[i]] BY <1>3, <1>4
<1> QED BY <1>5 DEF Flattening

LEMMA FlattenAt == ASSUME NEW T, NEW s \in Seq(Seq(T)), NEW i \in 1..Len(s)
  PROVE Flattening(s)[i] = IF i = 1 THEN s[i] ELSE Flattening(s)[i-1] \o s[i]
<1> DEFINE F == Flattening(s)
<1>1. F = [k \in 1..Len(s) |-> IF k = 1 THEN s[k] ELSE F[k-1] \o s[k]] BY FlattenDef
<1> HIDE DEF F
<1>2. F[i] = IF i = 1 THEN s[i] ELSE F[i-1] \o s[i] BY <1>1
<1> QED BY <1>2 DEF F

LEMMA FlattenEmpty == FlattenSeq(<<>>) = <<>>
BY DEF FlattenSeq

LEMMA FlatteningType == ASSUME NEW T, NEW s \in Seq(Seq(T))
  PROVE \A i \in 1..Len(s) : Flattening(s)[i] \in Seq(T)
<1> DEFINE F == Flattening(s)
           G == {n \in Nat : n \in 1..Len(s) => F[n] \in Seq(T)}
<1>0. ASSUME NEW i \in 1..Len(s) PROVE F[i] = IF i = 1 THEN s[i] ELSE F[i-1] \o s[i]
  BY FlattenAt
<1> HIDE DEF F
<1>1. 0 \in G OBVIOUS
<1>2. ASSUME NEW n \in Nat, n \in G PROVE n + 1 \in G
  <2> SUFFICES ASSUME n + 1 \in 1..Len(s) PROVE F[n + 1] \in Seq(T) OBVIOUS
  <2>1. s[n + 1] \in Seq(T) OBVIOUS
  <2>2. CASE n = 0 BY <2>1, <2>2, <1>0
  <2>3. CASE n # 0
    <3>1. F[n] \in Seq(T) BY <2>3, <1>2
    <3>2. n + 1 # 1 /\ n + 1 - 1 = n BY <2>3
    <3>4. F[n+1] = IF n + 1 = 1 THEN s[n+1] ELSE F[n + 1 - 1] \o s[n+1] BY <1>0
    <3>3. F[n+1] = F[n] \o s[n+1] BY <3>2, <3>4
    <3> QED BY <2>1, <3>1, <3>3
  <2> QED BY <2>2, <2>3
<1>3. \A n \in Nat : n \in G
  <2> HIDE DEF G
  <2> QED BY <1>1, <1>2, NatSetInduction
<1> QED BY <1>3 DEF F

(* FlattenSeq makes a sequence of sequences of elements one of elements. *)
LEMMA FlattenType == ASSUME NEW T, NEW s \in Seq(Seq(T)) PROVE FlattenSeq(s) \in Seq(T)
<1>1. CASE Len(s) = 0 
  <2>1. s = <<>> BY <1>1
  <2>2. <<>> \in Seq(T) OBVIOUS
  <2> QED BY <2>1, <2>2, FlattenEmpty
<1>2. CASE Len(s) # 0
  <2>1. Len(s) \in 1..Len(s) BY <1>2
  <2>2. FlattenSeq(s) = Flattening(s)[Len(s)] BY <1>2, FlattenIs
  <2> QED BY <2>1, <2>2, FlatteningType
<1> QED BY <1>1, <1>2

(* One sequence more *)
LEMMA FlattenStep == ASSUME NEW T, NEW s \in Seq(Seq(T)), NEW e \in Seq(T)
  PROVE FlattenSeq(Append(s, e)) = FlattenSeq(s) \o e
<1> DEFINE t == Append(s, e)
           F == Flattening(s)
           H == Flattening(t)
           G == {n \in Nat : n \in 1..Len(s) => H[n] = F[n]}
<1>1. t \in Seq(Seq(T)) /\ Len(t) = Len(s) + 1 /\ t[Len(s) + 1] = e /\ Len(s) \in Nat
  OBVIOUS
<1>2. \A i \in 1..Len(s) : t[i] = s[i] OBVIOUS
<1> HIDE DEF t
<1>3. \A i \in 1..Len(s) : F[i] = IF i = 1 THEN s[i] ELSE F[i-1] \o s[i]
  BY FlattenAt
<1>4. \A i \in 1..Len(t) : H[i] = IF i = 1 THEN t[i] ELSE H[i-1] \o t[i]
  BY <1>1, FlattenAt
<1>5. \A i \in 1..Len(s) : F[i] \in Seq(T) BY FlatteningType
<1> HIDE DEF F, H
<1>6. 0 \in G OBVIOUS
<1>7. ASSUME NEW n \in Nat, n \in G PROVE n + 1 \in G
  <2> SUFFICES ASSUME n + 1 \in 1..Len(s) PROVE H[n + 1] = F[n + 1] OBVIOUS
  <2>1. n + 1 \in 1..Len(t) /\ t[n + 1] = s[n + 1] BY <1>1, <1>2
  <2>2. n # 0 => H[n] = F[n] BY <1>7
  <2> QED BY <2>1, <2>2, <1>3, <1>4
<1>8. \A n \in Nat : n \in G
  <2> HIDE DEF G
  <2> QED BY <1>6, <1>7, NatSetInduction
<1>9. FlattenSeq(t) = H[Len(s) + 1]
  <2>1. FlattenSeq(t) = IF Len(t) = 0 THEN t ELSE H[Len(t)] BY FlattenIs DEF H
  <2> QED BY <2>1, <1>1
<1>10. Len(s) + 1 \in 1..Len(t) BY <1>1
<1>11. CASE Len(s) = 0
  <2>1. s = <<>> BY <1>11
  <2>2. FlattenSeq(s) = <<>> BY <2>1, FlattenEmpty
  <2>3. H[1] = e BY <1>1, <1>4, <1>10, <1>11
  <2>4. <<>> \o e = e OBVIOUS
  <2> QED BY <1>9, <1>11, <2>2, <2>3, <2>4 DEF t
<1>12. CASE Len(s) # 0
  <2>1. FlattenSeq(s) = F[Len(s)] BY <1>12, FlattenIs DEF F
  <2>2. Len(s) \in 1..Len(s) BY <1>1, <1>12
  <2>3. H[Len(s)] = F[Len(s)] BY <1>8, <2>2, <1>1
  <2>5. Len(s) + 1 # 1 /\ Len(s) + 1 - 1 = Len(s) BY <1>1, <1>12
  <2>6. H[Len(s) + 1] = IF Len(s) + 1 = 1 THEN t[Len(s) + 1] ELSE H[Len(s) + 1 - 1] \o t[Len(s) + 1]
    BY <1>4, <1>10
  <2>4. H[Len(s) + 1] = H[Len(s)] \o e BY <1>1, <2>6, <2>5
  <2> QED BY <1>9, <2>1, <2>3, <2>4 DEF t
<1> QED BY <1>11, <1>12

(* A prefix grows by the next element. *)
LEMMA PrefixStep == ASSUME NEW T, NEW s \in Seq(T), NEW i \in 1..Len(s)
  PROVE /\ SubSeq(s, 1, i - 1) \in Seq(T)
        /\ SubSeq(s, 1, i) = Append(SubSeq(s, 1, i - 1), s[i])
        /\ s[i] \in T
OBVIOUS

LEMMA BeforeType == ASSUME NEW T, NEW s \in Seq(Seq(T)), NEW i \in 1..Len(s) + 1
  PROVE Before(s, i) \in Nat
<1>1. SubSeq(s, 1, i - 1) \in Seq(Seq(T)) OBVIOUS
<1>2. FlattenSeq(SubSeq(s, 1, i - 1)) \in Seq(T) BY <1>1, FlattenType
<1> QED BY <1>2 DEF Before

LEMMA BeforeFirst == ASSUME NEW s PROVE Before(s, 1) = 0
<1>1. SubSeq(s, 1, 1 - 1) = <<>> OBVIOUS
<1>2. Len(<<>>) = 0 OBVIOUS
<1> QED BY <1>1, <1>2, FlattenEmpty DEF Before

LEMMA BeforeLast == ASSUME NEW T, NEW s \in Seq(Seq(T))
  PROVE Before(s, Len(s) + 1) = Len(FlattenSeq(s))
<1>2. Len(s) + 1 - 1 = Len(s) /\ SubSeq(s, 1, Len(s)) = s OBVIOUS
<1>1. SubSeq(s, 1, Len(s) + 1 - 1) = s BY <1>2
<1>3. Before(s, Len(s) + 1) = Len(FlattenSeq(SubSeq(s, 1, Len(s) + 1 - 1))) BY DEF Before
<1> QED BY <1>1, <1>3

(* The next sequence begins after the elements of the one before. *)
LEMMA BeforeNext == ASSUME NEW T, NEW s \in Seq(Seq(T)), NEW i \in 1..Len(s)
  PROVE Before(s, i + 1) = Before(s, i) + Len(s[i])
<1> DEFINE p == SubSeq(s, 1, i - 1)
<1>1. p \in Seq(Seq(T)) /\ SubSeq(s, 1, i) = Append(p, s[i]) /\ s[i] \in Seq(T) 
  BY PrefixStep
<1>2. i + 1 - 1 = i OBVIOUS
<1> HIDE DEF p
<1>3. FlattenSeq(Append(p, s[i])) = FlattenSeq(p) \o s[i] BY <1>1, FlattenStep
<1>4. FlattenSeq(p) \in Seq(T) BY <1>1, FlattenType
<1>5. Len(FlattenSeq(p) \o s[i]) = Len(FlattenSeq(p)) + Len(s[i]) BY <1>1, <1>4
<1>6. Before(s, i) = Len(FlattenSeq(p)) BY DEF Before, p
<1>7. Before(s, i + 1) = Len(FlattenSeq(SubSeq(s, 1, i))) BY <1>2 DEF Before
<1> QED BY <1>1, <1>3, <1>5, <1>6, <1>7

(* Sequences are equal element by element. *)
LEMMA SameSeq ==
  ASSUME NEW T, NEW a \in Seq(T), NEW b \in Seq(T), Len(a) = Len(b), \A i \in 1..Len(a) : a[i] = b[i]
  PROVE  a = b
OBVIOUS

(* What a concatenation contains, as one fact to cite *)
LEMMA ConcatHas == ASSUME NEW T, NEW a \in Seq(T), NEW b \in Seq(T)
  PROVE /\ a \o b \in Seq(T) /\ Len(a) \in Nat /\ Len(b) \in Nat
        /\ Len(a \o b) = Len(a) + Len(b)
        /\ \A k \in 1..Len(a) : (a \o b)[k] = a[k]
        /\ \A k \in 1..Len(b) : (a \o b)[Len(a) + k] = b[k]
OBVIOUS

(* Where an element is, once the sequences are put together *)
LEMMA FlattenHas ==
  ASSUME NEW T, NEW s \in Seq(Seq(T)), NEW i \in 1..Len(s), NEW j \in 1..Len(s[i])
  PROVE /\ Before(s, i) + j \in 1..Len(FlattenSeq(s))
        /\ FlattenSeq(s)[Before(s, i) + j] = s[i][j]
<1> DEFINE P(n) == SubSeq(s, 1, n)
           at == Before(s, i) + j
           Has(n) == at \in 1..Len(FlattenSeq(P(n))) /\ FlattenSeq(P(n))[at] = s[i][j]
           G == {n \in Nat : n \in i..Len(s) => Has(n)}
<1>0. Before(s, i) \in Nat BY BeforeType
<1>1. 0 \in G OBVIOUS
<1>2. ASSUME NEW n \in Nat, n \in G PROVE n + 1 \in G
  <2> SUFFICES ASSUME n + 1 \in i..Len(s) PROVE Has(n + 1) BY <1>2
  <2>1. n + 1 \in 1..Len(s) OBVIOUS
  <2>2. P(n) \in Seq(Seq(T)) /\ P(n + 1) = Append(P(n), s[n + 1]) /\ s[n + 1] \in Seq(T)
    <3>1. n + 1 - 1 = n OBVIOUS
    <3> QED BY <2>1, <3>1, PrefixStep
  <2> HIDE DEF P
  <2>3. FlattenSeq(P(n + 1)) = FlattenSeq(P(n)) \o s[n + 1] BY <2>2, FlattenStep
  <2>4. FlattenSeq(P(n)) \in Seq(T) BY <2>2, FlattenType
  <2>5. CASE i = n + 1
    <3>1. Before(s, i) = Len(FlattenSeq(P(n))) BY <2>5 DEF Before, P
    <3> DEFINE a == FlattenSeq(P(n))
    <3>2. FlattenSeq(P(n + 1)) = a \o s[i] BY <2>3, <2>5
    <3>3. a \in Seq(T) /\ s[i] \in Seq(T) BY <2>2, <2>4, <2>5
    <3>4. at = Len(a) + j BY <3>1
    <3> HIDE DEF a, at
    <3>5. Len(a) + j \in 1..Len(a) + Len(s[i]) BY <3>3
    <3>6. Len(a \o s[i]) = Len(a) + Len(s[i]) /\ (a \o s[i])[Len(a) + j] = s[i][j]
      BY <3>3, ConcatHas
    <3> QED BY <3>2, <3>4, <3>5, <3>6
  <2>6. CASE i # n + 1
    <3>1. Has(n) BY <2>6, <1>2
    <3> DEFINE a == FlattenSeq(P(n))
    <3>2. FlattenSeq(P(n + 1)) = a \o s[n + 1] BY <2>3
    <3>3. a \in Seq(T) /\ s[n + 1] \in Seq(T) BY <2>2, <2>4
    <3>4. at \in 1..Len(a) /\ a[at] = s[i][j] BY <3>1
    <3> HIDE DEF a, at
    <3>6. Len(a) \in Nat /\ Len(s[n + 1]) \in Nat /\ Len(a \o s[n + 1]) = Len(a) + Len(s[n + 1]) /\ (a \o s[n + 1])[at] = a[at]
      BY <3>3, <3>4, ConcatHas
    <3> QED BY <3>2, <3>4, <3>6
  <2> QED BY <2>5, <2>6
<1>3. \A n \in Nat : n \in G
  <2> HIDE DEF G
  <2> QED BY <1>1, <1>2, NatSetInduction
<1>4. Has(Len(s)) BY <1>3
<1>5. P(Len(s)) = s OBVIOUS
<1> QED BY <1>4, <1>5

(* Walk is what its recursive definition says: it only looks forward. *)
LEMMA WalkDef == ASSUME NEW last \in 0..MaxWords, NEW after, NEW first \in 0..MaxWords
  PROVE Walk(first, last, after) =
          IF first = last \/ after[first] \notin first + 1..last THEN <<>>
          ELSE <<first>> \o Walk(after[first], last, after)
<1> DEFINE Rows(f, s) == IF s = last \/ after[s] \notin s + 1..last THEN <<>> ELSE <<s>> \o f[after[s]]
           Good(n) == \E f : f = [s \in MaxWords - n..MaxWords |-> Rows(f, s)]
           G == {n \in Nat : n <= MaxWords => Good(n)}
<1>0. MaxWords \in Nat /\ last \in Int /\ last <= MaxWords BY PacketAssumption
<1>1. 0 \in G
  <2> DEFINE g == [s \in MaxWords - 0..MaxWords |-> <<>>]
  <2>1. ASSUME NEW s \in MaxWords - 0..MaxWords PROVE Rows(g, s) = <<>>
    <3>1. s = MaxWords BY <1>0
    <3>2. \A x : x \in s + 1..last => FALSE BY <1>0, <3>1
    <3> QED BY <3>2
  <2>2. g = [s \in MaxWords - 0..MaxWords |-> Rows(g, s)] BY <2>1
  <2>3. Good(0)
    <3> HIDE DEF g
    <3> QED BY <2>2
  <2> HIDE DEF Good
  <2> QED BY <2>3
<1>2. ASSUME NEW n \in Nat, n \in G PROVE n + 1 \in G
  <2> SUFFICES ASSUME n + 1 <= MaxWords PROVE Good(n + 1)
    <3> HIDE DEF Good
    <3> QED OBVIOUS
  <2>1. Good(n)
    <3> HIDE DEF Good
    <3> QED BY <1>0, <1>2
  <2>2. PICK f : f = [s \in MaxWords - n..MaxWords |-> Rows(f, s)] BY <2>1
  <2> DEFINE g == [s \in MaxWords - (n + 1)..MaxWords |->
                     IF s \in MaxWords - n..MaxWords THEN f[s] ELSE Rows(f, s)]
  <2>3. ASSUME NEW s \in MaxWords - (n + 1)..MaxWords PROVE g[s] = Rows(g, s)
    <3>1. g[s] = Rows(f, s) BY <2>2
    <3>2. CASE s = last \/ after[s] \notin s + 1..last BY <3>1, <3>2
    <3>3. CASE ~(s = last \/ after[s] \notin s + 1..last)
      <4>1. after[s] \in MaxWords - n..MaxWords /\ after[s] \in MaxWords - (n + 1)..MaxWords
        BY <1>0, <3>3
      <4>2. g[after[s]] = f[after[s]] BY <4>1
      <4> QED BY <3>1, <3>3, <4>2
    <3> QED BY <3>2, <3>3
  <2>4. g = [s \in MaxWords - (n + 1)..MaxWords |-> Rows(g, s)]
    <3>1. g = [s \in MaxWords - (n + 1)..MaxWords |-> g[s]] OBVIOUS
    <3> HIDE DEF g
    <3> QED BY <2>3, <3>1
  <2> HIDE DEF g
  <2> QED BY <2>4
<1>3. \A n \in Nat : n \in G
  <2> HIDE DEF G
  <2> QED BY <1>1, <1>2, NatSetInduction
<1>4. Good(MaxWords)
  <2> HIDE DEF Good
  <2> QED BY <1>0, <1>3
<1> DEFINE W == CHOOSE f : f = [s \in 0..MaxWords |-> Rows(f, s)]
<1>5. W = [s \in 0..MaxWords |-> Rows(W, s)]
  <2>1. MaxWords - MaxWords = 0 BY <1>0
  <2>2. \E f : f = [s \in 0..MaxWords |-> Rows(f, s)] BY <1>4, <2>1
  <2> QED BY <2>2
<1>6. \A x : Walk(x, last, after) = W[x] BY DEF Walk
<1> HIDE DEF W
<1>7. W[first] = Rows(W, first) BY <1>5
<1> QED BY <1>6, <1>7

(* The places st are in a buffer up to last, and after each is the next.      *)
Table(st, n, last, after) ==
  /\ last \in 0..MaxWords /\ n \in Nat /\ st \in [1..n + 1 -> 0..MaxWords]
  /\ st[n + 1] = last /\ \A i \in 1..n + 1 : st[i] <= last
  /\ \A i \in 1..n : st[i] < st[i + 1] /\ after[st[i]] = st[i + 1]

Upto(s, n) == [i \in 1..n |-> s[i]]

(* A walk over a table of places visits each of them once, in order. *)
LEMMA WalkTable ==
  ASSUME NEW st, NEW n, NEW last, NEW after, Table(st, n, last, after)
  PROVE  Walk(st[1], last, after) = Upto(st, n)
<1>0. /\ last \in 0..MaxWords /\ n \in Nat /\ st \in [1..n + 1 -> 0..MaxWords]
      /\ st[n + 1] = last /\ \A i \in 1..n + 1 : st[i] <= last
      /\ \A i \in 1..n : st[i] < st[i + 1] /\ after[st[i]] = st[i + 1]
  BY DEF Table
<1> SUFFICES ASSUME last \in 0..MaxWords, n \in Nat, st \in [1..n + 1 -> 0..MaxWords],
                    st[n + 1] = last, \A i \in 1..n + 1 : st[i] <= last,
                    \A i \in 1..n : st[i] < st[i + 1] /\ after[st[i]] = st[i + 1]
             PROVE  Walk(st[1], last, after) = [i \in 1..n |-> st[i]]
  BY <1>0 DEF Upto
<1> DEFINE Tail_(k) == [i \in 1..k |-> st[n - k + i]]
           G == {k \in Nat : k <= n => Walk(st[n + 1 - k], last, after) = Tail_(k)}
<1>1. 0 \in G
  <2>1. n + 1 - 0 = n + 1 OBVIOUS
  <2>2. Walk(last, last, after) = <<>> BY WalkDef
  <2>3. Tail_(0) = <<>> OBVIOUS
  <2> QED BY <2>1, <2>2, <2>3
<1>2. ASSUME NEW k \in Nat, k \in G PROVE k + 1 \in G
  <2> SUFFICES ASSUME k + 1 <= n PROVE Walk(st[n + 1 - (k + 1)], last, after) = Tail_(k + 1)
    OBVIOUS
  <2> DEFINE i == n - k
  <2>1. i \in 1..n /\ n + 1 - (k + 1) = i /\ n + 1 - k = i + 1 OBVIOUS
  <2>2. Walk(st[i + 1], last, after) = Tail_(k) BY <1>2, <2>1
  <2> HIDE DEF i
  <2>3. st[i] \in 0..MaxWords /\ st[i + 1] \in 0..MaxWords /\ st[i] < st[i + 1] /\ st[i + 1] <= last
        /\ after[st[i]] = st[i + 1]
    BY <2>1
  <2>4. ~(st[i] = last \/ after[st[i]] \notin st[i] + 1..last) BY <2>3
  <2>5. Walk(st[i], last, after) = <<st[i]>> \o Walk(st[i + 1], last, after)
    <3>1. Walk(st[i], last, after) =
            IF st[i] = last \/ after[st[i]] \notin st[i] + 1..last THEN <<>>
            ELSE <<st[i]>> \o Walk(after[st[i]], last, after)
      BY <2>3, WalkDef
    <3> QED BY <2>3, <2>4, <3>1
  <2>6. <<st[i]>> \o Tail_(k) = Tail_(k + 1)
    <3>1. Tail_(k) \in Seq(0..MaxWords) /\ Len(Tail_(k)) = k
      <4>1. \A j \in 1..k : n - k + j \in 1..n + 1 OBVIOUS
      <4> QED BY <4>1
    <3>2. Tail_(k + 1) \in Seq(0..MaxWords) /\ Len(Tail_(k + 1)) = k + 1
      <4>1. \A j \in 1..k + 1 : n - (k + 1) + j \in 1..n + 1 OBVIOUS
      <4> QED BY <4>1
    <3>3. <<st[i]>> \in Seq(0..MaxWords) /\ Len(<<st[i]>>) = 1 /\ <<st[i]>>[1] = st[i] BY <2>3
    <3>4. Tail_(k + 1)[1] = st[i]
      <4>1. n - (k + 1) + 1 = i BY DEF i
      <4> QED BY <4>1
    <3>5. ASSUME NEW j \in 1..k PROVE Tail_(k + 1)[1 + j] = Tail_(k)[j]
      <4>1. n - (k + 1) + (1 + j) = n - k + j OBVIOUS
      <4> QED BY <4>1
    <3> HIDE DEF Tail_
    <3> DEFINE a == <<st[i]>>
               b == Tail_(k)
               t == Tail_(k + 1)
    <3>6. a \in Seq(0..MaxWords) /\ b \in Seq(0..MaxWords) /\ t \in Seq(0..MaxWords)
          /\ Len(a) = 1 /\ Len(b) = k /\ Len(t) = k + 1 /\ a[1] = st[i] /\ t[1] = st[i]
          /\ \A j \in 1..k : t[1 + j] = b[j]
      BY <3>1, <3>2, <3>3, <3>4, <3>5
    <3> HIDE DEF a, b, t
    <3>7. a \o b = t
      <4> DEFINE ab == a \o b
      <4>1. /\ ab \in Seq(0..MaxWords) /\ Len(ab) = Len(a) + Len(b)
            /\ \A j \in 1..Len(a) : ab[j] = a[j]
            /\ \A j \in 1..Len(b) : ab[Len(a) + j] = b[j]
        <5>1. a \in Seq(0..MaxWords) /\ b \in Seq(0..MaxWords) BY <3>6
        <5> QED BY <5>1, ConcatHas
      <4> HIDE DEF ab
      <4>2. Len(ab) = k + 1 BY <3>6, <4>1
      <4>3. ASSUME NEW j \in 1..k + 1 PROVE ab[j] = t[j]
        <5>1. CASE j = 1 BY <3>6, <4>1, <5>1
        <5>2. CASE j # 1
          <6>1. j - 1 \in 1..k /\ 1 + (j - 1) = j BY <5>2
          <6>2. ab[1 + (j - 1)] = b[j - 1] BY <3>6, <4>1, <6>1
          <6>3. t[1 + (j - 1)] = b[j - 1] BY <3>6, <6>1
          <6> QED BY <6>1, <6>2, <6>3
        <5> QED BY <5>1, <5>2
      <4>4. ab = t
        <5>1. Len(ab) = Len(t) /\ \A j \in 1..Len(ab) : ab[j] = t[j] BY <3>6, <4>2, <4>3
        <5>2. ab \in Seq(0..MaxWords) /\ t \in Seq(0..MaxWords) BY <3>6, <4>1
        <5> HIDE DEF a, b, t
        <5> QED BY <5>1, <5>2, SameSeq
      <4> QED BY <4>4 DEF ab
    <3> QED BY <3>7 DEF a, b, t
  <2> QED BY <2>1, <2>2, <2>5, <2>6
<1>3. \A k \in Nat : k \in G
  <2> HIDE DEF G
  <2> QED BY <1>1, <1>2, NatSetInduction
<1>4. n \in G BY <1>3
<1>5. n + 1 - n = 1 /\ Tail_(n) = [i \in 1..n |-> st[i]]
  <2>1. \A i \in 1..n : n - n + i = i OBVIOUS
  <2> QED BY <2>1
<1> QED BY <1>4, <1>5

(* The encodings *)
LEMMA EncodedParam == ASSUME NEW p \in Parameter
  PROVE /\ EncodeParam(p) \in Seq(Int) /\ Len(EncodeParam(p)) = 2 + Len(p.data)
        /\ Len(p.data) \in Nat /\ p.data \in Seq(Int) /\ p.name \in Int
        /\ EncodeParam(p)[1] = p.name /\ EncodeParam(p)[2] = TypeSize(p.type, 2 + Len(p.data))
        /\ \A k \in 1..Len(p.data) : EncodeParam(p)[2 + k] = p.data[k]
        /\ p.type \in {IntType, StringType} /\ TypeSize(p.type, 2 + Len(p.data)) \in Int
<1> DEFINE a == <<p.name, TypeSize(p.type, 2 + Len(p.data))>>
<1>1. p.data \in Seq(Int) /\ p.name \in Int /\ p.type \in {IntType, StringType} BY DEF Parameter
<1>2. TypeSize(p.type, 2 + Len(p.data)) \in Int BY <1>1 DEF TypeSize, TypeFactor, IntType, StringType
<1>3. a \in Seq(Int) /\ Len(a) = 2 /\ a[1] = p.name /\ a[2] = TypeSize(p.type, 2 + Len(p.data))
  BY <1>1, <1>2
<1>4. EncodeParam(p) = a \o p.data BY DEF EncodeParam
<1> HIDE DEF a
<1>5. /\ a \o p.data \in Seq(Int) /\ Len(p.data) \in Nat
      /\ Len(a \o p.data) = Len(a) + Len(p.data)
      /\ \A k \in 1..Len(a) : (a \o p.data)[k] = a[k]
      /\ \A k \in 1..Len(p.data) : (a \o p.data)[Len(a) + k] = p.data[k]
  <2>1. a \in Seq(Int) /\ p.data \in Seq(Int) BY <1>1, <1>3
  <2> QED BY <2>1, ConcatHas
<1> QED BY <1>1, <1>2, <1>3, <1>4, <1>5, SMTT(40)

Field == [name : Int, id : Nat, params : Seq(Parameter)]

LEMMA ParamSeqsType == ASSUME NEW f \in Field
  PROVE /\ ParamSeqs(f) \in Seq(Seq(Int)) /\ Len(ParamSeqs(f)) = Len(f.params)
        /\ \A i \in 1..Len(f.params) : ParamSeqs(f)[i] = EncodeParam(f.params[i])
        /\ FlattenSeq(ParamSeqs(f)) \in Seq(Int)
        /\ Len(FlattenSeq(ParamSeqs(f))) \in Nat
<1>1. f.params \in Seq(Parameter) /\ Len(f.params) \in Nat BY DEF Field
<1>2. \A i \in 1..Len(f.params) : EncodeParam(f.params[i]) \in Seq(Int) BY <1>1, EncodedParam
<1>3. ParamSeqs(f) \in Seq(Seq(Int)) /\ Len(ParamSeqs(f)) = Len(f.params) BY <1>1, <1>2 DEF ParamSeqs
<1>4. FlattenSeq(ParamSeqs(f)) \in Seq(Int) BY <1>3, FlattenType
<1> QED BY <1>3, <1>4 DEF ParamSeqs

(* The words of a field: name, size, id, and its parameters *)
LEMMA EncodedField == ASSUME NEW f \in Field
  PROVE /\ EncodeField(f) \in Seq(Int)
        /\ Len(EncodeField(f)) = FieldSize + Len(FlattenSeq(ParamSeqs(f)))
        /\ EncodeField(f)[1] = f.name /\ EncodeField(f)[2] = Len(EncodeField(f))
        /\ EncodeField(f)[3] = f.id
        /\ \A k \in 1..Len(FlattenSeq(ParamSeqs(f))) :
             EncodeField(f)[FieldSize + k] = FlattenSeq(ParamSeqs(f))[k]
<1> DEFINE q == FlattenSeq(ParamSeqs(f))
           a == <<f.name, FieldSize + Len(q), f.id>>
<1>1. f.name \in Int /\ f.id \in Int BY DEF Field
<1>2. q \in Seq(Int) /\ Len(q) \in Nat BY ParamSeqsType
<1>3. a \in Seq(Int) /\ Len(a) = 3 /\ a[1] = f.name /\ a[2] = FieldSize + Len(q) /\ a[3] = f.id
  BY <1>1, <1>2 DEF FieldSize
<1>4. EncodeField(f) = a \o q BY DEF EncodeField, ParamSeqs
<1> HIDE DEF a, q
<1>5. /\ a \o q \in Seq(Int) /\ Len(a \o q) = Len(a) + Len(q)
      /\ \A k \in 1..Len(a) : (a \o q)[k] = a[k]
      /\ \A k \in 1..Len(q) : (a \o q)[Len(a) + k] = q[k]
  <2>1. a \in Seq(Int) /\ q \in Seq(Int) BY <1>2, <1>3
  <2> QED BY <2>1, ConcatHas
<1>6. FieldSize = 3 BY DEF FieldSize
<1>7. /\ EncodeField(f) \in Seq(Int) /\ Len(EncodeField(f)) = FieldSize + Len(q)
      /\ EncodeField(f)[1] = f.name /\ EncodeField(f)[2] = Len(EncodeField(f))
      /\ EncodeField(f)[3] = f.id
      /\ \A k \in 1..Len(q) : EncodeField(f)[FieldSize + k] = q[k]
  BY <1>3, <1>4, <1>5, <1>6
<1> QED BY <1>7 DEF q

LEMMA FieldSeqsType == ASSUME NEW c \in Contents
  PROVE /\ FieldSeqs(c) \in Seq(Seq(Int)) /\ Len(FieldSeqs(c)) = Len(c) /\ Len(c) \in Nat
        /\ \A i \in 1..Len(c) : c[i] \in Field /\ FieldSeqs(c)[i] = EncodeField(c[i])
        /\ EncodedFields(c) \in Seq(Int) /\ Len(EncodedFields(c)) \in Nat
<1>1. c \in Seq(Field) /\ Len(c) \in Nat BY DEF Contents, Field
<1>2. \A i \in 1..Len(c) : EncodeField(c[i]) \in Seq(Int) BY <1>1, EncodedField
<1>3. FieldSeqs(c) \in Seq(Seq(Int)) /\ Len(FieldSeqs(c)) = Len(c) BY <1>1, <1>2 DEF FieldSeqs
<1>4. EncodedFields(c) \in Seq(Int) BY <1>3, FlattenType DEF EncodedFields
<1> QED BY <1>1, <1>3, <1>4 DEF FieldSeqs

(* The words of a content: its fields and the footer *)
LEMMA EncodeIs == ASSUME NEW c \in Contents
  PROVE /\ Encode(c) \in Seq(Int) /\ Len(Encode(c)) = Len(EncodedFields(c)) + FooterSize
        /\ \A k \in 1..Len(EncodedFields(c)) : Encode(c)[k] = EncodedFields(c)[k]
        /\ Encode(c)[Len(EncodedFields(c)) + 1] = 0 /\ Encode(c)[Len(EncodedFields(c)) + 2] = Foot
<1> DEFINE a == EncodedFields(c)
           b == <<0, Foot>>
<1>1. a \in Seq(Int) /\ Len(a) \in Nat BY FieldSeqsType
<1>2. b \in Seq(Int) /\ Len(b) = 2 /\ b[1] = 0 /\ b[2] = Foot BY DEF Foot
<1>3. Encode(c) = a \o b BY DEF Encode, EncodedFields, FieldSeqs
<1> HIDE DEF a, b
<1>4. /\ a \o b \in Seq(Int) /\ Len(a \o b) = Len(a) + Len(b)
      /\ \A k \in 1..Len(a) : (a \o b)[k] = a[k]
      /\ \A k \in 1..Len(b) : (a \o b)[Len(a) + k] = b[k]
  <2>1. a \in Seq(Int) /\ b \in Seq(Int) BY <1>1, <1>2
  <2> QED BY <2>1, ConcatHas
<1>5. Encode(c) \in Seq(Int) /\ Len(Encode(c)) = Len(a) + FooterSize
      /\ \A k \in 1..Len(a) : Encode(c)[k] = a[k]
  BY <1>2, <1>3, <1>4 DEF FooterSize
<1>6. Encode(c)[Len(a) + 1] = 0 /\ Encode(c)[Len(a) + 2] = Foot
  <2>1. 1 \in 1..Len(b) /\ 2 \in 1..Len(b) BY <1>2
  <2> QED BY <1>2, <1>3, <1>4, <2>1
<1> QED BY <1>5, <1>6 DEF a

(* Where fields and parameters begin *)
LEMMA FieldPlaces == ASSUME NEW c \in Contents
  PROVE /\ FieldStart(c, 1) = HeaderSize
        /\ FieldStart(c, Len(c) + 1) = HeaderSize + Len(EncodedFields(c))
        /\ \A i \in 1..Len(c) + 1 : /\ FieldStart(c, i) \in Nat /\ FieldStart(c, i) >= HeaderSize
                                   /\ FieldStart(c, i) <= HeaderSize + Len(EncodedFields(c))
        /\ \A i \in 1..Len(c) : /\ FieldStart(c, i + 1) = FieldStart(c, i) + Len(EncodeField(c[i]))
                               /\ Len(EncodeField(c[i])) \in Nat /\ Len(EncodeField(c[i])) >= FieldSize
<1> DEFINE s == FieldSeqs(c)
<1>1. /\ s \in Seq(Seq(Int)) /\ Len(s) = Len(c) /\ Len(c) \in Nat
      /\ \A i \in 1..Len(c) : c[i] \in Field /\ s[i] = EncodeField(c[i])
      /\ Len(EncodedFields(c)) \in Nat
  BY FieldSeqsType
<1>2. EncodedFields(c) = FlattenSeq(s) BY DEF EncodedFields
<1> HIDE DEF s
<1>3. \A i : FieldStart(c, i) = HeaderSize + Before(s, i) BY DEF FieldStart, s
<1>4. HeaderSize = 8 /\ FieldSize = 3 BY DEF HeaderSize, FieldSize
<1>5. \A i \in 1..Len(c) : Len(EncodeField(c[i])) \in Nat /\ Len(EncodeField(c[i])) >= FieldSize
  <2> TAKE i \in 1..Len(c)
  <2>1. Len(FlattenSeq(ParamSeqs(c[i]))) \in Nat BY <1>1, ParamSeqsType
  <2>2. Len(EncodeField(c[i])) = FieldSize + Len(FlattenSeq(ParamSeqs(c[i]))) BY <1>1, EncodedField
  <2> QED BY <1>4, <2>1, <2>2
<1>6. Before(s, 1) = 0 BY BeforeFirst
<1>7. Before(s, Len(c) + 1) = Len(EncodedFields(c)) BY <1>1, <1>2, BeforeLast
<1>8. \A i \in 1..Len(c) + 1 : Before(s, i) \in Nat BY <1>1, BeforeType
<1>9. \A i \in 1..Len(c) : Before(s, i + 1) = Before(s, i) + Len(EncodeField(c[i]))
  <2> TAKE i \in 1..Len(c)
  <2>1. i \in 1..Len(s) BY <1>1
  <2>2. Before(s, i + 1) = Before(s, i) + Len(s[i]) BY <1>1, <2>1, BeforeNext
  <2> QED BY <1>1, <2>2
<1>10. \A i \in 1..Len(c) + 1 : Before(s, i) <= Len(EncodedFields(c))
  <2> TAKE i \in 1..Len(c) + 1
  <2>1. CASE i = Len(c) + 1 BY <1>1, <1>7, <2>1
  <2>2. CASE i # Len(c) + 1
    <3>1. i \in 1..Len(s) /\ i \in 1..Len(c) BY <1>1, <2>2
    <3>2. 1 \in 1..Len(s[i]) BY <1>1, <1>4, <1>5, <3>1
    <3>3. Before(s, i) + 1 \in 1..Len(FlattenSeq(s)) BY <1>1, <3>1, <3>2, FlattenHas
    <3> QED BY <1>1, <1>2, <1>8, <3>3
  <2> QED BY <2>1, <2>2
<1>11. FieldStart(c, 1) = HeaderSize BY <1>3, <1>4, <1>6
<1>12. FieldStart(c, Len(c) + 1) = HeaderSize + Len(EncodedFields(c)) BY <1>3, <1>7
<1>13. \A i \in 1..Len(c) + 1 : /\ FieldStart(c, i) \in Nat /\ FieldStart(c, i) >= HeaderSize
                              /\ FieldStart(c, i) <= HeaderSize + Len(EncodedFields(c))
  BY <1>1, <1>3, <1>4, <1>8, <1>10
<1>14. \A i \in 1..Len(c) : FieldStart(c, i + 1) = FieldStart(c, i) + Len(EncodeField(c[i]))
  <2> TAKE i \in 1..Len(c)
  <2>1. Before(s, i) \in Nat BY <1>8, <1>1
  <2> QED BY <1>3, <1>4, <1>5, <1>9, <2>1
<1> QED BY <1>5, <1>11, <1>12, <1>13, <1>14

(* The places of the parameters divide the place of their field. *)
LEMMA ParamPlaces == ASSUME NEW c \in Contents, NEW f \in 1..Len(c)
  PROVE /\ ParamStart(c, f, 1) = FieldStart(c, f) + FieldSize
        /\ ParamStart(c, f, Len(c[f].params) + 1) = FieldStart(c, f + 1)
        /\ Len(c[f].params) \in Nat
        /\ \A i \in 1..Len(c[f].params) + 1 :
             /\ ParamStart(c, f, i) \in Nat /\ ParamStart(c, f, i) >= HeaderSize
             /\ ParamStart(c, f, i) <= FieldStart(c, f + 1)
        /\ \A i \in 1..Len(c[f].params) :
             /\ c[f].params[i] \in Parameter
             /\ ParamStart(c, f, i + 1) = ParamStart(c, f, i) + 2 + Len(c[f].params[i].data)
             /\ Len(c[f].params[i].data) \in Nat
<1> DEFINE g == c[f]
           s == ParamSeqs(g)
           n == Len(g.params)
<1>1. c[f] \in Field /\ Len(c) \in Nat /\ f + 1 \in 1..Len(c) + 1 BY FieldSeqsType
<1>2. /\ s \in Seq(Seq(Int)) /\ Len(s) = n
      /\ \A i \in 1..n : s[i] = EncodeParam(g.params[i])
      /\ Len(FlattenSeq(s)) \in Nat
  BY <1>1, ParamSeqsType
<1>3. g.params \in Seq(Parameter) /\ n \in Nat BY <1>1 DEF Field
<1>4. FieldStart(c, f + 1) = FieldStart(c, f) + FieldSize + Len(FlattenSeq(s))
  <2>1. Len(EncodeField(g)) = FieldSize + Len(FlattenSeq(s)) BY <1>1, EncodedField
  <2>2. FieldStart(c, f + 1) = FieldStart(c, f) + Len(EncodeField(g)) BY FieldPlaces
  <2>3. FieldStart(c, f) \in Nat BY <1>1, FieldPlaces
  <2> QED BY <1>2, <2>1, <2>2, <2>3 DEF FieldSize
<1>5. FieldStart(c, f) \in Nat /\ FieldStart(c, f) >= HeaderSize BY <1>1, FieldPlaces
<1>6. \A i \in 1..n : g.params[i] \in Parameter /\ Len(g.params[i].data) \in Nat
                     /\ Len(s[i]) = 2 + Len(g.params[i].data)
  <2> TAKE i \in 1..n
  <2>1. g.params[i] \in Parameter BY <1>3
  <2>2. s[i] = EncodeParam(g.params[i]) BY <1>2
  <2> HIDE DEF g, s
  <2> QED BY <2>1, <2>2, EncodedParam
<1> HIDE DEF s
<1>7. \A i : ParamStart(c, f, i) = FieldStart(c, f) + FieldSize + Before(s, i) BY DEF ParamStart, s
<1>8. HeaderSize = 8 /\ FieldSize = 3 BY DEF HeaderSize, FieldSize
<1> HIDE DEF n
<1>9. Before(s, 1) = 0 BY BeforeFirst
<1>10. Before(s, n + 1) = Len(FlattenSeq(s)) BY <1>2, BeforeLast
<1>11. \A i \in 1..n + 1 : Before(s, i) \in Nat BY <1>2, BeforeType
<1>12. \A i \in 1..n : Before(s, i + 1) = Before(s, i) + Len(s[i])
  <2> TAKE i \in 1..n
  <2>1. i \in 1..Len(s) BY <1>2
  <2> QED BY <1>2, <2>1, BeforeNext
<1>13. \A i \in 1..n + 1 : Before(s, i) <= Len(FlattenSeq(s))
  <2> TAKE i \in 1..n + 1
  <2>1. CASE i = n + 1 BY <1>2, <1>10, <2>1
  <2>2. CASE i # n + 1
    <3>1. i \in 1..Len(s) /\ i \in 1..n BY <1>2, <1>3, <2>2
    <3>2. 1 \in 1..Len(s[i]) BY <1>6, <3>1
    <3>3. Before(s, i) + 1 \in 1..Len(FlattenSeq(s)) BY <1>2, <3>1, <3>2, FlattenHas
    <3> QED BY <1>2, <1>11, <3>3
  <2> QED BY <2>1, <2>2
<1>14. ParamStart(c, f, 1) = FieldStart(c, f) + FieldSize BY <1>5, <1>7, <1>8, <1>9
<1>15. ParamStart(c, f, n + 1) = FieldStart(c, f + 1) BY <1>4, <1>7, <1>10
<1>16. \A i \in 1..n + 1 : /\ ParamStart(c, f, i) \in Nat /\ ParamStart(c, f, i) >= HeaderSize
                         /\ ParamStart(c, f, i) <= FieldStart(c, f + 1)
  BY <1>2, <1>4, <1>5, <1>7, <1>8, <1>11, <1>13
<1>17. \A i \in 1..n : ParamStart(c, f, i + 1) = ParamStart(c, f, i) + 2 + Len(g.params[i].data)
  <2> TAKE i \in 1..n
  <2>1. Before(s, i) \in Nat BY <1>3, <1>11
  <2>2. Len(g.params[i].data) \in Nat /\ Len(s[i]) = 2 + Len(g.params[i].data) BY <1>6
  <2>3. Before(s, i + 1) = Before(s, i) + Len(s[i]) BY <1>12
  <2>4. ParamStart(c, f, i + 1) = FieldStart(c, f) + FieldSize + Before(s, i + 1)
        /\ ParamStart(c, f, i) = FieldStart(c, f) + FieldSize + Before(s, i)
    BY <1>7
  <2> DEFINE d == Len(g.params[i].data)
             a == FieldStart(c, f)
             x == Before(s, i)
  <2>5. a \in Nat /\ x \in Nat /\ d \in Nat BY <1>5, <2>1, <2>2
  <2>6. ParamStart(c, f, i + 1) = a + 3 + (x + (2 + d)) /\ ParamStart(c, f, i) = a + 3 + x
    BY <1>8, <2>2, <2>3, <2>4
  <2> HIDE DEF a, x, d
  <2>7. ParamStart(c, f, i + 1) = ParamStart(c, f, i) + 2 + d BY <2>5, <2>6
  <2> QED BY <2>7 DEF d
<1> QED BY <1>3, <1>6, <1>14, <1>15, <1>16, <1>17 DEF n

(* Word k of field i, and of its parameter i, in a buffer that holds the      *)
(* fields                                                                     *)
LEMMA FieldWords ==
  ASSUME NEW c \in Contents, NEW b, Holds(b, HeaderSize, EncodedFields(c)),
         NEW i \in 1..Len(c), NEW k \in 1..Len(EncodeField(c[i]))
  PROVE  b[FieldStart(c, i) + k - 1] = EncodeField(c[i])[k]
<1> DEFINE s == FieldSeqs(c)
<1>1. s \in Seq(Seq(Int)) /\ Len(s) = Len(c) /\ s[i] = EncodeField(c[i]) BY FieldSeqsType
<1>2. EncodedFields(c) = FlattenSeq(s) BY DEF EncodedFields
<1>3. i \in 1..Len(s) /\ k \in 1..Len(s[i]) BY <1>1
<1>4. FieldStart(c, i) = HeaderSize + Before(s, i) BY DEF FieldStart
<1> HIDE DEF s
<1>5. Before(s, i) + k \in 1..Len(FlattenSeq(s)) /\ FlattenSeq(s)[Before(s, i) + k] = s[i][k]
  BY <1>1, <1>3, FlattenHas
<1>6. Before(s, i) \in Nat
  <2>1. Len(s) \in Nat BY <1>1
  <2>2. i \in 1..Len(s) + 1 BY <1>3, <2>1
  <2> QED BY <1>1, <2>2, BeforeType
<1>7. b[HeaderSize + (Before(s, i) + k) - 1] = s[i][k] BY <1>2, <1>5 DEF Holds
<1>8. k \in Nat BY <1>3
<1>9. HeaderSize + (Before(s, i) + k) - 1 = FieldStart(c, i) + k - 1 BY <1>4, <1>6, <1>8 DEF HeaderSize
<1> QED BY <1>1, <1>7, <1>9

LEMMA ParamWords ==
  ASSUME NEW c \in Contents, NEW b, Holds(b, HeaderSize, EncodedFields(c)),
         NEW f \in 1..Len(c), NEW i \in 1..Len(c[f].params), NEW k \in 1..Len(EncodeParam(c[f].params[i]))
  PROVE  b[ParamStart(c, f, i) + k - 1] = EncodeParam(c[f].params[i])[k]
<1> DEFINE g == c[f]
           s == ParamSeqs(g)
<1>1. g \in Field /\ Len(c) \in Nat BY FieldSeqsType
<1>2. /\ s \in Seq(Seq(Int)) /\ Len(s) = Len(g.params) /\ s[i] = EncodeParam(g.params[i])
      /\ Len(FlattenSeq(s)) \in Nat
  BY <1>1, ParamSeqsType
<1>3. i \in 1..Len(s) /\ k \in 1..Len(s[i]) /\ k \in Nat BY <1>2
<1>4. ParamStart(c, f, i) = FieldStart(c, f) + FieldSize + Before(s, i) BY DEF ParamStart
<1>5. /\ Len(EncodeField(g)) = FieldSize + Len(FlattenSeq(s))
      /\ \A j \in 1..Len(FlattenSeq(s)) : EncodeField(g)[FieldSize + j] = FlattenSeq(s)[j]
  BY <1>1, EncodedField
<1> HIDE DEF s
<1>6. Before(s, i) + k \in 1..Len(FlattenSeq(s)) /\ FlattenSeq(s)[Before(s, i) + k] = s[i][k]
  BY <1>2, <1>3, FlattenHas
<1>7. Before(s, i) \in Nat
  <2>1. Len(s) \in Nat BY <1>2
  <2>2. i \in 1..Len(s) + 1 BY <1>3, <2>1
  <2> QED BY <1>2, <2>2, BeforeType
<1> DEFINE m == FieldSize + (Before(s, i) + k)
<1>8. m \in 1..Len(EncodeField(g)) /\ EncodeField(g)[m] = s[i][k]
  <2> HIDE DEF g
  <2>3. Before(s, i) + k \in 1..Len(FlattenSeq(s)) /\ Len(FlattenSeq(s)) \in Nat BY <1>2, <1>6
  <2>1. m \in 1..Len(EncodeField(g)) BY <1>5, <2>3 DEF FieldSize
  <2>2. EncodeField(g)[m] = FlattenSeq(s)[Before(s, i) + k] BY <1>5, <1>6
  <2> QED BY <1>6, <2>1, <2>2
<1>9. b[FieldStart(c, f) + m - 1] = EncodeField(g)[m]
  <2> HIDE DEF m
  <2> QED BY <1>8, FieldWords
<1>10. FieldStart(c, f) \in Nat BY <1>1, FieldPlaces
<1>11. FieldStart(c, f) + m - 1 = ParamStart(c, f, i) + k - 1
  BY <1>3, <1>4, <1>7, <1>10 DEF FieldSize
<1> QED BY <1>2, <1>8, <1>9, <1>11

(* What the scans of a complete packet find *)
LEMMA CarriesFields == ASSUME NEW c \in Contents, NEW b, Carries(b, c)
  PROVE /\ Holds(b, HeaderSize, EncodedFields(c))
        /\ b[SizeWord] - FooterSize = FieldStart(c, Len(c) + 1)
        /\ FieldStart(c, Len(c) + 1) + FooterSize <= MaxWords
<1>1. Len(EncodedFields(c)) \in Nat BY FieldSeqsType
<1>2. Len(Encode(c)) = Len(EncodedFields(c)) + FooterSize
      /\ \A k \in 1..Len(EncodedFields(c)) : Encode(c)[k] = EncodedFields(c)[k]
  BY EncodeIs
<1>3. FieldStart(c, Len(c) + 1) = HeaderSize + Len(EncodedFields(c)) BY FieldPlaces
<1>4. \A k \in 1..Len(EncodedFields(c)) : b[HeaderSize + k - 1] = EncodedFields(c)[k]
  <2> TAKE k \in 1..Len(EncodedFields(c))
  <2>1. k \in 1..Len(Encode(c)) BY <1>1, <1>2 DEF FooterSize
  <2> QED BY <1>2, <2>1 DEF Carries, Holds
<1>5. b[SizeWord] = HeaderSize + Len(Encode(c)) /\ b[SizeWord] <= MaxWords BY DEF Carries
<1> QED BY <1>1, <1>2, <1>3, <1>4, <1>5 DEF Holds, HeaderSize, FooterSize

(* On a buffer that carries c, packet_read finds the fields of c ... *)
LEMMA ScanFieldsIs ==
  ASSUME buffer \in [0..MaxWords - 1 -> Int], NEW c \in Contents, Carries(buffer, c)
  PROVE  ScanFields = FieldRows(c)
<1> DEFINE n == Len(c)
           st == [i \in 1..n + 1 |-> FieldStart(c, i)]
           after == [s \in 0..MaxWords - 2 |-> buffer[s + 1] + s]
           last == buffer[SizeWord] - FooterSize
           starts == Walk(HeaderSize, last, after)
           Row(s) == [name |-> buffer[s], id |-> buffer[s + 2], start |-> s, end |-> after[s]]
<1>0. HeaderSize = 8 /\ FieldSize = 3 /\ FooterSize = 2 /\ MaxWords \in Nat
  BY PacketAssumption DEF HeaderSize, FieldSize, FooterSize
<1>1. /\ Holds(buffer, HeaderSize, EncodedFields(c))
      /\ last = FieldStart(c, n + 1) /\ FieldStart(c, n + 1) + FooterSize <= MaxWords
  BY CarriesFields
<1>2. n \in Nat /\ \A i \in 1..n : c[i] \in Field BY FieldSeqsType
<1>3. /\ FieldStart(c, 1) = HeaderSize
      /\ \A i \in 1..n + 1 : /\ FieldStart(c, i) \in Nat /\ FieldStart(c, i) >= HeaderSize
                            /\ FieldStart(c, i) <= last
      /\ \A i \in 1..n : /\ FieldStart(c, i + 1) = FieldStart(c, i) + Len(EncodeField(c[i]))
                        /\ Len(EncodeField(c[i])) \in Nat /\ Len(EncodeField(c[i])) >= FieldSize
  BY <1>1, FieldPlaces
<1> HIDE DEF last
<1>4. last \in 0..MaxWords /\ last + 2 <= MaxWords
  <2>1. n + 1 \in 1..n + 1 BY <1>2
  <2>2. FieldStart(c, n + 1) \in Nat BY <1>3, <2>1
  <2> QED BY <1>0, <1>1, <2>2
<1>5. ASSUME NEW i \in 1..n
      PROVE  /\ FieldStart(c, i) \in 0..MaxWords - 2 /\ FieldStart(c, i) < FieldStart(c, i + 1)
             /\ after[FieldStart(c, i)] = FieldStart(c, i + 1)
             /\ buffer[FieldStart(c, i)] = c[i].name /\ buffer[FieldStart(c, i) + 2] = c[i].id
  <2> DEFINE s == FieldStart(c, i)
             l == Len(EncodeField(c[i]))
  <2>1. i \in 1..n + 1 /\ i + 1 \in 1..n + 1 BY <1>2
  <2>2. s \in Nat /\ FieldStart(c, i + 1) = s + l /\ l \in Nat /\ l >= 3 /\ s + l <= last
    BY <1>0, <1>3, <2>1
  <2>3. /\ EncodeField(c[i])[1] = c[i].name /\ EncodeField(c[i])[2] = l
        /\ EncodeField(c[i])[3] = c[i].id
    BY <1>2, EncodedField
  <2>4. 1 \in 1..l /\ 2 \in 1..l /\ 3 \in 1..l BY <2>2
  <2>5. /\ buffer[s + 1 - 1] = c[i].name /\ buffer[s + 2 - 1] = l /\ buffer[s + 3 - 1] = c[i].id
    <3> HIDE DEF s, l
    <3>1. \A k \in 1..Len(EncodeField(c[i])) :
            buffer[FieldStart(c, i) + k - 1] = EncodeField(c[i])[k]
      <4>1. Holds(buffer, HeaderSize, EncodedFields(c)) /\ i \in 1..Len(c) BY <1>1
      <4> TAKE k \in 1..Len(EncodeField(c[i]))
      <4> QED BY ONLY c \in Contents, <4>1, k \in 1..Len(EncodeField(c[i])), FieldWords
    <3>2. \A k \in 1..l : buffer[s + k - 1] = EncodeField(c[i])[k] BY <3>1 DEF s, l
    <3> QED BY <2>3, <2>4, <3>2
  <2> HIDE DEF s, l
  <2>6. s + 1 - 1 = s /\ s + 2 - 1 = s + 1 /\ s + 3 - 1 = s + 2 /\ s \in 0..MaxWords - 2
    BY <1>0, <1>4, <2>2
  <2>7. after[s] = l + s BY <2>5, <2>6
  <2>8. after[s] = s + l BY <2>2, <2>7
  <2> HIDE DEF after
  <2>9. s < s + l BY <2>2
  <2> QED BY <2>2, <2>5, <2>6, <2>8, <2>9 DEF s
<1>6. starts = [i \in 1..n |-> st[i]]
  <2>1. st \in [1..n + 1 -> 0..MaxWords]
    <3>1. \A i \in 1..n + 1 : FieldStart(c, i) \in 0..MaxWords BY <1>0, <1>3, <1>4
    <3> QED BY <3>1
  <2>2. \A i \in 1..n + 1 : st[i] = FieldStart(c, i) OBVIOUS
  <2>3. st[1] = HeaderSize /\ st[n + 1] = last BY <1>1, <1>2, <1>3, <2>2
  <2>4. \A i \in 1..n + 1 : st[i] <= last BY <1>3, <2>2
  <2>5. \A i \in 1..n : st[i] < st[i + 1] /\ after[st[i]] = st[i + 1]
    <3> TAKE i \in 1..n
    <3>1. i \in 1..n + 1 /\ i + 1 \in 1..n + 1 BY <1>2
    <3> HIDE DEF st, after
    <3> QED BY <1>5, <2>2, <3>1
  <2>6. n \in Nat BY <1>2
  <2> HIDE DEF st, after, n
  <2>7. Walk(st[1], last, after) = [i \in 1..n |-> st[i]]
    <3>1. Table(st, n, last, after) BY <1>4, <2>1, <2>3, <2>4, <2>5, <2>6 DEF Table
    <3>2. Walk(st[1], last, after) = Upto(st, n) BY <3>1, WalkTable
    <3> QED BY <3>2 DEF Upto
  <2> QED BY <2>3, <2>7
<1>7. Len(starts) = n /\ \A i \in 1..n : starts[i] = FieldStart(c, i)
  <2>1. \A i \in 1..n : st[i] = FieldStart(c, i) BY <1>2
  <2> HIDE DEF st, starts
  <2> QED BY <1>2, <1>6, <2>1
<1>8. ScanFields = [i \in 1..Len(starts) |-> Row(starts[i])] BY DEF ScanFields, last
<1>9. \A i \in 1..n : Row(starts[i]) = [name |-> c[i].name, id |-> c[i].id,
                                       start |-> FieldStart(c, i), end |-> FieldStart(c, i + 1)]
  <2> HIDE DEF after, starts
  <2> QED BY <1>5, <1>7
<1>10. FieldRows(c) = [i \in 1..n |-> [name |-> c[i].name, id |-> c[i].id,
                            start |-> FieldStart(c, i), end |-> FieldStart(c, i + 1)]]
  BY DEF FieldRows
<1> HIDE DEF Row, starts, st, after, n
<1> QED BY <1>7, <1>8, <1>9, <1>10

(* Type and size share a word, and come apart again. *)
LEMMA TypeSizeSplits ==
  \A t \in {IntType, StringType}, m \in Nat : m < TypeFactor =>
    TypeSize(t, m) % TypeFactor = m /\ TypeSize(t, m) \div TypeFactor = t
BY DEF TypeSize, TypeFactor, IntType, StringType

(* ... and packet_field_next the parameters of a field. *)
LEMMA ScanParamsIs ==
  ASSUME buffer \in [0..MaxWords - 1 -> Int], NEW c \in Contents, Carries(buffer, c),
         NEW f \in 1..Len(c)
  PROVE  ScanParams(FieldRows(c)[f]) = ParamRows(c, f)
<1> DEFINE field == FieldRows(c)[f]
           p == c[f].params
           n == Len(p)
           st == [i \in 1..n + 1 |-> ParamStart(c, f, i)]
           length == [s \in 0..MaxWords - 2 |-> buffer[s + 1] % TypeFactor]
           after == [s \in 0..MaxWords - 2 |-> length[s] + s]
           last == field.end
           starts == Walk(field.start + FieldSize, last, after)
           Row(s) == [name |-> buffer[s], type |-> buffer[s + 1] \div TypeFactor,
                      start |-> s, len |-> length[s] - 2]
<1>0. /\ HeaderSize = 8 /\ FieldSize = 3 /\ FooterSize = 2 /\ MaxWords \in Nat
      /\ MaxWords < TypeFactor /\ TypeFactor \in Nat
  <2>1. TypeFactor \in Nat BY DEF TypeFactor
  <2> QED BY <2>1, PacketAssumption DEF HeaderSize, FieldSize, FooterSize
<1>1. field.start = FieldStart(c, f) /\ field.end = FieldStart(c, f + 1) BY DEF FieldRows
<1>2. /\ Holds(buffer, HeaderSize, EncodedFields(c))
      /\ FieldStart(c, Len(c) + 1) + FooterSize <= MaxWords
  BY CarriesFields
<1>3. Len(c) \in Nat /\ f + 1 \in 1..Len(c) + 1 BY FieldSeqsType
<1>4. last \in 0..MaxWords /\ last + 2 <= MaxWords /\ last = FieldStart(c, f + 1)
  <2>1. FieldStart(c, f + 1) \in Nat
        /\ FieldStart(c, f + 1) <= HeaderSize + Len(EncodedFields(c))
        /\ FieldStart(c, Len(c) + 1) = HeaderSize + Len(EncodedFields(c))
    BY <1>3, FieldPlaces
  <2>2. last = FieldStart(c, f + 1) BY <1>1
  <2>3. FieldStart(c, f + 1) + 2 <= MaxWords BY <1>0, <1>2, <2>1
  <2> HIDE DEF last
  <2> QED BY <1>0, <2>1, <2>2, <2>3
<1>5. /\ ParamStart(c, f, 1) = FieldStart(c, f) + FieldSize
      /\ ParamStart(c, f, n + 1) = last /\ n \in Nat
      /\ \A i \in 1..n + 1 :
           /\ ParamStart(c, f, i) \in Nat /\ ParamStart(c, f, i) <= last
      /\ \A i \in 1..n :
           /\ p[i] \in Parameter
           /\ ParamStart(c, f, i + 1) = ParamStart(c, f, i) + 2 + Len(p[i].data)
           /\ Len(p[i].data) \in Nat
  BY <1>4, ParamPlaces
<1> HIDE DEF last, p, n
<1>6. ASSUME NEW i \in 1..n
      PROVE  /\ ParamStart(c, f, i) \in 0..MaxWords - 2
             /\ ParamStart(c, f, i) < ParamStart(c, f, i + 1)
             /\ after[ParamStart(c, f, i)] = ParamStart(c, f, i + 1)
             /\ length[ParamStart(c, f, i)] = 2 + Len(p[i].data)
             /\ buffer[ParamStart(c, f, i)] = p[i].name
             /\ buffer[ParamStart(c, f, i) + 1] \div TypeFactor = p[i].type
  <2> DEFINE s == ParamStart(c, f, i)
             l == Len(p[i].data)
             w == TypeSize(p[i].type, 2 + l)
  <2>1. i \in 1..n + 1 /\ i + 1 \in 1..n + 1 BY <1>5
  <2>2. s \in Nat /\ ParamStart(c, f, i + 1) = s + 2 + l /\ l \in Nat /\ s + 2 + l <= last
    BY <1>5, <2>1
  <2>3. /\ EncodeParam(p[i])[1] = p[i].name /\ EncodeParam(p[i])[2] = w
        /\ Len(EncodeParam(p[i])) = 2 + l /\ p[i].type \in {IntType, StringType}
    BY <1>5, EncodedParam
  <2>4. 1 \in 1..Len(EncodeParam(p[i])) /\ 2 \in 1..Len(EncodeParam(p[i]))
    <3>1. 1 \in 1..2 + l /\ 2 \in 1..2 + l BY <2>2
    <3> QED BY <2>3, <3>1
  <2>5. buffer[s + 1 - 1] = p[i].name /\ buffer[s + 2 - 1] = w
    BY <1>2, <2>3, <2>4, ParamWords DEF p, n
  <2> HIDE DEF s, l
  <2>6. s + 1 - 1 = s /\ s + 2 - 1 = s + 1 /\ s \in 0..MaxWords - 2 /\ 2 + l \in Nat /\ 2 + l < TypeFactor
    BY <1>0, <1>4, <2>2
  <2>7. w % TypeFactor = 2 + l /\ w \div TypeFactor = p[i].type BY <2>3, <2>6, TypeSizeSplits
  <2> HIDE DEF w
  <2>8. buffer[s + 1] = w /\ buffer[s] = p[i].name BY <2>5, <2>6
  <2>9. length[s] = 2 + l BY <2>6, <2>7, <2>8
  <2>10. after[s] = 2 + l + s BY <2>6, <2>9
  <2>11. 2 + l + s = s + 2 + l /\ s < s + 2 + l BY <2>2
  <2> HIDE DEF length, after
  <2> QED BY <2>2, <2>6, <2>7, <2>8, <2>9, <2>10, <2>11 DEF s, l
<1>7. starts = [i \in 1..n |-> st[i]]
  <2>1. st \in [1..n + 1 -> 0..MaxWords]
    <3>1. \A i \in 1..n + 1 : ParamStart(c, f, i) \in 0..MaxWords BY <1>0, <1>4, <1>5
    <3> QED BY <3>1
  <2>2. \A i \in 1..n + 1 : st[i] = ParamStart(c, f, i) OBVIOUS
  <2>3. st[1] = field.start + FieldSize /\ st[n + 1] = last
    <3>1. 1 \in 1..n + 1 /\ n + 1 \in 1..n + 1 BY <1>5
    <3> HIDE DEF st, field
    <3> QED BY <1>1, <1>5, <2>2, <3>1
  <2>4. \A i \in 1..n + 1 : st[i] <= last BY <1>5, <2>2
  <2>5. \A i \in 1..n : st[i] < st[i + 1] /\ after[st[i]] = st[i + 1]
    <3> TAKE i \in 1..n
    <3>1. i \in 1..n + 1 /\ i + 1 \in 1..n + 1 BY <1>5
    <3> HIDE DEF st, after
    <3> QED BY <1>6, <2>2, <3>1
  <2> HIDE DEF st, after, field
  <2>6. Walk(st[1], last, after) = [i \in 1..n |-> st[i]]
    <3>1. n \in Nat BY <1>5
    <3> HIDE DEF n
    <3>2. Table(st, n, last, after) BY <1>4, <2>1, <2>3, <2>4, <2>5, <3>1 DEF Table
    <3>3. Walk(st[1], last, after) = Upto(st, n) BY <3>2, WalkTable
    <3> QED BY <3>3 DEF Upto
  <2> QED BY <2>3, <2>6
<1>8. Len(starts) = n /\ \A i \in 1..n : starts[i] = ParamStart(c, f, i)
  <2>1. \A i \in 1..n : st[i] = ParamStart(c, f, i) BY <1>5
  <2> HIDE DEF st, starts
  <2> QED BY <1>5, <1>7, <2>1
<1>9. ScanParams(field) = [i \in 1..Len(starts) |-> Row(starts[i])] BY DEF ScanParams, last
<1>10. \A i \in 1..n : Row(starts[i]) = [name |-> p[i].name, type |-> p[i].type,
                                        start |-> ParamStart(c, f, i), len |-> Len(p[i].data)]
  <2> TAKE i \in 1..n
  <2>1. 2 + Len(p[i].data) - 2 = Len(p[i].data) BY <1>5
  <2> HIDE DEF length, after, starts
  <2> QED BY <1>6, <1>8, <2>1, SMTT(40)
<1> HIDE DEF Row, starts, field
<1>11. ScanParams(field) = ParamRows(c, f) BY <1>8, <1>9, <1>10 DEF ParamRows, p, n
<1> QED BY <1>11 DEF field

(* What the reader is served *)
LEMMA FirstOfName == ASSUME NEW q, Len(q) \in Nat, NEW name
  PROVE LET first == SelectInSeq(q, LAMBDA p : p.name = name)
        IN  \/ /\ first \in 1..Len(q) /\ first > 0 /\ q[first].name = name
               /\ \A j \in 1..first - 1 : q[j].name # name
            \/ first = 0 /\ \A j \in 1..Len(q) : q[j].name # name
<1> DEFINE I == {i \in 1..Len(q) : q[i].name = name}
           first == SelectInSeq(q, LAMBDA p : p.name = name)
<1>1. first = IF I # {} THEN Min(I) ELSE 0 BY DEF SelectInSeq
<1>2. CASE I = {} BY <1>1, <1>2
<1>3. CASE I # {}
  <2>1. I \in SUBSET Nat OBVIOUS
  <2> HIDE DEF I
  <2>2. \E x \in I : \A y \in I : x <= y BY <1>3, <2>1, NatSetMin
  <2>3. Min(I) \in I /\ \A y \in I : Min(I) <= y BY <2>2 DEF Min
  <2>4. first = Min(I) BY <1>1, <1>3
  <2> HIDE DEF first
  <2>5. first \in 1..Len(q) /\ q[first].name = name BY <2>3, <2>4 DEF I
  <2>6. ASSUME NEW j \in 1..first - 1 PROVE q[j].name # name
    <3>1. j \in 1..Len(q) /\ j < first BY <2>5
    <3>2. j \notin I BY <2>3, <2>4, <2>5, <3>1
    <3> QED BY <3>1, <3>2 DEF I
  <2>7. first > 0 BY <2>5
  <2> QED BY <2>5, <2>6, <2>7 DEF first
<1> QED BY <1>2, <1>3

(* The data of a parameter, at the place that the table names *)
LEMMA ParamData ==
  ASSUME NEW c \in Contents, NEW b, Carries(b, c), NEW f \in 1..Len(c),
         NEW i \in 1..Len(c[f].params)
  PROVE  /\ c[f].params[i] \in Parameter
         /\ \A k \in 1..Len(c[f].params[i].data) :
              b[ParamStart(c, f, i) + 1 + k] = c[f].params[i].data[k]
<1> DEFINE p == c[f].params[i]
<1>1. p \in Parameter BY ParamPlaces
<1>2. /\ Len(EncodeParam(p)) = 2 + Len(p.data) /\ Len(p.data) \in Nat
      /\ \A k \in 1..Len(p.data) : EncodeParam(p)[2 + k] = p.data[k]
  BY <1>1, EncodedParam
<1>3. Holds(b, HeaderSize, EncodedFields(c)) BY CarriesFields
<1>4. ParamStart(c, f, i) \in Nat
  <2>1. Len(c[f].params) \in Nat /\ i \in 1..Len(c[f].params) + 1 BY ParamPlaces
  <2> QED BY <2>1, ParamPlaces
<1>5. ASSUME NEW k \in 1..Len(p.data) PROVE b[ParamStart(c, f, i) + 1 + k] = p.data[k]
  <2>1. 2 + k \in 1..Len(EncodeParam(p)) BY <1>2
  <2>2. b[ParamStart(c, f, i) + (2 + k) - 1] = EncodeParam(p)[2 + k] BY <1>3, <2>1, ParamWords
  <2>3. ParamStart(c, f, i) + (2 + k) - 1 = ParamStart(c, f, i) + 1 + k BY <1>4
  <2> QED BY <1>2, <2>2, <2>3
<1> QED BY <1>1, <1>5

(* The reader sees what the buffer contains ... *)
LEMMA ReaderIsCurrent == ASSUME IInv PROVE ReaderCurrent
<1> SUFFICES ASSUME readOk
             PROVE  /\ state = "complete" /\ Fields(fieldData) = Fields(content)
                    /\ Params(paramData) = IF fieldIndex = 0 THEN <<>> ELSE content[fieldIndex].params
  BY DEF ReaderCurrent
<1> DEFINE c == content
           f == fieldIndex
<1>1. /\ state = "complete" /\ fieldData = FieldRows(c) /\ c \in Contents
      /\ paramData = IF f = 0 THEN <<>> ELSE ParamRows(c, f)
      /\ f \in 0..Len(fieldData) /\ Carries(buffer, c)
  BY DEF IInv, TypeOK, ReadingInv, CompleteInv
<1>2. Len(fieldData) = Len(c) /\ Len(c) \in Nat BY <1>1, FieldSeqsType DEF FieldRows
<1>3. Fields(fieldData) = Fields(c) BY <1>1, <1>2 DEF Fields, FieldRows
<1>4. CASE f = 0
  <2>1. Params(<<>>) = <<>> BY DEF Params
  <2> QED BY <1>1, <1>3, <1>4, <2>1
<1>5. CASE f # 0
  <2>1. f \in 1..Len(c) BY <1>1, <1>2, <1>5
  <2> DEFINE p == c[f].params
  <2>2. paramData = ParamRows(c, f) BY <1>1, <1>5
  <2>3. c[f] \in Field BY <1>1, <2>1, FieldSeqsType
  <2>4. p \in Seq(Parameter) /\ Len(p) \in Nat BY <2>3 DEF Field
  <2>5. Len(paramData) = Len(p) BY <2>2, <2>4 DEF ParamRows
  <2>6. ASSUME NEW i \in 1..Len(p)
        PROVE  Param(paramData[i].name, paramData[i].type, DataOf(paramData[i])) = p[i]
    <3>1. /\ paramData[i].name = p[i].name /\ paramData[i].type = p[i].type
          /\ paramData[i].start = ParamStart(c, f, i) /\ paramData[i].len = Len(p[i].data)
      BY <2>2 DEF ParamRows
    <3>2. p[i] \in Parameter
          /\ \A k \in 1..Len(p[i].data) : buffer[ParamStart(c, f, i) + 1 + k] = p[i].data[k]
      BY <1>1, <2>1, ParamData
    <3>3. DataOf(paramData[i]) = [k \in 1..Len(p[i].data) |-> p[i].data[k]]
      BY <3>1, <3>2 DEF DataOf
    <3>4. p[i].data \in Seq(Int) /\ p[i] \in [name : Int, type : {IntType, StringType}, data : Seq(Int)]
      BY <3>2 DEF Parameter
    <3> HIDE DEF p
    <3>5. DataOf(paramData[i]) = p[i].data
      <4> DEFINE d == p[i].data
      <4>1. d \in Seq(Int) /\ DataOf(paramData[i]) = [k \in 1..Len(d) |-> d[k]] BY <3>3, <3>4
      <4> HIDE DEF d
      <4>2. DataOf(paramData[i]) = d BY <4>1
      <4> QED BY <4>2 DEF d
    <3>6. p[i] = [name |-> p[i].name, type |-> p[i].type, data |-> p[i].data] BY <3>4
    <3> QED BY <3>1, <3>5, <3>6 DEF Param
  <2>7. Params(paramData) = [i \in 1..Len(p) |-> p[i]] BY <2>5, <2>6 DEF Params
  <2>8. Params(paramData) = p
    <3> HIDE DEF p
    <3> QED BY <2>4, <2>7
  <2> QED BY <1>1, <1>3, <1>5, <2>8
<1> QED BY <1>4, <1>5

(* ... also when it looks for a name. *)
LEMMA NamesAreFound == ASSUME IInv PROVE NamedLookup
<1> SUFFICES ASSUME NEW name \in Names \cup {0}
      PROVE LET asked == IF readOk /\ fieldIndex > 0 THEN content[fieldIndex].params ELSE <<>>
                first == SelectInSeq(asked, LAMBDA p : p.name = name)
                found(type) == first > 0 /\ asked[first].type = type
            IN  /\ IntParamDef(name, -1) = IF found(IntType) THEN asked[first].data[1] ELSE -1
                /\ IntParamSpec(name, -1, 0, 6) \in 0..6
                /\ LET at == StringParamDef(name, -1)
                   IN  IF found(StringType)
                         THEN [i \in 1..Len(asked[first].data) |-> buffer[at + i - 1]] = asked[first].data
                         ELSE at = -1
  BY DEF NamedLookup
<1> DEFINE c == content
           f == fieldIndex
           asked == IF readOk /\ f > 0 THEN c[f].params ELSE <<>>
           first == SelectInSeq(asked, LAMBDA p : p.name = name)
           found(type) == first > 0 /\ asked[first].type = type
           start == ParamStart(c, f, first)
<1>1. /\ c \in Contents /\ f \in 0..Len(fieldData)
      /\ readOk => /\ fieldData = FieldRows(c) /\ Carries(buffer, c)
                   /\ paramData = IF f = 0 THEN <<>> ELSE ParamRows(c, f)
  BY DEF IInv, TypeOK, ReadingInv, CompleteInv
<1>2. readOk => Len(fieldData) = Len(c) BY <1>1, FieldSeqsType DEF FieldRows
<1>3. readOk /\ f > 0 => f \in 1..Len(c) /\ c[f] \in Field /\ Len(c) \in Nat
  BY <1>1, <1>2, FieldSeqsType
<1>4. asked \in Seq(Parameter) /\ Len(asked) \in Nat
  <2>1. CASE readOk /\ f > 0 BY <1>3, <2>1 DEF Field
  <2>2. CASE ~(readOk /\ f > 0) BY <2>2
  <2> QED BY <2>1, <2>2
<1>5. readOk => /\ DOMAIN paramData = 1..Len(asked)
                /\ \A i \in 1..Len(asked) :
                     /\ paramData[i].name = asked[i].name /\ paramData[i].type = asked[i].type
                     /\ paramData[i].start = ParamStart(c, f, i)
  <2>1. CASE readOk /\ f > 0
    <3>1. asked = c[f].params /\ paramData = ParamRows(c, f) BY <1>1, <2>1
    <3> HIDE DEF asked
    <3> QED BY <3>1 DEF ParamRows
  <2>2. CASE readOk /\ ~(f > 0)
    <3>1. paramData = <<>> /\ asked = <<>> BY <1>1, <2>2
    <3> HIDE DEF asked
    <3> QED BY <3>1
  <2> QED BY <2>1, <2>2
<1>6. ~readOk => asked = <<>> /\ Len(asked) = 0 OBVIOUS
<1>7. \/ /\ first \in 1..Len(asked) /\ first > 0 /\ asked[first].name = name
         /\ \A j \in 1..first - 1 : asked[j].name # name
      \/ first = 0 /\ \A j \in 1..Len(asked) : asked[j].name # name
  <2> HIDE DEF asked
  <2> QED BY <1>4, FirstOfName
<1>8. first > 0 =>
        /\ readOk /\ first \in 1..Len(asked) /\ asked[first] \in Parameter
        /\ asked[first].data \in Seq(Int) /\ Len(asked[first].data) \in Nat
        /\ asked[first].type = IntType => Len(asked[first].data) = 1
        /\ \A k \in 1..Len(asked[first].data) : buffer[start + 1 + k] = asked[first].data[k]
        /\ start \in Nat
  <2> SUFFICES ASSUME first > 0
               PROVE  /\ readOk /\ first \in 1..Len(asked) /\ asked[first] \in Parameter
                      /\ asked[first].data \in Seq(Int) /\ Len(asked[first].data) \in Nat
                      /\ asked[first].type = IntType => Len(asked[first].data) = 1
                      /\ \A k \in 1..Len(asked[first].data) : buffer[start + 1 + k] = asked[first].data[k]
                      /\ start \in Nat
    OBVIOUS
  <2>1. first \in 1..Len(asked)
    <3> HIDE DEF asked, first
    <3> QED BY <1>7
  <2>2. readOk /\ f > 0
    <3>1. CASE ~(readOk /\ f > 0)
      <4>1. asked = <<>> /\ Len(asked) = 0 BY <3>1
      <4> HIDE DEF asked, first
      <4> QED BY <2>1, <4>1
    <3> QED BY <3>1
  <2>3. asked = c[f].params BY <2>2
  <2>4. f \in 1..Len(c) /\ Carries(buffer, c) BY <1>1, <1>3, <2>2
  <2> HIDE DEF asked, first
  <2>5. asked[first] \in Parameter BY <1>4, <2>1
  <2>6. \A k \in 1..Len(asked[first].data) : buffer[start + 1 + k] = asked[first].data[k]
    BY <1>1, <2>1, <2>3, <2>4, ParamData
  <2>7. start \in Nat
    <3>1. first \in 1..Len(c[f].params) + 1 BY <1>4, <2>1, <2>3
    <3> QED BY <1>1, <2>4, <3>1, ParamPlaces
  <2>8. asked[first].data \in Seq(Int) /\ Len(asked[first].data) \in Nat
        /\ (asked[first].type = IntType => Len(asked[first].data) = 1)
    BY <2>5 DEF Parameter
  <2> QED BY <2>1, <2>2, <2>5, <2>6, <2>7, <2>8
<1> HIDE DEF asked, first, start
<1>9. \A type : TypedParam(name, type) = IF found(type) THEN {first} ELSE {}
  <2> TAKE type
  <2>1. CASE ~readOk
    <3>1. NamedParam(name) = {} BY <2>1 DEF NamedParam
    <3>2. first = 0 BY <1>6, <1>7, <2>1
    <3> QED BY <3>1, <3>2 DEF TypedParam
  <2>2. CASE readOk /\ first = 0
    <3>1. \A i \in DOMAIN paramData : paramData[i].name # name BY <1>5, <1>7, <2>2
    <3>2. NamedParam(name) = {} BY <3>1 DEF NamedParam
    <3> QED BY <2>2, <3>2 DEF TypedParam
  <2>3. CASE readOk /\ first # 0
    <3>1. /\ first \in 1..Len(asked) /\ first > 0 /\ asked[first].name = name
          /\ \A j \in 1..first - 1 : asked[j].name # name
      BY <1>7, <2>3
    <3>2. first \in NamedParam(name)
      <4>1. \A j \in 1..first - 1 : j \in 1..Len(asked) BY <1>4, <3>1
      <4>2. \A j \in 1..first - 1 : paramData[j].name # name BY <1>5, <2>3, <3>1, <4>1
      <4> QED BY <1>5, <2>3, <3>1, <4>2 DEF NamedParam
    <3>3. ASSUME NEW i \in NamedParam(name) PROVE i = first
      <4>1. i \in 1..Len(asked) /\ asked[i].name = name
            /\ \A j \in 1..i - 1 : paramData[j].name # name
        BY <1>5, <2>3 DEF NamedParam
      <4>2. CASE i < first
        <5>1. i \in 1..first - 1 BY <3>1, <4>1, <4>2
        <5> QED BY <3>1, <4>1, <5>1
      <4>3. CASE i > first
        <5>1. first \in 1..i - 1 BY <3>1, <4>1, <4>3
        <5> QED BY <1>5, <2>3, <3>1, <4>1, <5>1
      <4> QED BY <3>1, <4>1, <4>2, <4>3
    <3>4. NamedParam(name) = {first} BY <3>2, <3>3
    <3>5. paramData[first].type = asked[first].type BY <1>5, <2>3, <3>1
    <3> QED BY <3>1, <3>4, <3>5 DEF TypedParam
  <2> QED BY <2>1, <2>2, <2>3
<1>10. \A type : (CHOOSE i \in {first} : TRUE) = first OBVIOUS
<1>11. IntParamDef(name, -1) = IF found(IntType) THEN asked[first].data[1] ELSE -1
  <2>1. CASE found(IntType)
    <3>1. TypedParam(name, IntType) = {first} BY <1>9, <2>1
    <3>2. IntParamDef(name, -1) = buffer[paramData[first].start + 2]
      BY <1>10, <3>1 DEF IntParamDef
    <3>3. paramData[first].start = start BY <1>5, <1>8, <2>1 DEF start
    <3>4. 1 \in 1..Len(asked[first].data)
      <4>1. first > 0 /\ asked[first].type = IntType BY <2>1
      <4>2. Len(asked[first].data) = 1
        <5> HIDE DEF asked, first, start
        <5> QED BY <1>8, <4>1
      <4> QED BY <4>2
    <3>5. buffer[start + 1 + 1] = asked[first].data[1] BY <1>8, <2>1, <3>4
    <3>6. start + 1 + 1 = start + 2 BY <1>8, <2>1
    <3> QED BY <2>1, <3>2, <3>3, <3>5, <3>6
  <2>2. CASE ~found(IntType)
    <3>1. TypedParam(name, IntType) = {} BY <1>9, <2>2
    <3> QED BY <2>2, <3>1 DEF IntParamDef
  <2> QED BY <2>1, <2>2
<1>12. IntParamDef(name, -1) \in Int
  <2>1. CASE found(IntType)
    <3>1. 1 \in 1..Len(asked[first].data)
      <4>1. first > 0 /\ asked[first].type = IntType BY <2>1
      <4>2. Len(asked[first].data) = 1
        <5> HIDE DEF asked, first, start
        <5> QED BY <1>8, <4>1
      <4> QED BY <4>2
    <3>2. asked[first].data[1] \in Int BY <1>8, <2>1, <3>1
    <3> QED BY <1>11, <2>1, <3>2
  <2>2. CASE ~found(IntType) BY <1>11, <2>2
  <2> QED BY <2>1, <2>2
<1>13. IntParamSpec(name, -1, 0, 6) \in 0..6
  <2> DEFINE v == IntParamDef(name, -1)
  <2>1. IntParamSpec(name, -1, 0, 6) = CASE v > 6 -> 6 [] v <= 6 /\ v < 0 -> 0 [] OTHER -> v
    BY DEF IntParamSpec
  <2> HIDE DEF v
  <2>2. v \in Int BY <1>12 DEF v
  <2> QED BY <2>1, <2>2
<1>14. IF found(StringType)
         THEN [i \in 1..Len(asked[first].data) |-> buffer[StringParamDef(name, -1) + i - 1]]
                = asked[first].data
         ELSE StringParamDef(name, -1) = -1
  <2>1. CASE found(StringType)
    <3>1. TypedParam(name, StringType) = {first} BY <1>9, <2>1
    <3>2. StringParamDef(name, -1) = paramData[first].start + 2
      BY <1>10, <3>1 DEF StringParamDef
    <3>3. paramData[first].start = start BY <1>5, <1>8, <2>1 DEF start
    <3> DEFINE d == asked[first].data
    <3>4. \A i \in 1..Len(d) : buffer[start + 2 + i - 1] = d[i]
      <4> TAKE i \in 1..Len(d)
      <4>1. start \in Nat /\ i \in Nat BY <1>8, <2>1
      <4>2. start + 2 + i - 1 = start + 1 + i BY <4>1
      <4> QED BY <1>8, <2>1, <4>2
    <3>5. d \in Seq(Int) BY <1>8, <2>1
    <3> HIDE DEF d
    <3>6. [i \in 1..Len(d) |-> buffer[start + 2 + i - 1]] = d BY <3>4, <3>5
    <3> QED BY <2>1, <3>2, <3>3, <3>6 DEF d
  <2>2. CASE ~found(StringType)
    <3>1. TypedParam(name, StringType) = {} BY <1>9, <2>2
    <3> QED BY <2>2, <3>1 DEF StringParamDef
  <2> QED BY <2>1, <2>2
<1> QED BY <1>11, <1>13, <1>14 DEF asked, first

(* What writing words leaves in a buffer *)
Buffers == [0..MaxWords - 1 -> Int]

(* Writing a sequence leaves the rest of the buffer alone. *)
LEMMA WriteHas ==
  ASSUME NEW b \in Buffers, NEW at \in Nat, NEW s \in Seq(Int), at + Len(s) <= MaxWords
  PROVE  /\ Write(b, at, s) \in Buffers
         /\ Holds(Write(b, at, s), at, s)
         /\ \A i \in 0..MaxWords - 1 : i < at \/ i >= at + Len(s) => Write(b, at, s)[i] = b[i]
<1> DEFINE w == Write(b, at, s)
<1>0. MaxWords \in Nat /\ Len(s) \in Nat BY PacketAssumption
<1>1. w = [i \in 0..MaxWords - 1 |-> IF i \in at..at + Len(s) - 1 THEN s[i - at + 1] ELSE b[i]]
  BY DEF Write, Buffers
<1>2. ASSUME NEW i \in 0..MaxWords - 1 PROVE w[i] \in Int
  <2>1. CASE i \in at..at + Len(s) - 1
    <3>1. i - at + 1 \in 1..Len(s) BY <1>0, <2>1
    <3> QED BY <1>1, <2>1, <3>1
  <2>2. CASE i \notin at..at + Len(s) - 1 BY <1>1, <2>2 DEF Buffers
  <2> QED BY <2>1, <2>2
<1>3. ASSUME NEW k \in 1..Len(s) PROVE w[at + k - 1] = s[k]
  <2>1. at + k - 1 \in 0..MaxWords - 1 /\ at + k - 1 \in at..at + Len(s) - 1 /\ (at + k - 1) - at + 1 = k
    BY <1>0
  <2> HIDE DEF w
  <2> QED BY <1>1, <2>1
<1>4. \A i \in 0..MaxWords - 1 : i < at \/ i >= at + Len(s) => w[i] = b[i] BY <1>0, <1>1
<1> HIDE DEF w
<1>5. w \in Buffers BY <1>1, <1>2 DEF Buffers
<1> QED BY <1>3, <1>4, <1>5 DEF Holds, w

LEMMA HoldsBoth ==
  ASSUME NEW b, NEW at \in Nat, NEW s \in Seq(Int), NEW t \in Seq(Int),
         Holds(b, at, s), Holds(b, at + Len(s), t)
  PROVE  Holds(b, at, s \o t)
<1>1. /\ s \o t \in Seq(Int) /\ Len(s) \in Nat /\ Len(t) \in Nat
      /\ Len(s \o t) = Len(s) + Len(t)
      /\ \A k \in 1..Len(s) : (s \o t)[k] = s[k]
      /\ \A k \in 1..Len(t) : (s \o t)[Len(s) + k] = t[k]
  BY ConcatHas
<1> DEFINE st == s \o t
<1> HIDE DEF st
<1>2. ASSUME NEW k \in 1..Len(s) + Len(t) PROVE b[at + k - 1] = st[k]
  <2>1. CASE k <= Len(s)
    <3>1. k \in 1..Len(s) BY <1>1, <2>1
    <3> QED BY <1>1, <3>1 DEF Holds, st
  <2>2. CASE k > Len(s)
    <3> DEFINE j == k - Len(s)
    <3>1. j \in 1..Len(t) /\ Len(s) + j = k /\ at + Len(s) + j - 1 = at + k - 1 BY <1>1, <2>2
    <3> HIDE DEF j
    <3>2. b[at + Len(s) + j - 1] = t[j] BY <3>1 DEF Holds
    <3>3. st[Len(s) + j] = t[j] BY <1>1, <3>1 DEF st
    <3> QED BY <3>1, <3>2, <3>3
  <2> QED BY <1>1, <2>1, <2>2
<1> QED BY <1>1, <1>2 DEF Holds, st

LEMMA AppendHas ==
  ASSUME NEW T, NEW s \in Seq(T), NEW e \in T
  PROVE  /\ Append(s, e) \in Seq(T) /\ Len(s) \in Nat /\ Len(Append(s, e)) = Len(s) + 1
         /\ Append(s, e)[Len(s) + 1] = e
         /\ \A i \in 1..Len(s) : Append(s, e)[i] = s[i]
OBVIOUS

(* The encoding of a content that grows *)
LEMMA FieldAdded ==
  ASSUME NEW c \in Contents, NEW f \in Field
  PROVE  /\ Append(c, f) \in Contents /\ Len(Append(c, f)) = Len(c) + 1 /\ Append(c, f) # <<>>
         /\ EncodedFields(Append(c, f)) = EncodedFields(c) \o EncodeField(f)
         /\ Len(EncodedFields(Append(c, f))) = Len(EncodedFields(c)) + Len(EncodeField(f))
         /\ FieldStart(Append(c, f), Len(c) + 1) = HeaderSize + Len(EncodedFields(c))
<1> DEFINE s == FieldSeqs(c)
           d == Append(c, f)
<1>1. /\ s \in Seq(Seq(Int)) /\ Len(s) = Len(c) /\ Len(c) \in Nat
      /\ EncodedFields(c) \in Seq(Int) /\ Len(EncodedFields(c)) \in Nat
  BY FieldSeqsType
<1>2. c \in Seq(Field) BY DEF Contents, Field
<1>3. d \in Seq(Field) /\ Len(d) = Len(c) + 1 /\ d # <<>> /\ d[Len(c) + 1] = f
      /\ \A i \in 1..Len(c) : d[i] = c[i]
  BY <1>2
<1>4. d \in Contents BY <1>3 DEF Contents, Field
<1>5. EncodeField(f) \in Seq(Int) BY EncodedField
<1> HIDE DEF d
<1>6. FieldSeqs(d) = Append(s, EncodeField(f))
  <2>1. \A i \in 1..Len(c) : s[i] = EncodeField(c[i]) BY <1>1 DEF FieldSeqs
  <2> HIDE DEF s
  <2> DEFINE t == Append(s, EncodeField(f))
  <2>2. t \in Seq(Seq(Int)) /\ Len(t) = Len(c) + 1
    <3>1. t \in Seq(Seq(Int)) /\ Len(t) = Len(s) + 1 BY <1>1, <1>5, AppendHas
    <3> QED BY <1>1, <3>1
  <2>3. /\ t[Len(s) + 1] = EncodeField(f) 
        /\ \A i \in 1..Len(s) : t[i] = s[i]
    BY <1>1, <1>5, AppendHas
  <2>4. t[Len(c) + 1] = EncodeField(f) /\ \A i \in 1..Len(c) : t[i] = s[i] BY <1>1, <2>3
  <2> HIDE DEF t
  <2>5. \A i \in 1..Len(c) + 1 : t[i] = EncodeField(d[i])
    <3> TAKE i \in 1..Len(c) + 1
    <3>1. CASE i = Len(c) + 1 BY <1>3, <2>4, <3>1
    <3>2. CASE i # Len(c) + 1
      <4>1. i \in 1..Len(c) BY <1>1, <3>2
      <4> QED BY <1>3, <2>1, <2>4, <4>1
    <3> QED BY <3>1, <3>2
  <2>6. t = [i \in 1..Len(c) + 1 |-> t[i]] BY <2>2
  <2>7. t = [i \in 1..Len(c) + 1 |-> EncodeField(d[i])] BY <2>5, <2>6
  <2> QED BY <1>3, <2>7 DEF FieldSeqs, t
<1>7. EncodedFields(d) = EncodedFields(c) \o EncodeField(f)
  <2> HIDE DEF s
  <2>1. FlattenSeq(Append(s, EncodeField(f))) = FlattenSeq(s) \o EncodeField(f)
    BY <1>1, <1>5, FlattenStep
  <2> QED BY <1>6, <2>1 DEF EncodedFields, s
<1>8. Len(EncodedFields(c) \o EncodeField(f)) = Len(EncodedFields(c)) + Len(EncodeField(f))
  BY <1>1, <1>5, ConcatHas
<1>9. SubSeq(Append(s, EncodeField(f)), 1, Len(c)) = s
  <2> HIDE DEF s
  <2> QED BY <1>1, <1>5
<1>10. FieldStart(d, Len(c) + 1) = HeaderSize + Len(EncodedFields(c))
  <2>1. Len(c) + 1 - 1 = Len(c) BY <1>1
  <2>2. FieldStart(d, Len(c) + 1) = HeaderSize + Len(FlattenSeq(SubSeq(FieldSeqs(d), 1, Len(c))))
    BY <2>1 DEF FieldStart, Before
  <2> QED BY <1>6, <1>9, <2>2 DEF EncodedFields
<1> QED BY <1>3, <1>4, <1>7, <1>8, <1>10 DEF d

(* The encoding of a field that gets one parameter more: only its size        *)
(* changes.                                                                   *)
LEMMA ParamAdded ==
  ASSUME NEW f \in Field, NEW p \in Parameter
  PROVE  LET g == [f EXCEPT !.params = Append(@, p)]
         IN  /\ g \in Field
             /\ Len(EncodeField(g)) = Len(EncodeField(f)) + Len(EncodeParam(p))
             /\ \A k \in 1..Len(EncodeField(f)) : k # 2 => EncodeField(g)[k] = EncodeField(f)[k]
             /\ \A k \in 1..Len(EncodeParam(p)) :
                  EncodeField(g)[Len(EncodeField(f)) + k] = EncodeParam(p)[k]
<1> DEFINE g == [f EXCEPT !.params = Append(@, p)]
           s == ParamSeqs(f)
           q == FlattenSeq(s)
           e == EncodeParam(p)
           r == FlattenSeq(ParamSeqs(g))
<1>1. f.params \in Seq(Parameter) /\ Len(f.params) \in Nat BY DEF Field
<1>2. g.params = Append(f.params, p) /\ g \in Field /\ g.name = f.name /\ g.id = f.id
  <2> DEFINE a == Append(f.params, p)
  <2>1. a \in Seq(Parameter) BY <1>1, AppendHas
  <2>2. f = [name |-> f.name, id |-> f.id, params |-> f.params] /\ f.name \in Int /\ f.id \in Nat
    BY DEF Field
  <2>3. g = [f EXCEPT !.params = a] OBVIOUS
  <2> HIDE DEF a, g
  <2>4. [f EXCEPT !.params = a] = [name |-> f.name, id |-> f.id, params |-> a] BY DEF Field
  <2> QED BY <2>1, <2>2, <2>3, <2>4 DEF Field, a
<1>3. s \in Seq(Seq(Int)) /\ Len(s) = Len(f.params) /\ q \in Seq(Int) /\ Len(q) \in Nat
      /\ \A i \in 1..Len(f.params) : s[i] = EncodeParam(f.params[i])
  BY ParamSeqsType
<1>4. e \in Seq(Int) /\ Len(e) \in Nat BY EncodedParam
<1> HIDE DEF g, e
<1>5. ParamSeqs(g) = Append(s, e)
  <2> DEFINE t == Append(s, e)
             n == Len(f.params)
  <2> HIDE DEF s
  <2>1. /\ t \in Seq(Seq(Int)) /\ Len(t) = Len(s) + 1 /\ t[Len(s) + 1] = e
        /\ \A i \in 1..Len(s) : t[i] = s[i]
    BY <1>3, <1>4, AppendHas
  <2>2. t \in Seq(Seq(Int)) /\ Len(t) = n + 1 BY <1>3, <2>1
  <2>3. \A i \in 1..n : t[i] = s[i] BY <1>3, <2>1
  <2>4. t[n + 1] = e BY <1>3, <2>1
  <2>5. /\ Len(g.params) = n + 1 /\ g.params[n + 1] = p
        /\ \A i \in 1..n : g.params[i] = f.params[i]
    BY <1>1, <1>2, AppendHas
  <2> HIDE DEF t
  <2>6. \A i \in 1..n + 1 : t[i] = EncodeParam(g.params[i])
    <3> TAKE i \in 1..n + 1
    <3>1. CASE i = n + 1 BY <2>4, <2>5, <3>1 DEF e
    <3>2. CASE i # n + 1
      <4>1. i \in 1..n BY <1>1, <3>2
      <4> QED BY <1>3, <2>3, <2>5, <4>1
    <3> QED BY <3>1, <3>2
  <2>7. t = [i \in 1..n + 1 |-> t[i]] BY <2>2
  <2>8. t = [i \in 1..n + 1 |-> EncodeParam(g.params[i])] BY <2>6, <2>7
  <2> QED BY <2>5, <2>8 DEF ParamSeqs, t
<1>6. r = q \o e
  <2> HIDE DEF s
  <2> QED BY <1>3, <1>4, <1>5, FlattenStep
<1>7. /\ Len(EncodeField(g)) = FieldSize + Len(r)
      /\ EncodeField(g)[1] = f.name /\ EncodeField(g)[3] = f.id
      /\ \A k \in 1..Len(r) : EncodeField(g)[FieldSize + k] = r[k]
  BY <1>2, EncodedField
<1>8. /\ Len(EncodeField(f)) = FieldSize + Len(q)
      /\ EncodeField(f)[1] = f.name /\ EncodeField(f)[3] = f.id
      /\ \A k \in 1..Len(q) : EncodeField(f)[FieldSize + k] = q[k]
  BY EncodedField
<1> HIDE DEF q, r
<1>9. /\ Len(r) = Len(q) + Len(e)
      /\ \A k \in 1..Len(q) : r[k] = q[k]
      /\ \A k \in 1..Len(e) : r[Len(q) + k] = e[k]
  <2>1. q \in Seq(Int) /\ e \in Seq(Int) BY <1>3, <1>4
  <2> QED BY <1>6, <2>1, ConcatHas
<1>10. FieldSize = 3 BY DEF FieldSize
<1>11. Len(EncodeField(g)) = Len(EncodeField(f)) + Len(e) BY <1>3, <1>4, <1>7, <1>8, <1>9, <1>10
<1>12. ASSUME NEW k \in 1..Len(EncodeField(f)), k # 2 PROVE EncodeField(g)[k] = EncodeField(f)[k]
  <2>1. CASE k = 1 \/ k = 3 BY <1>7, <1>8, <2>1
  <2>2. CASE k > 3
    <3> DEFINE j == k - 3
    <3>1. j \in 1..Len(q) /\ j \in 1..Len(r) /\ FieldSize + j = k
      BY <1>3, <1>4, <1>8, <1>9, <1>10, <2>2
    <3> HIDE DEF j
    <3>2. EncodeField(g)[FieldSize + j] = r[j] /\ EncodeField(f)[FieldSize + j] = q[j] BY <1>7, <1>8, <3>1
    <3> QED BY <1>9, <3>1, <3>2
  <2> QED BY <1>3, <1>8, <1>10, <1>12, <2>1, <2>2
<1>13. ASSUME NEW k \in 1..Len(e) PROVE EncodeField(g)[Len(EncodeField(f)) + k] = e[k]
  <2> DEFINE j == Len(q) + k
  <2>1. j \in 1..Len(r) /\ FieldSize + j = Len(EncodeField(f)) + k BY <1>3, <1>4, <1>8, <1>9, <1>10
  <2>2. r[j] = e[k] BY <1>9
  <2> HIDE DEF j
  <2>3. EncodeField(g)[FieldSize + j] = r[j] BY <1>7, <2>1
  <2> QED BY <2>1, <2>2, <2>3
<1> QED BY <1>2, <1>11, <1>12, <1>13 DEF g, e

(* The inductive invariant, action by action *)
LEMMA NoFields ==
  <<>> \in Contents /\ Len(EncodedFields(<<>>)) = 0 /\ EncodedFields(<<>>) = <<>>
<1>1. <<>> \in Contents BY DEF Contents
<1>2. FieldSeqs(<<>>) = <<>> BY DEF FieldSeqs
<1>3. EncodedFields(<<>>) = <<>> BY <1>2, FlattenEmpty DEF EncodedFields
<1> QED BY <1>1, <1>3

LEMMA NoTable == 0 \in 0..Len(<<>>)
OBVIOUS

LEMMA Sizes ==
  /\ HeaderSize = 8 /\ FieldSize = 3 /\ FooterSize = 2 /\ SizeWord = 2
  /\ MinWords \in Nat /\ MinWords >= 10 /\ MaxWords \in Nat /\ MaxWords >= MinWords
  /\ Headroom \in Nat /\ SizeWord \in 0..MaxWords - 1
BY PacketAssumption DEF HeaderSize, FieldSize, FooterSize, SizeWord

LEMMA InitIInv == Init => IInv
<1> SUFFICES ASSUME Init PROVE IInv OBVIOUS
<1>1. TypeOK
  <2>1. fieldIndex \in 0..Len(fieldData) /\ paramIndex \in 0..Len(paramData)
    BY NoTable DEF Init
  <2>2. buffer \in [0..MaxWords - 1 -> Int] BY DEF Init
  <2>3. size \in MinWords..MaxWords + Headroom BY Sizes DEF Init
  <2>4. position \in 0..MaxWords /\ tag \in 0..MaxWords - 1 /\ autoId \in Nat /\ received \in 0..MaxWords
    BY Sizes DEF Init
  <2>5. state = "created" /\ readOk = FALSE BY DEF Init
  <2> QED BY <2>1, <2>2, <2>3, <2>4, <2>5 DEF TypeOK
<1>2. content \in Contents /\ arriving \in Contents BY NoFields DEF Init
<1>3. BuildingInv /\ CompleteInv /\ ReceivingInv /\ ReadingInv
  BY DEF Init, BuildingInv, CompleteInv, ReceivingInv, ReadingInv, Writing
<1> QED BY <1>1, <1>2, <1>3 DEF IInv

(* One lemma for each action of the packet *)
LEMMA PacketWriteKeeps == ASSUME IInv, PacketWrite PROVE IInv'
<1>0. TypeOK /\ content \in Contents /\ arriving \in Contents BY DEF IInv
<1>1. TypeOK'
  <2>0. /\ buffer \in [0..MaxWords - 1 -> Int] /\ size \in MinWords..MaxWords + Headroom
        /\ received \in 0..MaxWords
    BY <1>0 DEF TypeOK
  <2>1. fieldIndex' \in 0..Len(fieldData') /\ paramIndex' \in 0..Len(paramData')
    BY NoTable DEF PacketWrite, ReadingEnds
  <2>2. buffer' \in [0..MaxWords - 1 -> Int] BY <2>0, Sizes DEF PacketWrite
  <2>3. position' \in 0..MaxWords /\ tag' \in 0..MaxWords - 1 /\ autoId' \in Nat
    BY Sizes DEF PacketWrite
  <2>4. state' = "writing" /\ readOk' = FALSE /\ size' = size /\ received' = received
    BY DEF PacketWrite, ReadingEnds
  <2> QED BY <2>0, <2>1, <2>2, <2>3, <2>4 DEF TypeOK
<1>2. content' \in Contents /\ arriving' \in Contents BY <1>0, NoFields DEF PacketWrite
<1>3. BuildingInv'
  <2>1. size \in MinWords..MaxWords + Headroom BY <1>0 DEF TypeOK
  <2> QED BY <2>1, Sizes, NoFields DEF BuildingInv, PacketWrite
<1>4. CompleteInv' /\ ReceivingInv' /\ ReadingInv'
  BY DEF CompleteInv, ReceivingInv, ReadingInv, PacketWrite, ReadingEnds
<1> QED BY <1>1, <1>2, <1>3, <1>4 DEF IInv

LEMMA LinkedHas ==
  ASSUME NEW b \in Buffers, tag \in 0..MaxWords - 1, NEW pos \in Int
  PROVE  Linked(b, pos) \in Buffers
BY DEF Linked, Buffers

(* What the builder has written, with the last distance filled in *)
LEMMA BuiltSoFar ==
  ASSUME IInv, Writing
  PROVE  /\ Linked(buffer, position) \in Buffers
         /\ Holds(Linked(buffer, position), HeaderSize, EncodedFields(content))
         /\ position = HeaderSize + Len(EncodedFields(content))
         /\ position + FooterSize <= MaxWords /\ position + FooterSize <= size
         /\ content \in Contents /\ EncodedFields(content) \in Seq(Int)
         /\ Len(EncodedFields(content)) \in Nat
         /\ buffer \in Buffers /\ position \in Nat /\ tag \in 0..MaxWords - 1
         /\ autoId \in Nat /\ ~readOk
<1>1. TypeOK /\ BuildingInv /\ ReadingInv /\ content \in Contents BY DEF IInv
<1>2. buffer \in Buffers /\ tag \in 0..MaxWords - 1 /\ position \in Nat /\ autoId \in Nat
  BY <1>1 DEF TypeOK, Buffers
<1>3. EncodedFields(content) \in Seq(Int) /\ Len(EncodedFields(content)) \in Nat
  BY <1>1, FieldSeqsType
<1>4. /\ position = HeaderSize + Len(EncodedFields(content))
      /\ position + FooterSize <= MaxWords /\ position + FooterSize <= size
  BY <1>1 DEF BuildingInv
<1>5. Holds(Linked(buffer, position), HeaderSize, EncodedFields(content))
  <2>1. CASE state = "writing"
    <3>1. content = <<>> BY <1>1, <2>1 DEF BuildingInv, Writing
    <3> QED BY <3>1, NoFields DEF Holds
  <2>2. CASE state = "fieldWritten"
    <3>1. /\ content # <<>> /\ tag = FieldStart(content, Len(content)) + 1
          /\ Holds([buffer EXCEPT ![tag] = position - tag + 1], HeaderSize, EncodedFields(content))
      BY <1>1, <2>2 DEF BuildingInv, Writing
    <3>2. Len(content) \in 1..Len(content) + 1
      <4>1. content \in Seq(Field) BY <1>1 DEF Contents, Field
      <4> QED BY <3>1, <4>1
    <3>3. FieldStart(content, Len(content)) \in Nat BY <1>1, <3>2, FieldPlaces
    <3>4. tag > 0 BY <3>1, <3>3
    <3> QED BY <3>1, <3>4 DEF Linked
  <2> QED BY <2>1, <2>2 DEF Writing
<1>6. ~readOk BY <1>1 DEF ReadingInv, Writing
<1>7. Linked(buffer, position) \in Buffers BY <1>2, LinkedHas
<1> QED BY <1>1, <1>2, <1>3, <1>4, <1>5, <1>6, <1>7

LEMMA AddFieldKeeps ==
  ASSUME IInv, ~AnyState, NEW name \in Names, NEW id \in Ids \cup {NextNumber}, AddField(name, id)
  PROVE  IInv'
<1> DEFINE number == IF id # NextNumber THEN id ELSE autoId + 1
           f == [name |-> name, id |-> number, params |-> <<>>]
           b == Linked(buffer, position)
           e == <<name, 0, number>>
           w == Write(b, position, e)
           n == Len(EncodedFields(content))
<1>1. Writing /\ state # "complete" BY DEF AddField, Writing
<1>2. /\ b \in Buffers /\ Holds(b, HeaderSize, EncodedFields(content))
      /\ position = HeaderSize + n /\ content \in Contents /\ EncodedFields(content) \in Seq(Int)
      /\ n \in Nat /\ position \in Nat /\ autoId \in Nat /\ ~readOk
  BY <1>1, BuiltSoFar
<1>3. /\ buffer' = w /\ tag' = position + 1 /\ position' = position + FieldSize
      /\ autoId' = IF id = NextNumber THEN number ELSE autoId
      /\ state' = "fieldWritten" /\ UNCHANGED <<reader, received, arriving>>
      /\ content' = Append(content, f)
      /\ position + FieldSize + FooterSize <= MaxWords
      /\ size' = IF size < position + FieldSize + FooterSize
                   THEN position + FieldSize + FooterSize + Headroom ELSE size
  BY <1>1 DEF AddField, Reserve
<1>4. number \in Nat /\ name \in Int BY <1>2, PacketAssumption DEF NextNumber
<1>5. e \in Seq(Int) /\ Len(e) = 3 /\ e[1] = name /\ e[2] = 0 /\ e[3] = number BY <1>4
<1>6. f \in Field /\ f.params = <<>>
  <2>1. <<>> \in Seq(Parameter) OBVIOUS
  <2> QED BY <1>4, <2>1 DEF Field
<1>7. /\ EncodeField(f) \in Seq(Int) /\ Len(EncodeField(f)) = 3
      /\ EncodeField(f)[1] = name /\ EncodeField(f)[2] = 3 /\ EncodeField(f)[3] = number
  <2>1. ParamSeqs(f) = <<>> BY <1>6 DEF ParamSeqs
  <2>2. FlattenSeq(ParamSeqs(f)) = <<>> BY <2>1, FlattenEmpty
  <2>3. f.name = name /\ f.id = number OBVIOUS
  <2> HIDE DEF f
  <2>4. FieldSize = 3 /\ Len(FlattenSeq(ParamSeqs(f))) = 0 BY <2>2, Sizes
  <2>5. /\ EncodeField(f) \in Seq(Int)
        /\ Len(EncodeField(f)) = FieldSize + Len(FlattenSeq(ParamSeqs(f)))
        /\ EncodeField(f)[1] = f.name /\ EncodeField(f)[2] = Len(EncodeField(f))
        /\ EncodeField(f)[3] = f.id
    BY <1>6, EncodedField
  <2> QED BY <2>3, <2>4, <2>5
<1> HIDE DEF f, e, b, w, number
<1>8. /\ Append(content, f) \in Contents /\ Len(Append(content, f)) = Len(content) + 1
      /\ Append(content, f) # <<>>
      /\ EncodedFields(Append(content, f)) = EncodedFields(content) \o EncodeField(f)
      /\ Len(EncodedFields(Append(content, f))) = n + Len(EncodeField(f))
      /\ FieldStart(Append(content, f), Len(content) + 1) = HeaderSize + n
  BY <1>2, <1>6, FieldAdded
<1>9. /\ w \in Buffers /\ Holds(w, position, e)
      /\ \A i \in 0..MaxWords - 1 : i < position \/ i >= position + Len(e) => w[i] = b[i]
  <2>1. position + Len(e) <= MaxWords BY <1>2, <1>3, <1>5, Sizes
  <2> QED BY <1>2, <1>5, <2>1, WriteHas DEF w
<1>10. tag' \in 0..MaxWords - 1 /\ position' - tag' + 1 = 3 BY <1>2, <1>3, Sizes
<1> DEFINE v == [w EXCEPT ![tag'] = position' - tag' + 1]
<1>11. /\ v[tag'] = 3
       /\ \A i \in 0..MaxWords - 1 : i # tag' => v[i] = w[i]
  BY <1>9, <1>10 DEF Buffers
<1> HIDE DEF v
<1>12. Holds(v, HeaderSize, EncodedFields(content))
  <2> SUFFICES ASSUME NEW k \in 1..n
               PROVE  v[HeaderSize + k - 1] = EncodedFields(content)[k]
    BY DEF Holds
  <2>1. HeaderSize + k - 1 \in 0..MaxWords - 1 /\ HeaderSize + k - 1 < position
        /\ HeaderSize + k - 1 # tag'
    BY <1>2, <1>3, Sizes
  <2>2. v[HeaderSize + k - 1] = b[HeaderSize + k - 1] BY <1>9, <1>11, <2>1
  <2> QED BY <1>2, <2>2 DEF Holds
<1>13. Holds(v, HeaderSize + n, EncodeField(f))
  <2>1. /\ position \in 0..MaxWords - 1 /\ position + 2 \in 0..MaxWords - 1
        /\ position # tag' /\ position + 2 # tag' /\ tag' = position + 1
    BY <1>2, <1>3, Sizes
  <2>2. w[position + 1 - 1] = e[1] /\ w[position + 3 - 1] = e[3] BY <1>5, <1>9 DEF Holds
  <2>3. position + 1 - 1 = position /\ position + 3 - 1 = position + 2 BY <1>2
  <2>4. v[position] = name /\ v[position + 2] = number BY <1>5, <1>11, <2>1, <2>2, <2>3
  <2>5. v[position + 1] = 3 BY <1>11, <2>1
  <2>6. \A k \in 1..3 : v[position + k - 1] = EncodeField(f)[k]
    <3> TAKE k \in 1..3
    <3>1. k = 1 \/ k = 2 \/ k = 3 OBVIOUS
    <3>2. position + 1 - 1 = position /\ position + 2 - 1 = position + 1 /\ position + 3 - 1 = position + 2 BY <1>2
    <3> QED BY <1>7, <2>4, <2>5, <3>1, <3>2
  <2> QED BY <1>2, <1>7, <2>6 DEF Holds
<1>14. Holds(v, HeaderSize, EncodedFields(Append(content, f)))
  <2>1. HeaderSize \in Nat BY Sizes
  <2> QED BY <1>2, <1>7, <1>8, <1>12, <1>13, <2>1, HoldsBoth
<1>15. BuildingInv'
  <2>1. position' = HeaderSize + Len(EncodedFields(Append(content, f)))
    BY <1>2, <1>3, <1>7, <1>8, Sizes
  <2>2. position' + FooterSize <= MaxWords /\ position' + FooterSize <= size'
    <3>1. size \in Nat BY Sizes DEF IInv, TypeOK
    <3> QED BY <1>2, <1>3, <3>1, Sizes
  <2>3. tag' = FieldStart(Append(content, f), Len(Append(content, f))) + 1
    BY <1>2, <1>3, <1>8
  <2>4. Holds([buffer' EXCEPT ![tag'] = position' - tag' + 1], HeaderSize,
              EncodedFields(Append(content, f)))
    BY <1>3, <1>14 DEF v
  <2>5. state' = "fieldWritten" /\ content' = Append(content, f) /\ Append(content, f) # <<>>
    BY <1>3, <1>8
  <2> QED BY <2>1, <2>2, <2>3, <2>4, <2>5 DEF BuildingInv
<1>16. TypeOK'
  <2>1. buffer' \in [0..MaxWords - 1 -> Int] BY <1>3, <1>9 DEF Buffers
  <2>2. size' \in MinWords..MaxWords + Headroom
    <3>1. size \in MinWords..MaxWords + Headroom BY DEF IInv, TypeOK
    <3> QED BY <1>2, <1>3, <3>1, Sizes
  <2>3. position' \in 0..MaxWords /\ tag' \in 0..MaxWords - 1 /\ autoId' \in Nat
    BY <1>2, <1>3, <1>4, <1>10, Sizes
  <2> QED BY <1>3, <2>1, <2>2, <2>3 DEF IInv, TypeOK, reader, fieldTable, paramTable
<1>17. CompleteInv' /\ ReceivingInv' /\ ReadingInv'
  BY <1>2, <1>3 DEF CompleteInv, ReceivingInv, ReadingInv, reader
<1>18. content' \in Contents /\ arriving' \in Contents BY <1>3, <1>8 DEF IInv
<1> QED BY <1>15, <1>16, <1>17, <1>18 DEF IInv

LEMMA AddParamKeeps ==
  ASSUME IInv, NEW p \in Parameter, Reserve(position + 2 + Len(p.data) + FooterSize), AddParam(p)
  PROVE  IInv'
<1> DEFINE c == content
           m == Len(c)
           c0 == SubSeq(c, 1, m - 1)
           f == c[m]
           g == [f EXCEPT !.params = Append(@, p)]
           a == EncodedFields(c0)
           e == EncodeParam(p)
           w == Write(buffer, position, e)
           l == Len(EncodeField(f))
           v == [w EXCEPT ![tag] = position' - tag + 1]
           x == [buffer EXCEPT ![tag] = position - tag + 1]
<1>1. /\ TypeOK /\ BuildingInv /\ ReadingInv /\ c \in Contents /\ arriving \in Contents
      /\ state = "fieldWritten" /\ Writing
  BY DEF IInv, AddParam, Writing
<1>2. /\ position = HeaderSize + Len(EncodedFields(c))
      /\ c # <<>> /\ tag = FieldStart(c, m) + 1
      /\ Holds(x, HeaderSize, EncodedFields(c))
  BY <1>1 DEF BuildingInv
<1>3. buffer \in Buffers /\ position \in Nat /\ tag \in 0..MaxWords - 1 /\ size \in MinWords..MaxWords + Headroom
  BY <1>1 DEF TypeOK, Buffers
<1> HIDE DEF e
<1>4. e \in Seq(Int) /\ Len(e) \in Nat /\ position + Len(e) = position + 2 + Len(p.data)
  <2>1. e \in Seq(Int) /\ Len(e) = 2 + Len(p.data) /\ Len(p.data) \in Nat BY EncodedParam DEF e
  <2>2. position \in Nat BY <1>3
  <2> DEFINE d == Len(p.data)
  <2>3. Len(e) = 2 + d /\ d \in Nat BY <2>1
  <2> HIDE DEF d
  <2>4. position + Len(e) = position + 2 + d BY <2>2, <2>3
  <2> QED BY <2>1, <2>3, <2>4 DEF d
<1>5. /\ buffer' = w
      /\ c' = [c EXCEPT ![m].params = Append(@, p)]
      /\ UNCHANGED <<state, tag, autoId, received, reader, arriving>>
  BY DEF AddParam, EncodeParam, e
<1>22. /\ position' = position + Len(e) /\ tag' = tag
       /\ position + Len(e) + FooterSize <= MaxWords
       /\ size' = IF size < position + Len(e) + FooterSize
                    THEN position + Len(e) + FooterSize + Headroom ELSE size
  BY <1>4 DEF AddParam, Reserve
<1>6. /\ c0 \in Contents /\ f \in Field /\ m \in Nat /\ m >= 1 /\ Len(c0) = m - 1
      /\ c = Append(c0, f) /\ c' = Append(c0, g)
  <2>1. c \in Seq(Field) /\ m \in Nat /\ m >= 1 BY <1>1, <1>2 DEF Contents, Field
  <2>2. f \in Field BY <2>1
  <2>3. c0 \in Seq(Field) /\ Len(c0) = m - 1 /\ c = Append(c0, f)
    <3>1. m \in 1..Len(c) BY <2>1
    <3>2. c0 \in Seq(Field) /\ SubSeq(c, 1, m) = Append(c0, f) BY <2>1, <3>1, PrefixStep
    <3> HIDE DEF c0, f
    <3>3. SubSeq(c, 1, m) = c BY <2>1
    <3>4. Len(c0) = m - 1 BY <2>1 DEF c0
    <3> QED BY <3>2, <3>3, <3>4
  <2>5. c' = [c EXCEPT ![m] = g] BY <1>5
  <2>6. g \in Field BY <2>2, ParamAdded
  <2> HIDE DEF g, f
  <2> HIDE DEF c0
  <2>7. [c EXCEPT ![m] = g] = Append(c0, g)
    <3> DEFINE d == [c EXCEPT ![m] = g]
               b == Append(c0, g)
    <3>1. d \in Seq(Field) /\ Len(d) = m /\ d[m] = g /\ \A i \in 1..m - 1 : d[i] = c[i]
      BY <2>1, <2>6
    <3>2. b \in Seq(Field) /\ Len(b) = m /\ b[m] = g /\ \A i \in 1..m - 1 : b[i] = c0[i]
      <4>1. m - 1 + 1 = m BY <2>1
      <4> QED BY <2>3, <2>6, <4>1, AppendHas
    <3>3. \A i \in 1..m - 1 : c0[i] = c[i] BY <2>1 DEF c0
    <3> HIDE DEF d, b
    <3>4. \A i \in 1..m : d[i] = b[i] BY <2>1, <3>1, <3>2, <3>3
    <3> QED BY <3>1, <3>2, <3>4, SameSeq DEF d, b
  <2> QED BY <2>1, <2>2, <2>3, <2>5, <2>7 DEF Contents, Field
<1>7. /\ g \in Field /\ Len(EncodeField(g)) = l + Len(e)
      /\ \A k \in 1..l : k # 2 => EncodeField(g)[k] = EncodeField(f)[k]
      /\ \A k \in 1..Len(e) : EncodeField(g)[l + k] = e[k]
  <2> HIDE DEF f
  <2> QED BY <1>6, ParamAdded DEF e
<1> HIDE DEF c, c0, f, g, w, v, x, m
<1>8. /\ a \in Seq(Int) /\ Len(a) \in Nat
      /\ EncodedFields(c) = a \o EncodeField(f) /\ Len(EncodedFields(c)) = Len(a) + l
      /\ FieldStart(c, m) = HeaderSize + Len(a)
  <2>1. m - 1 + 1 = m BY <1>6
  <2> QED BY <1>6, <2>1, FieldSeqsType, FieldAdded
<1>9. /\ c' \in Contents /\ c' # <<>> /\ Len(c') = m
      /\ EncodedFields(c') = a \o EncodeField(g)
      /\ Len(EncodedFields(c')) = Len(a) + Len(EncodeField(g))
      /\ FieldStart(c', m) = HeaderSize + Len(a)
  <2>1. m - 1 + 1 = m BY <1>6
  <2> DEFINE d == Append(c0, g)
  <2>2. /\ d \in Contents /\ d # <<>> /\ Len(d) = m
        /\ EncodedFields(d) = a \o EncodeField(g)
        /\ Len(EncodedFields(d)) = Len(a) + Len(EncodeField(g))
        /\ FieldStart(d, m) = HeaderSize + Len(a)
    <3> HIDE DEF d
    <3>1. /\ d \in Contents /\ d # <<>> /\ Len(d) = Len(c0) + 1
          /\ EncodedFields(d) = EncodedFields(c0) \o EncodeField(g)
          /\ Len(EncodedFields(d)) = Len(EncodedFields(c0)) + Len(EncodeField(g))
          /\ FieldStart(d, Len(c0) + 1) = HeaderSize + Len(EncodedFields(c0))
      BY <1>6, <1>7, FieldAdded DEF d
    <3>2. Len(c0) + 1 = m BY <1>6
    <3> QED BY <3>1, <3>2
  <2> HIDE DEF d
  <2>3. c' = d BY <1>6 DEF d
  <2> QED BY <2>2, <2>3
<1>10. /\ EncodeField(f) \in Seq(Int) /\ l \in Nat /\ l >= 3
       /\ EncodeField(g) \in Seq(Int) /\ EncodeField(g)[2] = Len(EncodeField(g))
  <2>1. Len(FlattenSeq(ParamSeqs(f))) \in Nat BY <1>6, ParamSeqsType
  <2>2. EncodeField(f) \in Seq(Int) /\ Len(EncodeField(f)) = 3 + Len(FlattenSeq(ParamSeqs(f)))
    BY <1>6, EncodedField, Sizes
  <2>3. EncodeField(g) \in Seq(Int) /\ EncodeField(g)[2] = Len(EncodeField(g))
    BY <1>7, EncodedField
  <2> QED BY <2>1, <2>2, <2>3
<1> HIDE DEF a, l
<1>11. position = 8 + Len(a) + l /\ tag = 9 + Len(a) BY <1>2, <1>8, <1>10, Sizes
<1>23. /\ Len(a) \in Nat /\ Len(e) \in Nat /\ l \in Nat /\ l >= 3
       /\ position + Len(e) + 2 <= MaxWords
  BY <1>4, <1>8, <1>10, <1>22, Sizes
<1>12. /\ w \in Buffers /\ Holds(w, position, e)
       /\ \A i \in 0..MaxWords - 1 : i < position \/ i >= position + Len(e) => w[i] = buffer[i]
  <2>1. position + Len(e) <= MaxWords BY <1>3, <1>4, <1>22, Sizes
  <2> QED BY <1>3, <1>4, <2>1, WriteHas DEF w
<1>13. /\ v[tag] = position + Len(e) - tag + 1
       /\ \A i \in 0..MaxWords - 1 : i # tag => v[i] = w[i]
       /\ \A i \in 0..MaxWords - 1 : i # tag => x[i] = buffer[i]
  BY <1>3, <1>12, <1>22 DEF Buffers, v, x
<1>14. Holds(v, HeaderSize, a)
  <2> SUFFICES ASSUME NEW k \in 1..Len(a) PROVE v[HeaderSize + k - 1] = a[k] BY DEF Holds
  <2> DEFINE i == HeaderSize + k - 1
  <2>1. i \in 0..MaxWords - 1 /\ i < position /\ i # tag BY <1>11, <1>23, Sizes
  <2>2. k \in 1..Len(EncodedFields(c)) BY <1>8, <1>10
  <2>3. x[i] = EncodedFields(c)[k] BY <1>2, <2>2 DEF Holds
  <2>4. EncodedFields(c)[k] = a[k] BY <1>8, <1>10, ConcatHas
  <2> HIDE DEF i
  <2>5. v[i] = x[i] BY <1>12, <1>13, <2>1
  <2> QED BY <2>3, <2>4, <2>5 DEF i
<1>15. Holds(v, HeaderSize + Len(a), EncodeField(g))
  <2> SUFFICES ASSUME NEW k \in 1..l + Len(e)
               PROVE  v[HeaderSize + Len(a) + k - 1] = EncodeField(g)[k]
    BY <1>7 DEF Holds
  <2> DEFINE i == HeaderSize + Len(a) + k - 1
  <2>0. i = 7 + Len(a) + k /\ k \in Nat /\ k >= 1 BY <1>8, Sizes
  <2>1. i \in 0..MaxWords - 1 BY <1>11, <1>23, <2>0, Sizes
  <2>2. CASE k = 2
    <3>1. i = tag BY <1>8, <1>11, <2>0, <2>2
    <3>2. position + Len(e) - tag + 1 = l + Len(e) BY <1>4, <1>8, <1>10, <1>11
    <3> HIDE DEF i
    <3> QED BY <1>7, <1>10, <1>13, <2>2, <3>1, <3>2 DEF i
  <2>3. CASE k # 2 /\ k <= l
    <3>1. i # tag /\ i < position BY <1>8, <1>10, <1>11, <2>0, <2>3, SMTT(40)
    <3>2. Len(a) + k \in 1..Len(EncodedFields(c)) /\ k \in 1..l BY <1>8, <1>10, <2>0, <2>3
    <3>3. x[HeaderSize + (Len(a) + k) - 1] = EncodedFields(c)[Len(a) + k] BY <1>2, <3>2 DEF Holds
    <3>4. HeaderSize + (Len(a) + k) - 1 = i BY <1>8, <2>0, Sizes
    <3>5. EncodedFields(c)[Len(a) + k] = EncodeField(f)[k]
      <4>1. k \in 1..Len(EncodeField(f)) BY <3>2 DEF l
      <4> QED BY <1>8, <1>10, <4>1, ConcatHas
    <3> HIDE DEF i
    <3>6. v[i] = x[i] BY <1>12, <1>13, <2>1, <3>1
    <3>7. EncodeField(g)[k] = EncodeField(f)[k] BY <1>7, <2>3, <3>2
    <3> QED BY <3>3, <3>4, <3>5, <3>6, <3>7 DEF i
  <2>4. CASE k > l
    <3> DEFINE j == k - l
    <3>1. j \in 1..Len(e) /\ l + j = k /\ position + j - 1 = i /\ i # tag
      BY <1>4, <1>8, <1>10, <1>11, <2>0, <2>4
    <3> HIDE DEF i, j
    <3>2. w[position + j - 1] = e[j] BY <1>12, <3>1 DEF Holds
    <3>3. EncodeField(g)[l + j] = e[j] BY <1>7, <3>1
    <3> QED BY <1>13, <2>1, <3>1, <3>2, <3>3 DEF i
  <2> QED BY <1>10, <2>0, <2>2, <2>3, <2>4
<1>16. Holds(v, HeaderSize, EncodedFields(c'))
  <2>1. HeaderSize \in Nat BY Sizes
  <2> QED BY <1>8, <1>9, <1>10, <1>14, <1>15, <2>1, HoldsBoth
<1>17. BuildingInv'
  <2>1. position' = HeaderSize + Len(EncodedFields(c'))
    BY <1>4, <1>22, <1>7, <1>8, <1>9, <1>10, <1>11, Sizes
  <2>2. position' + FooterSize <= MaxWords /\ position' + FooterSize <= size'
    BY <1>3, <1>4, <1>22, Sizes
  <2>3. tag' = FieldStart(c', Len(c')) + 1 BY <1>2, <1>22, <1>8, <1>9
  <2>4. Holds([buffer' EXCEPT ![tag'] = position' - tag' + 1], HeaderSize, EncodedFields(c'))
    BY <1>5, <1>16, <1>22 DEF v
  <2>5. state' = "fieldWritten" /\ c' # <<>> BY <1>1, <1>5, <1>9
  <2> QED BY <2>1, <2>2, <2>3, <2>4, <2>5 DEF BuildingInv, c
<1>18. TypeOK'
  <2>1. buffer' \in [0..MaxWords - 1 -> Int] BY <1>5, <1>12 DEF Buffers
  <2>2. size' \in MinWords..MaxWords + Headroom BY <1>3, <1>4, <1>22, Sizes
  <2>3. position' \in 0..MaxWords BY <1>3, <1>4, <1>22, Sizes
  <2> QED BY <1>1, <1>5, <2>1, <2>2, <2>3 DEF TypeOK, reader, fieldTable, paramTable
<1>19. ~readOk BY <1>1 DEF ReadingInv
<1>20. CompleteInv' /\ ReceivingInv' /\ ReadingInv'
  BY <1>1, <1>5, <1>19 DEF CompleteInv, ReceivingInv, ReadingInv, reader
<1>21. content' \in Contents /\ arriving' \in Contents BY <1>1, <1>5, <1>9 DEF c
<1> QED BY <1>17, <1>18, <1>20, <1>21 DEF IInv

LEMMA AddParamIntKeeps == ASSUME IInv, NEW name \in Names, AddParamInt(name) PROVE IInv'
<1> DEFINE p == Param(name, IntType, <<7>>)
<1>1. p \in Parameter /\ Len(p.data) = 1
  <2>1. name \in Int /\ <<7>> \in Seq(Int) /\ Len(<<7>>) = 1 BY PacketAssumption
  <2> QED BY <2>1 DEF Param, Parameter
<1> HIDE DEF p
<1>2. position \in Nat BY DEF IInv, TypeOK
<1>3. position + 3 + FooterSize = position + 2 + Len(p.data) + FooterSize BY <1>1, <1>2, Sizes
<1>4. Reserve(position + 2 + Len(p.data) + FooterSize) /\ AddParam(p)
  BY <1>3 DEF AddParamInt, p
<1> QED BY <1>1, <1>4, AddParamKeeps

LEMMA AddParamDataKeeps ==
  ASSUME IInv, NEW name \in Names, NEW length \in Lengths, AddParamData(name, length) PROVE IInv'
<1> DEFINE d == [i \in 1..Words(length) |-> 9]
           p == Param(name, StringType, d)
<1>1. Words(length) \in Nat
  <2>1. length \in Nat BY PacketAssumption
  <2> QED BY <2>1 DEF Words
<1>2. d \in Seq(Int) /\ Len(d) = Words(length) BY <1>1
<1> HIDE DEF d
<1>3. p \in Parameter /\ p.data = d
  <2>1. name \in Int BY PacketAssumption
  <2> QED BY <1>2, <2>1 DEF Param, Parameter, StringType, IntType
<1>4. Reserve(position + 2 + Len(p.data) + FooterSize) /\ AddParam(p)
  BY <1>2, <1>3 DEF AddParamData, d
<1> QED BY <1>3, <1>4, AddParamKeeps

LEMMA WriteCompleteKeeps == ASSUME IInv, ~AnyState, WriteComplete PROVE IInv'
<1> DEFINE c == content
           b == Linked(buffer, position)
           t == <<0, Foot>>
           w == Write(b, position, t)
           v == [w EXCEPT ![SizeWord] = position + FooterSize]
           n == Len(EncodedFields(c))
<1>1. Writing BY DEF WriteComplete
<1>2. /\ b \in Buffers /\ Holds(b, HeaderSize, EncodedFields(c))
      /\ position = HeaderSize + n /\ position + FooterSize <= MaxWords
      /\ position + FooterSize <= size
      /\ c \in Contents /\ EncodedFields(c) \in Seq(Int) /\ n \in Nat
      /\ position \in Nat /\ ~readOk
  BY <1>1, BuiltSoFar
<1>3. /\ buffer' = v /\ position' = position + FooterSize /\ state' = "complete"
      /\ UNCHANGED <<size, tag, autoId, received, reader, content, arriving>>
  BY DEF WriteComplete
<1>4. t \in Seq(Int) /\ Len(t) = 2 BY DEF Foot
<1>5. Encode(c) = EncodedFields(c) \o t BY DEF Encode, EncodedFields, FieldSeqs
<1>6. Len(Encode(c)) = n + FooterSize BY <1>2, EncodeIs
<1> HIDE DEF b, t, w, v, c, n
<1>7. /\ w \in Buffers /\ Holds(w, position, t)
      /\ \A i \in 0..MaxWords - 1 : i < position \/ i >= position + Len(t) => w[i] = b[i]
  <2>1. position + Len(t) <= MaxWords BY <1>2, <1>4, Sizes
  <2> QED BY <1>2, <1>4, <2>1, WriteHas DEF w
<1>8. /\ v \in Buffers /\ v[SizeWord] = position + FooterSize
      /\ \A i \in 0..MaxWords - 1 : i # SizeWord => v[i] = w[i]
  <2>1. position + FooterSize \in Int BY <1>2, Sizes
  <2> QED BY <1>7, <2>1, Sizes DEF v, Buffers
<1>9. Holds(v, HeaderSize, EncodedFields(c))
  <2> SUFFICES ASSUME NEW k \in 1..n PROVE v[HeaderSize + k - 1] = EncodedFields(c)[k]
    BY DEF Holds, n
  <2> DEFINE i == HeaderSize + k - 1
  <2>1. i \in 0..MaxWords - 1 /\ i < position /\ i # SizeWord BY <1>2, Sizes
  <2>2. b[i] = EncodedFields(c)[k] BY <1>2 DEF Holds, n
  <2> HIDE DEF i
  <2>3. v[i] = b[i] BY <1>7, <1>8, <2>1
  <2> QED BY <2>2, <2>3 DEF i
<1>10. Holds(v, HeaderSize + n, t)
  <2> SUFFICES ASSUME NEW k \in 1..2 PROVE v[HeaderSize + n + k - 1] = t[k]
    BY <1>4 DEF Holds
  <2> DEFINE i == HeaderSize + n + k - 1
  <2>1. i \in 0..MaxWords - 1 /\ i # SizeWord /\ i = position + k - 1 BY <1>2, Sizes
  <2> HIDE DEF i
  <2>2. w[position + k - 1] = t[k] BY <1>4, <1>7 DEF Holds
  <2>3. v[i] = t[k] BY <1>8, <2>1, <2>2
  <2> QED BY <2>3 DEF i
<1>11. Holds(v, HeaderSize, Encode(c))
  <2>1. HeaderSize \in Nat BY Sizes
  <2> QED BY <1>2, <1>4, <1>5, <1>9, <1>10, <2>1, HoldsBoth DEF n
<1>12. Carries(v, c) /\ v[SizeWord] <= size
  <2>1. v[SizeWord] = HeaderSize + Len(Encode(c)) BY <1>2, <1>6, <1>8, Sizes
  <2> QED BY <1>2, <1>8, <1>11, <2>1 DEF Carries
<1>13. CompleteInv' BY <1>3, <1>12 DEF CompleteInv, c
<1>14. BuildingInv' /\ ReceivingInv' /\ ReadingInv'
  BY <1>2, <1>3 DEF BuildingInv, ReceivingInv, ReadingInv, Writing, reader
<1>15. TypeOK'
  <2>1. buffer' \in [0..MaxWords - 1 -> Int] BY <1>3, <1>8 DEF Buffers
  <2>2. position' \in 0..MaxWords BY <1>2, <1>3, Sizes
  <2>3. TypeOK BY DEF IInv
  <2> QED BY <1>3, <2>1, <2>2, <2>3 DEF TypeOK, reader, fieldTable, paramTable
<1>16. content' \in Contents /\ arriving' \in Contents BY <1>3 DEF IInv
<1> QED BY <1>13, <1>14, <1>15, <1>16 DEF IInv

(* A complete packet *)
LEMMA CompletePacket ==
  ASSUME IInv, state = "complete"
  PROVE  /\ content \in Contents /\ content \in Seq(Field) /\ Len(content) \in Nat
         /\ Carries(buffer, content) /\ buffer[SizeWord] <= size
         /\ buffer \in [0..MaxWords - 1 -> Int] /\ buffer \in Buffers
         /\ ScanFields = FieldRows(content) /\ Len(FieldRows(content)) = Len(content)
         /\ Len(EncodedFields(content)) \in Nat
         /\ buffer[SizeWord] = HeaderSize + Len(EncodedFields(content)) + FooterSize
         /\ buffer[SizeWord] <= MaxWords
         /\ Holds(buffer, HeaderSize, EncodedFields(content))
<1> DEFINE c == content
<1>1. TypeOK /\ c \in Contents /\ CompleteInv BY DEF IInv
<1>2. Carries(buffer, c) /\ buffer[SizeWord] <= size BY <1>1 DEF CompleteInv
<1>3. buffer \in [0..MaxWords - 1 -> Int] BY <1>1 DEF TypeOK
<1>4. ScanFields = FieldRows(c) BY <1>1, <1>2, <1>3, ScanFieldsIs
<1>5. Len(EncodedFields(c)) \in Nat /\ Len(Encode(c)) = Len(EncodedFields(c)) + FooterSize
  BY <1>1, FieldSeqsType, EncodeIs
<1>6. c \in Seq(Field) /\ Len(c) \in Nat BY <1>1 DEF Contents, Field
<1>7. Len(FieldRows(c)) = Len(c) BY <1>6 DEF FieldRows
<1>8. buffer[SizeWord] = HeaderSize + Len(EncodedFields(c)) + FooterSize
  BY <1>2, <1>5, Sizes DEF Carries
<1>9. Holds(buffer, HeaderSize, EncodedFields(c)) BY <1>1, <1>2, CarriesFields
<1> QED BY <1>1, <1>2, <1>3, <1>4, <1>5, <1>6, <1>7, <1>8, <1>9 DEF Carries, Buffers

LEMMA PacketAppendKeeps == ASSUME IInv, PacketAppend PROVE IInv'
<1> DEFINE c == content
           n == Len(EncodedFields(c))
           m == Len(c)
           rows == FieldRows(c)
<1>1. state = "complete" BY DEF PacketAppend
<1>2. /\ c \in Contents /\ c \in Seq(Field) /\ m \in Nat
      /\ buffer[SizeWord] <= size /\ buffer \in Buffers
      /\ ScanFields = rows /\ Len(rows) = m /\ n \in Nat
      /\ buffer[SizeWord] = HeaderSize + n + FooterSize /\ buffer[SizeWord] <= MaxWords
      /\ Holds(buffer, HeaderSize, EncodedFields(c))
  BY <1>1, CompletePacket
<1>3. /\ UNCHANGED <<buffer, size, received, content, arriving>>
      /\ readOk' = FALSE /\ fieldData' = <<>> /\ fieldIndex' = 0
      /\ paramData' = <<>> /\ paramIndex' = 0
  BY DEF PacketAppend, ReadingEnds
<1>4. TypeOK /\ arriving \in Contents BY DEF IInv
<1>5. BuildingInv' /\ state' \in {"writing", "fieldWritten"}
      /\ position' \in 0..MaxWords /\ tag' \in 0..MaxWords - 1 /\ autoId' \in Nat
  <2>1. CASE rows = <<>>
    <3>1. m = 0 BY <1>2, <2>1
    <3>2. c = <<>> BY <1>2, <3>1
    <3>3. n = 0 BY <3>2, NoFields
    <3>4. state' = "writing" /\ position' = HeaderSize /\ tag' = 0 /\ autoId' = 0
      BY <1>2, <2>1 DEF PacketAppend, AppendAux
    <3> HIDE DEF c, n
    <3>5. position' = HeaderSize + n /\ position' + FooterSize <= MaxWords /\ position' + FooterSize <= size
      BY <1>2, <3>3, <3>4, Sizes
    <3>6. BuildingInv' BY <1>3, <3>2, <3>4, <3>5 DEF BuildingInv, c, n
    <3> QED BY <3>4, <3>6, Sizes
  <2>2. CASE rows # <<>>
    <3>1. m >= 1
      <4>1. CASE m = 0
        <5>1. c = <<>> BY <1>2, <4>1
        <5>2. rows = <<>> BY <4>1 DEF FieldRows
        <5> QED BY <2>2, <5>2
      <4> QED BY <1>2, <4>1
    <3>2. /\ rows[m].start = FieldStart(c, m) /\ rows[m].end = FieldStart(c, m + 1)
          /\ rows[m].id = c[m].id
      BY <1>2, <3>1 DEF FieldRows
    <3>3. /\ state' = "fieldWritten" /\ position' = FieldStart(c, m + 1)
          /\ tag' = FieldStart(c, m) + 1 /\ autoId' = c[m].id
      <4> HIDE DEF rows, c, m
      <4>1. rows[Len(rows)] = rows[m] BY <1>2
      <4> QED BY <1>2, <2>2, <3>2, <4>1 DEF PacketAppend, AppendAux
    <3>4. c[m] \in Field /\ c[m].id \in Nat
      <4>1. c[m] \in Field BY <1>2, <3>1
      <4> QED BY <4>1 DEF Field
    <3> DEFINE s == FieldStart(c, m)
               l == Len(EncodeField(c[m]))
    <3>5. /\ FieldStart(c, m + 1) = HeaderSize + n /\ FieldStart(c, m + 1) = s + l
          /\ s \in Nat /\ l \in Nat /\ l >= 3 /\ s >= 8
      <4>1. m \in 1..Len(c) /\ m \in 1..Len(c) + 1 BY <1>2, <3>1
      <4> QED BY <1>2, <4>1, FieldPlaces, Sizes
    <3>6. buffer[s + 1] = l
      <4>1. 2 \in 1..l BY <3>5
      <4>2. m \in 1..Len(c) BY <1>2, <3>1
      <4>3. buffer[s + 2 - 1] = EncodeField(c[m])[2] BY <1>2, <4>1, <4>2, FieldWords
      <4>4. EncodeField(c[m])[2] = l BY <3>4, EncodedField
      <4> HIDE DEF s, l
      <4>5. s + 2 - 1 = s + 1 BY <3>5
      <4> QED BY <4>3, <4>4, <4>5
    <3> HIDE DEF c, n, m, s, l
    <3>7. position' = HeaderSize + n /\ position' + FooterSize <= MaxWords /\ position' + FooterSize <= size
          /\ position' \in 0..MaxWords /\ tag' \in 0..MaxWords - 1 /\ position' - tag' + 1 = l
      <4>1. n \in Nat /\ 8 + n + 2 <= MaxWords /\ 8 + n + 2 <= size BY <1>2, Sizes
      <4>2. position' = 8 + n /\ tag' = s + 1 /\ 8 + n = s + l BY <3>3, <3>5, Sizes DEF s
      <4>3. s \in Nat /\ l \in Nat /\ l >= 3 BY <3>5
      <4> QED BY <4>1, <4>2, <4>3, Sizes
    <3>8. [buffer EXCEPT ![tag'] = position' - tag' + 1] = buffer
      <4>1. buffer[tag'] = l BY <3>3, <3>6 DEF s
      <4> QED BY <1>2, <3>7, <4>1 DEF Buffers
    <3>9. c # <<>>
      <4>1. CASE c = <<>>
        <5>1. Len(c) = 0 BY <4>1
        <5> QED BY <3>1, <5>1 DEF m
      <4> QED BY <4>1
    <3>10. BuildingInv'
      BY <1>2, <1>3, <3>3, <3>7, <3>8, <3>9 DEF BuildingInv, c, n, m
    <3> QED BY <3>3, <3>4, <3>7, <3>10
  <2> QED BY <2>1, <2>2
<1>6. TypeOK'
  <2>2. fieldIndex' \in 0..Len(fieldData') /\ paramIndex' \in 0..Len(paramData') /\ readOk' \in BOOLEAN
    BY <1>3, NoTable
  <2> QED BY <1>3, <1>4, <1>5, <2>2 DEF TypeOK
<1>7. CompleteInv' /\ ReceivingInv' /\ ReadingInv'
  BY <1>3, <1>5 DEF CompleteInv, ReceivingInv, ReadingInv
<1>8. content' \in Contents /\ arriving' \in Contents BY <1>2, <1>3, <1>4
<1> QED BY <1>5, <1>6, <1>7, <1>8 DEF IInv

LEMMA CloneKeeps == ASSUME IInv, Clone PROVE IInv'
<1>1. IInv /\ TypeOK BY DEF IInv
<1>2. TypeOK' BY <1>1, Sizes DEF TypeOK, Clone, ReadingEnds
<1>3. BuildingInv' /\ CompleteInv' /\ ReceivingInv' /\ ReadingInv'
  BY <1>1 DEF IInv, BuildingInv, CompleteInv, ReceivingInv, ReadingInv, Writing, Clone, ReadingEnds
<1> QED BY <1>1, <1>2, <1>3 DEF IInv, Clone

(* Reading *)
LEMMA ReadKeeps == ASSUME IInv, Read PROVE IInv'
<1>1. state = "complete" /\ TypeOK BY DEF Read, IInv
<1>2. ScanFields = FieldRows(content) /\ Len(FieldRows(content)) = Len(content) /\ Len(content) \in Nat
  BY <1>1, CompletePacket
<1>3. /\ position' = HeaderSize /\ paramData' = <<>> /\ paramIndex' = 0 /\ readOk' = TRUE
      /\ fieldData' = FieldRows(content) /\ fieldIndex' = 0
      /\ UNCHANGED <<buffer, size, state, tag, autoId, received, content, arriving>>
  BY <1>2 DEF Read
<1>4. TypeOK'
  <2>1. Len(fieldData') \in Nat /\ Len(paramData') = 0 BY <1>2, <1>3
  <2>2. fieldIndex' \in 0..Len(fieldData') /\ paramIndex' \in 0..Len(paramData') BY <1>3, <2>1
  <2>3. position' \in 0..MaxWords BY <1>3, Sizes
  <2> QED BY <1>1, <1>3, <2>2, <2>3 DEF TypeOK
<1>5. BuildingInv' /\ ReceivingInv' /\ ReadingInv'
  BY <1>1, <1>3 DEF BuildingInv, ReceivingInv, ReadingInv, Writing
<1>6. CompleteInv' BY <1>3 DEF IInv, CompleteInv
<1> QED BY <1>3, <1>4, <1>5, <1>6 DEF IInv

LEMMA PacketPrintKeeps == ASSUME IInv, PacketPrint PROVE IInv'
<1> DEFINE c == content
           m == Len(c)
           rows == FieldRows(c)
           params == IF rows = <<>> THEN <<>> ELSE ScanParams(rows[Len(rows)])
<1>1. state = "complete" /\ TypeOK BY DEF PacketPrint, IInv
<1>2. /\ ScanFields = rows /\ Len(rows) = m /\ m \in Nat /\ Carries(buffer, c)
      /\ c \in Contents /\ buffer \in [0..MaxWords - 1 -> Int]
  BY <1>1, CompletePacket
<1>3. /\ position' = HeaderSize /\ paramData' = params /\ paramIndex' = Len(params) /\ readOk' = TRUE
      /\ fieldData' = rows /\ fieldIndex' = m
      /\ UNCHANGED <<buffer, size, state, tag, autoId, received, content, arriving>>
  <2> HIDE DEF rows, m
  <2> QED BY <1>2 DEF PacketPrint, rows, m
<1>4. params = (IF m = 0 THEN <<>> ELSE ParamRows(c, m)) /\ Len(params) \in Nat
  <2>1. CASE m = 0
    <3>1. rows = <<>> BY <2>1 DEF FieldRows
    <3>2. params = <<>> BY <3>1
    <3>3. Len(<<>>) = 0 OBVIOUS
    <3> HIDE DEF params
    <3> QED BY <2>1, <3>2, <3>3
  <2>2. CASE m # 0
    <3>1. m \in 1..Len(c) BY <1>2, <2>2
    <3>2. rows # <<>>
      <4>1. Len(<<>>) = 0 OBVIOUS
      <4> HIDE DEF rows
      <4> QED BY <1>2, <2>2, <4>1
    <3>3. params = ScanParams(rows[m])
      <4> HIDE DEF rows, m
      <4> QED BY <1>2, <3>2
    <3>4. ScanParams(rows[m]) = ParamRows(c, m) BY <1>2, <3>1, ScanParamsIs
    <3>5. Len(c[m].params) \in Nat BY <1>2, <3>1, ParamPlaces
    <3>6. Len(ParamRows(c, m)) \in Nat BY <3>5 DEF ParamRows
    <3> HIDE DEF params
    <3> QED BY <2>2, <3>3, <3>4, <3>6
  <2> QED BY <2>1, <2>2
<1> HIDE DEF rows, params, m
<1>5. TypeOK'
  <2>1. Len(fieldData') = m /\ Len(paramData') = Len(params) BY <1>2, <1>3
  <2>2. fieldIndex' \in 0..Len(fieldData') /\ paramIndex' \in 0..Len(paramData') BY <1>2, <1>3, <1>4, <2>1
  <2>3. position' \in 0..MaxWords BY <1>3, Sizes
  <2> QED BY <1>1, <1>3, <2>2, <2>3 DEF TypeOK
<1>6. BuildingInv' /\ ReceivingInv' BY <1>1, <1>3 DEF BuildingInv, ReceivingInv, Writing
<1>7. ReadingInv' BY <1>1, <1>3, <1>4 DEF ReadingInv, rows, c
<1>8. CompleteInv' BY <1>3 DEF IInv, CompleteInv
<1> QED BY <1>3, <1>5, <1>6, <1>7, <1>8 DEF IInv

LEMMA NextFieldKeeps == ASSUME IInv, NextField PROVE IInv'
<1> DEFINE c == content
           f == fieldIndex + 1
<1>1. /\ readOk /\ state = "complete" /\ TypeOK /\ fieldData = FieldRows(c)
      /\ fieldIndex < Len(fieldData)
  BY DEF NextField, IInv, ReadingInv
<1>2. /\ Len(fieldData) = Len(c) /\ Len(c) \in Nat /\ Carries(buffer, c)
      /\ c \in Contents /\ buffer \in [0..MaxWords - 1 -> Int]
  BY <1>1, CompletePacket
<1>3. f \in 1..Len(c) /\ f # 0 /\ f \in 0..Len(fieldData)
  <2>1. fieldIndex \in Nat
    <3>1. fieldIndex \in 0..Len(fieldData) BY <1>1 DEF TypeOK
    <3> QED BY <3>1
  <2> QED BY <1>1, <1>2, <2>1
<1>4. ScanParams(fieldData[f]) = ParamRows(c, f) BY <1>1, <1>2, <1>3, ScanParamsIs
<1>5. /\ paramData' = ParamRows(c, f) /\ paramIndex' = 0 /\ fieldIndex' = f
      /\ UNCHANGED <<buffer, size, state, position, tag, autoId, received, readOk, fieldData,
                     content, arriving>>
  BY <1>4 DEF NextField, writer
<1>6. Len(ParamRows(c, f)) \in Nat
  <2>1. Len(c[f].params) \in Nat BY <1>2, <1>3, ParamPlaces
  <2> QED BY <2>1 DEF ParamRows
<1> HIDE DEF c, f
<1>7. TypeOK'
  <2>1. paramIndex' \in 0..Len(paramData') /\ fieldIndex' \in 0..Len(fieldData') BY <1>3, <1>5, <1>6
  <2> QED BY <1>1, <1>5, <2>1 DEF TypeOK
<1>8. BuildingInv' /\ ReceivingInv' BY <1>1, <1>5 DEF BuildingInv, ReceivingInv, Writing
<1>9. ReadingInv' BY <1>1, <1>3, <1>5 DEF ReadingInv, c
<1>10. CompleteInv' BY <1>5 DEF IInv, CompleteInv
<1> QED BY <1>5, <1>7, <1>8, <1>9, <1>10 DEF IInv

LEMMA NextParamKeeps == ASSUME IInv, NextParam PROVE IInv'
<1>1. IInv /\ TypeOK BY DEF IInv
<1>2. /\ paramIndex < Len(paramData) /\ paramIndex' = paramIndex + 1
      /\ UNCHANGED <<buffer, size, state, position, tag, autoId, received, readOk, fieldData,
                     fieldIndex, paramData, content, arriving>>
  BY DEF NextParam, writer, fieldTable
<1>3. paramIndex' \in 0..Len(paramData')
  <2>1. paramIndex \in 0..Len(paramData) BY <1>1 DEF TypeOK
  <2>2. paramData' = paramData BY <1>2
  <2>3. paramIndex \in Nat /\ Len(paramData) \in Int
    <3> QED BY <1>2, <2>1
  <2> QED BY <1>2, <2>1, <2>2, <2>3
<1>4. TypeOK' BY <1>1, <1>2, <1>3 DEF TypeOK
<1>5. BuildingInv' /\ CompleteInv' /\ ReceivingInv' /\ ReadingInv'
  BY <1>1, <1>2 DEF IInv, BuildingInv, CompleteInv, ReceivingInv, ReadingInv, Writing
<1> QED BY <1>1, <1>2, <1>4, <1>5 DEF IInv

LEMMA ReadCompleteKeeps == ASSUME IInv, ReadComplete PROVE IInv'
<1>1. IInv /\ TypeOK BY DEF IInv
<1>2. TypeOK' BY <1>1, NoTable DEF TypeOK, ReadComplete, ReadingEnds, writer
<1>3. BuildingInv' /\ CompleteInv' /\ ReceivingInv' /\ ReadingInv'
  BY <1>1 DEF IInv, BuildingInv, CompleteInv, ReceivingInv, ReadingInv, Writing, ReadComplete,
              ReadingEnds, writer
<1> QED BY <1>1, <1>2, <1>3 DEF IInv, ReadComplete

(* Receiving *)
LEMMA EncodedSize ==
  ASSUME NEW c \in Contents
  PROVE  /\ Encode(c) \in Seq(Int) /\ Len(Encode(c)) \in Nat
         /\ HeaderSize + Len(Encode(c)) \in Nat /\ HeaderSize + Len(Encode(c)) >= 10
<1>1. /\ Encode(c) \in Seq(Int) /\ Len(EncodedFields(c)) \in Nat
      /\ Len(Encode(c)) = Len(EncodedFields(c)) + FooterSize
  BY FieldSeqsType, EncodeIs
<1> QED BY <1>1, Sizes

LEMMA ReceiveHeaderKeeps ==
  ASSUME IInv, NEW c \in Incoming, ReceiveHeader(c)
  PROVE  IInv'
<1> DEFINE total == HeaderSize + Len(Encode(c))
<1>1. c \in Contents BY PacketAssumption
<1>2. total \in Nat /\ total >= 10 BY <1>1, EncodedSize
<1>3. total = HeaderSize + Len(Encode(c)) OBVIOUS
<1>4. /\ total <= MaxWords /\ size' = IF size < total THEN total ELSE size
      /\ buffer' = [buffer EXCEPT ![SizeWord] = total] /\ state' = "rxHdrOk"
      /\ received' = HeaderSize /\ arriving' = c /\ content' = content
      /\ UNCHANGED <<position, tag, autoId>>
      /\ readOk' = FALSE /\ fieldData' = <<>> /\ fieldIndex' = 0 /\ paramData' = <<>> /\ paramIndex' = 0
  BY DEF ReceiveHeader, ReadingEnds, writer
<1>5. TypeOK /\ content \in Contents BY DEF IInv
<1>6. size \in MinWords..MaxWords + Headroom /\ buffer \in [0..MaxWords - 1 -> Int] BY <1>5 DEF TypeOK
<1> HIDE DEF total
<1>7. /\ buffer' \in [0..MaxWords - 1 -> Int] /\ buffer'[SizeWord] = total
  BY <1>2, <1>4, <1>6, Sizes
<1>8. size' \in MinWords..MaxWords + Headroom /\ total <= size' BY <1>2, <1>4, <1>6, Sizes
<1>9. TypeOK'
  <2>1. received' \in 0..MaxWords BY <1>4, Sizes
  <2> QED BY <1>4, <1>5, <1>7, <1>8, <2>1, NoTable DEF TypeOK
<1>10. ReceivingInv'
  <2>1. \A k \in 1..received' - HeaderSize : FALSE BY <1>4, Sizes
  <2>2. received' >= HeaderSize /\ received' <= total BY <1>2, <1>4, Sizes
  <2> QED BY <1>3, <1>4, <1>7, <1>8, <2>1, <2>2 DEF ReceivingInv
<1>11. BuildingInv' /\ CompleteInv' /\ ReadingInv'
  BY <1>4 DEF BuildingInv, CompleteInv, ReadingInv, Writing
<1> QED BY <1>1, <1>4, <1>5, <1>9, <1>10, <1>11 DEF IInv

LEMMA ReceiveBodyKeeps == ASSUME IInv, NEW n \in Deliveries, ReceiveBody(n) PROVE IInv'
<1> DEFINE c == arriving
           e == Encode(c)
           r == received - HeaderSize
           part == SubSeq(e, r + 1, r + n)
           total == buffer[SizeWord]
           w == Write(buffer, received, part)
<1>1. /\ state = "rxHdrOk" /\ received + n <= total /\ buffer' = w /\ received' = received + n
      /\ IF received + n = total
           THEN state' = "complete" /\ content' = c /\ arriving' = <<>>
           ELSE UNCHANGED <<state, content, arriving>>
      /\ UNCHANGED <<size, position, tag, autoId, readOk, fieldData, fieldIndex, paramData, paramIndex>>
  BY DEF ReceiveBody, writer, reader, fieldTable, paramTable
<1>2. TypeOK /\ content \in Contents /\ c \in Contents /\ ReceivingInv /\ ReadingInv BY DEF IInv
<1>3. /\ total = HeaderSize + Len(e) /\ total <= MaxWords /\ total <= size
      /\ received >= HeaderSize /\ received <= total
      /\ \A k \in 1..r : buffer[HeaderSize + k - 1] = e[k]
  BY <1>1, <1>2 DEF ReceivingInv
<1>4. ~readOk BY <1>1, <1>2 DEF ReadingInv
<1>5. buffer \in Buffers /\ received \in 0..MaxWords BY <1>2 DEF TypeOK, Buffers
<1>6. n \in Nat /\ n >= 1 BY PacketAssumption
<1>7. e \in Seq(Int) /\ Len(e) \in Nat BY <1>2, EncodedSize
<1> HIDE DEF e, c, total, w
<1>8. r \in Nat /\ r + n <= Len(e) /\ received = r + 8 BY <1>1, <1>3, <1>5, <1>6, <1>7, Sizes
<1> HIDE DEF r
<1>9. /\ part \in Seq(Int) /\ Len(part) = n
      /\ \A k \in 1..n : part[k] = e[r + k]
  BY <1>6, <1>7, <1>8
<1> HIDE DEF part
<1>10. /\ w \in Buffers /\ Holds(w, received, part)
       /\ \A i \in 0..MaxWords - 1 : i < received \/ i >= received + Len(part) => w[i] = buffer[i]
  <2>1. received + Len(part) <= MaxWords /\ received \in Nat
    <3>1. received + n <= total /\ total <= MaxWords /\ total \in Int /\ received \in Nat
      BY <1>1, <1>3, <1>5, <1>7, Sizes
    <3> QED BY <1>6, <1>9, <3>1, Sizes
  <2> QED BY <1>5, <1>9, <2>1, WriteHas DEF w
<1>11. w[SizeWord] = total BY <1>8, <1>10, Sizes DEF total
<1>12. ASSUME NEW k \in 1..r + n PROVE w[HeaderSize + k - 1] = e[k]
  <2>1. CASE k <= r
    <3>1. k \in 1..r /\ HeaderSize + k - 1 \in 0..MaxWords - 1 /\ HeaderSize + k - 1 < received
      BY <1>3, <1>5, <1>6, <1>8, <2>1, Sizes
    <3> QED BY <1>3, <1>10, <3>1
  <2>2. CASE k > r
    <3> DEFINE j == k - r
    <3>1. j \in 1..n /\ r + j = k /\ received + j - 1 = HeaderSize + k - 1 BY <1>6, <1>8, <2>2, Sizes
    <3> HIDE DEF j
    <3>2. w[received + j - 1] = part[j] BY <1>9, <1>10, <3>1 DEF Holds
    <3> QED BY <1>9, <3>1, <3>2
  <2> QED BY <1>6, <1>8, <2>1, <2>2
<1>13. received' \in 0..MaxWords /\ received' - HeaderSize = r + n /\ received' >= HeaderSize
  <2>1. total \in Int BY <1>3, <1>7, Sizes
  <2> QED BY <1>1, <1>3, <1>5, <1>6, <1>8, <2>1, Sizes
<1>14. TypeOK'
  <2>1. buffer' \in [0..MaxWords - 1 -> Int] BY <1>1, <1>10 DEF Buffers
  <2>2. state' \in {"complete", "rxHdrOk"} BY <1>1
  <2> QED BY <1>1, <1>2, <1>13, <2>1, <2>2 DEF TypeOK
<1>15. CASE received + n = total
  <2>1. state' = "complete" /\ content' = c /\ arriving' = <<>> BY <1>1, <1>15
  <2>2. r + n = Len(e) BY <1>3, <1>6, <1>7, <1>8, <1>15, Sizes
  <2>3. Carries(w, c) /\ w[SizeWord] <= size
    <3>1. w[SizeWord] = HeaderSize + Len(e) /\ w[SizeWord] <= MaxWords /\ w[SizeWord] <= size
      BY <1>3, <1>11
    <3>2. Holds(w, HeaderSize, e) BY <1>12, <2>2 DEF Holds
    <3> QED BY <3>1, <3>2 DEF Carries, e
  <2>4. CompleteInv' BY <1>1, <2>1, <2>3 DEF CompleteInv
  <2>5. BuildingInv' /\ ReceivingInv' /\ ReadingInv'
    BY <1>1, <1>4, <2>1 DEF BuildingInv, ReceivingInv, ReadingInv, Writing
  <2>6. content' \in Contents /\ arriving' \in Contents BY <1>2, <2>1, NoFields
  <2> QED BY <1>14, <2>4, <2>5, <2>6 DEF IInv
<1>16. CASE received + n # total
  <2>1. UNCHANGED <<state, content, arriving>> BY <1>1, <1>16
  <2>2. ReceivingInv'
    <3>1. /\ buffer'[SizeWord] = HeaderSize + Len(Encode(arriving'))
          /\ buffer'[SizeWord] <= MaxWords /\ buffer'[SizeWord] <= size'
          /\ received' <= buffer'[SizeWord]
      BY <1>1, <1>3, <1>11, <2>1 DEF e, c
    <3>2. \A k \in 1..received' - HeaderSize : buffer'[HeaderSize + k - 1] = Encode(arriving')[k]
      BY <1>1, <1>12, <1>13, <2>1 DEF e, c
    <3> QED BY <1>13, <3>1, <3>2 DEF ReceivingInv
  <2>3. BuildingInv' /\ CompleteInv' /\ ReadingInv'
    BY <1>1, <1>4, <2>1 DEF BuildingInv, CompleteInv, ReadingInv, Writing
  <2>4. content' \in Contents /\ arriving' \in Contents BY <1>2, <2>1 DEF c
  <2> QED BY <1>14, <2>2, <2>3, <2>4 DEF IInv
<1> QED BY <1>15, <1>16

LEMMA FileReadKeeps == ASSUME IInv, NEW c \in Incoming, FileRead(c) PROVE IInv'
<1> DEFINE e == Encode(c)
           total == HeaderSize + Len(e)
           header == [buffer EXCEPT ![SizeWord] = total]
           w == Write(header, HeaderSize, e)
<1>1. c \in Contents BY PacketAssumption
<1>2. e \in Seq(Int) /\ Len(e) \in Nat /\ total \in Nat /\ total >= 10 BY <1>1, EncodedSize
<1>3. /\ total <= MaxWords /\ size' = IF size < total THEN total ELSE size
      /\ \/ buffer' = w /\ state' = "complete" /\ content' = c
         \/ buffer' = header /\ state' = "freadError" /\ content' = <<>>
      /\ arriving' = <<>> /\ UNCHANGED <<position, tag, autoId, received>>
      /\ readOk' = FALSE /\ fieldData' = <<>> /\ fieldIndex' = 0 /\ paramData' = <<>> /\ paramIndex' = 0
  BY DEF FileRead, ReadingEnds, writer
<1>4. TypeOK /\ content \in Contents BY DEF IInv
<1>5. size \in MinWords..MaxWords + Headroom /\ buffer \in Buffers BY <1>4 DEF TypeOK, Buffers
<1>6. total = HeaderSize + Len(e) OBVIOUS
<1>7. header \in Buffers /\ header[SizeWord] = total BY <1>2, <1>5, Sizes DEF Buffers
<1> HIDE DEF e, total, header, w
<1>8. /\ w \in Buffers /\ Holds(w, HeaderSize, e)
      /\ \A i \in 0..MaxWords - 1 : i < HeaderSize \/ i >= HeaderSize + Len(e) => w[i] = header[i]
  <2>1. HeaderSize \in Nat /\ HeaderSize + Len(e) <= MaxWords BY <1>3, <1>6, Sizes
  <2> QED BY <1>2, <1>7, <2>1, WriteHas DEF w
<1>9. w[SizeWord] = total BY <1>7, <1>8, Sizes
<1>10. size' \in MinWords..MaxWords + Headroom /\ total <= size' BY <1>2, <1>3, <1>5, Sizes
<1>11. TypeOK'
  <2>1. buffer' \in [0..MaxWords - 1 -> Int] /\ state' \in {"complete", "freadError"}
    BY <1>3, <1>7, <1>8 DEF Buffers
  <2> QED BY <1>3, <1>4, <1>10, <2>1, NoTable DEF TypeOK
<1>12. CompleteInv'
  <2>1. CASE buffer' = w /\ state' = "complete" /\ content' = c
    <3>1. Carries(w, c) BY <1>3, <1>6, <1>8, <1>9 DEF Carries, e
    <3> QED BY <1>9, <1>10, <2>1, <3>1 DEF CompleteInv
  <2>2. CASE state' = "freadError" BY <2>2 DEF CompleteInv
  <2> QED BY <1>3, <2>1, <2>2
<1>13. BuildingInv' /\ ReceivingInv' /\ ReadingInv'
  BY <1>3 DEF BuildingInv, ReceivingInv, ReadingInv, Writing
<1>14. content' \in Contents /\ arriving' \in Contents BY <1>1, <1>3, NoFields
<1> QED BY <1>11, <1>12, <1>13, <1>14 DEF IInv

(* All of it *)
LEMMA NextIInv == ASSUME IInv, ~AnyState, [PacketsNext]_packetsVars PROVE IInv'
<1>1. CASE Next
  <2>1. CASE PacketWrite BY <2>1, PacketWriteKeeps
  <2>2. CASE WriteComplete BY <2>2, WriteCompleteKeeps
  <2>3. CASE PacketAppend BY <2>3, PacketAppendKeeps
  <2>4. CASE Clone BY <2>4, CloneKeeps
  <2>5. ASSUME NEW name \in Names, NEW id \in Ids \cup {NextNumber}, AddField(name, id) PROVE IInv'
    BY <2>5, AddFieldKeeps
  <2>6. ASSUME NEW name \in Names, AddParamInt(name) PROVE IInv' BY <2>6, AddParamIntKeeps
  <2>7. ASSUME NEW name \in Names, NEW length \in Lengths, AddParamData(name, length) PROVE IInv'
    BY <2>7, AddParamDataKeeps
  <2>8. CASE Consult
    BY <2>8, ReadKeeps, PacketPrintKeeps, NextFieldKeeps, NextParamKeeps, ReadCompleteKeeps DEF Consult
  <2>9. ASSUME NEW c \in Incoming, ReceiveHeader(c) PROVE IInv' BY <2>9, ReceiveHeaderKeeps
  <2>10. ASSUME NEW c \in Incoming, FileRead(c) PROVE IInv' BY <2>10, FileReadKeeps
  <2>11. ASSUME NEW n \in Deliveries, ReceiveBody(n) PROVE IInv' BY <2>11, ReceiveBodyKeeps
  <2> QED
    BY <1>1, <2>1, <2>2, <2>3, <2>4, <2>5, <2>6, <2>7, <2>8, <2>9, <2>10, <2>11
    DEF Next, Build, Receive
<1>2. CASE UNCHANGED vars
  <2>1. UNCHANGED <<buffer, size, state, position, tag, autoId, received, readOk, fieldData,
                    fieldIndex, paramData, paramIndex, content, arriving>>
    BY <1>2 DEF vars, writer, reader, fieldTable, paramTable
  <2>2. IInv /\ TypeOK BY DEF IInv
  <2>3. TypeOK' BY <2>1, <2>2 DEF TypeOK
  <2>4. BuildingInv' /\ CompleteInv' /\ ReceivingInv' /\ ReadingInv'
    BY <2>1, <2>2 DEF IInv, BuildingInv, CompleteInv, ReceivingInv, ReadingInv, Writing
  <2> QED BY <2>1, <2>2, <2>3, <2>4 DEF IInv
<1> QED BY <1>1, <1>2 DEF PacketsNext, Using, Converting, Stopped, packetsVars

(* What the invariant says of the properties *)
LEMMA NeverOverruns == ASSUME IInv PROVE PacketInv
<1>1. state \in {"writing", "fieldWritten"} => position + FooterSize <= size
  BY DEF IInv, BuildingInv, Writing
<1>2. state \in {"rxHdrOk", "complete"} => buffer[SizeWord] <= size
  BY DEF IInv, CompleteInv, ReceivingInv
<1> QED BY <1>1, <1>2 DEF PacketInv, NothingOverruns, IInv

LEMMA CompleteIsEncoded == ASSUME IInv PROVE BuiltAsEncoded
BY DEF IInv, CompleteInv, Carries, Holds, BuiltAsEncoded

(* Builder, receiver and reader keep to the encoding, for any contents, sizes *)
(* and deliveries, as long as a caller does not add to a packet it never      *)
(* began (AnyState).                                                          *)
THEOREM InductiveInvariant == ~AnyState /\ PacketsSpec => []IInv
<1> SUFFICES ASSUME ~AnyState PROVE PacketsSpec => []IInv OBVIOUS
<1>1. PacketsInit => IInv BY InitIInv DEF PacketsInit
<1>2. IInv /\ [PacketsNext]_packetsVars => IInv' BY NextIInv
<1> QED BY <1>1, <1>2, PTL DEF PacketsSpec

(* Nothing is written or read outside the buffer, and a packet in work keeps  *)
(* its place for the footer (packets.c).                                      *)
THEOREM PacketHolds == ~AnyState /\ PacketsSpec => []PacketInv
<1>1. IInv => PacketInv BY NeverOverruns
<1> QED BY <1>1, InductiveInvariant, PTL

(* A packet that is complete is the encoding of what its caller put into it,  *)
(* built, appended to, cloned, received in any pieces or read from a file.    *)
THEOREM BuildsTheEncoding == ~AnyState /\ PacketsSpec => []BuiltAsEncoded
<1>1. IInv => BuiltAsEncoded BY CompleteIsEncoded
<1> QED BY <1>1, InductiveInvariant, PTL

(* The reader finds exactly the fields and parameters of the content, in      *)
(* their order, and by name the first that has it.                            *)
THEOREM ReadsTheContent == ~AnyState /\ PacketsSpec => []ReadAsEncoded
<1>1. IInv => ReadAsEncoded BY ReaderIsCurrent, NamesAreFound DEF ReadAsEncoded
<1> QED BY <1>1, InductiveInvariant, PTL

-----------------------------------------------------------------------------
(* What is made element by element of a sequence, by the table M *)
FlatMap(M, s) == FlattenSeq([i \in 1..Len(s) |-> M[s[i]]])

(* Concatenation, once with names that can be cited *)
LEMMA ConcatAssoc ==
  ASSUME NEW T, NEW a \in Seq(T), NEW b \in Seq(T), NEW c \in Seq(T)
  PROVE  (a \o b) \o c = a \o (b \o c)
<1> DEFINE l == (a \o b) \o c
           r == a \o (b \o c)
<1>1. l \in Seq(T) /\ r \in Seq(T) /\ Len(l) = Len(r) OBVIOUS
<1>2. \A i \in 1..Len(l) : l[i] = r[i] OBVIOUS
<1> HIDE DEF l, r
<1>3. l = r BY <1>1, <1>2, SameSeq
<1> QED BY <1>3 DEF l, r

LEMMA ConcatAppend ==
  ASSUME NEW T, NEW a \in Seq(T), NEW b \in Seq(T), NEW e \in T
  PROVE  a \o Append(b, e) = Append(a \o b, e)
<1> DEFINE l == a \o Append(b, e)
           r == Append(a \o b, e)
<1>1. l \in Seq(T) /\ r \in Seq(T) /\ Len(l) = Len(r) OBVIOUS
<1>2. \A i \in 1..Len(l) : l[i] = r[i] OBVIOUS
<1> HIDE DEF l, r
<1>3. l = r BY <1>1, <1>2, SameSeq
<1> QED BY <1>3 DEF l, r

LEMMA ConcatEmpty ==
  ASSUME NEW T, NEW a \in Seq(T)
  PROVE  a \o <<>> = a /\ <<>> \o a = a /\ <<>> \in Seq(T)
OBVIOUS

LEMMA FlatMapType ==
  ASSUME NEW T, NEW U, NEW M \in [T -> Seq(U)], NEW s \in Seq(T)
  PROVE  /\ [i \in 1..Len(s) |-> M[s[i]]] \in Seq(Seq(U))
         /\ FlatMap(M, s) \in Seq(U)
<1>1. [i \in 1..Len(s) |-> M[s[i]]] \in Seq(Seq(U)) OBVIOUS
<1> QED BY <1>1, FlattenType DEF FlatMap

LEMMA FlatMapEmpty == ASSUME NEW M PROVE FlatMap(M, <<>>) = <<>>
<1>1. [i \in 1..Len(<<>>) |-> M[<<>>[i]]] = <<>> OBVIOUS
<1> QED BY <1>1, FlattenEmpty DEF FlatMap

LEMMA FlatMapAppend ==
  ASSUME NEW T, NEW U, NEW M \in [T -> Seq(U)], NEW s \in Seq(T), NEW e \in T
  PROVE  FlatMap(M, Append(s, e)) = FlatMap(M, s) \o M[e]
<1> DEFINE t == Append(s, e)
           ms == [i \in 1..Len(s) |-> M[s[i]]]
           mt == [i \in 1..Len(t) |-> M[t[i]]]
<1>1. /\ t \in Seq(T) /\ Len(s) \in Nat /\ Len(t) = Len(s) + 1 /\ t[Len(s) + 1] = e
      /\ \A i \in 1..Len(s) : t[i] = s[i]
  BY AppendHas
<1>2. M[e] \in Seq(U) OBVIOUS
<1>3. ms \in Seq(Seq(U)) /\ Len(ms) = Len(s) BY <1>1, FlatMapType
<1>4. mt \in Seq(Seq(U)) /\ Len(mt) = Len(s) + 1
  <2> HIDE DEF t
  <2> QED BY <1>1, FlatMapType
<1>5. mt[Len(s) + 1] = M[e] /\ \A i \in 1..Len(s) : mt[i] = ms[i]
  <2> HIDE DEF t
  <2> QED BY <1>1
<1> HIDE DEF ms, mt
<1> DEFINE a == Append(ms, M[e])
<1>6. /\ a \in Seq(Seq(U)) /\ Len(a) = Len(s) + 1 /\ a[Len(s) + 1] = M[e]
      /\ \A i \in 1..Len(s) : a[i] = ms[i]
  BY <1>2, <1>3, AppendHas
<1> HIDE DEF a
<1>7. mt = a
  <2>1. ASSUME NEW i \in 1..Len(s) + 1 PROVE mt[i] = a[i]
    <3>1. CASE i = Len(s) + 1 BY <1>5, <1>6, <3>1
    <3>2. CASE i # Len(s) + 1
      <4>1. i \in 1..Len(s) BY <1>1, <3>2
      <4> QED BY <1>5, <1>6, <4>1
    <3> QED BY <3>1, <3>2
  <2> QED BY <1>4, <1>6, <2>1, SameSeq
<1>8. FlattenSeq(a) = FlattenSeq(ms) \o M[e] BY <1>2, <1>3, FlattenStep DEF a
<1> QED BY <1>7, <1>8 DEF FlatMap, ms, mt, t

(* FlatMap goes through a concatenation ... *)
LEMMA FlatMapConcat ==
  ASSUME NEW T, NEW U, NEW M \in [T -> Seq(U)], NEW s \in Seq(T), NEW t \in Seq(T)
  PROVE  FlatMap(M, s \o t) = FlatMap(M, s) \o FlatMap(M, t)
<1> DEFINE P(n) == SubSeq(t, 1, n)
           Good(n) == FlatMap(M, s \o P(n)) = FlatMap(M, s) \o FlatMap(M, P(n))
           G == {n \in Nat : n <= Len(t) => Good(n)}
<1>0. FlatMap(M, s) \in Seq(U) BY FlatMapType
<1>00. \A a, b, c \in Seq(U) : (a \o b) \o c = a \o (b \o c) BY ConcatAssoc, SMTT(40)
<1>1. 0 \in G
  <2>1. P(0) = <<>> OBVIOUS
  <2>2. s \o <<>> = s BY ConcatEmpty
  <2>3. FlatMap(M, s) \o <<>> = FlatMap(M, s) BY <1>0, ConcatEmpty
  <2> HIDE DEF P
  <2>4. Good(0) BY <2>1, <2>2, <2>3, FlatMapEmpty
  <2> HIDE DEF Good
  <2> QED BY <2>4
<1>2. ASSUME NEW n \in Nat, n \in G PROVE n + 1 \in G
  <2>0. SUFFICES ASSUME n + 1 <= Len(t) PROVE Good(n + 1)
    <3> HIDE DEF Good
    <3> QED OBVIOUS
  <2> DEFINE e == t[n + 1]
  <2>1. P(n) \in Seq(T) /\ P(n + 1) = Append(P(n), e) /\ e \in T
    <3>1. n + 1 \in 1..Len(t) /\ n + 1 - 1 = n BY <2>0
    <3> QED BY <3>1, PrefixStep
  <2>2. Good(n)
    <3> HIDE DEF Good
    <3>1. n <= Len(t) BY <2>0
    <3> QED BY <1>2, <3>1
  <2> HIDE DEF P, e
  <2>3. s \o P(n) \in Seq(T) /\ s \o Append(P(n), e) = Append(s \o P(n), e)
    <3>1. P(n) \in Seq(T) /\ e \in T BY <2>1
    <3>2. s \o P(n) \in Seq(T) BY <3>1, ConcatHas
    <3>3. s \o Append(P(n), e) = Append(s \o P(n), e) BY <3>1, ConcatAppend
    <3> QED BY <3>2, <3>3
  <2>4. FlatMap(M, Append(s \o P(n), e)) = FlatMap(M, s \o P(n)) \o M[e] BY <2>1, <2>3, FlatMapAppend
  <2>5. FlatMap(M, Append(P(n), e)) = FlatMap(M, P(n)) \o M[e] BY <2>1, FlatMapAppend
  <2>6. FlatMap(M, P(n)) \in Seq(U) /\ M[e] \in Seq(U) BY <2>1, FlatMapType
  <2>7. (FlatMap(M, s) \o FlatMap(M, P(n))) \o M[e] = FlatMap(M, s) \o (FlatMap(M, P(n)) \o M[e])
    <3> DEFINE x == FlatMap(M, s)
               y == FlatMap(M, P(n))
               z == M[e]
    <3>1. x \in Seq(U) /\ y \in Seq(U) /\ z \in Seq(U) BY <1>0, <2>6
    <3> HIDE DEF x, y, z
    <3>2. (x \o y) \o z = x \o (y \o z) BY <1>00, <3>1
    <3> QED BY <3>2 DEF x, y, z
  <2> QED BY <2>1, <2>2, <2>3, <2>4, <2>5, <2>7
<1>3. \A n \in Nat : n \in G
  <2> HIDE DEF G
  <2> QED BY <1>1, <1>2, NatSetInduction
<1>4. Good(Len(t))
  <2> HIDE DEF Good
  <2> QED BY <1>3
<1>5. P(Len(t)) = t OBVIOUS
<1> QED BY <1>4, <1>5

(* ... and through FlattenSeq. *)
LEMMA FlatMapFlatten ==
  ASSUME NEW T, NEW U, NEW M \in [T -> Seq(U)]
  PROVE  \A ss \in Seq(Seq(T)) :
           FlatMap(M, FlattenSeq(ss)) = FlattenSeq([i \in 1..Len(ss) |-> FlatMap(M, ss[i])])
<1>00. \A a, b \in Seq(T) : FlatMap(M, a \o b) = FlatMap(M, a) \o FlatMap(M, b)
  BY FlatMapConcat
<1> SUFFICES ASSUME NEW ss \in Seq(Seq(T))
             PROVE  FlatMap(M, FlattenSeq(ss))
                      = FlattenSeq([i \in 1..Len(ss) |-> FlatMap(M, ss[i])])
  OBVIOUS
<1> DEFINE ms == [i \in 1..Len(ss) |-> FlatMap(M, ss[i])]
<1>0. ms \in Seq(Seq(U)) /\ Len(ms) = Len(ss) /\ \A i \in 1..Len(ss) : ms[i] = FlatMap(M, ss[i])
  <2>1. \A i \in 1..Len(ss) : ss[i] \in Seq(T) OBVIOUS
  <2>2. \A i \in 1..Len(ss) : FlatMap(M, ss[i]) \in Seq(U) BY <2>1, FlatMapType
  <2> QED BY <2>2
<1> HIDE DEF ms
<1> DEFINE P(n) == SubSeq(ss, 1, n)
           Q(n) == SubSeq(ms, 1, n)
           Good(n) == FlatMap(M, FlattenSeq(P(n))) = FlattenSeq(Q(n))
           G == {n \in Nat : n <= Len(ss) => Good(n)}
<1>1. 0 \in G
  <2>1. P(0) = <<>> /\ Q(0) = <<>> BY <1>0
  <2> HIDE DEF P, Q
  <2>2. Good(0) BY <2>1, FlattenEmpty, FlatMapEmpty
  <2> HIDE DEF Good
  <2> QED BY <2>2
<1>2. ASSUME NEW n \in Nat, n \in G PROVE n + 1 \in G
  <2>0. SUFFICES ASSUME n + 1 <= Len(ss) PROVE Good(n + 1)
    <3> HIDE DEF Good
    <3> QED OBVIOUS
  <2> DEFINE e == ss[n + 1]
             f == ms[n + 1]
  <2>1. /\ P(n) \in Seq(Seq(T)) /\ P(n + 1) = Append(P(n), e) /\ e \in Seq(T)
        /\ Q(n) \in Seq(Seq(U)) /\ Q(n + 1) = Append(Q(n), f) /\ f \in Seq(U)
    <3>1. n + 1 \in 1..Len(ss) /\ n + 1 \in 1..Len(ms) /\ n + 1 - 1 = n BY <1>0, <2>0
    <3>2. P(n) \in Seq(Seq(T)) /\ P(n + 1) = Append(P(n), e) /\ e \in Seq(T)
      BY <3>1, PrefixStep
    <3>3. Q(n) \in Seq(Seq(U)) /\ Q(n + 1) = Append(Q(n), f) /\ f \in Seq(U)
      BY <1>0, <3>1, PrefixStep
    <3> QED BY <3>2, <3>3
  <2>2. f = FlatMap(M, e) BY <1>0, <2>0
  <2>3. Good(n)
    <3> HIDE DEF Good
    <3>1. n <= Len(ss) BY <2>0
    <3> QED BY <1>2, <3>1
  <2> HIDE DEF P, Q, e, f
  <2>4. FlattenSeq(Append(P(n), e)) = FlattenSeq(P(n)) \o e /\ FlattenSeq(P(n)) \in Seq(T)
    BY <2>1, FlattenStep, FlattenType
  <2>5. FlattenSeq(Append(Q(n), f)) = FlattenSeq(Q(n)) \o f BY <2>1, FlattenStep
  <2>6. FlatMap(M, FlattenSeq(P(n)) \o e) = FlatMap(M, FlattenSeq(P(n))) \o FlatMap(M, e)
    <3>1. FlattenSeq(P(n)) \in Seq(T) /\ e \in Seq(T) BY <2>1, <2>4
    <3> QED BY <1>00, <3>1
  <2> QED BY <2>1, <2>2, <2>3, <2>4, <2>5, <2>6
<1>3. \A n \in Nat : n \in G
  <2> HIDE DEF G
  <2> QED BY <1>1, <1>2, NatSetInduction
<1>4. Good(Len(ss))
  <2> HIDE DEF Good
  <2> QED BY <1>3
<1>5. P(Len(ss)) = ss /\ Q(Len(ss)) = ms
  <2>1. SubSeq(ms, 1, Len(ms)) = ms BY <1>0
  <2> QED BY <1>0, <2>1
<1> QED BY <1>4, <1>5 DEF ms

(* A sequence of sequences is E[Len(s)] put together, when E[n] is what its   *)
(* first n elements make                                                      *)
LEMMA FlattenBuilt ==
  ASSUME NEW T, NEW s \in Seq(Seq(T)), NEW E, E[0] = <<>>,
         \A n \in 0..Len(s) - 1 : E[n + 1] = E[n] \o s[n + 1]
  PROVE  FlattenSeq(s) = E[Len(s)]
<1> DEFINE P(n) == SubSeq(s, 1, n)
           Good(n) == FlattenSeq(P(n)) = E[n]
           G == {n \in Nat : n <= Len(s) => Good(n)}
<1>1. 0 \in G
  <2>1. P(0) = <<>> OBVIOUS
  <2> HIDE DEF P
  <2>2. Good(0) BY <2>1, FlattenEmpty
  <2> HIDE DEF Good
  <2> QED BY <2>2
<1>2. ASSUME NEW n \in Nat, n \in G PROVE n + 1 \in G
  <2>0. SUFFICES ASSUME n + 1 <= Len(s) PROVE Good(n + 1)
    <3> HIDE DEF Good
    <3> QED OBVIOUS
  <2>1. P(n) \in Seq(Seq(T)) /\ P(n + 1) = Append(P(n), s[n + 1]) /\ s[n + 1] \in Seq(T)
    <3>1. n + 1 \in 1..Len(s) /\ n + 1 - 1 = n BY <2>0
    <3> QED BY <3>1, PrefixStep
  <2>2. Good(n)
    <3> HIDE DEF Good
    <3>1. n <= Len(s) BY <2>0
    <3> QED BY <1>2, <3>1
  <2>3. E[n + 1] = E[n] \o s[n + 1]
    <3>1. n \in 0..Len(s) - 1 BY <2>0
    <3> QED BY <3>1
  <2> HIDE DEF P
  <2>4. FlattenSeq(Append(P(n), s[n + 1])) = FlattenSeq(P(n)) \o s[n + 1] BY <2>1, FlattenStep
  <2> QED BY <2>1, <2>2, <2>3, <2>4
<1>3. \A n \in Nat : n \in G
  <2> HIDE DEF G
  <2> QED BY <1>1, <1>2, NatSetInduction
<1>4. Good(Len(s))
  <2> HIDE DEF Good
  <2> QED BY <1>3
<1>5. P(Len(s)) = s OBVIOUS
<1> QED BY <1>4, <1>5

-----------------------------------------------------------------------------
(* What the calls of json_append that are to come will have told *)
Marks == {"{", "}", ",", "end", "FIELD"}
Says == ({"mark"} \X Marks) \cup ({"param", "value", "field", "id"} \X Nat)
          \cup {<<"header">>, <<"more">>, <<"incomplete">>}
Calls == [says : Says, length : Nat, line : BOOLEAN]
OneTold == [x \in Says |-> IF Tells(x) THEN <<x>> ELSE <<>>]
OneTelling == [p \in Calls |-> OneTold[p.says]]
Telling(ps) == FlatMap(OneTelling, ps)

(* The calls ps tell t *)
Saying(ps, t) == ps \in Seq(Calls) /\ t \in Seq(Says) /\ Telling(ps) = t

LEMMA OneToldType == OneTold \in [Says -> Seq(Says)] /\ OneTelling \in [Calls -> Seq(Says)]
<1>1. \A x \in Says : (IF Tells(x) THEN <<x>> ELSE <<>>) \in Seq(Says)
  <2> HIDE DEF Says
  <2> QED OBVIOUS
<1>2. OneTold \in [Says -> Seq(Says)]
  <2> HIDE DEF Says
  <2> QED BY <1>1 DEF OneTold
<1>3. \A p \in Calls : p.says \in Says
  <2> HIDE DEF Says
  <2> QED BY DEF Calls
<1>4. \A p \in Calls : OneTold[p.says] \in Seq(Says)
  <2> HIDE DEF Says, Calls, OneTold
  <2> QED BY <1>2, <1>3
<1> HIDE DEF Says, Calls, OneTold
<1> QED BY <1>2, <1>4 DEF OneTelling

LEMMA ToldIs == ASSUME NEW text \in Seq(Says) PROVE Told(text) = FlatMap(OneTold, text)
<1>1. \A i \in 1..Len(text) : text[i] \in Says OBVIOUS
<1>2. [i \in 1..Len(text) |-> IF Tells(text[i]) THEN <<text[i]>> ELSE <<>>]
        = [i \in 1..Len(text) |-> OneTold[text[i]]]
  <2> HIDE DEF Says
  <2> QED BY <1>1 DEF OneTold
<1> QED BY <1>2 DEF Told, FlatMap

(* How what calls tell is put together, from the calls up *)
LEMMA SayingNothing == Saying(<<>>, <<>>)
BY FlatMapEmpty DEF Saying, Telling

LEMMA TellingConcat ==
  \A p, q \in Seq(Calls) :
    FlatMap(OneTelling, p \o q) = FlatMap(OneTelling, p) \o FlatMap(OneTelling, q)
<1>1. OneTelling \in [Calls -> Seq(Says)] BY OneToldType
<1>2. ASSUME NEW T, NEW U, NEW M, M \in [T -> Seq(U)]
      PROVE  \A a, b \in Seq(T) : FlatMap(M, a \o b) = FlatMap(M, a) \o FlatMap(M, b)
  BY <1>2, FlatMapConcat
<1>3. \A M : M \in [Calls -> Seq(Says)] =>
        \A a, b \in Seq(Calls) : FlatMap(M, a \o b) = FlatMap(M, a) \o FlatMap(M, b)
  BY <1>2
<1> QED BY <1>1, <1>3

LEMMA SayingConcat ==
  ASSUME NEW p, NEW t, NEW q, NEW u, Saying(p, t), Saying(q, u)
  PROVE  Saying(p \o q, t \o u)
<1>1. p \in Seq(Calls) /\ q \in Seq(Calls) BY DEF Saying
<1>2. t \in Seq(Says) /\ u \in Seq(Says) BY DEF Saying
<1>3. FlatMap(OneTelling, p \o q) = FlatMap(OneTelling, p) \o FlatMap(OneTelling, q)
  BY <1>1, TellingConcat
<1>4. p \o q \in Seq(Calls)
  <2> HIDE DEF Calls
  <2> QED BY <1>1, ConcatHas
<1>5. t \o u \in Seq(Says)
  <2> HIDE DEF Says
  <2> QED BY <1>2, ConcatHas
<1>6. FlatMap(OneTelling, p) = t /\ FlatMap(OneTelling, q) = u BY DEF Saying, Telling
<1> QED BY <1>3, <1>4, <1>5, <1>6 DEF Saying, Telling

LEMMA SayingFlatten ==
  ASSUME NEW n \in Nat, NEW s, NEW t,
         s = [i \in 1..n |-> s[i]], t = [i \in 1..n |-> t[i]],
         \A i \in 1..n : Saying(s[i], t[i])
  PROVE  Saying(FlattenSeq(s), FlattenSeq(t))
<1>1. \A i \in 1..n : s[i] \in Seq(Calls) /\ t[i] \in Seq(Says) /\ FlatMap(OneTelling, s[i]) = t[i]
  BY DEF Saying, Telling
<1>2. s \in Seq(Seq(Calls)) /\ Len(s) = n
  <2>1. \A i \in 1..n : s[i] \in Seq(Calls) BY <1>1
  <2> HIDE DEF Calls, Says
  <2>2. s \in [1..n -> Seq(Calls)] BY <2>1
  <2> QED BY <2>2
<1>3. t \in Seq(Seq(Says))
  <2>1. \A i \in 1..n : t[i] \in Seq(Says) BY <1>1
  <2> HIDE DEF Calls, Says
  <2>2. t \in [1..n -> Seq(Says)] BY <2>1
  <2> QED BY <2>2
<1>4. FlattenSeq(s) \in Seq(Calls) /\ FlattenSeq(t) \in Seq(Says) BY <1>2, <1>3, FlattenType
<1>5. \A ss \in Seq(Seq(Calls)) :
        FlatMap(OneTelling, FlattenSeq(ss))
          = FlattenSeq([i \in 1..Len(ss) |-> FlatMap(OneTelling, ss[i])])
  BY OneToldType, FlatMapFlatten
<1>6. FlatMap(OneTelling, FlattenSeq(s)) = FlattenSeq([i \in 1..n |-> FlatMap(OneTelling, s[i])])
  BY <1>2, <1>5
<1>7. [i \in 1..n |-> FlatMap(OneTelling, s[i])] = t BY <1>1
<1> QED BY <1>4, <1>6, <1>7 DEF Saying, Telling

LEMMA SayingOne ==
  ASSUME NEW p \in Calls
  PROVE  Saying(<<p>>, OneTold[p.says])
<1>1. <<p>> \in Seq(Calls) /\ OneTelling[p] = OneTold[p.says] /\ OneTelling[p] \in Seq(Says)
  <2> HIDE DEF Calls, Says
  <2> QED BY OneToldType DEF OneTelling
<1>2. <<p>> = Append(<<>>, p) /\ <<>> \in Seq(Calls)
  <2> HIDE DEF Calls, Says
  <2> QED OBVIOUS
<1>3. FlatMap(OneTelling, <<p>>) = FlatMap(OneTelling, <<>>) \o OneTelling[p]
  <2> HIDE DEF Calls, Says, OneTelling
  <2> QED BY <1>2, OneToldType, FlatMapAppend
<1>4. <<>> \o OneTelling[p] = OneTelling[p] BY <1>1, ConcatEmpty
<1> QED BY <1>1, <1>3, <1>4, FlatMapEmpty DEF Saying, Telling

-----------------------------------------------------------------------------
(* What the pieces of a packet tell *)
PrintedParam == [type : {"string", "int", "data"}, name : Nat, length : Nat, width : Nat]
PrintedField == [name : Nat, id : Nat, params : Seq(PrintedParam)]

LEMMA PrintedAre == PrintedContents = Seq(PrintedField)
BY DEF PrintedContents, PrintedField, PrintedParam

(* Single calls *)
LEMMA SayingFact ==
  ASSUME NEW says \in Says, NEW length \in Nat, NEW line \in BOOLEAN
  PROVE  Saying(<<Piece(says, length, line)>>, IF Tells(says) THEN <<says>> ELSE <<>>)
<1>1. Piece(says, length, line) \in Calls /\ Piece(says, length, line).says = says
  <2> HIDE DEF Says
  <2> QED BY DEF Piece, Calls
<1>2. OneTold[says] = IF Tells(says) THEN <<says>> ELSE <<>>
  <2> HIDE DEF Says
  <2> QED BY DEF OneTold
<1> HIDE DEF Calls, Says
<1> QED BY <1>1, <1>2, SayingOne

LEMMA SayingNumber ==
  ASSUME NEW kind \in {"param", "value", "field", "id"}, NEW n \in Nat, NEW length \in Nat,
         NEW line \in BOOLEAN
  PROVE  Saying(<<Piece(<<kind, n>>, length, line)>>, <<<<kind, n>>>>)
<1>1. <<kind, n>> \in Says BY DEF Says
<1>2. Tells(<<kind, n>>) BY DEF Tells
<1> QED BY <1>1, <1>2, SayingFact

LEMMA SayingMark ==
  ASSUME NEW m \in Marks, NEW length \in Nat, NEW line \in BOOLEAN
  PROVE  Saying(<<Piece(<<"mark", m>>, length, line)>>, <<>>)
<1>1. <<"mark", m>> \in Says
  <2> HIDE DEF Marks
  <2> QED BY DEF Says
<1>2. ~Tells(<<"mark", m>>)
  <2> HIDE DEF Marks
  <2> QED BY DEF Tells
<1> HIDE DEF Marks, Says
<1> QED BY <1>1, <1>2, SayingFact

LEMMA SayingHeader ==
  ASSUME NEW length \in Nat, NEW line \in BOOLEAN
  PROVE  /\ Saying(<<Piece(<<"header">>, length, line)>>, <<>>)
         /\ Saying(<<Piece(<<"more">>, length, line)>>, <<<<"more">>>>)
<1>1. <<"header">> \in Says /\ <<"more">> \in Says BY DEF Says
<1>2. ~Tells(<<"header">>) /\ Tells(<<"more">>) BY DEF Tells
<1> QED BY <1>1, <1>2, SayingFact

(* Both silent *)
LEMMA SilentConcat ==
  ASSUME NEW p, NEW q, Saying(p, <<>>), Saying(q, <<>>) PROVE Saying(p \o q, <<>>)
<1>1. Saying(p \o q, <<>> \o <<>>) BY SayingConcat
<1>2. <<>> \o <<>> = <<>> BY ConcatEmpty
<1> QED BY <1>1, <1>2

LEMMA SilentBefore ==
  ASSUME NEW p, NEW q, NEW t, Saying(p, <<>>), Saying(q, t) PROVE Saying(p \o q, t)
<1>1. Saying(p \o q, <<>> \o t) BY SayingConcat
<1>2. <<>> \o t = t BY ConcatEmpty DEF Saying
<1> QED BY <1>1, <1>2

LEMMA SilentAfter ==
  ASSUME NEW p, NEW q, NEW t, Saying(p, t), Saying(q, <<>>) PROVE Saying(p \o q, t)
<1>1. Saying(p \o q, t \o <<>>) BY SayingConcat
<1>2. t \o <<>> = t BY ConcatEmpty DEF Saying
<1> QED BY <1>1, <1>2

LEMMA MarksAreSilent ==
  \A m \in {"{", "}", ",", "end", "FIELD"}, length \in Nat, line \in BOOLEAN :
    Saying(<<Piece(<<"mark", m>>, length, line)>>, <<>>)
<1>1. \A m \in Marks, length \in Nat, line \in BOOLEAN :
        Saying(<<Piece(<<"mark", m>>, length, line)>>, <<>>)
  BY SayingMark
<1> QED BY <1>1, Zenon DEF Marks

LEMMA TwoPieces ==
  ASSUME NEW a, NEW b
  PROVE  <<a, b>> = <<a>> \o <<b>>
<1> DEFINE T == {a, b}
           l == <<a, b>>
           r == <<a>> \o <<b>>
<1>1. l \in Seq(T) /\ Len(l) = 2 /\ l[1] = a /\ l[2] = b OBVIOUS
<1>2. <<a>> \in Seq(T) /\ <<b>> \in Seq(T) OBVIOUS
<1>3. Len(<<a>>) = 1 /\ Len(<<b>>) = 1 /\ <<a>>[1] = a /\ <<b>>[1] = b OBVIOUS
<1>4. r \in Seq(T) /\ Len(r) = 2 /\ r[1] = a /\ r[2] = b
  <2> DEFINE x == <<a>>
             y == <<b>>
  <2>1. /\ x \in Seq(T) /\ y \in Seq(T) /\ Len(x) = 1 /\ Len(y) = 1 /\ x[1] = a /\ y[1] = b
    BY <1>2, <1>3
  <2> HIDE DEF x, y, T
  <2>2. x \o y \in Seq(T) /\ Len(x \o y) = 2 /\ (x \o y)[1] = a /\ (x \o y)[2] = b
    <3>1. /\ x \o y \in Seq(T) /\ Len(x \o y) = Len(x) + Len(y)
          /\ \A k \in 1..Len(x) : (x \o y)[k] = x[k]
          /\ \A k \in 1..Len(y) : (x \o y)[Len(x) + k] = y[k]
      <4>1. x \in Seq(T) /\ y \in Seq(T) BY <2>1
      <4> QED BY <4>1, ConcatHas
    <3>2. 1 \in 1..Len(x) /\ 1 \in 1..Len(y) /\ Len(x) + Len(y) = 2 /\ Len(x) + 1 = 2 BY <2>1
    <3> QED BY <2>1, <3>1, <3>2
  <2> QED BY <2>2 DEF x, y
<1> HIDE DEF l, r, T
<1>5. \A i \in 1..2 : l[i] = r[i]
  <2> TAKE i \in 1..2
  <2>1. i = 1 \/ i = 2 OBVIOUS
  <2> QED BY <1>1, <1>4, <2>1
<1>6. l = r BY <1>1, <1>4, <1>5, SameSeq
<1> QED BY <1>6 DEF l, r

LEMMA EightPieces ==
  ASSUME NEW a, NEW b, NEW c, NEW d, NEW e, NEW f, NEW g, NEW h
  PROVE  <<a, b, c, d, e, f, g, h>> = <<a, b, c, d>> \o <<e, f, g, h>>
OBVIOUS

LEMMA TwoSilent ==
  ASSUME NEW a, NEW b, Saying(<<a>>, <<>>), Saying(<<b>>, <<>>)
  PROVE  Saying(<<a, b>>, <<>>)
BY TwoPieces, SilentConcat

LEMMA FourTell ==
  \A a, b, c, d, u : Saying(<<a, b>>, <<>>) /\ Saying(<<c, d>>, u) => Saying(<<a, b, c, d>>, u)
<1> TAKE a, b, c, d, u
<1> DEFINE l == <<a, b, c, d>>
           r == <<a, b>> \o <<c, d>>
<1>1. l = r OBVIOUS
<1> HIDE DEF l, r
<1> HAVE Saying(<<a, b>>, <<>>) /\ Saying(<<c, d>>, u)
<1>2. Saying(<<a, b>> \o <<c, d>>, u) BY SilentBefore
<1>3. Saying(l, u) BY <1>1, <1>2 DEF r
<1> QED BY <1>3 DEF l

LEMMA FourSilent ==
  ASSUME NEW a, NEW b, NEW c, NEW d,
         Saying(<<a>>, <<>>), Saying(<<b>>, <<>>), Saying(<<c>>, <<>>), Saying(<<d>>, <<>>)
  PROVE  Saying(<<a, b, c, d>>, <<>>)
<1>1. Saying(<<a, b>>, <<>>) /\ Saying(<<c, d>>, <<>>) BY TwoSilent
<1> QED BY <1>1, FourTell

(* The header of a packet tells nothing of its content. *)
LEMMA HeaderIsSilent ==
  ASSUME NEW time \in TimeString
  PROVE  Saying(PacketHeader(time), <<>>)
<1>1. \A l \in Nat : Saying(<<Header(l)>>, <<>>) BY SayingHeader DEF Header
<1>2. Saying(<<time>>, <<>>)
  <2>1. time = Header(18 + 24) \/ time = Piece(<<"header">>, 18 + 6, FALSE)
    BY Zenon DEF TimeString
  <2>2. 18 + 24 \in Nat /\ 18 + 6 \in Nat OBVIOUS
  <2>3. Saying(<<Piece(<<"header">>, 18 + 6, FALSE)>>, <<>>) BY <2>2, SayingHeader
  <2> QED BY <1>1, <2>1, <2>2, <2>3, Zenon
<1> DEFINE a == MarkLine("{")
<1>3. Saying(<<a>>, <<>>) BY MarksAreSilent, Zenon DEF MarkLine
<1>4. PacketHeader(time) = <<a, Header(16 + NameLength), Header(16), Header(18), Header(22),
                             Header(28), Header(26), time>>
  BY Zenon DEF PacketHeader
<1> HIDE DEF a
<1>5. 16 + NameLength \in Nat BY DEF NameLength
<1>6. Saying(<<a, Header(16 + NameLength), Header(16), Header(18)>>, <<>>)
  BY <1>1, <1>3, <1>5, FourSilent
<1>7. Saying(<<Header(22), Header(28), Header(26), time>>, <<>>) BY <1>1, <1>2, FourSilent
<1>8. PacketHeader(time) = <<a, Header(16 + NameLength), Header(16), Header(18)>>
                             \o <<Header(22), Header(28), Header(26), time>>
  <2> DEFINE l == <<a, Header(16 + NameLength), Header(16), Header(18),
                    Header(22), Header(28), Header(26), time>>
             r == <<a, Header(16 + NameLength), Header(16), Header(18)>>
                    \o <<Header(22), Header(28), Header(26), time>>
  <2>1. l = r BY EightPieces, SMTT(40)
  <2> HIDE DEF l, r
  <2>2. PacketHeader(time) = l BY <1>4, Zenon DEF l
  <2>3. PacketHeader(time) = r BY <2>1, <2>2
  <2> QED BY <2>3 DEF r
<1> QED BY <1>6, <1>7, <1>8, SilentConcat

-----------------------------------------------------------------------------
(* The elements of an array *)
Values(a, b) == [i \in 1..b - a |-> <<"value", a + i - 1>>]

LEMMA ValueSays == \A n \in Nat : <<"value", n>> \in Says
BY DEF Says

LEMMA ValuesEmpty == ASSUME NEW a \in Nat PROVE Values(a, a) = <<>>
<1>1. a - a = 0 OBVIOUS
<1> QED BY <1>1 DEF Values

LEMMA ValuesType ==
  ASSUME NEW a \in Nat, NEW b \in Nat, a <= b
  PROVE  /\ Values(a, b) \in Seq(Says) /\ Len(Values(a, b)) = b - a
         /\ \A i \in 1..b - a : Values(a, b)[i] = <<"value", a + i - 1>>
<1>1. b - a \in Nat OBVIOUS
<1>2. \A i \in 1..b - a : <<"value", a + i - 1>> \in Says
  <2> TAKE i \in 1..b - a
  <2>1. a + i - 1 \in Nat OBVIOUS
  <2> HIDE DEF Says
  <2> QED BY <2>1, ValueSays
<1> HIDE DEF Says
<1> QED BY <1>1, <1>2 DEF Values

LEMMA ValuesNext ==
  ASSUME NEW a \in Nat, NEW b \in Nat, a <= b
  PROVE  Values(a, b + 1) = Values(a, b) \o <<<<"value", b>>>>
<1> DEFINE l == Values(a, b + 1)
           v == Values(a, b)
           e == <<"value", b>>
           r == Append(v, e)
<1>1. l \in Seq(Says) /\ Len(l) = b - a + 1 /\ \A i \in 1..b - a + 1 : l[i] = <<"value", a + i - 1>>
  <2>1. b + 1 \in Nat /\ a <= b + 1 /\ b + 1 - a = b - a + 1 OBVIOUS
  <2> HIDE DEF Says
  <2> QED BY <2>1, ValuesType, SMTT(40)
<1>2. v \in Seq(Says) /\ Len(v) = b - a /\ \A i \in 1..b - a : v[i] = <<"value", a + i - 1>>
  BY ValuesType
<1>3. e \in Says BY ValueSays
<1> HIDE DEF l, v, Says
<1>4. /\ r \in Seq(Says) /\ Len(r) = b - a + 1 /\ r[b - a + 1] = e
      /\ \A i \in 1..b - a : r[i] = v[i]
  <2>1. r \in Seq(Says) /\ Len(r) = Len(v) + 1 /\ r[Len(v) + 1] = e /\ \A i \in 1..Len(v) : r[i] = v[i]
    <3>1. \A x \in Seq(Says), y \in Says :
            /\ Append(x, y) \in Seq(Says) /\ Len(Append(x, y)) = Len(x) + 1
            /\ Append(x, y)[Len(x) + 1] = y /\ \A i \in 1..Len(x) : Append(x, y)[i] = x[i]
      BY AppendHas
    <3> HIDE DEF e
    <3> QED BY <1>2, <1>3, <3>1
  <2> HIDE DEF r, e
  <2> QED BY <1>2, <2>1
<1>5. \A i \in 1..b - a + 1 : l[i] = r[i]
  <2> TAKE i \in 1..b - a + 1
  <2>1. CASE i = b - a + 1
    <3>1. a + i - 1 = b BY <2>1
    <3> HIDE DEF r
    <3> QED BY <1>1, <1>4, <2>1, <3>1
  <2>2. CASE i # b - a + 1
    <3>1. i \in 1..b - a BY <2>2
    <3> HIDE DEF r, e
    <3> QED BY <1>1, <1>2, <1>4, <3>1
  <2> QED BY <2>1, <2>2
<1>6. l = r
  <2> HIDE DEF r, e
  <2> QED BY <1>1, <1>4, <1>5, SameSeq
<1>7. Append(v, e) = v \o <<e>>
  <2> HIDE DEF e
  <2> QED BY <1>2, <1>3
<1> QED BY <1>6, <1>7 DEF l, v

(* What the first n elements of an array tell *)
FirstValues(p, format, n) ==
  IF format = "full" \/ p.length < MinTrunc \/ n <= NTrunc THEN Values(0, n)
  ELSE (Values(0, NTrunc) \o <<<<"more">>>>)
         \o (IF n <= p.length - NTrunc THEN <<>> ELSE Values(p.length - NTrunc, n))

OneElement(p, format, i) ==
  IF format = "truncate" /\ p.length >= MinTrunc /\ i = NTrunc
  THEN <<Piece(<<"more">>, 4, FALSE)>>
  ELSE IF format = "truncate" /\ p.length >= MinTrunc /\ i > NTrunc /\ i < p.length - NTrunc
       THEN <<>> ELSE <<Piece(<<"value", i>>, p.width + 1, FALSE)>>

OneValue(p, format, i) ==
  IF format = "truncate" /\ p.length >= MinTrunc /\ i = NTrunc
  THEN <<<<"more">>>>
  ELSE IF format = "truncate" /\ p.length >= MinTrunc /\ i > NTrunc /\ i < p.length - NTrunc
       THEN <<>> ELSE <<<<"value", i>>>>

LEMMA ElementsAre ==
  ASSUME NEW p, NEW format
  PROVE  Elements(p, format) = FlattenSeq([i \in 1..p.length |-> OneElement(p, format, i - 1)])
BY DEF Elements, OneElement

LEMMA ElementSays ==
  ASSUME NEW p \in PrintedParam, NEW format, NEW i \in Nat
  PROVE  Saying(OneElement(p, format, i), OneValue(p, format, i))
<1>1. p.width + 1 \in Nat BY DEF PrintedParam
<1>2. Saying(<<Piece(<<"more">>, 4, FALSE)>>, <<<<"more">>>>) BY SayingHeader
<1>3. Saying(<<Piece(<<"value", i>>, p.width + 1, FALSE)>>, <<<<"value", i>>>>)
  BY <1>1, SayingNumber
<1> QED BY <1>2, <1>3, SayingNothing DEF OneElement, OneValue

(* Element n takes the values one further: this is where a long array is cut. *)
LEMMA ValuesStep ==
  ASSUME NEW p \in PrintedParam, NEW format \in {"full", "truncate"}, NEW n \in 0..p.length - 1
  PROVE  FirstValues(p, format, n + 1) = FirstValues(p, format, n) \o OneValue(p, format, n)
<1> DEFINE L == p.length
           more == <<<<"more">>>>
           V == <<<<"value", n>>>>
           head == Values(0, NTrunc) \o more
<1>0. L \in Nat /\ n \in Nat /\ n < L /\ NTrunc = 4 /\ MinTrunc = 15
  BY DEF PrintedParam, NTrunc, MinTrunc
<1>1. \A a \in 0..n : Values(a, n + 1) = Values(a, n) \o V
  <2> TAKE a \in 0..n
  <2>1. a \in Nat /\ a <= n BY <1>0
  <2> HIDE DEF V
  <2> QED BY <1>0, <2>1, ValuesNext DEF V
<1>2. \A a \in 0..n : Values(a, n) \in Seq(Says)
  <2> TAKE a \in 0..n
  <2>1. a \in Nat /\ a <= n BY <1>0
  <2> QED BY <1>0, <2>1, ValuesType
<1>3. head \in Seq(Says)
  <2>1. <<"more">> \in Says BY DEF Says
  <2>2. more \in Seq(Says)
    <3> HIDE DEF Says
    <3> QED BY <2>1
  <2>3. Values(0, NTrunc) \in Seq(Says) BY <1>0, ValuesType
  <2> HIDE DEF more, Says
  <2> QED BY <2>2, <2>3, ConcatHas
<1>4. V \in Seq(Says)
  <2>1. <<"value", n>> \in Says BY <1>0, ValueSays
  <2> HIDE DEF Says
  <2> QED BY <2>1
<1> HIDE DEF Says
<1>5. CASE format = "full" \/ L < MinTrunc
  <2>1. OneValue(p, format, n) = V BY <1>5, <1>0 DEF OneValue
  <2>2. FirstValues(p, format, n) = Values(0, n) /\ FirstValues(p, format, n + 1) = Values(0, n + 1)
    BY <1>5 DEF FirstValues
  <2>3. 0 \in 0..n BY <1>0
  <2> HIDE DEF V
  <2> QED BY <1>1, <2>1, <2>2, <2>3
<1>6. CASE format = "truncate" /\ L >= MinTrunc
  <2> DEFINE F(k) == FirstValues(p, format, k)
             Z == OneValue(p, format, n)
  <2>1. /\ n < NTrunc => Z = V
        /\ n = NTrunc => Z = more
        /\ n > NTrunc /\ n < L - NTrunc => Z = <<>>
        /\ n >= L - NTrunc => Z = V
    BY <1>0, <1>6 DEF OneValue
  <2>2. \A k \in Nat :
          /\ k <= NTrunc => F(k) = Values(0, k)
          /\ k > NTrunc /\ k <= L - NTrunc => F(k) = head \o <<>>
          /\ k > L - NTrunc => F(k) = head \o Values(L - NTrunc, k)
    <3> TAKE k \in Nat
    <3>1. ~(format = "full" \/ L < MinTrunc) BY <1>0, <1>6
    <3>2. CASE k <= NTrunc
      <4>1. F(k) = Values(0, k) BY <3>2 DEF FirstValues
      <4> HIDE DEF F, head
      <4> QED BY <1>0, <1>6, <3>2, <4>1
    <3>3. CASE k > NTrunc /\ k <= L - NTrunc
      <4>1. ~(k <= NTrunc) BY <1>0, <3>3
      <4>2. F(k) = head \o <<>> BY <3>1, <3>3, <4>1 DEF FirstValues
      <4> HIDE DEF F, head
      <4> QED BY <1>0, <3>3, <4>2
    <3>4. CASE k > NTrunc /\ k > L - NTrunc
      <4>1. ~(k <= NTrunc) /\ ~(k <= L - NTrunc) BY <1>0, <3>4
      <4>2. F(k) = head \o Values(L - NTrunc, k) BY <3>1, <4>1 DEF FirstValues
      <4> HIDE DEF F, head
      <4> QED BY <1>0, <3>4, <4>2
    <3>5. k <= NTrunc \/ (k > NTrunc /\ (k <= L - NTrunc \/ k > L - NTrunc)) BY <1>0
    <3> QED BY <3>2, <3>3, <3>4, <3>5
  <2>3. head \o <<>> = head
    <3> HIDE DEF head
    <3> QED BY <1>3, ConcatEmpty
  <2> HIDE DEF F, Z, V, head, more
  <2>4. CASE n < NTrunc
    <3>1. n + 1 \in Nat /\ n + 1 <= NTrunc /\ n <= NTrunc /\ 0 \in 0..n BY <1>0, <2>4
    <3>2. F(n + 1) = Values(0, n + 1) /\ F(n) = Values(0, n) /\ Z = V
      BY <1>0, <2>1, <2>2, <2>4, <3>1
    <3>3. F(n + 1) = F(n) \o Z BY <1>1, <3>1, <3>2
    <3> QED BY <3>3 DEF F, Z
  <2>5. CASE n = NTrunc
    <3>1. n + 1 \in Nat /\ n + 1 > NTrunc /\ n + 1 <= L - NTrunc /\ n <= NTrunc BY <1>0, <1>6, <2>5
    <3>2. F(n + 1) = head /\ F(n) = Values(0, n) /\ Z = more
      BY <1>0, <2>1, <2>2, <2>3, <2>5, <3>1
    <3>3. F(n + 1) = F(n) \o Z BY <2>5, <3>2 DEF head
    <3> QED BY <3>3 DEF F, Z
  <2>6. CASE n > NTrunc /\ n < L - NTrunc
    <3>1. n + 1 \in Nat /\ n + 1 > NTrunc /\ n + 1 <= L - NTrunc /\ n <= L - NTrunc
      BY <1>0, <2>6
    <3>2. F(n + 1) = head /\ F(n) = head /\ Z = <<>>
      BY <1>0, <2>1, <2>2, <2>3, <2>6, <3>1
    <3>3. F(n + 1) = F(n) \o Z BY <2>3, <3>2
    <3> QED BY <3>3 DEF F, Z
  <2>7. CASE n >= L - NTrunc
    <3> DEFINE a == L - NTrunc
    <3>1. a \in Nat /\ a \in 0..n /\ n > NTrunc /\ n + 1 \in Nat /\ n + 1 > a
      BY <1>0, <1>6, <2>7
    <3>2. Values(a, a) = <<>> BY <3>1, ValuesEmpty
    <3>3. F(n + 1) = head \o Values(a, n + 1) /\ Z = V BY <1>0, <2>1, <2>2, <2>7, <3>1
    <3>4. F(n) = head \o Values(a, n)
      <4>1. CASE n = a 
        <5>1. n > NTrunc /\ n <= L - NTrunc BY <1>0, <3>1, <4>1
        <5>2. F(n) = head \o <<>> BY <1>0, <2>2, <5>1
        <5>3. Values(a, n) = <<>>
          <6> HIDE DEF a
          <6> QED BY <3>2, <4>1
        <5> QED BY <5>2, <5>3
      <4>2. CASE n > a BY <1>0, <2>2, <4>2
      <4> QED BY <2>7, <3>1, <4>1, <4>2, <1>0
    <3>5. Values(a, n + 1) = Values(a, n) \o V /\ Values(a, n) \in Seq(Says) BY <1>1, <1>2, <3>1
    <3> HIDE DEF a
    <3>6. (head \o Values(a, n)) \o V = head \o (Values(a, n) \o V)
      <4> DEFINE y == Values(a, n)
      <4>1. y \in Seq(Says) BY <3>5
      <4> HIDE DEF y
      <4>2. \A x1, x2, x3 \in Seq(Says) : (x1 \o x2) \o x3 = x1 \o (x2 \o x3) BY ConcatAssoc
      <4>3. (head \o y) \o V = head \o (y \o V) BY <1>3, <1>4, <4>1, <4>2
      <4> QED BY <4>3 DEF y
    <3>7. F(n + 1) = F(n) \o Z BY <3>3, <3>4, <3>5, <3>6
    <3> QED BY <3>7 DEF F, Z
  <2> QED BY <1>0, <2>4, <2>5, <2>6, <2>7
<1> QED BY <1>5, <1>6, <1>0

(* json_append_vector tells every element, or the first and the last of them  *)
(* ...                                                                        *)
LEMMA ElementsSay ==
  ASSUME NEW p \in PrintedParam, NEW format \in {"full", "truncate"}
  PROVE  Saying(Elements(p, format), FirstValues(p, format, p.length))
<1> DEFINE L == p.length
           s == [i \in 1..L |-> OneElement(p, format, i - 1)]
           t == [i \in 1..L |-> OneValue(p, format, i - 1)]
           E == [n \in 0..L |-> FirstValues(p, format, n)]
<1>1. L \in Nat BY DEF PrintedParam
<1>2. \A i \in 1..L : Saying(s[i], t[i])
  <2> TAKE i \in 1..L
  <2>1. i - 1 \in Nat BY <1>1
  <2>2. Saying(OneElement(p, format, i - 1), OneValue(p, format, i - 1)) BY <2>1, ElementSays
  <2> QED BY <2>2
<1>3. s = [i \in 1..L |-> s[i]] /\ t = [i \in 1..L |-> t[i]] OBVIOUS
<1>4. Saying(FlattenSeq(s), FlattenSeq(t))
  <2> HIDE DEF s, t, L
  <2> QED BY <1>1, <1>2, <1>3, SayingFlatten
<1>5. t \in Seq(Seq(Says)) /\ Len(t) = L
  <2>1. \A i \in 1..L : t[i] \in Seq(Says) BY <1>2 DEF Saying
  <2> HIDE DEF Says, s, t, L
  <2> QED BY <1>1, <1>3, <2>1
<1>6. E[0] = <<>>
  <2>1. 0 <= NTrunc /\ 0 \in 0..L BY <1>1 DEF NTrunc
  <2> QED BY <2>1, ValuesEmpty DEF FirstValues
<1>7. \A n \in 0..L - 1 : E[n + 1] = E[n] \o t[n + 1]
  <2> TAKE n \in 0..L - 1
  <2>1. n \in 0..p.length - 1 OBVIOUS
  <2>2. FirstValues(p, format, n + 1) = FirstValues(p, format, n) \o OneValue(p, format, n)
    BY <2>1, ValuesStep
  <2>3. n \in 0..L /\ n + 1 \in 0..L /\ n + 1 \in 1..L /\ n + 1 - 1 = n BY <1>1
  <2>4. t[n + 1] = OneValue(p, format, n) BY <2>3
  <2> QED BY <2>2, <2>3, <2>4
<1>8. E[L] = FirstValues(p, format, L) BY <1>1
<1> HIDE DEF E
<1>9. FlattenSeq(t) = E[L]
  <2> HIDE DEF t, L
  <2> QED BY <1>5, <1>6, <1>7, FlattenBuilt
<1>10. FlattenSeq(s) = Elements(p, format) BY ElementsAre
<1> QED BY <1>4, <1>8, <1>9, <1>10

(* ... which is what a reader looks for. *)
LEMMA ArraysAre ==
  ASSUME NEW p \in PrintedParam, p.type = "data", NEW format \in {"full", "truncate"}
  PROVE  FirstValues(p, format, p.length) = ValuesOf(p, format)
<1> DEFINE L == p.length
           a == Values(0, NTrunc)
           more == <<<<"more">>>>
           b == Values(L - NTrunc, L)
<1>0. L \in Nat /\ NTrunc = 4 /\ MinTrunc = 15 BY DEF PrintedParam, NTrunc, MinTrunc
<1>1. CASE format = "full" \/ L < MinTrunc
  <2>1. ValuesOf(p, format) = Values(0, L) BY <1>1 DEF ValuesOf, Values
  <2>2. FirstValues(p, format, L) = Values(0, L) BY <1>1 DEF FirstValues
  <2> QED BY <2>1, <2>2
<1>2. CASE format = "truncate" /\ L >= MinTrunc
  <2>1. ValuesOf(p, format) = a \o more \o b BY <1>0, <1>2 DEF ValuesOf, Values
  <2>2. L > NTrunc /\ L > L - NTrunc BY <1>0, <1>2
  <2>3. FirstValues(p, format, L) = (a \o more) \o b 
    <3>1. ~(format = "full" \/ L < MinTrunc \/ L <= NTrunc) /\ ~(L <= L - NTrunc)
      BY <1>0, <1>2, <2>2
    <3> QED BY <3>1, Zenon DEF FirstValues
  <2> QED BY <2>1, <2>3
<1> QED BY <1>0, <1>1, <1>2

-----------------------------------------------------------------------------
(* A parameter, a field, a packet *)
ParamFacts(p, format) == <<<<"param", p.name>>>> \o ValuesOf(p, format)
FieldFacts(f, format) ==
  <<<<"field", f.name>>, <<"id", f.id>>>>
    \o FlattenSeq([k \in 1..Len(f.params) |-> ParamFacts(f.params[k], format)])

OneParam(p, format) == IF p.type = "data" THEN AppendVector(p, format) ELSE AppendScalar(p)

LEMMA ParamSays ==
  ASSUME NEW p \in PrintedParam, NEW format \in {"full", "truncate"}
  PROVE  Saying(OneParam(p, format), ParamFacts(p, format))
<1> DEFINE name == <<<<"param", p.name>>>>
<1>0. /\ p.name \in Nat /\ p.length \in Nat /\ p.width \in Nat /\ NameLength + 8 \in Nat
      /\ NameLength + 3 \in Nat /\ p.length + 2 \in Nat
  BY DEF PrintedParam, NameLength
<1>1. CASE p.type = "data"
  <2> DEFINE h == <<Piece(<<"param", p.name>>, NameLength + 8, FALSE)>>
  <2>1. Saying(h, name) BY <1>0, SayingNumber
  <2>2. Saying(Elements(p, format), ValuesOf(p, format)) BY <1>1, ElementsSay, ArraysAre
  <2>3. OneParam(p, format) = h \o Elements(p, format) BY <1>1 DEF OneParam, AppendVector
  <2> HIDE DEF h, name
  <2>4. Saying(h \o Elements(p, format), name \o ValuesOf(p, format)) BY <2>1, <2>2, SayingConcat
  <2> QED BY <2>3, <2>4 DEF ParamFacts, name
<1>2. CASE p.type # "data"
  <2> DEFINE len == IF p.type = "string" THEN p.length + 2 ELSE p.width
             x == Piece(<<"param", p.name>>, NameLength + 3, FALSE)
             y == Piece(<<"value", 0>>, len, FALSE)
             v == <<<<"value", 0>>>>
  <2>1. len \in Nat BY <1>0
  <2>2. OneParam(p, format) = <<x, y>> BY <1>2 DEF OneParam, AppendScalar
  <2>3. ParamFacts(p, format) = name \o v BY <1>2 DEF ParamFacts, ValuesOf
  <2> HIDE DEF len
  <2>4. Saying(<<x>>, name) BY <1>0, SayingNumber
  <2>5. Saying(<<y>>, v) BY <2>1, SayingNumber
  <2> HIDE DEF x, y, v, name
  <2>6. Saying(<<x>> \o <<y>>, name \o v) BY <2>4, <2>5, SayingConcat
  <2>7. <<x, y>> = <<x>> \o <<y>> BY TwoPieces
  <2> QED BY <2>2, <2>3, <2>6, <2>7
<1> QED BY <1>1, <1>2

LEMMA ParamsSay ==
  ASSUME NEW f \in PrintedField, NEW format \in {"full", "truncate"}
  PROVE  Saying(AppendParams(f, format),
                FlattenSeq([k \in 1..Len(f.params) |-> ParamFacts(f.params[k], format)]))
<1> DEFINE n == Len(f.params)
           Sep(i) == IF i = 1 THEN <<>> ELSE <<Mark(",")>>
           s == [i \in 1..n |-> Sep(i) \o OneParam(f.params[i], format)]
           t == [i \in 1..n |-> ParamFacts(f.params[i], format)]
           end == IF f.params = <<>> THEN <<>> ELSE <<Piece(<<"mark", "end">>, 0, TRUE)>>
<1>1. f.params \in Seq(PrintedParam) BY DEF PrintedField
<1>2. n \in Nat /\ DOMAIN f.params = 1..n /\ \A i \in 1..n : f.params[i] \in PrintedParam
  <2> HIDE DEF PrintedParam
  <2> QED BY <1>1
<1>3. \A i \in 1..n : Saying(Sep(i), <<>>)
  <2>1. Saying(<<Mark(",")>>, <<>>) BY MarksAreSilent, Zenon DEF Mark
  <2> QED BY <2>1, SayingNothing, Zenon
<1> HIDE DEF Sep
<1>4. \A i \in 1..n : Saying(s[i], t[i])
  <2> TAKE i \in 1..n
  <2>1. Saying(OneParam(f.params[i], format), ParamFacts(f.params[i], format))
    BY <1>2, ParamSays
  <2>2. Saying(Sep(i) \o OneParam(f.params[i], format), ParamFacts(f.params[i], format))
    BY <1>3, <2>1, SilentBefore
  <2>3. s[i] = Sep(i) \o OneParam(f.params[i], format) /\ t[i] = ParamFacts(f.params[i], format)
    OBVIOUS
  <2> QED BY <2>2, <2>3
<1>5. s = [i \in 1..n |-> s[i]] /\ t = [i \in 1..n |-> t[i]] OBVIOUS
<1>6. Saying(FlattenSeq(s), FlattenSeq(t))
  <2> HIDE DEF s, t, n
  <2> QED BY <1>2, <1>4, <1>5, SayingFlatten
<1>7. Saying(end, <<>>)
  <2>1. Saying(<<Piece(<<"mark", "end">>, 0, TRUE)>>, <<>>) BY MarksAreSilent
  <2> QED BY <2>1, SayingNothing
<1> HIDE DEF end
<1>8. Saying(FlattenSeq(s) \o end, FlattenSeq(t))
  <2> HIDE DEF s, t
  <2> QED BY <1>6, <1>7, SilentAfter
<1>9. AppendParams(f, format) = FlattenSeq(s) \o end
  <2>1. s = [i \in DOMAIN f.params |->
               (IF i = 1 THEN <<>> ELSE <<Mark(",")>>)
                 \o IF f.params[i].type = "data" THEN AppendVector(f.params[i], format)
                                                 ELSE AppendScalar(f.params[i])]
    BY <1>2, Zenon DEF OneParam, Sep
  <2> HIDE DEF s
  <2> QED BY <2>1, Zenon DEF AppendParams, end
<1> QED BY <1>8, <1>9

LEMMA FieldSays ==
  ASSUME NEW f \in PrintedField, NEW format \in {"full", "truncate"}
  PROVE  Saying(AppendField(f, format), FieldFacts(f, format))
<1> DEFINE a == Piece(<<"mark", "FIELD">>, 8, TRUE)
           b == MarkLine("{")
           c == Piece(<<"field", f.name>>, 16 + NameLength, TRUE)
           d == Piece(<<"id", f.id>>, 16, TRUE)
           e == MarkLine("}")
           x == <<"field", f.name>>
           y == <<"id", f.id>>
           ps == FlattenSeq([k \in 1..Len(f.params) |-> ParamFacts(f.params[k], format)])
<1>0. f.name \in Nat /\ f.id \in Nat /\ 16 + NameLength \in Nat BY DEF PrintedField, NameLength
<1>1. Saying(<<a>>, <<>>) BY MarksAreSilent
<1>2. Saying(<<b>>, <<>>) /\ Saying(<<e>>, <<>>) BY MarksAreSilent, Zenon DEF MarkLine
<1>3. Saying(<<c>>, <<x>>) BY <1>0, SayingNumber
<1>4. Saying(<<d>>, <<y>>) BY <1>0, SayingNumber
<1>5. Saying(AppendParams(f, format), ps) BY ParamsSay
<1>6. AppendField(f, format) = <<a, b, c, d>> \o AppendParams(f, format) \o <<e>>
  BY Zenon DEF AppendField
<1>7. FieldFacts(f, format) = <<x, y>> \o ps BY DEF FieldFacts
<1> HIDE DEF a, b, c, d, e, x, y, ps
<1>8. Saying(<<a, b>>, <<>>) BY <1>1, <1>2, TwoSilent
<1>9. Saying(<<c, d>>, <<x, y>>)
  <2>1. Saying(<<c>> \o <<d>>, <<x>> \o <<y>>) BY <1>3, <1>4, SayingConcat
  <2>2. <<c, d>> = <<c>> \o <<d>> BY TwoPieces
  <2>3. <<x, y>> = <<x>> \o <<y>> BY TwoPieces
  <2> QED BY <2>1, <2>2, <2>3
<1> DEFINE l == <<a, b, c, d>>
<1>12. Saying(l, <<x, y>>)
  <2>1. \A x1, x2, x3, x4, u :
          Saying(<<x1, x2>>, <<>>) /\ Saying(<<x3, x4>>, u) => Saying(<<x1, x2, x3, x4>>, u)
    BY FourTell
  <2> QED BY <1>8, <1>9, <2>1, Zenon
<1> HIDE DEF l
<1>13. AppendField(f, format) = l \o AppendParams(f, format) \o <<e>> BY <1>6 DEF l
<1>14. Saying(l \o AppendParams(f, format), <<x, y>> \o ps) BY <1>5, <1>12, SayingConcat
<1>15. Saying((l \o AppendParams(f, format)) \o <<e>>, <<x, y>> \o ps)
  BY <1>2, <1>14, SilentAfter
<1> QED BY <1>7, <1>13, <1>15

(* The calls for a packet tell what is to be said of it. *)
LEMMA PacketSays ==
  ASSUME NEW c \in PrintedContents, NEW format \in {"full", "truncate"}, NEW time \in TimeString
  PROVE  Saying(FromPacket(c, format, time), Facts(c, format))
<1> DEFINE n == Len(c)
           s == [i \in 1..n |-> AppendField(c[i], format)]
           t == [i \in 1..n |-> FieldFacts(c[i], format)]
<1>1. c \in Seq(PrintedField) BY PrintedAre
<1>2. n \in Nat /\ DOMAIN c = 1..n /\ \A i \in 1..n : c[i] \in PrintedField
  <2> HIDE DEF PrintedField
  <2> QED BY <1>1
<1>3. \A i \in 1..n : Saying(s[i], t[i])
  <2> TAKE i \in 1..n
  <2>1. Saying(AppendField(c[i], format), FieldFacts(c[i], format)) BY <1>2, FieldSays
  <2>2. s[i] = AppendField(c[i], format) /\ t[i] = FieldFacts(c[i], format) OBVIOUS
  <2> QED BY <2>1, <2>2
<1>4. s = [i \in 1..n |-> s[i]] /\ t = [i \in 1..n |-> t[i]] OBVIOUS
<1>5. Saying(FlattenSeq(s), FlattenSeq(t))
  <2> HIDE DEF s, t, n
  <2> QED BY <1>2, <1>3, <1>4, SayingFlatten
<1>6. FromPacket(c, format, time) = (PacketHeader(time) \o FlattenSeq(s)) \o <<Mark("}")>>
  <2>1. s = [i \in DOMAIN c |-> AppendField(c[i], format)] BY <1>2
  <2> HIDE DEF s
  <2> QED BY <2>1, Zenon DEF FromPacket
<1>7. Facts(c, format) = FlattenSeq(t)
  <2>1. \A i \in 1..n :
          /\ DOMAIN c[i].params = 1..Len(c[i].params)
    <3> TAKE i \in 1..n
    <3>1. c[i].params \in Seq(PrintedParam) BY <1>2 DEF PrintedField
    <3> HIDE DEF PrintedParam
    <3> QED BY <3>1
  <2>2. t = [i \in DOMAIN c |->
               <<<<"field", c[i].name>>, <<"id", c[i].id>>>>
               \o FlattenSeq([k \in DOMAIN c[i].params |->
                    <<<<"param", c[i].params[k].name>>>> \o ValuesOf(c[i].params[k], format)])]
    BY <1>2, <2>1, Zenon DEF FieldFacts, ParamFacts
  <2> HIDE DEF t
  <2> QED BY <2>2, Zenon DEF Facts
<1>8. Saying(<<Mark("}")>>, <<>>) BY MarksAreSilent, Zenon DEF Mark
<1>9. Saying(PacketHeader(time), <<>>) BY HeaderIsSilent
<1> DEFINE end == <<Mark("}")>>
<1> HIDE DEF s, t, n, end
<1>10. Saying(PacketHeader(time) \o FlattenSeq(s), FlattenSeq(t)) BY <1>5, <1>9, SilentBefore
<1>11. Saying((PacketHeader(time) \o FlattenSeq(s)) \o end, FlattenSeq(t))
  BY <1>8, <1>10, SilentAfter DEF end
<1>12. FromPacket(c, format, time) = (PacketHeader(time) \o FlattenSeq(s)) \o end
  BY <1>6, Zenon DEF end
<1> QED BY <1>7, <1>11, <1>12

-----------------------------------------------------------------------------
(* The text while it is written *)
JsonType == [length : Nat, bufsiz : Nat, indent : Nat, midline : BOOLEAN]

(* As long as nothing is lost, what the text says and what is to come are     *)
(* together what is to be said.                                               *)
TellingInv ==
  writing \in {"writing", "returned"} /\ lost = 0 /\ shown.complete =>
    Told(said) \o Telling(pieces) = Facts(shown.packet, shown.format)

TextInv ==
  /\ json \in JsonType /\ TextFits
  /\ pieces \in Seq(Calls) /\ said \in Seq(Says) /\ lost \in Nat
  /\ TellingInv
  /\ writing = "returned" => pieces = <<>>

LEMMA Empty == Told(<<>>) = <<>> /\ Telling(<<>>) = <<>> /\ <<>> \in Seq(Calls) /\ <<>> \in Seq(Says)
<1>1. <<>> \in Seq(Calls) /\ <<>> \in Seq(Says) BY ConcatEmpty
<1>2. Told(<<>>) = <<>> BY <1>1, ToldIs, FlatMapEmpty
<1> QED BY <1>1, <1>2, FlatMapEmpty DEF Telling

LEMMA NewJson ==
  ASSUME NEW j, j = [length |-> 0, bufsiz |-> ChunkSize, indent |-> 0, midline |-> FALSE]
  PROVE  j \in JsonType /\ j.length + 1 <= j.bufsiz
BY PacketTextAssumption DEF JsonType

(* A piece makes the buffer as large as the text. *)
LEMMA AppendedFits ==
  ASSUME NEW j \in JsonType, NEW p \in Calls, j.length + 1 <= j.bufsiz
  PROVE  Appended(j, p) \in JsonType /\ Appended(j, p).length + 1 <= Appended(j, p).bufsiz
<1> DEFINE r == Appended(j, p)
           indent == IF p.says = <<"mark", "}">> THEN Nonnegative(j.indent - Indent) ELSE j.indent
           spaces == IF j.midline THEN 0 ELSE indent
           end == IF p.line THEN 2 ELSE 0
<1>1. /\ j.length \in Nat /\ j.bufsiz \in Nat /\ j.indent \in Nat /\ j.midline \in BOOLEAN
      /\ p.length \in Nat /\ p.line \in BOOLEAN
  <2> HIDE DEF Says
  <2> QED BY DEF JsonType, Calls
<1>2. Nonnegative(j.indent - Indent) \in Nat /\ Nonnegative(j.indent - Indent) <= j.indent
  BY <1>1 DEF Nonnegative, Indent
<1>3. indent \in Nat /\ indent <= j.indent
  <2> DEFINE close == p.says = <<"mark", "}">>
  <2>1. indent = IF close THEN Nonnegative(j.indent - Indent) ELSE j.indent BY Zenon
  <2> HIDE DEF close, indent
  <2> QED BY <1>1, <1>2, <2>1
<1>14. r.indent = IF p.says = <<"mark", "{">> THEN indent + Indent ELSE indent
  BY Zenon DEF Appended
<1>4. /\ r.length = j.length + spaces + p.length + end
      /\ r.bufsiz = Adjusted(j, p)
      /\ r.midline = ~p.line
      /\ r = [length |-> r.length, bufsiz |-> r.bufsiz, indent |-> r.indent, midline |-> r.midline]
  BY Zenon DEF Appended
<1> HIDE DEF indent
<1>5. spaces \in Nat /\ spaces <= j.indent BY <1>1, <1>3
<1> HIDE DEF spaces
<1>6. r.length \in Nat
  <2> HIDE DEF r
  <2> QED BY <1>1, <1>4, <1>5
<1>7. Adjusted(j, p) \in Nat /\ j.length + 1 + j.indent + p.length + (IF p.line THEN 1 ELSE 0) + 2
                                  <= Adjusted(j, p)
  BY <1>1, PacketTextAssumption DEF Adjusted
<1>8. r.length + 1 <= r.bufsiz
  <2> HIDE DEF r
  <2> QED BY <1>1, <1>4, <1>5, <1>7
<1>9. r.indent \in Nat
  <2> DEFINE open == p.says = <<"mark", "{">>
  <2>1. r.indent = IF open THEN indent + Indent ELSE indent BY <1>14, Zenon
  <2>2. indent + Indent \in Nat BY <1>3 DEF Indent
  <2> HIDE DEF open, r
  <2> QED BY <1>3, <2>1, <2>2
<1>10. r.bufsiz \in Nat BY <1>4, <1>7
<1>11. r.midline \in BOOLEAN BY <1>1, <1>4
<1> HIDE DEF r
<1>12. r \in JsonType BY <1>4, <1>6, <1>9, <1>10, <1>11 DEF JsonType
<1> QED BY <1>8, <1>12 DEF r

(* The next call, and what is to come after it *)
LEMMA FirstPiece ==
  ASSUME NEW ps \in Seq(Calls), ps # <<>>
  PROVE  /\ Head(ps) \in Calls /\ Tail(ps) \in Seq(Calls) /\ Head(ps).says \in Says
         /\ Telling(ps) = OneTold[Head(ps).says] \o Telling(Tail(ps))
<1> DEFINE h == Head(ps)
           t == Tail(ps)
<1>1. h \in Calls /\ t \in Seq(Calls) /\ ps = <<h>> \o t
  <2> HIDE DEF Calls
  <2>1. h \in Calls /\ t \in Seq(Calls) OBVIOUS
  <2>2. Len(<<h>> \o t) = Len(ps) /\ <<h>> \o t \in Seq(Calls) OBVIOUS
  <2>3. \A i \in 1..Len(ps) : (<<h>> \o t)[i] = ps[i] OBVIOUS
  <2> DEFINE r == <<h>> \o t
  <2> HIDE DEF r, h, t
  <2>4. ps = r BY <2>2, <2>3, SameSeq DEF r
  <2> QED BY <2>1, <2>4 DEF r
<1>2. h.says \in Says
  <2> HIDE DEF Says, h
  <2> QED BY <1>1 DEF Calls
<1> HIDE DEF h, t
<1>3. Saying(<<h>>, OneTold[h.says]) BY <1>1, SayingOne
<1>4. Telling(ps) = Telling(<<h>>) \o Telling(t)
  <2>1. <<h>> \in Seq(Calls) BY <1>3 DEF Saying
  <2> HIDE DEF Calls
  <2> QED BY <1>1, <2>1, TellingConcat DEF Telling
<1>5. Telling(<<h>>) = OneTold[h.says] BY <1>3 DEF Saying
<1> QED BY <1>1, <1>2, <1>4, <1>5 DEF h, t

LEMMA ToldAppend ==
  ASSUME NEW text \in Seq(Says), NEW x \in Says
  PROVE  /\ Append(text, x) \in Seq(Says)
         /\ Told(text) \in Seq(Says)
         /\ Told(Append(text, x)) = Told(text) \o OneTold[x]
<1>1. OneTold \in [Says -> Seq(Says)] BY OneToldType
<1> HIDE DEF Says, OneTold
<1>2. Append(text, x) \in Seq(Says) OBVIOUS
<1>3. FlatMap(OneTold, Append(text, x)) = FlatMap(OneTold, text) \o OneTold[x]
  BY <1>1, FlatMapAppend
<1>4. FlatMap(OneTold, text) \in Seq(Says) BY <1>1, FlatMapType
<1> QED BY <1>2, <1>3, <1>4, ToldIs

LEMMA IncompleteType == Incomplete \in Seq(Calls)
<1>1. <<"incomplete">> \in Says BY DEF Says
<1>2. Saying(Incomplete, IF Tells(<<"incomplete">>) THEN <<<<"incomplete">>>> ELSE <<>>)
  <2> HIDE DEF Says
  <2> QED BY <1>1, SayingFact DEF Incomplete
<1> QED BY <1>2 DEF Saying

(* One lemma for each action of the text that is not immediate *)
LEMMA TextInitInv == TextInit => TextInv
<1> SUFFICES ASSUME TextInit PROVE TextInv OBVIOUS
<1>1. json \in JsonType /\ TextFits BY NewJson DEF TextInit, TextFits
<1>2. pieces \in Seq(Calls) /\ said \in Seq(Says) /\ lost \in Nat BY Empty DEF TextInit
<1>3. writing = "idle" BY DEF TextInit
<1> QED BY <1>1, <1>2, <1>3 DEF TextInv, TellingInv

LEMMA CreateKeeps ==
  ASSUME TextInv, NEW c \in Printed, NEW format \in {"full", "truncate"}, CreateFromPacket(c, format)
  PROVE  TextInv'
<1>1. json' \in JsonType /\ TextFits'
  BY NewJson DEF CreateFromPacket, JsonCreate, TextFits
<1>2. PICK time \in TimeString : pieces' = FromPacket(c, format, time) BY DEF CreateFromPacket
<1>3. c \in PrintedContents BY PacketTextAssumption
<1>4. Saying(pieces', Facts(c, format)) BY <1>2, <1>3, PacketSays
<1>5. said' = <<>> /\ lost' = 0 /\ writing' = "writing"
      /\ shown' = [packet |-> c, format |-> format, complete |-> TRUE]
  BY DEF CreateFromPacket
<1>6. pieces' \in Seq(Calls) /\ said' \in Seq(Says) /\ lost' \in Nat
  BY <1>4, <1>5, Empty DEF Saying
<1>7. Told(said') \o Telling(pieces') = Facts(c, format)
  <2>1. Telling(pieces') = Facts(c, format) /\ Facts(c, format) \in Seq(Says) BY <1>4 DEF Saying
  <2>2. <<>> \o Facts(c, format) = Facts(c, format)
    <3> DEFINE f == Facts(c, format)
    <3>1. f \in Seq(Says) BY <2>1
    <3> HIDE DEF f
    <3>2. <<>> \o f = f BY <3>1, ConcatEmpty
    <3> QED BY <3>2 DEF f
  <2> QED BY <1>5, <2>1, <2>2, Empty
<1>8. TellingInv'
  <2>1. shown'.packet = c /\ shown'.format = format BY <1>5
  <2> QED BY <1>7, <2>1 DEF TellingInv
<1> QED BY <1>1, <1>5, <1>6, <1>8 DEF TextInv

LEMMA AppendPieceKeeps == ASSUME TextInv, AppendPiece PROVE TextInv'
<1> DEFINE h == Head(pieces)
           t == Tail(pieces)
           facts == Facts(shown.packet, shown.format)
<1>0. /\ json \in JsonType /\ json.length + 1 <= json.bufsiz /\ pieces \in Seq(Calls)
      /\ said \in Seq(Says) /\ lost \in Nat /\ TellingInv
  BY DEF TextInv, TextFits
<1>1. /\ writing = "writing" /\ pieces # <<>> /\ json' = Appended(json, h)
      /\ said' = (IF lost > 0 THEN said ELSE Append(said, h.says))
      /\ pieces' = t /\ writing' = writing /\ shown' = shown /\ lost' = lost
  BY DEF AppendPiece
<1>2. /\ h \in Calls /\ t \in Seq(Calls) /\ h.says \in Says
      /\ Telling(pieces) = OneTold[h.says] \o Telling(t)
  BY <1>0, <1>1, FirstPiece
<1> HIDE DEF h, t
<1>3. json' \in JsonType /\ TextFits' BY <1>0, <1>1, <1>2, AppendedFits DEF TextFits
<1>4. /\ Append(said, h.says) \in Seq(Says) /\ Told(said) \in Seq(Says)
      /\ Told(Append(said, h.says)) = Told(said) \o OneTold[h.says]
  BY <1>0, <1>2, ToldAppend
<1>5. pieces' \in Seq(Calls) /\ said' \in Seq(Says) /\ lost' \in Nat
  <2> HIDE DEF Calls, Says
  <2> QED BY <1>0, <1>1, <1>2, <1>4
<1>6. TellingInv'
  <2>0. SUFFICES ASSUME lost = 0, shown.complete
                 PROVE  Told(said') \o Telling(pieces') = facts
    BY <1>1 DEF TellingInv
  <2>1. Told(said) \o Telling(pieces) = facts BY <1>0, <1>1, <2>0 DEF TellingInv
  <2> DEFINE x == Told(said)
             y == OneTold[h.says]
             z == Telling(t)
  <2>2. x \in Seq(Says) /\ y \in Seq(Says) /\ z \in Seq(Says)
    <3>1. y \in Seq(Says)
      <4> HIDE DEF Says, OneTold
      <4> QED BY <1>2, OneToldType
    <3>2. z \in Seq(Says)
      <4> HIDE DEF Says, Calls, OneTelling
      <4> QED BY <1>2, OneToldType, FlatMapType DEF Telling
    <3> QED BY <1>4, <3>1, <3>2
  <2>3. Told(said') = x \o y /\ Telling(pieces') = z /\ x \o (y \o z) = facts
    <3>1. said' = Append(said, h.says) BY <1>0, <1>1, <2>0
    <3> QED BY <1>1, <1>2, <1>4, <2>1, <3>1
  <2> HIDE DEF x, y, z, facts, Says
  <2>4. (x \o y) \o z = x \o (y \o z)
    <3>1. \A x1, x2, x3 \in Seq(Says) : (x1 \o x2) \o x3 = x1 \o (x2 \o x3) BY ConcatAssoc
    <3> QED BY <2>2, <3>1
  <2> QED BY <2>3, <2>4
<1> QED BY <1>1, <1>3, <1>5, <1>6 DEF TextInv

LEMMA AppendGarbledKeeps == ASSUME TextInv, AppendGarbled PROVE TextInv'
<1> DEFINE h == Head(pieces)
           t == Tail(pieces)
           With(n) == [h EXCEPT !.length = n]
<1>0. /\ json \in JsonType /\ json.length + 1 <= json.bufsiz /\ pieces \in Seq(Calls) /\ lost \in Nat
  BY DEF TextInv, TextFits
<1>1. /\ writing = "writing" /\ pieces # <<>> /\ said' = <<>> /\ lost' = lost + 1 /\ pieces' = t
      /\ writing' \in {"writing", "crashed"}
      /\ json' = json \/ \E n \in {2, h.length} : json' = Appended(json, With(n))
  BY DEF AppendGarbled
<1>2. h \in Calls /\ t \in Seq(Calls) BY <1>0, <1>1, FirstPiece
<1> HIDE DEF h, t
<1>3. json' \in JsonType /\ TextFits'
  <2>1. CASE json' = json BY <1>0, <2>1 DEF TextFits
  <2>2. ASSUME NEW n \in {2, h.length}, json' = Appended(json, With(n))
        PROVE  json' \in JsonType /\ TextFits'
    <3>1. With(n) \in Calls
      <4>1. n \in Nat
        <5> HIDE DEF Says
        <5> QED BY <1>2 DEF Calls
      <4> HIDE DEF Says
      <4> QED BY <1>2, <4>1 DEF Calls
    <3> HIDE DEF With
    <3> QED BY <1>0, <2>2, <3>1, AppendedFits DEF TextFits
  <2> QED BY <1>1, <2>1, <2>2
<1>4. pieces' \in Seq(Calls) /\ said' \in Seq(Says) BY <1>1, <1>2, Empty
<1>5. lost' \in Nat /\ lost' # 0 BY <1>0, <1>1
<1> QED BY <1>1, <1>3, <1>4, <1>5 DEF TextInv, TellingInv

LEMMA TextNextKeeps == ASSUME TextInv, [TextNext]_textVars PROVE TextInv'
<1>0. /\ json \in JsonType /\ TextFits /\ pieces \in Seq(Calls) /\ said \in Seq(Says)
      /\ lost \in Nat /\ TellingInv /\ (writing = "returned" => pieces = <<>>)
  BY DEF TextInv
<1>1. ASSUME NEW c \in Printed, NEW format \in {"full", "truncate"}, CreateFromPacket(c, format)
      PROVE  TextInv'
  BY <1>1, CreateKeeps
<1>2. CASE CreateFromIncomplete
  <2>1. json' \in JsonType /\ TextFits'
    BY <1>2, NewJson DEF CreateFromIncomplete, JsonCreate, TextFits
  <2>2. pieces' \in Seq(Calls) /\ said' \in Seq(Says) /\ lost' \in Nat
    BY <1>2, Empty, IncompleteType DEF CreateFromIncomplete
  <2>3. writing' = "writing" /\ ~shown'.complete BY <1>2 DEF CreateFromIncomplete
  <2> QED BY <2>1, <2>2, <2>3 DEF TextInv, TellingInv
<1>3. CASE CreateFails
  <2> HIDE DEF Calls, Says, JsonType
  <2> QED BY <1>0, <1>3 DEF CreateFails, TextInv, TellingInv, TextFits
<1>4. CASE AppendPiece BY <1>4, AppendPieceKeeps
<1>5. CASE AppendGarbled BY <1>5, AppendGarbledKeeps
<1>6. CASE AppendFails
  <2>1. /\ writing' = "writing" /\ pieces # <<>> /\ said' = <<>> /\ lost' = lost + 1
        /\ pieces' = Tail(pieces) /\ json' = json
    BY <1>6 DEF AppendFails
  <2>2. Tail(pieces) \in Seq(Calls) BY <1>0, <2>1, FirstPiece
  <2>3. lost' \in Nat /\ lost' # 0 BY <1>0, <2>1
  <2> HIDE DEF Calls, Says, JsonType
  <2> QED BY <1>0, <2>1, <2>2, <2>3, Empty DEF TextInv, TellingInv, TextFits
<1>7. CASE ReturnText
  <2> HIDE DEF Calls, Says, JsonType
  <2> QED BY <1>0, <1>7 DEF ReturnText, TextInv, TellingInv, TextFits
<1>8. CASE JsonFree
  <2>1. json' \in JsonType /\ TextFits' BY <1>8, NewJson DEF JsonFree, JsonCreate, TextFits
  <2>2. said' \in Seq(Says) /\ lost' \in Nat /\ writing' = "idle" /\ pieces' \in Seq(Calls)
    BY <1>0, <1>8, Empty DEF JsonFree
  <2> QED BY <2>1, <2>2 DEF TextInv, TellingInv
<1>9. CASE UNCHANGED textVars
  <2> HIDE DEF Calls, Says, JsonType
  <2> QED BY <1>0, <1>9 DEF textVars, TextInv, TellingInv, TextFits
<1> QED BY <1>1, <1>2, <1>3, <1>4, <1>5, <1>6, <1>7, <1>8, <1>9 DEF TextNext

LEMMA TextWhole == ASSUME TextInv PROVE TextIsWhole
<1>1. TextFits BY DEF TextInv
<1>2. ASSUME writing = "returned", lost = 0, shown.complete
      PROVE  Told(said) = Facts(shown.packet, shown.format)
  <2>1. pieces = <<>> /\ said \in Seq(Says) BY <1>2 DEF TextInv
  <2>2. Told(said) \o Telling(pieces) = Facts(shown.packet, shown.format)
    BY <1>2 DEF TextInv, TellingInv
  <2>3. Told(said) \in Seq(Says)
    <3> HIDE DEF Says, OneTold
    <3> QED BY <2>1, OneToldType, ToldIs, FlatMapType
  <2> DEFINE x == Told(said)
  <2> HIDE DEF x
  <2>4. x \o <<>> = x BY <2>3, ConcatEmpty DEF x
  <2> QED BY <2>1, <2>2, <2>4, Empty DEF x
<1> QED BY <1>1, <1>2 DEF TextIsWhole, PrintedInFull

(* The text of a packet is whole and inside its buffer (json.c), for packets  *)
(* of any size, buffers of any chunk and lines of any length.                 *)
THEOREM TextIsWholeAlways == PacketsSpec => []TextIsWhole
<1>1. PacketsInit => TextInv BY TextInitInv DEF PacketsInit
<1>2. TextInv /\ [PacketsNext]_packetsVars => TextInv'
  <2> SUFFICES ASSUME TextInv, [PacketsNext]_packetsVars PROVE TextInv' OBVIOUS
  <2>1. [TextNext]_textVars
    BY DEF PacketsNext, Using, Converting, Stopped, packetsVars
  <2> QED BY <2>1, TextNextKeeps
<1>3. TextInv => TextIsWhole BY TextWhole
<1> QED BY <1>1, <1>2, <1>3, PTL DEF PacketsSpec
=============================================================================
