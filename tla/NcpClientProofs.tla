-------------------------- MODULE NcpClientProofs --------------------------
(***************************************************************************)
(* Proofs about NcpClient for any number of connections and packets, any   *)
(* size of headers and send buffers: what is completed is what was sent,   *)
(* active is confirmed, a client that blocks sends whole packets, and the  *)
(* first connection is a channel.                                          *)
(***************************************************************************)
EXTENDS NcpClient, TLAPS

Labels == {"idle", "tcp", "recv", "answer", "received", "alive", "test", "send", "bye", "close"}

(* Where the client is, and what that says of its socket and its packets   *)
PlaceInv ==
  /\ tx # <<>> => Sending
  /\ op \in {"none", "freed"} <=> at = "idle"
  /\ at = "tcp" => link = "none"
  /\ link = "none" => at \in {"idle", "tcp"}
  /\ state = "active" => link # "none"
  /\ link = "none" => /\ got = <<>> /\ out = <<>> /\ stream = <<>>
                      /\ server = "none" /\ ~outOfStep
  /\ link \in {"connecting", "refused"} => stream = <<>>
  /\ link # "none" => connection >= 1
  /\ at = "tcp" => connection < MaxConnects
  /\ \A c \in 1..MaxConnects : c > connection => sent[c] = 0

(* What the client has yet to make packets of                              *)
Ahead == IF rxState = "hdr" THEN buffer \o stream ELSE stream

(* Pieces of connection c, of packets up to n, in the order of the stream, *)
(* none missing in between                                                 *)
InOrder(s, c, n) ==
  \A i \in 1..Len(s) :
    /\ s[i].connection = c /\ s[i].nr <= n /\ s[i].at <= Size(s[i].nr)
    /\ \A j \in i..Len(s) :
         \/ /\ j - i <= Size(s[i].nr) - s[i].at
            /\ s[j] = [connection |-> c, nr |-> s[i].nr, at |-> s[i].at + (j - i)]
         \/ /\ j - i > Size(s[i].nr) - s[i].at
            /\ s[j].nr > s[i].nr

Follows(s, c) ==
  \A i \in 1..Len(s) - 1 :
    s[i].at = Size(s[i].nr) => s[i + 1] = [connection |-> c, nr |-> s[i].nr + 1, at |-> 1]

(* The n packets the server sent on connection c end what is ahead unless  *)
(* some of it was lost; those done come before it.                         *)
AheadOk(a, c, n, l) ==
  /\ InOrder(a, c, n) /\ Follows(a, c)
  /\ l = "up" /\ a # <<>> => a[Len(a)].nr = n /\ a[Len(a)].at = Size(n)
  /\ l = "connecting" => a = <<>>
DoneOk(done, a, c, n) ==
  \A j \in 1..Len(done) : done[j][1] = c =>
    /\ done[j][2] <= n
    /\ \A i \in 1..Len(a) : done[j][2] < a[i].nr

StreamInv ==
  (~resumed /\ link # "none") =>
    /\ AheadOk(Ahead, connection, sent[connection], link)
    /\ DoneOk(completed, Ahead, connection, sent[connection])
    /\ rxState = "hdr" => buffer[1].at = 1

CompletedInv ==
  ~resumed => \A j \in 1..Len(completed) : completed[j][1] <= connection

(* The answers of the client: the response after the request               *)
IsIn(kind, s) == \E i \in 1..Len(s) : s[i].kind = kind
Responded == IsIn("response", out) \/ IsIn("response", tx) \/ server = "response"
AnswersOk(o, t, by) ==
  /\ \A i, j \in 1..Len(o) : i < j /\ o[i].kind = "response" => o[j].kind # "request"
  /\ IsIn("response", o) => ~IsIn("request", t)
  /\ \A i, j \in 1..Len(t) : t[i].kind = t[j].kind
  /\ by = "response" => ~IsIn("request", o) /\ ~IsIn("request", t)
AnswerInv ==
  ~resumed =>
    /\ AnswersOk(out, tx, server)
    /\ Responded => /\ sent[connection] >= 1
                    /\ \A i \in 1..Len(Ahead) : Ahead[i].nr > 1
    /\ link # "none" /\ sent[connection] >= 3 => server = "response"

(* What is on its way from a client that blocks: whole packets             *)
Pending == got \o out \o tx
WholePackets(s) ==
  /\ s # <<>> => s[1].at = 1 /\ s[Len(s)].at = 2
  /\ \A i \in 1..Len(s) - 1 : IF s[i].at = 1 THEN s[i + 1] = [kind |-> s[i].kind, at |-> 2]
                                             ELSE s[i + 1].at = 1
WholeInv ==
  /\ ~noblock => link # "connecting"
  /\ ~noblock /\ link = "up" => WholePackets(Pending)

(* The first connection, if headers arrive whole                           *)
FirstInv ==
  ~split =>
    /\ connection <= 1 => /\ ~resumed
                          /\ \A i \in 1..Len(completed) : completed[i] = <<1, i>>
    /\ connection = 0 => completed = <<>> /\ rxState # "hdr"
    /\ connection = 1 /\ link # "none" => 
         /\ Ahead # <<>> => Ahead[1].at = 1 /\ Ahead[1].nr = Len(completed) + 1
         /\ link \in {"up", "connecting"} /\ Ahead = <<>> => sent[1] = Len(completed)
    /\ \E m \in 0..sent[1] : OfFirst = 1..m /\ \A i \in 1..m : completed[i] = <<1, i>>

(* The half packet in the buffer is of a connection there was.             *)
BufferInv ==
  /\ rxState = "hdr" => buffer # <<>> /\ buffer[1].connection <= connection
  /\ \A i \in 1..Len(stream) : stream[i].connection = connection

-----------------------------------------------------------------------------
LEMMA Sizes ==
  /\ HeaderSize \in Nat /\ HeaderSize >= 1 /\ MaxData \in Nat /\ MaxStream \in Nat
  /\ SendBuffer \in Nat /\ SendBuffer >= 1 /\ MaxConnects \in Nat /\ MaxConnects >= 1
  /\ Numbers = 1..3 + MaxData
  /\ \A nr \in Numbers : Size(nr) \in Nat /\ HeaderSize < Size(nr) /\ Size(nr) <= HeaderSize + 2
BY NcpClientAssumption DEF Size, Numbers

(* What is left of a sequence, and what is taken from it                   *)
LEMMA Rest ==
  ASSUME NEW S, NEW s \in Seq(S), NEW k \in 0..Len(s)
  PROVE  /\ SubSeq(s, k + 1, Len(s)) \in Seq(S)
         /\ Len(SubSeq(s, k + 1, Len(s))) = Len(s) - k
         /\ \A i \in 1..Len(s) - k : SubSeq(s, k + 1, Len(s))[i] = s[k + i]
OBVIOUS

LEMMA Taken ==
  ASSUME NEW S, NEW s \in Seq(S), NEW k \in 0..Len(s)
  PROVE  /\ SubSeq(s, 1, k) \in Seq(S) /\ Len(SubSeq(s, 1, k)) = k
         /\ \A i \in 1..k : SubSeq(s, 1, k)[i] = s[i]
OBVIOUS

LEMMA Joined ==
  ASSUME NEW S, NEW s \in Seq(S), NEW t \in Seq(S)
  PROVE  /\ s \o t \in Seq(S) /\ Len(s \o t) = Len(s) + Len(t)
         /\ \A i \in 1..Len(s) : (s \o t)[i] = s[i]
         /\ \A i \in 1..Len(t) : (s \o t)[Len(s) + i] = t[i]
         /\ \A i \in 1..Len(s) + Len(t) : (s \o t)[i] = IF i <= Len(s) THEN s[i] ELSE t[i - Len(s)]
OBVIOUS

LEMMA Appended ==
  ASSUME NEW S, NEW s \in Seq(S), NEW x \in S
  PROVE  /\ Append(s, x) \in Seq(S) /\ Len(Append(s, x)) = Len(s) + 1 /\ Append(s, x)[Len(s) + 1] = x
         /\ \A i \in 1..Len(s) : Append(s, x)[i] = s[i]
OBVIOUS

LEMMA SameSeq ==
  ASSUME NEW S, NEW s \in Seq(S), NEW t \in Seq(S), Len(s) = Len(t), \A i \in 1..Len(s) : s[i] = t[i]
  PROVE  s = t
OBVIOUS

LEMMA WholeSub ==
  ASSUME NEW S, NEW s \in Seq(S)
  PROVE  SubSeq(s, 1, Len(s)) = s
<1>1. Len(s) \in 0..Len(s)
  OBVIOUS
<1> DEFINE t == SubSeq(s, 1, Len(s))
<1>2. t \in Seq(S) /\ Len(t) = Len(s) /\ \A i \in 1..Len(s) : t[i] = s[i]
  BY <1>1, Taken
<1> HIDE DEF t
<1>3. t = s
  BY <1>2, SameSeq
<1> QED BY <1>3 DEF t

(* Pieces may move from one sequence to the next.                          *)
LEMMA Moved ==
  ASSUME NEW S, NEW s \in Seq(S), NEW t \in Seq(S), NEW k \in 0..Len(t)
  PROVE  (s \o SubSeq(t, 1, k)) \o SubSeq(t, k + 1, Len(t)) = s \o t
<1> DEFINE a == SubSeq(t, 1, k)
           b == SubSeq(t, k + 1, Len(t))
<1>1. /\ a \in Seq(S) /\ Len(a) = k /\ \A i \in 1..k : a[i] = t[i]
      /\ b \in Seq(S) /\ Len(b) = Len(t) - k /\ \A i \in 1..Len(t) - k : b[i] = t[k + i]
  BY Taken, Rest
<1> HIDE DEF a, b
<1> DEFINE sa == s \o a
           l == sa \o b
           r == s \o t
<1>2. /\ sa \in Seq(S) /\ Len(sa) = Len(s) + k
      /\ \A i \in 1..Len(s) + k : sa[i] = IF i <= Len(s) THEN s[i] ELSE a[i - Len(s)]
  <2>1. /\ sa \in Seq(S) /\ Len(sa) = Len(s) + Len(a)
        /\ \A i \in 1..Len(s) + Len(a) : sa[i] = IF i <= Len(s) THEN s[i] ELSE a[i - Len(s)]
    <3>1. a \in Seq(S)
      BY <1>1
    <3> QED BY <3>1, Joined
  <2> QED BY <1>1, <2>1
<1>3. /\ r \in Seq(S) /\ Len(r) = Len(s) + Len(t)
      /\ \A i \in 1..Len(s) + Len(t) : r[i] = IF i <= Len(s) THEN s[i] ELSE t[i - Len(s)]
  BY Joined
<1> HIDE DEF sa, r
<1>4. /\ l \in Seq(S) /\ Len(l) = Len(s) + Len(t)
      /\ \A i \in 1..Len(s) + Len(t) : l[i] = IF i <= Len(s) + k THEN sa[i] ELSE b[i - (Len(s) + k)]
  <2>1. l \in Seq(S) /\ Len(l) = Len(sa) + Len(b)
        /\ \A i \in 1..Len(sa) + Len(b) : l[i] = IF i <= Len(sa) THEN sa[i] ELSE b[i - Len(sa)]
    <3>1. sa \in Seq(S) /\ b \in Seq(S)
      BY <1>1, <1>2
    <3> QED BY <3>1, Joined
  <2>2. Len(sa) + Len(b) = Len(s) + Len(t)
    BY <1>1, <1>2
  <2> QED BY <1>2, <2>1, <2>2
<1> HIDE DEF l
<1>5. ASSUME NEW i \in 1..Len(s) + Len(t) PROVE l[i] = r[i]
  <2>1. CASE i <= Len(s)
    BY <1>2, <1>3, <1>4, <2>1
  <2>2. CASE i > Len(s) /\ i <= Len(s) + k
    <3>1. i - Len(s) \in 1..k
      BY <2>2
    <3> QED BY <1>1, <1>2, <1>3, <1>4, <2>2, <3>1
  <2>3. CASE i > Len(s) + k
    <3>1. i - (Len(s) + k) \in 1..Len(t) - k /\ k + (i - (Len(s) + k)) = i - Len(s)
      BY <2>3
    <3>2. b[i - (Len(s) + k)] = t[i - Len(s)]
      BY <1>1, <3>1
    <3>3. l[i] = b[i - (Len(s) + k)]
      BY <1>4, <2>3, SMTT(30)
    <3>4. r[i] = t[i - Len(s)]
      BY <1>3, <2>3
    <3> QED BY <3>2, <3>3, <3>4
  <2> QED BY <2>1, <2>2, <2>3
<1>6. l = r
  BY <1>3, <1>4, <1>5, SameSeq
<1> QED BY <1>6 DEF l, sa, a, b, r

-----------------------------------------------------------------------------
(* Order is kept by what is left, by what is taken and by what is sent.    *)
LEMMA InOrderRest ==
  ASSUME NEW s \in Seq(Piece), NEW c, NEW n, InOrder(s, c, n), NEW k \in 0..Len(s)
  PROVE  InOrder(SubSeq(s, k + 1, Len(s)), c, n)
<1> DEFINE t == SubSeq(s, k + 1, Len(s))
<1>1. t \in Seq(Piece) /\ Len(t) = Len(s) - k /\ \A i \in 1..Len(s) - k : t[i] = s[k + i]
  BY Rest
<1> HIDE DEF t
<1>2. ASSUME NEW i \in 1..Len(t), NEW j \in i..Len(t)
      PROVE  k + i \in 1..Len(s) /\ k + j \in k + i..Len(s) /\ (k + j) - (k + i) = j - i
             /\ t[i] = s[k + i] /\ t[j] = s[k + j]
  <2>1. /\ Len(s) \in Nat /\ k \in Nat /\ i \in 1..Len(s) - k /\ j \in i..Len(s) - k
        /\ i \in 1..Len(t) /\ j \in 1..Len(t)
    BY <1>1
  <2>2. k + i \in 1..Len(s) /\ k + j \in k + i..Len(s) /\ (k + j) - (k + i) = j - i
    BY <2>1
  <2> QED BY <1>1, <2>1, <2>2
<1>3. ASSUME NEW i \in 1..Len(t)
      PROVE  t[i].connection = c /\ t[i].nr <= n /\ t[i].at <= Size(t[i].nr)
  <2>1. i \in i..Len(t)
    BY <1>1
  <2>2. k + i \in 1..Len(s) /\ t[i] = s[k + i]
    BY <1>2, <2>1
  <2> QED BY <2>2 DEF InOrder
<1>5. ASSUME NEW i \in 1..Len(t), NEW j \in i..Len(t)
      PROVE  \/ /\ j - i <= Size(t[i].nr) - t[i].at
                /\ t[j] = [connection |-> c, nr |-> t[i].nr, at |-> t[i].at + (j - i)]
             \/ /\ j - i > Size(t[i].nr) - t[i].at
                /\ t[j].nr > t[i].nr
  <2>1. k + i \in 1..Len(s) /\ k + j \in k + i..Len(s) /\ (k + j) - (k + i) = j - i
             /\ t[i] = s[k + i] /\ t[j] = s[k + j]
    BY <1>2
  <2> DEFINE x == k + i
             y == k + j
  <2>2. \/ /\ y - x <= Size(s[x].nr) - s[x].at
           /\ s[y] = [connection |-> c, nr |-> s[x].nr, at |-> s[x].at + (y - x)]
        \/ /\ y - x > Size(s[x].nr) - s[x].at
           /\ s[y].nr > s[x].nr
    BY <2>1 DEF InOrder
  <2> QED BY <2>1, <2>2
<1>4. InOrder(t, c, n)
  BY <1>3, <1>5 DEF InOrder
<1> QED BY <1>4 DEF t

LEMMA InOrderTaken ==
  ASSUME NEW s \in Seq(Piece), NEW c, NEW n, InOrder(s, c, n), NEW k \in 0..Len(s)
  PROVE  InOrder(SubSeq(s, 1, k), c, n)
<1> DEFINE t == SubSeq(s, 1, k)
<1>1. t \in Seq(Piece) /\ Len(t) = k /\ \A i \in 1..k : t[i] = s[i]
  BY Taken
<1> HIDE DEF t
<1>2. \A i \in 1..Len(t) : i \in 1..Len(s) /\ \A j \in i..Len(t) : j \in i..Len(s) /\ j \in 1..k
  BY <1>1
<1>3. InOrder(t, c, n)
  BY <1>1, <1>2 DEF InOrder
<1> QED BY <1>3 DEF t

LEMMA PiecesAre ==
  ASSUME NEW c \in 1..MaxConnects, NEW nr \in Numbers
  PROVE  /\ Pieces(c, nr) \in Seq(Piece) /\ Len(Pieces(c, nr)) = Size(nr)
         /\ \A i \in 1..Size(nr) : Pieces(c, nr)[i] = [connection |-> c, nr |-> nr, at |-> i]
<1>1. Size(nr) \in Nat /\ \A i \in 1..Size(nr) : i \in 1..HeaderSize + 2
  BY Sizes
<1>2. \A i \in 1..Size(nr) : [connection |-> c, nr |-> nr, at |-> i] \in Piece
  BY <1>1 DEF Piece
<1> QED BY <1>1, <1>2 DEF Pieces

LEMMA InOrderSent ==
  ASSUME NEW s \in Seq(Piece), NEW c \in 1..MaxConnects, NEW n \in Nat, n + 1 \in Numbers,
         InOrder(s, c, n),
         s # <<>> => s[Len(s)].nr = n /\ s[Len(s)].at = Size(n)
  PROVE  InOrder(s \o Pieces(c, n + 1), c, n + 1)
<1> DEFINE p == Pieces(c, n + 1)
           t == s \o p
<1>1. /\ p \in Seq(Piece) /\ Len(p) = Size(n + 1)
      /\ \A i \in 1..Size(n + 1) : p[i] = [connection |-> c, nr |-> n + 1, at |-> i]
      /\ Size(n + 1) \in Nat
  BY PiecesAre, Sizes
<1> HIDE DEF p
<1>2. /\ t \in Seq(Piece) /\ Len(t) = Len(s) + Size(n + 1)
      /\ \A i \in 1..Len(s) + Size(n + 1) : t[i] = IF i <= Len(s) THEN s[i] ELSE p[i - Len(s)]
  <2>1. /\ t \in Seq(Piece) /\ Len(t) = Len(s) + Len(p)
        /\ \A i \in 1..Len(s) + Len(p) : t[i] = IF i <= Len(s) THEN s[i] ELSE p[i - Len(s)]
    <3>1. p \in Seq(Piece)
      BY <1>1
    <3> QED BY <3>1, Joined
  <2> QED BY <1>1, <2>1
<1> HIDE DEF t
<1>3. \A i \in 1..Len(s) : /\ s[i].nr \in Numbers /\ s[i].at \in Nat /\ s[i].nr \in Nat
                           /\ Size(s[i].nr) \in Nat
  <2>1. \A q \in Piece : q.nr \in Numbers /\ q.at \in Nat
    BY Sizes DEF Piece
  <2> QED BY <2>1, Sizes, SMTT(30)
<1>4. ASSUME NEW i \in 1..Len(t)
      PROVE  /\ t[i].connection = c /\ t[i].nr <= n + 1 /\ t[i].at <= Size(t[i].nr)
             /\ \A j \in i..Len(t) :
                  \/ /\ j - i <= Size(t[i].nr) - t[i].at
                     /\ t[j] = [connection |-> c, nr |-> t[i].nr, at |-> t[i].at + (j - i)]
                  \/ /\ j - i > Size(t[i].nr) - t[i].at
                     /\ t[j].nr > t[i].nr
  <2>1. CASE i <= Len(s)
    <3>0. i \in 1..Len(s) /\ t[i] = s[i] /\ Len(s) \in i..Len(s) /\ Len(s) \in Nat /\ s # <<>>
      BY <1>2, <2>1
    <3>1. t[i].connection = c /\ t[i].nr <= n + 1 /\ t[i].at <= Size(t[i].nr) /\ s[i].nr <= n
      BY <1>3, <3>0 DEF InOrder
    <3>2. ASSUME NEW j \in i..Len(t), j <= Len(s)
          PROVE  \/ /\ j - i <= Size(t[i].nr) - t[i].at
                    /\ t[j] = [connection |-> c, nr |-> t[i].nr, at |-> t[i].at + (j - i)]
                 \/ /\ j - i > Size(t[i].nr) - t[i].at
                    /\ t[j].nr > t[i].nr
      <4>1. j \in i..Len(s) /\ t[j] = s[j]
        BY <1>2, <3>0, <3>2
      <4> QED BY <3>0, <4>1 DEF InOrder
    <3>3. ASSUME NEW j \in i..Len(t), j > Len(s)
          PROVE  j - i > Size(t[i].nr) - t[i].at /\ t[j].nr > t[i].nr
      <4>1. j - Len(s) \in 1..Size(n + 1) /\ t[j].nr = n + 1
        <5>1. j - Len(s) \in 1..Size(n + 1) /\ t[j] = p[j - Len(s)]
          BY <1>1, <1>2, <3>0, <3>3
        <5> QED BY <1>1, <5>1
      <4>2. Len(s) - i >= Size(s[i].nr) - s[i].at
        <5>1. CASE s[Len(s)] = [connection |-> c, nr |-> s[i].nr, at |-> s[i].at + (Len(s) - i)]
          <6>1. n = s[i].nr /\ Size(n) = s[i].at + (Len(s) - i)
            BY <3>0, <5>1
          <6> QED BY <1>3, <3>0, <6>1, SMTT(30)
        <5>2. CASE Len(s) - i > Size(s[i].nr) - s[i].at
          BY <1>3, <3>0, <5>2, SMTT(30)
        <5> QED BY <3>0, <5>1, <5>2 DEF InOrder
      <4>3. j - i > Len(s) - i /\ Len(s) - i \in Int /\ j \in Int
        BY <1>2, <3>0, <3>3
      <4>4. Size(s[i].nr) \in Nat /\ s[i].at \in Nat /\ s[i].nr \in Nat
        BY <1>3, <3>0
      <4>5. j - i > Size(s[i].nr) - s[i].at
        BY <3>0, <4>2, <4>3, <4>4
      <4>6. n + 1 > s[i].nr
        BY <3>1, <4>4
      <4> QED BY <3>0, <4>1, <4>5, <4>6
    <3>4. \A j \in i..Len(t) : j <= Len(s) \/ j > Len(s)
      BY <1>2, <3>0
    <3> QED BY <3>1, <3>2, <3>3, <3>4
  <2>2. CASE i > Len(s)
    <3>1. i - Len(s) \in 1..Size(n + 1) /\ t[i] = [connection |-> c, nr |-> n + 1, at |-> i - Len(s)]
      <4>1. i - Len(s) \in 1..Size(n + 1) /\ t[i] = p[i - Len(s)]
        BY <1>1, <1>2, <2>2
      <4> QED BY <1>1, <4>1
    <3>2. ASSUME NEW j \in i..Len(t)
          PROVE  /\ j - i <= Size(n + 1) - (i - Len(s))
                 /\ t[j] = [connection |-> c, nr |-> n + 1, at |-> (i - Len(s)) + (j - i)]
      <4>1. j - Len(s) \in 1..Size(n + 1) /\ t[j] = p[j - Len(s)]
        BY <1>1, <1>2, <2>2, <3>2
      <4>2. t[j] = [connection |-> c, nr |-> n + 1, at |-> j - Len(s)]
        BY <1>1, <4>1
      <4>3. j - Len(s) = (i - Len(s)) + (j - i) /\ j - i <= Size(n + 1) - (i - Len(s))
        BY <1>1, <1>2, <4>1
      <4> QED BY <4>2, <4>3
    <3> QED BY <1>1, <3>1, <3>2
  <2> QED BY <1>2, <2>1, <2>2
<1>5. InOrder(t, c, n + 1)
  BY <1>4 DEF InOrder
<1> QED BY <1>5 DEF t, p

(* A packet begins where its first piece is, and is whole up to its size.  *)
LEMMA FirstPacket ==
  ASSUME NEW s \in Seq(Piece), NEW c, NEW n, InOrder(s, c, n), s # <<>>, s[1].at = 1
  PROVE  /\ \A i \in 1..Len(s) : i <= Size(s[1].nr) =>
                s[i] = [connection |-> c, nr |-> s[1].nr, at |-> i]
         /\ \A i \in 1..Len(s) : i > Size(s[1].nr) => s[i].nr > s[1].nr
         /\ s[1].nr <= n /\ s[1].connection = c
<1>1. 1 \in 1..Len(s) /\ \A i \in 1..Len(s) : i \in 1..Len(s)
  OBVIOUS
<1>2. s[1].nr \in Numbers /\ Size(s[1].nr) \in Nat
  <2>1. \A q \in Piece : q.nr \in Numbers
    BY DEF Piece
  <2> QED BY <1>1, <2>1, Sizes
<1>3. ASSUME NEW i \in 1..Len(s)
      PROVE  \/ /\ i - 1 <= Size(s[1].nr) - 1
                /\ s[i] = [connection |-> c, nr |-> s[1].nr, at |-> 1 + (i - 1)]
             \/ /\ i - 1 > Size(s[1].nr) - 1
                /\ s[i].nr > s[1].nr
  BY <1>1 DEF InOrder
<1>4. \A i \in 1..Len(s) : /\ i - 1 <= Size(s[1].nr) - 1 <=> i <= Size(s[1].nr)
                           /\ i - 1 > Size(s[1].nr) - 1 <=> i > Size(s[1].nr)
                           /\ 1 + (i - 1) = i
  BY <1>2
<1>5. s[1].nr <= n /\ s[1].connection = c
  BY <1>1 DEF InOrder
<1>6. ASSUME NEW i \in 1..Len(s), i <= Size(s[1].nr)
      PROVE  s[i] = [connection |-> c, nr |-> s[1].nr, at |-> i]
  BY <1>2, <1>3, <1>4, <1>6
<1>7. ASSUME NEW i \in 1..Len(s), i > Size(s[1].nr) PROVE s[i].nr > s[1].nr
  <2>1. ~(i - 1 <= Size(s[1].nr) - 1)
    BY <1>2, <1>7
  <2> QED BY <1>3, <2>1
<1> QED BY <1>5, <1>6, <1>7

LEMMA PieceParts ==
  ASSUME NEW q \in Piece
  PROVE  /\ q.nr \in Numbers /\ q.nr \in Nat /\ q.at \in Nat /\ q.connection \in 1..MaxConnects
         /\ Size(q.nr) \in Nat /\ HeaderSize < Size(q.nr) /\ Size(q.nr) <= HeaderSize + 2
<1>1. q.nr \in Numbers /\ q.at \in 1..HeaderSize + 2 /\ q.connection \in 1..MaxConnects
  BY DEF Piece
<1> QED BY <1>1, Sizes

-----------------------------------------------------------------------------
(* What Body takes, and what Header takes                                  *)
LEMMA BodyStep ==
  ASSUME TypeOK, BufferInv, Body
  PROVE  \E k \in 1..Missing :
           LET contents == buffer \o SubSeq(stream, 1, k) IN
           /\ k <= Len(stream) /\ stream' = SubSeq(stream, k + 1, Len(stream))
           /\ contents \in Seq(Piece) /\ Len(contents) = Len(buffer) + k
           /\ contents[1] = buffer[1] /\ contents[Len(contents)] = stream[k]
           /\ \/ k < Missing /\ BodyIncomplete(contents)
              \/ k = Missing /\ FooterIn(contents) /\ BodyComplete(contents)
              \/ k = Missing /\ ~FooterIn(contents) /\ BodyBad(contents)
<1>1. /\ buffer \in Seq(Piece) /\ buffer # <<>> /\ stream \in Seq(Piece) /\ Missing > 0
      /\ Len(buffer) \in Nat /\ Len(buffer) >= 1
  BY DEF TypeOK, BufferInv, Body
<1>2. Missing \in Int
  <2>1. buffer[1] \in Piece
    BY <1>1
  <2> QED BY <1>1, <2>1, PieceParts DEF Missing
<1>3. PICK k \in 1..Missing :
        LET contents == buffer \o SubSeq(stream, 1, k) IN
        /\ Recv(k)
        /\ \/ k < Missing /\ BodyIncomplete(contents)
           \/ k = Missing /\ FooterIn(contents) /\ BodyComplete(contents)
           \/ k = Missing /\ ~FooterIn(contents) /\ BodyBad(contents)
  BY <1>1 DEF Body
<1>4. k \in 0..Len(stream) /\ k \in 1..Len(stream) /\ stream' = SubSeq(stream, k + 1, Len(stream))
  BY <1>1, <1>2, <1>3 DEF Recv
<1> DEFINE t == SubSeq(stream, 1, k)
           contents == buffer \o t
<1>5. t \in Seq(Piece) /\ Len(t) = k /\ \A i \in 1..k : t[i] = stream[i]
  BY <1>1, <1>4, Taken
<1> HIDE DEF t
<1>6. t \in Seq(Piece)
  BY <1>5
<1>7. /\ contents \in Seq(Piece) /\ Len(contents) = Len(buffer) + Len(t)
      /\ \A i \in 1..Len(buffer) : contents[i] = buffer[i]
      /\ \A i \in 1..Len(t) : contents[Len(buffer) + i] = t[i]
  BY <1>1, <1>6, Joined
<1> HIDE DEF contents
<1>8. /\ Len(contents) = Len(buffer) + k /\ contents[1] = buffer[1]
      /\ contents[Len(contents)] = stream[k]
  <2>1. k \in 1..Len(t) /\ 1 \in 1..Len(buffer)
    BY <1>1, <1>4, <1>5
  <2>2. contents[Len(buffer) + k] = t[k] /\ t[k] = stream[k]
    BY <1>5, <1>7, <2>1
  <2> QED BY <1>5, <1>7, <2>1, <2>2
<1> QED BY <1>3, <1>4, <1>7, <1>8 DEF contents, t

LEMMA HeaderStep ==
  ASSUME TypeOK, Header
  PROVE  \E k \in 1..HeaderSize :
           /\ k \in 0..Len(stream) /\ stream' = SubSeq(stream, k + 1, Len(stream))
           /\ split \/ k = HeaderSize \/ stream[k].at >= HeaderSize \/ (Lost /\ k = Len(stream))
           /\ \/ /\ k = HeaderSize /\ stream[1].at = 1
                 /\ rxState' = "hdr" /\ buffer' = SubSeq(stream, 1, k)
                 /\ UNCHANGED clientVars
              \/ /\ ~(k = HeaderSize /\ stream[1].at = 1)
                 /\ NothingReceived /\ UNCHANGED <<rxState, buffer>>
<1>1. PICK k \in 1..HeaderSize :
        LET taken == SubSeq(stream, 1, k) IN
        /\ Recv(k)
        /\ \/ split \/ k = HeaderSize
           \/ Last(taken).at >= HeaderSize
           \/ Lost /\ k = Len(stream)
        /\ IF HeaderAccepted(taken)
             THEN rxState' = "hdr" /\ buffer' = taken /\ UNCHANGED clientVars
             ELSE NothingReceived /\ UNCHANGED <<rxState, buffer>>
  BY DEF Header
<1>2. stream \in Seq(Piece) /\ k \in 0..Len(stream) /\ k \in 1..k /\ 1 \in 1..k
  BY <1>1, Sizes DEF Recv, TypeOK
<1> DEFINE taken == SubSeq(stream, 1, k)
<1>3. Len(taken) = k /\ taken[k] = stream[k] /\ taken[1] = stream[1]
  BY <1>2, Taken
<1> HIDE DEF taken
<1>4. HeaderAccepted(taken) <=> k = HeaderSize /\ stream[1].at = 1
  BY <1>3 DEF HeaderAccepted
<1>5. Last(taken).at = stream[k].at
  BY <1>3 DEF Last
<1>6. stream' = SubSeq(stream, k + 1, Len(stream))
  BY <1>1 DEF Recv
<1>7. split \/ k = HeaderSize \/ stream[k].at >= HeaderSize \/ (Lost /\ k = Len(stream))
  BY <1>1, <1>5 DEF taken
<1>8. CASE k = HeaderSize /\ stream[1].at = 1
  <2>1. rxState' = "hdr" /\ buffer' = SubSeq(stream, 1, k) /\ UNCHANGED clientVars
    BY <1>1, <1>4, <1>8 DEF taken
  <2> QED BY <1>2, <1>6, <1>7, <1>8, <2>1
<1>9. CASE ~(k = HeaderSize /\ stream[1].at = 1)
  <2>1. NothingReceived /\ UNCHANGED <<rxState, buffer>>
    BY <1>1, <1>4, <1>9 DEF taken
  <2> QED BY <1>2, <1>6, <1>7, <1>9, <2>1
<1> QED BY <1>8, <1>9

-----------------------------------------------------------------------------
PlainInv == PlaceInv /\ BufferInv

LEMMA TxPiecesAre ==
  ASSUME NEW kind \in Sent
  PROVE  /\ TxPieces(kind) \in Seq(TxPiece) /\ Len(TxPieces(kind)) = 2
         /\ TxPieces(kind)[1] = [kind |-> kind, at |-> 1] /\ TxPieces(kind)[2] = [kind |-> kind, at |-> 2]
<1>1. [kind |-> kind, at |-> 1] \in TxPiece /\ [kind |-> kind, at |-> 2] \in TxPiece
  BY DEF TxPiece
<1> QED BY <1>1 DEF TxPieces

LEMMA EmptySeqs == ASSUME NEW S PROVE <<>> \in Seq(S) /\ Len(<<>>) = 0
OBVIOUS

(* Types, in groups that few actions change                                *)
ControlType ==
  /\ op \in {"none", "connect", "receive", "send", "disconnect", "freed"}
  /\ at \in Labels
  /\ state \in {"noTCP", "established", "sentRequest", "sentResponse", "active"}
  /\ noblock \in BOOLEAN /\ timed \in BOOLEAN /\ result \in {"0", "1", "-1", "socket"}
RxType ==
  /\ rxState \in {"created", "hdr", "complete", "error"}
  /\ buffer \in Seq(Piece) /\ Len(buffer) <= HeaderSize + 2
  /\ rxState = "hdr" => Missing > 0
  /\ completed \in Seq({Garbled} \cup ((1..MaxConnects) \X Numbers))
TxType == tx \in Seq(TxPiece) /\ Len(tx) <= 2
OutType == out \in Seq(TxPiece) /\ Len(out) <= SendBuffer
StreamType == stream \in Seq(Piece) /\ Len(stream) <= MaxStream
NetType ==
  /\ link \in {"none", "connecting", "up", "refused", "closed", "reset"}
  /\ connection \in 0..MaxConnects /\ split \in BOOLEAN /\ resumed \in BOOLEAN
ServerType ==
  /\ got \in Seq(TxPiece) /\ Len(got) <= 1 /\ server \in {"none", "request", "response"}
  /\ outOfStep \in BOOLEAN /\ sent \in [1..MaxConnects -> 0..3 + MaxData]

LEMMA TypeParts ==
  TypeOK <=> ControlType /\ RxType /\ TxType /\ OutType /\ StreamType /\ NetType /\ ServerType
BY DEF TypeOK, ControlType, RxType, TxType, OutType, StreamType, NetType, ServerType, Labels

LEMMA InitType == Init => TypeOK /\ PlainInv
<1> SUFFICES ASSUME Init PROVE TypeOK /\ PlainInv
  OBVIOUS
<1>1. /\ buffer \in Seq(Piece) /\ completed \in Seq({Garbled} \cup ((1..MaxConnects) \X Numbers))
      /\ tx \in Seq(TxPiece) /\ out \in Seq(TxPiece) /\ got \in Seq(TxPiece) /\ stream \in Seq(Piece)
      /\ Len(buffer) = 0 /\ Len(tx) = 0 /\ Len(out) = 0 /\ Len(got) = 0 /\ Len(stream) = 0
  BY EmptySeqs DEF Init
<1>2. sent \in [1..MaxConnects -> 0..3 + MaxData]
  BY Sizes DEF Init
<1>3. TypeOK
  <2>1. RxType /\ TxType /\ OutType /\ StreamType
    BY <1>1, Sizes DEF Init, RxType, TxType, OutType, StreamType
  <2>2. ControlType
    BY DEF Init, ControlType, Labels
  <2>3. ServerType
    <3>1. Len(got) <= 1
      BY <1>1
    <3> QED BY <1>1, <1>2, <3>1, Zenon DEF Init, ServerType
  <2>4. NetType
    <3>1. connection \in 0..MaxConnects
      BY Sizes DEF Init
    <3> QED BY <3>1, Zenon DEF Init, NetType
  <2> QED BY <2>1, <2>2, <2>3, <2>4, TypeParts
<1>4. PlainInv
  BY <1>1, Sizes DEF Init, PlainInv, PlaceInv, BufferInv
<1> QED BY <1>3, <1>4

LEMMA ControlNext == TypeOK /\ PlainInv /\ [Next]_vars => ControlType'
<1> SUFFICES ASSUME TypeOK, PlainInv, [Next]_vars PROVE ControlType'
  OBVIOUS
<1>1. ControlType
  BY TypeParts
<1>2. CASE Body
  <2>1. PICK k \in 1..Missing :
          LET contents == buffer \o SubSeq(stream, 1, k) IN
           \/ k < Missing /\ BodyIncomplete(contents)
           \/ k = Missing /\ FooterIn(contents) /\ BodyComplete(contents)
           \/ k = Missing /\ ~FooterIn(contents) /\ BodyBad(contents)
    BY <1>2, BodyStep DEF PlainInv
  <2> DEFINE contents == buffer \o SubSeq(stream, 1, k)
  <2>2. \/ BodyIncomplete(contents) \/ BodyComplete(contents) \/ BodyBad(contents)
    BY <2>1
  <2> HIDE DEF contents
  <2>3. \A kind : Decoded(kind).state \in {"sentRequest", "sentResponse", "active", state}
    BY DEF Decoded
  <2>4. CASE BodyComplete(contents)
    BY <1>1, <2>3, <2>4 DEF BodyComplete, Goto, ControlType, Labels
  <2> QED BY <1>1, <2>2, <2>4 DEF BodyIncomplete, BodyBad, NothingReceived, Goto, ControlType, Labels,
        clientVars
<1>3. CASE Header
  <2>1. NothingReceived \/ UNCHANGED clientVars
    BY <1>3, HeaderStep
  <2> QED BY <1>1, <2>1 DEF NothingReceived, Goto, ControlType, Labels, clientVars
<1>4. CASE \/ HeaderError \/ BodyError \/ TcpRefused \/ TcpConnected \/ SendSome \/ SendSwallowed
           \/ KeepAlive \/ NoKeepAlive \/ ConnectEnds \/ TimesOut \/ ConnectAgain \/ Close
  BY <1>1, <1>4 DEF HeaderError, BodyError, TcpRefused, TcpConnected, SendSome, SendSwallowed, KeepAlive,
     NoKeepAlive, ConnectEnds, TimesOut, ConnectAgain, Close, NothingReceived, Goto, Returns, Leave,
     ControlType, Labels, clientVars
<1>5. CASE SendFails \/ SendDone
  BY <1>1, <1>5 DEF SendFails, SendDone, AfterSend, Goto, Returns, Leave, ControlType, Labels
<1>6. CASE Application
  BY <1>1, <1>6 DEF Application, Connect, Receive, Send, Disconnect, Free, Call, ControlType, Labels
<1>7. CASE Server \/ Established \/ Lose \/ UNCHANGED vars
  BY <1>1, <1>7 DEF Server, ServerSends, ServerTakes, Established, Lose, vars, clientVars, ControlType
<1> QED BY <1>2, <1>3, <1>4, <1>5, <1>6, <1>7 DEF Next, Client

LEMMA IdentityType ==
  ASSUME NEW contents \in Seq(Piece), contents # <<>>
  PROVE  Identity(contents) \in {Garbled} \cup ((1..MaxConnects) \X Numbers)
<1>1. contents[1] \in Piece
  OBVIOUS
<1> QED BY <1>1 DEF Identity, Piece

LEMMA RxNext == TypeOK /\ PlainInv /\ [Next]_vars => RxType'
<1> SUFFICES ASSUME TypeOK, PlainInv, [Next]_vars PROVE RxType'
  OBVIOUS
<1>1. RxType /\ stream \in Seq(Piece)
  BY TypeParts DEF StreamType
<1>2. CASE UNCHANGED packetVars
  BY <1>1, <1>2 DEF RxType, packetVars, Missing
<1>3. CASE Body
  <2>1. PICK k \in 1..Missing :
           LET contents == buffer \o SubSeq(stream, 1, k) IN
           /\ contents \in Seq(Piece) /\ Len(contents) = Len(buffer) + k
           /\ contents[1] = buffer[1]
           /\ \/ k < Missing /\ BodyIncomplete(contents)
              \/ k = Missing /\ FooterIn(contents) /\ BodyComplete(contents)
              \/ k = Missing /\ ~FooterIn(contents) /\ BodyBad(contents)
    BY <1>3, BodyStep DEF PlainInv
  <2> DEFINE contents == buffer \o SubSeq(stream, 1, k)
  <2>2. /\ contents \in Seq(Piece) /\ Len(contents) = Len(buffer) + k
        /\ contents[1] = buffer[1]
        /\ \/ k < Missing /\ BodyIncomplete(contents)
           \/ BodyComplete(contents)
           \/ BodyBad(contents)
    BY <2>1
  <2> HIDE DEF contents
  <2>3. buffer # <<>> /\ Len(buffer) \in Nat /\ buffer[1] \in Piece /\ contents # <<>>
    BY <1>1, <1>3, <2>2 DEF PlainInv, BufferInv, Body, RxType
  <2>4. Size(buffer[1].nr) \in Nat /\ Size(buffer[1].nr) <= HeaderSize + 2
    BY <2>3, Sizes DEF Piece
  <2>5. CASE k < Missing /\ BodyIncomplete(contents)
    <3>1. k \in Nat /\ Len(contents) < Size(contents[1].nr)
      BY <2>2, <2>3, <2>4, <2>5 DEF Missing
    <3> QED BY <1>1, <2>2, <2>3, <2>4, <2>5, <3>1, Sizes DEF BodyIncomplete, RxType, Missing
  <2>6. CASE BodyComplete(contents)
    <3>1. completed' \in Seq({Garbled} \cup ((1..MaxConnects) \X Numbers))
      BY <1>1, <2>2, <2>3, <2>6, IdentityType DEF BodyComplete, RxType
    <3> QED BY <2>6, <3>1, EmptySeqs, Sizes DEF BodyComplete, RxType
  <2>7. CASE BodyBad(contents)
    BY <1>1, <2>7, EmptySeqs, Sizes DEF BodyBad, RxType
  <2> QED BY <2>2, <2>5, <2>6, <2>7
<1>4. CASE Header
  <2>1. PICK k \in 1..HeaderSize :
           /\ k \in 0..Len(stream)
           /\ \/ /\ k = HeaderSize
                 /\ rxState' = "hdr" /\ buffer' = SubSeq(stream, 1, k)
              \/ UNCHANGED <<rxState, buffer>>
    BY <1>4, HeaderStep
  <2>2. CASE k = HeaderSize /\ rxState' = "hdr" /\ buffer' = SubSeq(stream, 1, k)
    <3>1. buffer' \in Seq(Piece) /\ Len(buffer') = HeaderSize
      BY <1>1, <2>1, <2>2, Taken
    <3>2. buffer'[1].nr \in Numbers
      <4>1. buffer'[1] \in Piece
        BY <3>1, Sizes
      <4> QED BY <4>1, PieceParts
    <3>3. Missing' > 0
      BY <3>1, <3>2, Sizes DEF Missing
    <3> QED BY <1>1, <1>4, <2>2, <3>1, <3>3, Sizes DEF RxType, Header
  <2> QED BY <1>1, <1>2, <1>4, <2>1, <2>2 DEF Header, packetVars
<1> QED BY <1>2, <1>3, <1>4 DEF Next, Client, Application, Server, HeaderError, BodyError, TcpRefused,
     TcpConnected, SendSome, SendSwallowed, SendFails, SendDone, KeepAlive, NoKeepAlive, ConnectEnds,
     TimesOut, ConnectAgain, Close, Connect, Receive, Send, Disconnect, Free, Call, ServerSends,
     ServerTakes, Established, Lose, vars

LEMMA Least ==
  ASSUME NEW a \in Nat, NEW b \in Nat
  PROVE  Min({a, b}) = IF a <= b THEN a ELSE b
<1>1. \A x \in {a, b} : (\A y \in {a, b} : x <= y) <=> x = (IF a <= b THEN a ELSE b)
  OBVIOUS
<1> QED BY <1>1 DEF Min

(* What packet_send takes of the packet fits the buffer of the socket.     *)
LEMMA SendSomeStep ==
  ASSUME TypeOK, SendSome
  PROVE  \E k \in 1..Len(tx) :
           /\ out' = out \o SubSeq(tx, 1, k) /\ tx' = SubSeq(tx, k + 1, Len(tx))
           /\ k \in 0..Len(tx) /\ Len(out) + k <= SendBuffer
<1>1. tx \in Seq(TxPiece) /\ out \in Seq(TxPiece) /\ Len(tx) \in Nat /\ Len(out) \in Nat
  BY DEF TypeOK
<1>2. Len(out) <= SendBuffer /\ Room \in Nat
  BY <1>1, Sizes DEF TypeOK, Room
<1>3. PICK k \in 1..Min({Len(tx), Room}) :
        out' = out \o SubSeq(tx, 1, k) /\ tx' = SubSeq(tx, k + 1, Len(tx))
  BY DEF SendSome
<1>4. k \in 1..Len(tx) /\ k <= Room
  BY <1>1, <1>2, Least
<1>5. k \in 0..Len(tx) /\ Len(out) + k <= SendBuffer
  BY <1>1, <1>4, Sizes DEF Room
<1> QED BY <1>3, <1>4, <1>5

LEMMA TxNext == TypeOK /\ PlainInv /\ [Next]_vars => TxType'
<1> SUFFICES ASSUME TypeOK, PlainInv, [Next]_vars PROVE TxType'
  OBVIOUS
<1>1. TxType
  BY TypeParts
<1>2. CASE UNCHANGED tx
  BY <1>1, <1>2 DEF TxType
<1>3. CASE tx' = <<>>
  BY <1>3, EmptySeqs DEF TxType
<1>4. CASE \E kind \in Sent : tx' = TxPieces(kind)
  <2>1. PICK kind \in Sent : tx' = TxPieces(kind)
    BY <1>4
  <2>2. TxPieces(kind) \in Seq(TxPiece) /\ Len(TxPieces(kind)) = 2
    BY TxPiecesAre
  <2> QED BY <2>1, <2>2 DEF TxType
<1>5. CASE SendSome
  <2>1. PICK k \in 0..Len(tx) : tx' = SubSeq(tx, k + 1, Len(tx))
    BY <1>5, SendSomeStep
  <2>2. Len(tx) \in Nat
    BY <1>1 DEF TxType
  <2> QED BY <1>1, <2>1, <2>2, Rest DEF TxType
<1>6. CASE Body
  <2>1. PICK k \in 1..Missing :
          LET contents == buffer \o SubSeq(stream, 1, k) IN
           \/ k < Missing /\ BodyIncomplete(contents)
           \/ k = Missing /\ FooterIn(contents) /\ BodyComplete(contents)
           \/ k = Missing /\ ~FooterIn(contents) /\ BodyBad(contents)
    BY <1>6, BodyStep DEF PlainInv
  <2> DEFINE contents == buffer \o SubSeq(stream, 1, k)
  <2>2. \/ BodyIncomplete(contents) \/ BodyComplete(contents) \/ BodyBad(contents)
    BY <2>1
  <2> HIDE DEF contents
  <2>3. \A kind : Decoded(kind).tx \in {TxPieces("request"), TxPieces("response"), <<>>}
    BY DEF Decoded
  <2>4. {"request", "response"} \subseteq Sent
    BY DEF Sent
  <2> QED BY <1>2, <1>3, <1>4, <2>2, <2>3, <2>4 DEF BodyIncomplete, BodyComplete, BodyBad
<1>7. CASE Send \/ Disconnect \/ KeepAlive
  <2>1. {"data", "alive", "terminate"} \subseteq Sent
    BY DEF Sent
  <2> QED BY <1>4, <1>7, <2>1 DEF Send, Disconnect, KeepAlive
<1>8. CASE SendFails \/ SendSwallowed
  BY <1>3, <1>8 DEF SendFails, SendSwallowed
<1> QED BY <1>2, <1>5, <1>6, <1>7, <1>8 DEF Next, Client, Application, Server, Header, HeaderError,
     BodyError, TcpRefused, TcpConnected, SendDone, NoKeepAlive, ConnectEnds, TimesOut, ConnectAgain,
     Close, Connect, Receive, Free, ServerSends, ServerTakes, Established, Lose, vars

LEMMA OutNext == TypeOK /\ PlainInv /\ [Next]_vars => OutType'
<1> SUFFICES ASSUME TypeOK, PlainInv, [Next]_vars PROVE OutType'
  OBVIOUS
<1>1. OutType /\ TxType
  BY TypeParts
<1>2. CASE UNCHANGED out
  BY <1>1, <1>2 DEF OutType
<1>3. CASE out' = <<>>
  BY <1>3, EmptySeqs, Sizes DEF OutType
<1>4. CASE SendSome
  <2>1. PICK k \in 0..Len(tx) : out' = out \o SubSeq(tx, 1, k) /\ Len(out) + k <= SendBuffer
    BY <1>4, SendSomeStep
  <2> DEFINE t == SubSeq(tx, 1, k)
  <2>2. t \in Seq(TxPiece) /\ Len(t) = k
    BY <1>1, <2>1, Taken DEF TxType
  <2> HIDE DEF t
  <2>3. out \o t \in Seq(TxPiece) /\ Len(out \o t) = Len(out) + Len(t)
    BY <1>1, <2>2, Joined DEF OutType
  <2> QED BY <2>1, <2>2, <2>3 DEF OutType, t
<1>5. CASE ServerTakes
  <2>1. out' \in Seq(TxPiece) /\ Len(out') = Len(out) - 1 /\ Len(out) \in Nat
    BY <1>1, <1>5 DEF ServerTakes, OutType
  <2> QED BY <1>1, <2>1, Sizes DEF OutType
<1> QED BY <1>2, <1>3, <1>4, <1>5 DEF Next, Client, Application, Server, Header, HeaderError, Body,
     BodyError, TcpRefused, TcpConnected, SendSwallowed, SendFails, SendDone, KeepAlive, NoKeepAlive,
     ConnectEnds, TimesOut, ConnectAgain, Close, Connect, Receive, Send, Disconnect, Free, Call,
     ServerSends, Established, Lose, vars

(* What the server has after it has taken a piece                          *)
LEMMA ServerTakesStep ==
  ASSUME TypeOK, ServerTakes
  PROVE  LET has == Append(got, Head(out)) IN
         /\ out \in Seq(TxPiece) /\ out # <<>> /\ out' = Tail(out) /\ Head(out) = out[1]
         /\ Len(out') = Len(out) - 1 /\ \A i \in 1..Len(out) - 1 : out'[i] = out[i + 1]
         /\ outOfStep' => got' = <<>> /\ server' = server
         /\ got = <<>> => has = <<out[1]>> /\ server' = server
                          /\ (outOfStep' <=> out[1].at # 1)
                          /\ (~outOfStep' => got' = has)
         /\ got # <<>> => /\ has = <<got[1], out[1]>> /\ got' = <<>>
                          /\ outOfStep' <=> has # TxPieces(got[1].kind)
                          /\ server' = IF outOfStep' \/ got[1].kind \notin {"request", "response"}
                                         THEN server ELSE got[1].kind
<1> DEFINE has == Append(got, Head(out))
<1>1. /\ out \in Seq(TxPiece) /\ out # <<>> /\ out' = Tail(out) /\ Head(out) = out[1]
      /\ Len(out') = Len(out) - 1 /\ \A i \in 1..Len(out) - 1 : out'[i] = out[i + 1]
      /\ out[1] \in TxPiece
  BY DEF TypeOK, ServerTakes
<1>2. got \in Seq(TxPiece) /\ Len(got) \in {0, 1}
  BY TypeParts DEF ServerType
<1>3. /\ outOfStep' = ~IsPrefix(has, TxPieces(has[1].kind))
      /\ got' = IF outOfStep' \/ has = TxPieces(has[1].kind) THEN <<>> ELSE has
      /\ server' = CASE has = TxPieces("request")  -> "request"
                     [] has = TxPieces("response") -> "response"
                     [] OTHER                      -> server
  BY DEF ServerTakes
<1>4. \A kind : /\ Len(TxPieces(kind)) = 2
                /\ TxPieces(kind)[1] = [kind |-> kind, at |-> 1]
                /\ TxPieces(kind)[2] = [kind |-> kind, at |-> 2]
  BY DEF TxPieces
<1>5. CASE got = <<>>
  <2>1. has = <<out[1]>> /\ Len(has) = 1 /\ has[1] = out[1] /\ has \in Seq(TxPiece)
    BY <1>1, <1>5
  <2>2. ASSUME NEW kind PROVE has # TxPieces(kind)
    <3>1. Len(TxPieces(kind)) = 2
      BY <1>4
    <3> HIDE DEF has
    <3> QED BY <2>1, <3>1
  <2>3. IsPrefix(has, TxPieces(has[1].kind)) <=> out[1].at = 1
    <3> DEFINE p == TxPieces(out[1].kind)
               t == SubSeq(p, 1, 1)
    <3>1. p \in Seq(TxPiece) /\ Len(p) = 2 /\ p[1] = [kind |-> out[1].kind, at |-> 1]
      BY <1>1, TxPiecesAre DEF TxPiece
    <3> HIDE DEF p, has
    <3>2. SubSeq(has, 1, Len(has)) = has
      BY <2>1, WholeSub
    <3>3. t \in Seq(TxPiece) /\ Len(t) = 1 /\ t[1] = p[1]
      <4>1. 1 \in 0..Len(p) /\ 1 \in 1..1
        BY <3>1
      <4> QED BY <3>1, <4>1, Taken
    <3> HIDE DEF t
    <3>4. out[1] = p[1] <=> out[1].at = 1
      BY <1>1, <3>1 DEF TxPiece
    <3>5. has = t <=> out[1] = p[1]
      BY <2>1, <3>3
    <3>6. Len(has) = 1 /\ Len(p) = 2 /\ has[1].kind = out[1].kind
      BY <2>1, <3>1
    <3>7. IsPrefix(has, p) <=> SubSeq(has, 1, Len(has)) = SubSeq(p, 1, 1)
      BY <3>6 DEF IsPrefix
    <3> QED BY <3>2, <3>4, <3>5, <3>6, <3>7 DEF p, t
  <2> QED BY <1>1, <1>3, <1>5, <2>1, <2>2, <2>3
<1>6. CASE got # <<>>
  <2>0. Len(got) = 1 /\ got[1] \in TxPiece
    BY <1>2, <1>6
  <2>1. has = <<got[1], out[1]>> /\ Len(has) = 2 /\ has[1] = got[1] /\ has[2] = out[1]
        /\ has \in Seq(TxPiece)
    <3>0. /\ has \in Seq(TxPiece) /\ Len(has) = Len(got) + 1 /\ has[Len(got) + 1] = out[1]
          /\ \A i \in 1..Len(got) : has[i] = got[i]
      BY <1>1, <1>2, Appended
    <3>1. /\ has \in Seq(TxPiece) /\ Len(has) = 2
          /\ has[1] = got[1] /\ has[2] = out[1]
      <4> HIDE DEF has
      <4>1. 1 \in 1..Len(got) /\ Len(got) + 1 = 2
        BY <2>0
      <4> QED BY <3>0, <4>1
    <3> DEFINE e == <<got[1], out[1]>>
    <3>2. e \in Seq(TxPiece) /\ Len(e) = 2 /\ e[1] = got[1] /\ e[2] = out[1]
      BY <1>1, <2>0
    <3> HIDE DEF e, has
    <3>3. has = e
      BY <3>1, <3>2, SameSeq
    <3> QED BY <3>1, <3>3 DEF e
  <2> HIDE DEF has
  <2>2. IsPrefix(has, TxPieces(got[1].kind)) <=> has = TxPieces(got[1].kind)
    <3> DEFINE p == TxPieces(got[1].kind)
    <3>1. SubSeq(has, 1, Len(has)) = has
      BY <2>1, WholeSub
    <3>2. p \in Seq(TxPiece) /\ Len(p) = 2
      BY <2>0, TxPiecesAre DEF TxPiece
    <3> HIDE DEF p
    <3>3. SubSeq(p, 1, Len(p)) = p
      BY <3>2, WholeSub
    <3>4. IsPrefix(has, p) <=> SubSeq(has, 1, Len(has)) = SubSeq(p, 1, Len(p))
      BY <2>1, <3>2 DEF IsPrefix
    <3> QED BY <3>1, <3>3, <3>4 DEF p
  <2>3. ASSUME NEW kind, has = TxPieces(kind) PROVE kind = got[1].kind
    <3>1. TxPieces(kind)[1] = [kind |-> kind, at |-> 1]
      BY <1>4
    <3>2. got[1] = [kind |-> kind, at |-> 1]
      BY <2>1, <2>3, <3>1
    <3> QED BY <3>2
  <2>4. got' = <<>> /\ (outOfStep' <=> has # TxPieces(got[1].kind))
    BY <1>3, <2>1, <2>2
  <2>5. server' = IF outOfStep' \/ got[1].kind \notin {"request", "response"}
                    THEN server ELSE got[1].kind
    <3>1. CASE has = TxPieces("request")
      BY <1>3, <2>3, <2>4, <3>1
    <3>2. CASE has = TxPieces("response") /\ has # TxPieces("request")
      BY <1>3, <2>3, <2>4, <3>2
    <3>3. CASE has # TxPieces("response") /\ has # TxPieces("request")
      BY <1>3, <2>4, <3>3
    <3> QED BY <3>1, <3>2, <3>3
  <2>6. outOfStep' => server' = server
    BY <2>5
  <2> QED BY <1>1, <1>6, <2>1, <2>4, <2>5, <2>6 DEF has
<1> QED BY <1>5, <1>6

LEMMA NetNext == TypeOK /\ PlainInv /\ [Next]_vars => NetType' /\ StreamType' /\ ServerType'
<1> SUFFICES ASSUME TypeOK, PlainInv, [Next]_vars PROVE NetType' /\ StreamType' /\ ServerType'
  OBVIOUS
<1>1. NetType /\ StreamType /\ ServerType
  BY TypeParts
<1>2. CASE UNCHANGED <<netVars, stream, serverVars>>
  BY <1>1, <1>2 DEF NetType, StreamType, ServerType, netVars, serverVars
<1>3. CASE TcpConnected
  <2>1. connection < MaxConnects
    BY <1>3 DEF TcpConnected, PlainInv, PlaceInv
  <2>2. connection' \in 0..MaxConnects
    BY <1>1, <1>3, <2>1, Sizes DEF TcpConnected, NetType
  <2> QED BY <1>1, <1>3, <2>2 DEF TcpConnected, NetType, StreamType, ServerType, serverVars
<1>4. ASSUME NEW k \in 0..Len(stream), stream' = SubSeq(stream, k + 1, Len(stream)),
             UNCHANGED <<netVars, serverVars>>
      PROVE  NetType' /\ StreamType' /\ ServerType'
  <2>1. Len(stream) \in Nat /\ k \in Nat
    BY <1>1 DEF StreamType
  <2>2. stream' \in Seq(Piece) /\ Len(stream') = Len(stream) - k
    BY <1>1, <1>4, Rest DEF StreamType
  <2>3. StreamType'
    BY <1>1, <2>1, <2>2, Sizes DEF StreamType
  <2> QED BY <1>1, <1>4, <2>3 DEF NetType, ServerType, netVars, serverVars
<1>5. CASE Header
  BY <1>4, <1>5, HeaderStep DEF Header
<1>6. CASE Body
  <2>1. PICK k \in 1..Missing : k <= Len(stream) /\ stream' = SubSeq(stream, k + 1, Len(stream))
    BY <1>6, BodyStep DEF PlainInv
  <2>2. k \in 0..Len(stream)
    BY <1>1, <2>1 DEF StreamType
  <2> QED BY <1>4, <1>6, <2>1, <2>2 DEF Body
<1>7. CASE Close
  <2>1. StreamType'
    <3>1. stream' = <<>>
      BY <1>7 DEF Close
    <3> QED BY <3>1, EmptySeqs, Sizes DEF StreamType
  <2>2. ServerType'
    <3>1. got' = <<>> /\ server' = "none" /\ outOfStep' = FALSE /\ sent' = sent
      BY <1>7 DEF Close
    <3>2. got' \in Seq(TxPiece) /\ Len(got') <= 1
      BY <3>1, EmptySeqs
    <3>3. outOfStep' \in BOOLEAN
      BY <3>1
    <3> QED BY <1>1, <3>1, <3>2, <3>3, Zenon DEF ServerType
  <2> QED BY <1>1, <1>7, <2>1, <2>2 DEF Close, NetType
<1>8. CASE Established
  BY <1>1, <1>8 DEF Established, NetType, StreamType, ServerType, serverVars
<1>9. CASE ServerSends
  <2> DEFINE nr == sent[connection] + 1
             p == Pieces(connection, nr)
  <2>1. /\ nr \in Numbers /\ Len(stream) + Size(nr) <= MaxStream
        /\ stream' = stream \o p /\ sent' = [sent EXCEPT ![connection] = nr]
        /\ connection \in 1..MaxConnects
    <3>1. connection >= 1
      BY <1>9 DEF ServerSends, PlainInv, PlaceInv
    <3> QED BY <1>1, <1>9, <3>1, Sizes DEF ServerSends, NetType
  <2> HIDE DEF nr
  <2>2. p \in Seq(Piece) /\ Len(p) = Size(nr)
    BY <2>1, PiecesAre
  <2> HIDE DEF p
  <2>3. stream' \in Seq(Piece) /\ Len(stream') = Len(stream) + Len(p)
    BY <1>1, <2>1, <2>2, Joined DEF StreamType
  <2>4. sent' \in [1..MaxConnects -> 0..3 + MaxData]
    BY <1>1, <2>1, Sizes, SMTT(30) DEF ServerType
  <2>5. StreamType'
    BY <2>1, <2>2, <2>3 DEF StreamType
  <2> QED BY <1>1, <1>9, <2>4, <2>5 DEF ServerSends, NetType, ServerType, netVars
<1>10. CASE ServerTakes
  <2>1. got' \in Seq(TxPiece) /\ Len(got') <= 1
    <3>1. CASE got' = <<>>
      BY <3>1, EmptySeqs
    <3>2. CASE got' = <<out[1]>> /\ out[1] \in TxPiece
      BY <3>2
    <3> QED BY <1>10, <3>1, <3>2, ServerTakesStep
  <2>2. server' \in {"none", "request", "response"} /\ outOfStep' \in BOOLEAN
    BY <1>1, <1>10 DEF ServerTakes, ServerType
  <2> QED BY <1>1, <1>10, <2>1, <2>2 DEF ServerTakes, NetType, StreamType, ServerType, netVars
<1>11. CASE Lose
  <2>1. PICK k \in 0..Len(stream) : stream' = SubSeq(stream, 1, k)
    BY <1>11 DEF Lose
  <2>2. stream' \in Seq(Piece) /\ Len(stream') = k
    BY <1>1, <2>1, Taken DEF StreamType
  <2>3. Len(stream) \in Nat /\ k <= Len(stream) /\ k \in Nat
    BY <1>1 DEF StreamType
  <2>4. StreamType'
    BY <1>1, <2>2, <2>3, Sizes DEF StreamType
  <2> QED BY <1>1, <1>11, <2>4 DEF Lose, NetType, ServerType, serverVars
<1> QED BY <1>2, <1>3, <1>5, <1>6, <1>7, <1>8, <1>9, <1>10, <1>11 DEF Next, Client, Application, Server,
     HeaderError, BodyError, TcpRefused, SendSome, SendSwallowed, SendFails, SendDone, KeepAlive,
     NoKeepAlive, ConnectEnds, TimesOut, ConnectAgain, Connect, Receive, Send, Disconnect, Free, Call, vars

LEMMA PlaceNext == TypeOK /\ PlainInv /\ [Next]_vars => PlaceInv'
<1> SUFFICES ASSUME TypeOK, PlainInv, [Next]_vars PROVE PlaceInv'
  OBVIOUS
<1>1. PlaceInv /\ BufferInv /\ ControlType /\ NetType
  BY TypeParts DEF PlainInv
<1>2. CASE \/ TcpRefused \/ HeaderError \/ BodyError \/ NoKeepAlive \/ ConnectEnds \/ TimesOut
           \/ ConnectAgain \/ SendSwallowed
  <2>1. CASE TcpRefused
    BY <1>1, <2>1 DEF TcpRefused, Returns, PlaceInv, Sending, packetVars, serverVars, netVars
  <2>2. CASE HeaderError \/ BodyError
    <3>1. link # "none"
      BY <1>1, <2>2 DEF HeaderError, HeaderDue, BodyError, PlaceInv
    <3> QED BY <1>1, <2>2, <3>1 DEF HeaderError, HeaderDue, BodyError, NothingReceived, Goto, PlaceInv, Sending,
          packetVars, serverVars, netVars
  <2>3. CASE NoKeepAlive
    BY <1>1, <2>3 DEF NoKeepAlive, Leave, Goto, Returns, PlaceInv, Sending, packetVars, serverVars, netVars
  <2>4. CASE ConnectEnds \/ TimesOut
    BY <1>1, <2>4 DEF ConnectEnds, TimesOut, Returns, PlaceInv, Sending, packetVars, serverVars, netVars
  <2>5. CASE ConnectAgain
    BY <1>1, <2>5 DEF ConnectAgain, Goto, PlaceInv, Sending, packetVars, serverVars, netVars
  <2>6. CASE SendSwallowed
    BY <1>1, <2>6 DEF SendSwallowed, PlaceInv, Sending, packetVars, serverVars, netVars, clientVars
  <2> QED BY <1>2, <2>1, <2>2, <2>3, <2>4, <2>5, <2>6
<1>3. CASE TcpConnected
  BY <1>1, <1>3, Sizes DEF TcpConnected, Goto, PlaceInv, Sending, packetVars, serverVars, NetType
<1>4. CASE Header
  <2>1. link # "none" /\ at = "recv" /\ link \notin {"connecting", "refused"}
    <3>1. PICK k \in 1..HeaderSize : k \in 0..Len(stream)
      BY <1>4, HeaderStep
    <3>2. stream # <<>>
      BY <3>1
    <3> QED BY <1>1, <1>4, <3>2 DEF PlaceInv, Header, HeaderDue
  <2>2. NothingReceived \/ UNCHANGED clientVars
    BY <1>4, HeaderStep
  <2> QED BY <1>1, <1>4, <2>1, <2>2 DEF Header, NothingReceived, Goto, PlaceInv, Sending, serverVars,
        netVars, clientVars
<1>5. CASE Body
  <2>1. PICK k \in 1..Missing :
          LET contents == buffer \o SubSeq(stream, 1, k) IN
           /\ k <= Len(stream)
           /\ \/ k < Missing /\ BodyIncomplete(contents)
              \/ k = Missing /\ FooterIn(contents) /\ BodyComplete(contents)
              \/ k = Missing /\ ~FooterIn(contents) /\ BodyBad(contents)
    BY <1>5, BodyStep DEF PlainInv
  <2> DEFINE contents == buffer \o SubSeq(stream, 1, k)
  <2>2. stream # <<>> /\ (BodyIncomplete(contents) \/ BodyComplete(contents) \/ BodyBad(contents))
    BY <2>1
  <2> HIDE DEF contents
  <2>3. at = "recv" /\ link \notin {"none", "connecting", "refused"}
    BY <1>1, <1>5, <2>2 DEF PlaceInv, Body
  <2> QED BY <1>1, <1>5, <2>2, <2>3 DEF Body, BodyIncomplete, BodyComplete, BodyBad, NothingReceived,
        Goto, PlaceInv, Sending, serverVars, netVars, clientVars
<1>6. CASE SendSome
  BY <1>1, <1>6 DEF SendSome, PlaceInv, Sending, serverVars, netVars, clientVars
<1>7. CASE SendFails \/ SendDone
  BY <1>1, <1>7 DEF SendFails, SendDone, AfterSend, Leave, Goto, Returns, PlaceInv, Sending, serverVars,
     netVars, packetVars
<1>8. CASE KeepAlive
  BY <1>1, <1>8 DEF KeepAlive, Goto, PlaceInv, Sending, serverVars, netVars
<1>9. CASE Close
  BY <1>1, <1>9 DEF Close, Returns, PlaceInv, Sending
<1>10. CASE Application
  BY <1>1, <1>10 DEF Application, Connect, Receive, Send, Disconnect, Free, Call, PlaceInv, Sending,
     serverVars, netVars
<1>11. CASE Established
  BY <1>1, <1>11 DEF Established, PlaceInv, Sending, serverVars, clientVars
<1>12. CASE ServerSends
  <2>1. \A c \in 1..MaxConnects : c > connection => sent'[c] = sent[c]
    <3>1. sent \in [1..MaxConnects -> 0..3 + MaxData]
      BY DEF TypeOK
    <3> QED BY <1>1, <1>12, <3>1 DEF ServerSends, NetType
  <2> QED BY <1>1, <1>12, <2>1 DEF ServerSends, PlaceInv, Sending, netVars, clientVars
<1>13. CASE ServerTakes
  BY <1>1, <1>13 DEF ServerTakes, PlaceInv, Sending, netVars, clientVars
<1>14. CASE Lose
  BY <1>1, <1>14 DEF Lose, PlaceInv, Sending, serverVars, clientVars
<1>15. CASE UNCHANGED vars
  BY <1>1, <1>15 DEF vars, PlaceInv, Sending, serverVars, netVars, clientVars
<1> QED BY <1>2, <1>3, <1>4, <1>5, <1>6, <1>7, <1>8, <1>9, <1>10, <1>11, <1>12, <1>13, <1>14, <1>15
     DEF Next, Client, Server

-----------------------------------------------------------------------------
(* The actions that change what the client has of the stream               *)
streamVars == <<packetVars, stream, sent, netVars>>

LEMMA StreamSteps ==
  ASSUME [Next]_vars
  PROVE  TcpConnected \/ Header \/ Body \/ Close \/ ServerSends \/ Lose \/ Established
         \/ UNCHANGED streamVars
BY DEF Next, Client, Application, Server, HeaderError, BodyError, TcpRefused,
   SendSome, SendSwallowed, SendFails, SendDone, KeepAlive, NoKeepAlive, ConnectEnds,
   TimesOut, ConnectAgain, Connect, Receive, Send, Disconnect, Free, Call,
   ServerTakes, vars, streamVars, serverVars

LEMMA BufferNext == TypeOK /\ PlainInv /\ [Next]_vars => BufferInv'
<1> SUFFICES ASSUME TypeOK, PlainInv, [Next]_vars PROVE BufferInv'
  OBVIOUS
<1>1. /\ BufferInv /\ PlaceInv /\ RxType /\ NetType
      /\ stream \in Seq(Piece) /\ Len(stream) \in Nat /\ connection \in Nat
  BY TypeParts DEF PlainInv, StreamType, NetType
<1>2. CASE TcpConnected
  <2>1. stream' = <<>> /\ connection' = connection + 1 /\ rxState' = rxState /\ buffer' = buffer
    BY <1>1, <1>2 DEF TcpConnected, PlaceInv, packetVars
  <2>2. rxState = "hdr" => buffer # <<>> /\ buffer[1].connection \in Nat
    <3>1. CASE rxState = "hdr"
      <4>1. buffer # <<>> /\ buffer \in Seq(Piece)
        BY <1>1, <3>1 DEF BufferInv, RxType
      <4>2. buffer[1] \in Piece
        BY <4>1
      <4> QED BY <4>1, <4>2, PieceParts, Sizes
    <3> QED BY <3>1
  <2> QED BY <1>1, <2>1, <2>2 DEF BufferInv
<1>3. CASE Header
  <2>1. PICK k \in 1..HeaderSize :
           /\ k \in 0..Len(stream) /\ stream' = SubSeq(stream, k + 1, Len(stream))
           /\ \/ rxState' = "hdr" /\ buffer' = SubSeq(stream, 1, k)
              \/ UNCHANGED <<rxState, buffer>>
    BY <1>3, HeaderStep
  <2>2. connection' = connection
    BY <1>3 DEF Header, netVars
  <2>3. ASSUME NEW i \in 1..Len(stream') PROVE stream'[i].connection = connection
    <3>1. Len(stream') = Len(stream) - k /\ \A j \in 1..Len(stream) - k : stream'[j] = stream[k + j]
      BY <1>1, <2>1, Rest
    <3>2. k + i \in 1..Len(stream)
      BY <1>1, <2>1, <3>1
    <3> QED BY <1>1, <3>1, <3>2 DEF BufferInv
  <2>4. rxState' = "hdr" => buffer' # <<>> /\ buffer'[1].connection <= connection
    <3>1. CASE buffer' = SubSeq(stream, 1, k)
      <4>1. Len(buffer') = k /\ buffer'[1] = stream[1]
        <5>1. 1 \in 1..k
          BY <2>1, Sizes
        <5> QED BY <1>1, <2>1, <3>1, <5>1, Taken
      <4>2. 1 \in 1..Len(stream) /\ k # 0
        BY <1>1, <2>1
      <4>3. stream[1].connection = connection
        BY <1>1, <4>2 DEF BufferInv
      <4>4. buffer' # <<>>
        BY <4>1, <4>2
      <4> QED BY <1>1, <4>1, <4>3, <4>4
    <3> QED BY <1>1, <2>1, <3>1 DEF BufferInv
  <2> QED BY <2>2, <2>3, <2>4 DEF BufferInv
<1>4. CASE Body
  <2>1. PICK k \in 1..Missing :
           LET contents == buffer \o SubSeq(stream, 1, k) IN
           /\ k <= Len(stream) /\ stream' = SubSeq(stream, k + 1, Len(stream))
           /\ contents \in Seq(Piece) /\ Len(contents) = Len(buffer) + k
           /\ contents[1] = buffer[1]
           /\ \/ k < Missing /\ BodyIncomplete(contents)
              \/ k = Missing /\ FooterIn(contents) /\ BodyComplete(contents)
              \/ k = Missing /\ ~FooterIn(contents) /\ BodyBad(contents)
    BY <1>4, BodyStep DEF PlainInv
  <2> DEFINE contents == buffer \o SubSeq(stream, 1, k)
  <2>2. /\ stream' = SubSeq(stream, k + 1, Len(stream)) /\ k \in 0..Len(stream)
        /\ contents \in Seq(Piece) /\ Len(contents) = Len(buffer) + k /\ contents[1] = buffer[1]
        /\ BodyIncomplete(contents) \/ BodyComplete(contents) \/ BodyBad(contents)
    BY <1>1, <2>1
  <2> HIDE DEF contents
  <2>3. connection' = connection /\ rxState = "hdr"
    BY <1>4 DEF Body, netVars
  <2>4. ASSUME NEW i \in 1..Len(stream') PROVE stream'[i].connection = connection
    <3>1. Len(stream') = Len(stream) - k /\ \A j \in 1..Len(stream) - k : stream'[j] = stream[k + j]
      BY <1>1, <2>2, Rest
    <3>2. k + i \in 1..Len(stream)
      BY <1>1, <2>2, <3>1
    <3> QED BY <1>1, <3>1, <3>2 DEF BufferInv
  <2>5. buffer # <<>> /\ buffer[1].connection <= connection /\ Len(buffer) \in Nat /\ Len(buffer) # 0
    BY <1>1, <2>3 DEF BufferInv, RxType
  <2>6. rxState' = "hdr" => buffer' # <<>> /\ buffer'[1].connection <= connection
    <3>1. CASE BodyIncomplete(contents)
      <4>1. contents # <<>>
        BY <2>2, <2>5
      <4> QED BY <2>2, <2>5, <3>1, <4>1 DEF BodyIncomplete
    <3> QED BY <2>2, <3>1 DEF BodyComplete, BodyBad
  <2> QED BY <2>3, <2>4, <2>6 DEF BufferInv
<1>5. CASE Close
  BY <1>1, <1>5 DEF Close, BufferInv, packetVars
<1>6. CASE ServerSends
  <2> DEFINE nr == sent[connection] + 1
             p == Pieces(connection, nr)
  <2>1. /\ nr \in Numbers /\ stream' = stream \o p /\ connection \in 1..MaxConnects
        /\ connection' = connection /\ rxState' = rxState /\ buffer' = buffer
    <3>1. connection >= 1
      BY <1>1, <1>6 DEF ServerSends, PlaceInv
    <3> QED BY <1>1, <1>6, <3>1, Sizes DEF ServerSends, NetType, netVars, packetVars
  <2> HIDE DEF nr
  <2>2. /\ p \in Seq(Piece) /\ Len(p) \in Nat
        /\ \A i \in 1..Len(p) : p[i].connection = connection
    <3>1. /\ p \in Seq(Piece) /\ Len(p) = Size(nr) /\ Size(nr) \in Nat
          /\ \A i \in 1..Size(nr) : p[i] = [connection |-> connection, nr |-> nr, at |-> i]
      BY <2>1, PiecesAre, Sizes
    <3> QED BY <3>1
  <2> HIDE DEF p
  <2>3. /\ Len(stream') = Len(stream) + Len(p)
        /\ \A i \in 1..Len(stream) + Len(p) : stream'[i] = IF i <= Len(stream) THEN stream[i] ELSE p[i - Len(stream)]
    BY <1>1, <2>1, <2>2, Joined
  <2>4. ASSUME NEW i \in 1..Len(stream') PROVE stream'[i].connection = connection
    <3>1. CASE i <= Len(stream)
      BY <1>1, <2>2, <2>3, <3>1 DEF BufferInv
    <3>2. CASE i > Len(stream)
      <4>1. i - Len(stream) \in 1..Len(p)
        BY <1>1, <2>2, <2>3, <3>2
      <4>2. stream'[i] = p[i - Len(stream)]
        BY <1>1, <2>2, <2>3, <3>2
      <4> QED BY <2>2, <4>1, <4>2
    <3> QED BY <1>1, <2>2, <2>3, <3>1, <3>2
  <2> QED BY <1>1, <2>1, <2>4 DEF BufferInv
<1>7. CASE Lose
  <2>1. PICK k \in 0..Len(stream) : stream' = SubSeq(stream, 1, k)
    BY <1>7 DEF Lose
  <2>2. Len(stream') = k /\ \A i \in 1..k : stream'[i] = stream[i]
    BY <1>1, <2>1, Taken
  <2>3. \A i \in 1..k : i \in 1..Len(stream)
    BY <1>1, <2>1
  <2>4. \A i \in 1..Len(stream') : stream'[i].connection = connection
    BY <1>1, <2>2, <2>3 DEF BufferInv
  <2> QED BY <1>1, <1>7, <2>4 DEF Lose, BufferInv, packetVars
<1>8. CASE Established
  BY <1>1, <1>8 DEF Established, BufferInv, packetVars
<1>9. CASE UNCHANGED streamVars
  BY <1>1, <1>9 DEF streamVars, BufferInv, packetVars, netVars
<1> QED BY <1>2, <1>3, <1>4, <1>5, <1>6, <1>7, <1>8, <1>9, StreamSteps

LEMMA PlainNext == TypeOK /\ PlainInv /\ [Next]_vars => TypeOK' /\ PlainInv'
<1> SUFFICES ASSUME TypeOK, PlainInv, [Next]_vars PROVE TypeOK' /\ PlainInv'
  OBVIOUS
<1>1. ControlType' /\ RxType' /\ TxType' /\ OutType' /\ StreamType' /\ NetType' /\ ServerType'
  BY ControlNext, RxNext, TxNext, OutNext, NetNext
<1>2. TypeOK'
  BY <1>1 DEF TypeOK, ControlType, RxType, TxType, OutType, StreamType, NetType, ServerType, Labels
<1>3. PlainInv'
  BY PlaceNext, BufferNext DEF PlainInv
<1> QED BY <1>2, <1>3

LEMMA Associated ==
  ASSUME NEW S, NEW a \in Seq(S), NEW b \in Seq(S), NEW c \in Seq(S)
  PROVE  a \o (b \o c) = (a \o b) \o c
<1> DEFINE bc == b \o c
           ab == a \o b
           l == a \o bc
           r == ab \o c
<1>1. /\ bc \in Seq(S) /\ Len(bc) = Len(b) + Len(c)
      /\ \A i \in 1..Len(b) + Len(c) : bc[i] = IF i <= Len(b) THEN b[i] ELSE c[i - Len(b)]
  BY Joined
<1>2. /\ ab \in Seq(S) /\ Len(ab) = Len(a) + Len(b)
      /\ \A i \in 1..Len(a) + Len(b) : ab[i] = IF i <= Len(a) THEN a[i] ELSE b[i - Len(a)]
  BY Joined
<1> HIDE DEF ab, bc
<1>3. /\ l \in Seq(S) /\ Len(l) = Len(a) + Len(bc)
      /\ \A i \in 1..Len(a) + Len(bc) : l[i] = IF i <= Len(a) THEN a[i] ELSE bc[i - Len(a)]
  <2>1. bc \in Seq(S)
    BY <1>1
  <2> QED BY <2>1, Joined
<1>4. /\ r \in Seq(S) /\ Len(r) = Len(ab) + Len(c)
      /\ \A i \in 1..Len(ab) + Len(c) : r[i] = IF i <= Len(ab) THEN ab[i] ELSE c[i - Len(ab)]
  <2>1. ab \in Seq(S)
    BY <1>2
  <2> QED BY <2>1, Joined
<1> HIDE DEF l, r
<1>5. Len(a) \in Nat /\ Len(b) \in Nat /\ Len(c) \in Nat
  OBVIOUS
<1>6. Len(l) = Len(a) + Len(b) + Len(c) /\ Len(r) = Len(a) + Len(b) + Len(c)
  BY <1>1, <1>2, <1>3, <1>4, <1>5
<1>7. ASSUME NEW i \in 1..Len(l) PROVE l[i] = r[i]
  <2>1. CASE i <= Len(a)
    <3>1. /\ i \in 1..Len(a) + Len(bc) /\ i \in 1..Len(ab) + Len(c)
          /\ i \in 1..Len(a) + Len(b) /\ i <= Len(ab)
      BY <1>1, <1>2, <1>5, <1>6, <2>1
    <3> QED BY <1>2, <1>3, <1>4, <2>1, <3>1
  <2>2. CASE i > Len(a) /\ i <= Len(a) + Len(b)
    <3>1. l[i] = bc[i - Len(a)] /\ i - Len(a) \in 1..Len(b)
      BY <1>1, <1>3, <1>5, <1>6, <2>2
    <3>2. bc[i - Len(a)] = b[i - Len(a)]
      BY <1>1, <1>5, <3>1, SMTT(30)
    <3>3. r[i] = ab[i]
      BY <1>2, <1>4, <1>5, <1>6, <2>2
    <3>4. ab[i] = b[i - Len(a)]
      BY <1>2, <1>5, <2>2
    <3> QED BY <3>1, <3>2, <3>3, <3>4
  <2>3. CASE i > Len(a) + Len(b)
    <3>1. l[i] = bc[i - Len(a)] /\ i - Len(a) \in 1..Len(b) + Len(c) /\ ~(i - Len(a) <= Len(b))
      BY <1>1, <1>3, <1>5, <1>6, <2>3
    <3>2. bc[i - Len(a)] = c[(i - Len(a)) - Len(b)] /\ (i - Len(a)) - Len(b) = i - (Len(a) + Len(b))
      <4> DEFINE x == i - Len(a)
      <4>1. x \in 1..Len(b) + Len(c) /\ ~(x <= Len(b))
        BY <3>1
      <4>2. x - Len(b) = i - (Len(a) + Len(b))
        BY <1>5, <1>6
      <4> HIDE DEF x
      <4>3. bc[x] = c[x - Len(b)]
        BY <1>1, <4>1
      <4> QED BY <4>2, <4>3 DEF x
    <3>3. r[i] = c[i - (Len(a) + Len(b))]
      BY <1>2, <1>4, <1>5, <1>6, <2>3
    <3> QED BY <3>1, <3>2, <3>3
  <2> QED BY <1>5, <1>6, <2>1, <2>2, <2>3
<1>8. l = r
  BY <1>3, <1>4, <1>6, <1>7, SameSeq
<1> QED BY <1>8 DEF l, r, ab, bc

(* What is left after the first of two sequences is the second; the first  *)
(* and a part of the second are a part of both.                            *)
LEMMA After ==
  ASSUME NEW S, NEW s \in Seq(S), NEW t \in Seq(S)
  PROVE  Len(s) \in 0..Len(s \o t) /\ SubSeq(s \o t, Len(s) + 1, Len(s \o t)) = t
<1> DEFINE st == s \o t
           u == SubSeq(st, Len(s) + 1, Len(st))
<1>1. /\ st \in Seq(S) /\ Len(st) = Len(s) + Len(t)
      /\ \A i \in 1..Len(t) : st[Len(s) + i] = t[i]
  BY Joined
<1> HIDE DEF st
<1>2. Len(s) \in Nat /\ Len(t) \in Nat /\ Len(s) \in 0..Len(st)
  BY <1>1
<1>3. u \in Seq(S) /\ Len(u) = Len(st) - Len(s) /\ \A i \in 1..Len(st) - Len(s) : u[i] = st[Len(s) + i]
  <2>1. st \in Seq(S)
    BY <1>1
  <2> QED BY <1>2, <2>1, Rest
<1> HIDE DEF u
<1>4. Len(u) = Len(t) /\ \A i \in 1..Len(u) : u[i] = t[i]
  BY <1>1, <1>2, <1>3
<1>5. u = t
  BY <1>3, <1>4, SameSeq
<1> QED BY <1>2, <1>5 DEF u, st

LEMMA PartJoined ==
  ASSUME NEW S, NEW s \in Seq(S), NEW t \in Seq(S), NEW k \in 0..Len(t)
  PROVE  /\ Len(s) + k \in 0..Len(s \o t)
         /\ s \o SubSeq(t, 1, k) = SubSeq(s \o t, 1, Len(s) + k)
<1> DEFINE st == s \o t
           p == SubSeq(t, 1, k)
           l == s \o p
           m == Len(s) + k
           r == SubSeq(st, 1, m)
<1>1. /\ st \in Seq(S) /\ Len(st) = Len(s) + Len(t)
      /\ \A i \in 1..Len(s) + Len(t) : st[i] = IF i <= Len(s) THEN s[i] ELSE t[i - Len(s)]
  BY Joined
<1>2. p \in Seq(S) /\ Len(p) = k /\ \A i \in 1..k : p[i] = t[i]
  BY Taken
<1>3. Len(s) \in Nat /\ Len(t) \in Nat /\ k \in Nat /\ k <= Len(t)
  OBVIOUS
<1> HIDE DEF st, p
<1>4. /\ l \in Seq(S) /\ Len(l) = Len(s) + Len(p)
      /\ \A i \in 1..Len(s) + Len(p) : l[i] = IF i <= Len(s) THEN s[i] ELSE p[i - Len(s)]
  <2>1. p \in Seq(S)
    BY <1>2
  <2> QED BY <2>1, Joined
<1>5. m \in 0..Len(st) /\ m = Len(s) + k
  BY <1>1, <1>3
<1> HIDE DEF m
<1>6. r \in Seq(S) /\ Len(r) = m /\ \A i \in 1..m : r[i] = st[i]
  <2>1. st \in Seq(S)
    BY <1>1
  <2> QED BY <1>5, <2>1, Taken
<1> HIDE DEF l, r
<1>7. ASSUME NEW i \in 1..Len(l) PROVE l[i] = r[i]
  <2>1. i \in 1..Len(s) + k /\ i \in 1..m /\ i \in 1..Len(s) + Len(t) /\ i \in 1..Len(s) + Len(p)
    BY <1>2, <1>3, <1>4, <1>5
  <2>2. CASE i <= Len(s)
    BY <1>1, <1>4, <1>6, <2>1, <2>2
  <2>3. CASE ~(i <= Len(s))
    <3>1. l[i] = p[i - Len(s)] /\ i - Len(s) \in 1..k
      BY <1>3, <1>4, <2>1, <2>3
    <3>2. r[i] = t[i - Len(s)]
      BY <1>1, <1>6, <2>1, <2>3
    <3> QED BY <1>2, <3>1, <3>2
  <2> QED BY <2>2, <2>3
<1>8. l = r
  <2>1. Len(l) = Len(r)
    BY <1>2, <1>4, <1>5, <1>6
  <2> QED BY <1>4, <1>6, <1>7, <2>1, SameSeq
<1> QED BY <1>5, <1>8 DEF l, r, m, st, p

-----------------------------------------------------------------------------
LEMMA FollowsRest ==
  ASSUME NEW s \in Seq(Piece), NEW c, Follows(s, c), NEW k \in 0..Len(s)
  PROVE  Follows(SubSeq(s, k + 1, Len(s)), c)
<1> DEFINE t == SubSeq(s, k + 1, Len(s))
<1>1. t \in Seq(Piece) /\ Len(t) = Len(s) - k /\ \A i \in 1..Len(s) - k : t[i] = s[k + i]
  BY Rest
<1> HIDE DEF t
<1>2. ASSUME NEW i \in 1..Len(t) - 1, t[i].at = Size(t[i].nr)
      PROVE  t[i + 1] = [connection |-> c, nr |-> t[i].nr + 1, at |-> 1]
  <2>1. /\ k + i \in 1..Len(s) - 1 /\ i \in 1..Len(s) - k /\ i + 1 \in 1..Len(s) - k
        /\ k + (i + 1) = (k + i) + 1
    BY <1>1
  <2>2. t[i] = s[k + i] /\ t[i + 1] = s[(k + i) + 1]
    <3> DEFINE j == i + 1
               m == k + j
    <3>1. j \in 1..Len(s) - k /\ m = (k + i) + 1
      BY <2>1
    <3> HIDE DEF j
    <3>2. t[i] = s[k + i] /\ t[j] = s[m]
      BY <1>1, <2>1, <3>1
    <3> HIDE DEF m
    <3>3. t[i] = s[k + i] /\ t[j] = s[(k + i) + 1]
      BY <3>1, <3>2
    <3> QED BY <3>3 DEF j
  <2>3. s[k + i].at = Size(s[k + i].nr)
    BY <1>2, <2>2
  <2>4. s[(k + i) + 1] = [connection |-> c, nr |-> s[k + i].nr + 1, at |-> 1]
    BY <2>1, <2>3 DEF Follows
  <2> QED BY <2>2, <2>4
<1>3. Follows(t, c)
  BY <1>2 DEF Follows
<1> QED BY <1>3 DEF t

LEMMA FollowsTaken ==
  ASSUME NEW s \in Seq(Piece), NEW c, Follows(s, c), NEW k \in 0..Len(s)
  PROVE  Follows(SubSeq(s, 1, k), c)
<1> DEFINE t == SubSeq(s, 1, k)
<1>1. t \in Seq(Piece) /\ Len(t) = k /\ \A i \in 1..k : t[i] = s[i]
  BY Taken
<1> HIDE DEF t
<1>2. \A i \in 1..Len(t) - 1 : i \in 1..Len(s) - 1 /\ i \in 1..k /\ i + 1 \in 1..k
  BY <1>1
<1>3. Follows(t, c)
  BY <1>1, <1>2 DEF Follows
<1> QED BY <1>3 DEF t

LEMMA FollowsSent ==
  ASSUME NEW s \in Seq(Piece), NEW c \in 1..MaxConnects, NEW n \in Nat, n + 1 \in Numbers,
         Follows(s, c),
         s # <<>> => s[Len(s)].nr = n
  PROVE  Follows(s \o Pieces(c, n + 1), c)
<1> DEFINE p == Pieces(c, n + 1)
           t == s \o p
<1>1. /\ p \in Seq(Piece) /\ Len(p) = Size(n + 1)
      /\ \A i \in 1..Size(n + 1) : p[i] = [connection |-> c, nr |-> n + 1, at |-> i]
      /\ Size(n + 1) \in Nat
  BY PiecesAre, Sizes
<1> HIDE DEF p
<1>2. /\ t \in Seq(Piece) /\ Len(t) = Len(s) + Size(n + 1)
      /\ \A i \in 1..Len(s) + Size(n + 1) : t[i] = IF i <= Len(s) THEN s[i] ELSE p[i - Len(s)]
  <2>1. /\ t \in Seq(Piece) /\ Len(t) = Len(s) + Len(p)
        /\ \A i \in 1..Len(s) + Len(p) : t[i] = IF i <= Len(s) THEN s[i] ELSE p[i - Len(s)]
    <3>1. p \in Seq(Piece)
      BY <1>1
    <3> QED BY <3>1, Joined
  <2> QED BY <1>1, <2>1
<1> HIDE DEF t
<1>3. Len(s) \in Nat
  OBVIOUS
<1>4. ASSUME NEW i \in 1..Len(t) - 1, t[i].at = Size(t[i].nr)
      PROVE  t[i + 1] = [connection |-> c, nr |-> t[i].nr + 1, at |-> 1]
  <2>0. i \in 1..Len(s) + Size(n + 1) /\ i + 1 \in 1..Len(s) + Size(n + 1)
    BY <1>1, <1>2, <1>3
  <2>1. CASE i <= Len(s) - 1
    <3>1. i \in 1..Len(s) - 1 /\ i <= Len(s) /\ i + 1 <= Len(s)
      BY <1>3, <2>0, <2>1
    <3>2. t[i] = s[i] /\ t[i + 1] = s[i + 1]
      BY <1>2, <2>0, <3>1
    <3>3. s[i].at = Size(s[i].nr)
      BY <1>4, <3>2
    <3>4. s[i + 1] = [connection |-> c, nr |-> s[i].nr + 1, at |-> 1]
      BY <3>1, <3>3 DEF Follows
    <3> QED BY <3>2, <3>4
  <2>2. CASE i = Len(s)
    <3>1. t[i] = s[Len(s)] /\ s # <<>>
      BY <1>2, <2>0, <2>2
    <3>2. t[i + 1] = p[1] /\ 1 \in 1..Size(n + 1)
      <4>1. i + 1 - Len(s) = 1 /\ ~(i + 1 <= Len(s)) /\ 1 \in 1..Size(n + 1)
        BY <1>1, <1>3, <2>0, <2>2
      <4> QED BY <1>2, <2>0, <4>1
    <3> QED BY <1>1, <3>1, <3>2
  <2>3. CASE i > Len(s)
    <3>1. /\ i - Len(s) \in 1..Size(n + 1) /\ i + 1 - Len(s) \in 1..Size(n + 1)
          /\ ~(i <= Len(s)) /\ ~(i + 1 <= Len(s))
      BY <1>1, <1>3, <2>0, <2>3
    <3>2. t[i] = p[i - Len(s)]
      BY <1>2, <2>0, <3>1
    <3>3. t[i] = [connection |-> c, nr |-> n + 1, at |-> i - Len(s)]
      BY <1>1, <3>1, <3>2
    <3>4. i - Len(s) = Size(n + 1)
      BY <1>4, <3>3
    <3> QED BY <1>1, <1>3, <3>1, <3>4
  <2> QED BY <1>3, <2>0, <2>1, <2>2, <2>3
<1>5. Follows(t, c)
  BY <1>4 DEF Follows
<1> QED BY <1>5 DEF t, p

(* What is ahead, after a part was read, after a part was lost, and after  *)
(* a packet was sent                                                       *)
LEMMA AheadRest ==
  ASSUME NEW s \in Seq(Piece), NEW c, NEW n, NEW l, AheadOk(s, c, n, l), NEW k \in 0..Len(s)
  PROVE  AheadOk(SubSeq(s, k + 1, Len(s)), c, n, l)
<1> DEFINE t == SubSeq(s, k + 1, Len(s))
<1>1. t \in Seq(Piece) /\ Len(t) = Len(s) - k /\ \A i \in 1..Len(s) - k : t[i] = s[k + i]
  BY Rest
<1>2. InOrder(t, c, n) /\ Follows(t, c)
  BY InOrderRest, FollowsRest DEF AheadOk
<1> HIDE DEF t
<1>3. Len(s) \in Nat /\ k \in Nat
  OBVIOUS
<1>4. t # <<>> => Len(t) \in 1..Len(s) - k /\ t[Len(t)] = s[Len(s)] /\ s # <<>>
  <2> SUFFICES ASSUME t # <<>> PROVE Len(t) \in 1..Len(s) - k /\ t[Len(t)] = s[Len(s)] /\ s # <<>>
    OBVIOUS
  <2>1. Len(t) \in 1..Len(s) - k /\ k + Len(t) = Len(s)
    BY <1>1, <1>3
  <2>2. t[Len(t)] = s[k + Len(t)]
    BY <1>1, <2>1
  <2> QED BY <1>3, <2>1, <2>2
<1>5. s = <<>> => t = <<>>
  BY <1>4
<1>6. AheadOk(t, c, n, l)
  BY <1>2, <1>4, <1>5 DEF AheadOk
<1> QED BY <1>6 DEF t

LEMMA AheadTaken ==
  ASSUME NEW s \in Seq(Piece), NEW c, NEW n, NEW l, AheadOk(s, c, n, l), NEW k \in 0..Len(s),
         NEW m, m \notin {"up", "connecting"}
  PROVE  AheadOk(SubSeq(s, 1, k), c, n, m)
<1> DEFINE t == SubSeq(s, 1, k)
<1>1. InOrder(t, c, n) /\ Follows(t, c)
  BY InOrderTaken, FollowsTaken DEF AheadOk
<1> HIDE DEF t
<1>2. AheadOk(t, c, n, m)
  BY <1>1 DEF AheadOk
<1> QED BY <1>2 DEF t

LEMMA AheadSent ==
  ASSUME NEW s \in Seq(Piece), NEW c \in 1..MaxConnects, NEW n \in Nat, n + 1 \in Numbers,
         AheadOk(s, c, n, "up")
  PROVE  AheadOk(s \o Pieces(c, n + 1), c, n + 1, "up")
<1> DEFINE p == Pieces(c, n + 1)
           t == s \o p
<1>1. InOrder(t, c, n + 1) /\ Follows(t, c)
  BY InOrderSent, FollowsSent DEF AheadOk
<1>2. /\ p \in Seq(Piece) /\ Len(p) = Size(n + 1)
      /\ \A i \in 1..Size(n + 1) : p[i] = [connection |-> c, nr |-> n + 1, at |-> i]
      /\ Size(n + 1) \in Nat /\ Size(n + 1) >= 1
  BY PiecesAre, Sizes
<1> HIDE DEF p
<1>3. Len(t) = Len(s) + Len(p) /\ \A i \in 1..Len(p) : t[Len(s) + i] = p[i]
  <2>1. p \in Seq(Piece)
    BY <1>2
  <2> QED BY <2>1, Joined
<1> HIDE DEF t
<1>4. t[Len(t)].nr = n + 1 /\ t[Len(t)].at = Size(n + 1)
  <2>1. Size(n + 1) \in 1..Len(p) /\ Len(t) = Len(s) + Size(n + 1)
    BY <1>2, <1>3
  <2>2. t[Len(t)] = p[Size(n + 1)] /\ Size(n + 1) \in 1..Size(n + 1)
    BY <1>2, <1>3, <2>1
  <2> QED BY <1>2, <2>2
<1>5. AheadOk(t, c, n + 1, "up")
  BY <1>1, <1>4 DEF AheadOk
<1> QED BY <1>5 DEF t, p

LEMMA DoneRest ==
  ASSUME NEW s \in Seq(Piece), NEW c, NEW n, NEW done, DoneOk(done, s, c, n), NEW k \in 0..Len(s)
  PROVE  DoneOk(done, SubSeq(s, k + 1, Len(s)), c, n)
<1> DEFINE t == SubSeq(s, k + 1, Len(s))
<1>1. t \in Seq(Piece) /\ Len(t) = Len(s) - k /\ \A i \in 1..Len(s) - k : t[i] = s[k + i]
  BY Rest
<1> HIDE DEF t
<1>2. \A i \in 1..Len(t) : k + i \in 1..Len(s) /\ t[i] = s[k + i]
  BY <1>1
<1>3. DoneOk(done, t, c, n)
  BY <1>2 DEF DoneOk
<1> QED BY <1>3 DEF t

LEMMA DoneTaken ==
  ASSUME NEW s \in Seq(Piece), NEW c, NEW n, NEW done, DoneOk(done, s, c, n), NEW k \in 0..Len(s)
  PROVE  DoneOk(done, SubSeq(s, 1, k), c, n)
<1> DEFINE t == SubSeq(s, 1, k)
<1>1. t \in Seq(Piece) /\ Len(t) = k /\ \A i \in 1..k : t[i] = s[i]
  BY Taken
<1> HIDE DEF t
<1>2. \A i \in 1..Len(t) : i \in 1..Len(s) /\ t[i] = s[i]
  BY <1>1
<1>3. DoneOk(done, t, c, n)
  BY <1>2 DEF DoneOk
<1> QED BY <1>3 DEF t

(* The pieces a packet is completed of are those of one the server sent    *)
LEMMA WholePacket ==
  ASSUME NEW s \in Seq(Piece), NEW rest \in Seq(Piece), NEW c, NEW n,
         InOrder(s \o rest, c, n), Follows(s \o rest, c),
         s # <<>>, s[1].at = 1, Len(s) = Size(s[1].nr)
  PROVE  /\ Whole(s) /\ s[1].connection = c /\ s[1].nr <= n
         /\ \A i \in 1..Len(rest) : rest[i].nr > s[1].nr
         /\ rest # <<>> => rest[1] = [connection |-> c, nr |-> s[1].nr + 1, at |-> 1]
         /\ s[Len(s)].at = Size(s[1].nr) /\ s[Len(s)].nr = s[1].nr
<1> DEFINE a == s \o rest
           nr == s[1].nr
<1>1. /\ a \in Seq(Piece) /\ Len(a) = Len(s) + Len(rest)
      /\ \A i \in 1..Len(s) : a[i] = s[i]
      /\ \A i \in 1..Len(rest) : a[Len(s) + i] = rest[i]
  BY Joined
<1>2. InOrder(a, c, n) /\ Follows(a, c)
  OBVIOUS
<1> HIDE DEF a
<1>3. Len(s) \in Nat /\ Len(rest) \in Nat /\ 1 \in 1..Len(s) /\ Len(s) \in 1..Len(s) /\ a # <<>> /\ a[1] = s[1]
  BY <1>1
<1>4. /\ \A i \in 1..Len(a) : i <= Size(nr) => a[i] = [connection |-> c, nr |-> nr, at |-> i]
      /\ \A i \in 1..Len(a) : i > Size(nr) => a[i].nr > nr
      /\ nr <= n /\ s[1].connection = c
  <2>1. /\ \A i \in 1..Len(a) : i <= Size(a[1].nr) => a[i] = [connection |-> c, nr |-> a[1].nr, at |-> i]
        /\ \A i \in 1..Len(a) : i > Size(a[1].nr) => a[i].nr > a[1].nr
        /\ a[1].nr <= n /\ a[1].connection = c
    <3>1. a \in Seq(Piece) /\ a[1].at = 1
      BY <1>1, <1>3
    <3> QED BY <1>2, <1>3, <3>1, FirstPacket
  <2> QED BY <1>3, <2>1
<1>5. ASSUME NEW i \in 1..Size(nr) PROVE s[i] = [connection |-> c, nr |-> nr, at |-> i]
  <2>1. i \in 1..Len(s) /\ i \in 1..Len(a) /\ i <= Size(nr)
    BY <1>1, <1>3
  <2> QED BY <1>1, <1>4, <2>1
<1>6. Whole(s)
  <2> DEFINE p == Pieces(c, nr)
  <2>1. s[1] \in Piece
    BY <1>3
  <2>2. c \in 1..MaxConnects /\ nr \in Numbers
    BY <1>4, <2>1, PieceParts
  <2>3. /\ p \in Seq(Piece) /\ Len(p) = Size(nr)
        /\ \A i \in 1..Size(nr) : p[i] = [connection |-> c, nr |-> nr, at |-> i]
    BY <2>2, PiecesAre
  <2> HIDE DEF p
  <2>4. s = p
    BY <1>5, <2>3, SameSeq
  <2> QED BY <1>4, <2>4 DEF Whole, p
<1>7. ASSUME NEW i \in 1..Len(rest) PROVE rest[i].nr > nr
  <2>1. Len(s) + i \in 1..Len(a) /\ Len(s) + i > Size(nr)
    BY <1>1, <1>3
  <2> QED BY <1>1, <1>4, <2>1
<1>8. s[Len(s)] = [connection |-> c, nr |-> nr, at |-> Size(nr)]
  BY <1>3, <1>5
<1>9. rest # <<>> => rest[1] = [connection |-> c, nr |-> nr + 1, at |-> 1]
  <2> SUFFICES ASSUME rest # <<>> PROVE rest[1] = [connection |-> c, nr |-> nr + 1, at |-> 1]
    OBVIOUS
  <2>1. Len(s) \in 1..Len(a) - 1 /\ 1 \in 1..Len(rest)
    BY <1>1, <1>3
  <2>2. a[Len(s)] = s[Len(s)] /\ a[Len(s) + 1] = rest[1]
    BY <1>1, <1>3, <2>1
  <2>3. a[Len(s)].at = Size(a[Len(s)].nr)
    BY <1>8, <2>2
  <2>4. a[Len(s) + 1] = [connection |-> c, nr |-> a[Len(s)].nr + 1, at |-> 1]
    BY <1>2, <2>1, <2>3 DEF Follows
  <2> QED BY <1>8, <2>2, <2>4
<1> QED BY <1>4, <1>6, <1>7, <1>8, <1>9

-----------------------------------------------------------------------------
LEMMA AheadType ==
  ASSUME TypeOK
  PROVE  Ahead \in Seq(Piece) /\ (rxState # "hdr" => Ahead = stream)
         /\ buffer \in Seq(Piece) /\ stream \in Seq(Piece) /\ Len(stream) \in Nat /\ Len(buffer) \in Nat
<1>1. buffer \in Seq(Piece) /\ stream \in Seq(Piece)
  BY DEF TypeOK
<1>2. buffer \o stream \in Seq(Piece)
  BY <1>1, Joined
<1> QED BY <1>1, <1>2 DEF Ahead

LEMMA HeaderAhead ==
  ASSUME TypeOK, Header
  PROVE  /\ Ahead = stream
         /\ \/ /\ rxState' = "hdr" /\ Ahead' = Ahead /\ buffer'[1] = Ahead[1] /\ Ahead[1].at = 1
               /\ UNCHANGED clientVars
            \/ /\ UNCHANGED <<rxState, buffer>> /\ Ahead' = stream' /\ NothingReceived
               /\ \E k \in 1..HeaderSize :
                    /\ k \in 1..Len(Ahead) /\ k \in 0..Len(Ahead)
                    /\ Ahead' = SubSeq(Ahead, k + 1, Len(Ahead))
                    /\ split \/ k = HeaderSize \/ Ahead[k].at >= HeaderSize \/ (Lost /\ k = Len(Ahead))
                    /\ ~(k = HeaderSize /\ Ahead[1].at = 1)
<1>1. Ahead = stream /\ stream \in Seq(Piece) /\ rxState # "hdr" /\ Len(stream) \in Nat
  BY AheadType DEF Header, HeaderDue
<1>2. PICK k \in 1..HeaderSize :
           /\ k \in 0..Len(stream) /\ stream' = SubSeq(stream, k + 1, Len(stream))
           /\ split \/ k = HeaderSize \/ stream[k].at >= HeaderSize \/ (Lost /\ k = Len(stream))
           /\ \/ /\ k = HeaderSize /\ stream[1].at = 1
                 /\ rxState' = "hdr" /\ buffer' = SubSeq(stream, 1, k)
                 /\ UNCHANGED clientVars
              \/ /\ ~(k = HeaderSize /\ stream[1].at = 1)
                 /\ NothingReceived /\ UNCHANGED <<rxState, buffer>>
  BY HeaderStep
<1>3. k \in 1..Len(stream) /\ 1 \in 1..k
  BY <1>1, <1>2, Sizes
<1>4. CASE /\ k = HeaderSize /\ stream[1].at = 1
           /\ rxState' = "hdr" /\ buffer' = SubSeq(stream, 1, k)
           /\ UNCHANGED clientVars
  <2>1. buffer'[1] = stream[1] 
    BY <1>1, <1>2, <1>3, <1>4, Taken
  <2>2. SubSeq(stream, 1, k) \o SubSeq(stream, k + 1, Len(stream)) = stream
    <3> DEFINE a == SubSeq(stream, 1, k)
               b == SubSeq(stream, k + 1, Len(stream))
               e == <<>>
    <3>1. e \in Seq(Piece) /\ (e \o a) \o b = e \o stream
      BY <1>1, <1>2, EmptySeqs, Moved
    <3>2. a \in Seq(Piece)
      BY <1>1, <1>2, Taken
    <3> HIDE DEF a, b
    <3>3. e \o a = a
      BY <3>2
    <3>4. e \o stream = stream
      BY <1>1
    <3> QED BY <3>1, <3>3, <3>4 DEF a, b
  <2>3. Ahead' = stream
    BY <1>2, <1>4, <2>2 DEF Ahead
  <2> QED BY <1>1, <1>4, <2>1, <2>3
<1>5. CASE ~(k = HeaderSize /\ stream[1].at = 1) /\ NothingReceived /\ UNCHANGED <<rxState, buffer>>
  <2>1. Ahead' = stream'
    BY <1>1, <1>5 DEF Ahead
  <2> QED BY <1>1, <1>2, <1>3, <1>5, <2>1
<1> QED BY <1>2, <1>4, <1>5

LEMMA BodyAhead ==
  ASSUME TypeOK, PlainInv, Body
  PROVE  \E contents \in Seq(Piece) :
           /\ contents # <<>> /\ contents[1] = buffer[1] /\ buffer # <<>>
           /\ stream' \in Seq(Piece) /\ Ahead = contents \o stream'
           /\ Len(contents) \in 0..Len(Ahead)
           /\ stream' = SubSeq(Ahead, Len(contents) + 1, Len(Ahead))
           /\ contents[Len(contents)].connection = connection
           /\ \/ BodyIncomplete(contents) /\ rxState' = "hdr" /\ Ahead' = Ahead
              \/ /\ Len(contents) = Size(contents[1].nr) /\ Ahead' = stream'
                 /\ FooterIn(contents) /\ BodyComplete(contents) /\ rxState' # "hdr"
              \/ /\ Len(contents) = Size(contents[1].nr) /\ Ahead' = stream'
                 /\ ~FooterIn(contents) /\ BodyBad(contents) /\ rxState' # "hdr"
<1>1. rxState = "hdr" /\ Ahead = buffer \o stream
  BY DEF Body, Ahead
<1>2. PICK k \in 1..Missing :
           LET contents == buffer \o SubSeq(stream, 1, k) IN
           /\ k <= Len(stream) /\ stream' = SubSeq(stream, k + 1, Len(stream))
           /\ contents \in Seq(Piece) /\ Len(contents) = Len(buffer) + k
           /\ contents[1] = buffer[1] /\ contents[Len(contents)] = stream[k]
           /\ \/ k < Missing /\ BodyIncomplete(contents)
              \/ k = Missing /\ FooterIn(contents) /\ BodyComplete(contents)
              \/ k = Missing /\ ~FooterIn(contents) /\ BodyBad(contents)
  BY BodyStep DEF PlainInv
<1>3. /\ stream \in Seq(Piece) /\ buffer \in Seq(Piece) /\ Len(buffer) \in Nat /\ k \in 0..Len(stream)
      /\ k \in 1..Len(stream)
      /\ buffer # <<>> /\ Len(buffer) # 0
  <2>1. buffer \in Seq(Piece) /\ stream \in Seq(Piece) /\ buffer # <<>>
    BY <1>1 DEF TypeOK, PlainInv, BufferInv
  <2> QED BY <1>2, <2>1
<1> DEFINE contents == buffer \o SubSeq(stream, 1, k)
<1>4. contents \o stream' = Ahead
  BY <1>1, <1>2, <1>3, Moved
<1>5. /\ contents \in Seq(Piece) /\ Len(contents) = Len(buffer) + k
      /\ contents[1] = buffer[1] /\ contents[Len(contents)] = stream[k]
      /\ stream' = SubSeq(stream, k + 1, Len(stream))
      /\ \/ k < Missing /\ BodyIncomplete(contents)
         \/ k = Missing /\ FooterIn(contents) /\ BodyComplete(contents)
         \/ k = Missing /\ ~FooterIn(contents) /\ BodyBad(contents)
  BY <1>2
<1>6. stream' \in Seq(Piece)
  BY <1>3, <1>5, Rest
<1> HIDE DEF contents
<1>7. Len(contents) \in 0..Len(Ahead) /\ stream' = SubSeq(Ahead, Len(contents) + 1, Len(Ahead))
  BY <1>4, <1>5, <1>6, After
<1>8. stream[k].connection = connection
  BY <1>3 DEF PlainInv, BufferInv
<1>9. contents # <<>>
  BY <1>3, <1>5
<1>10. k = Missing => Len(contents) = Size(contents[1].nr)
  <2>1. buffer[1] \in Piece
    BY <1>3
  <2>2. Size(buffer[1].nr) \in Nat
    BY <2>1, PieceParts
  <2> QED BY <1>3, <1>5, <2>2 DEF Missing
<1>11. CASE BodyIncomplete(contents)
  <2>1. rxState' = "hdr" /\ buffer' = contents
    BY <1>1, <1>11 DEF BodyIncomplete
  <2>2. Ahead' = Ahead
    BY <1>4, <2>1 DEF Ahead
  <2> QED BY <1>3, <1>4, <1>5, <1>6, <1>7, <1>8, <1>9, <1>11, <2>1, <2>2
<1>12. CASE k = Missing /\ FooterIn(contents) /\ BodyComplete(contents)
  <2>1. rxState' # "hdr"
    BY <1>12 DEF BodyComplete
  <2>2. Ahead' = stream'
    BY <2>1 DEF Ahead
  <2> QED BY <1>3, <1>4, <1>5, <1>6, <1>7, <1>8, <1>9, <1>10, <1>12, <2>1, <2>2
<1>13. CASE k = Missing /\ ~FooterIn(contents) /\ BodyBad(contents)
  <2>1. rxState' # "hdr"
    BY <1>13 DEF BodyBad
  <2>2. Ahead' = stream'
    BY <2>1 DEF Ahead
  <2> QED BY <1>3, <1>4, <1>5, <1>6, <1>7, <1>8, <1>9, <1>10, <1>13, <2>1, <2>2
<1> QED BY <1>5, <1>11, <1>12, <1>13

LEMMA SendsAhead ==
  ASSUME TypeOK, PlainInv, ServerSends
  PROVE  /\ connection \in 1..MaxConnects /\ sent[connection] \in Nat /\ sent[connection] + 1 \in Numbers
         /\ Ahead' = Ahead \o Pieces(connection, sent[connection] + 1)
         /\ sent' = [sent EXCEPT ![connection] = sent[connection] + 1]
         /\ sent'[connection] = sent[connection] + 1 /\ sent \in [1..MaxConnects -> 0..3 + MaxData]
         /\ link = "up" /\ Due(sent[connection] + 1)
         /\ UNCHANGED <<clientVars, packetVars, tx, out, got, server, outOfStep, netVars>>
<1>1. connection \in 1..MaxConnects /\ sent \in [1..MaxConnects -> 0..3 + MaxData]
  <2>1. connection \in 0..MaxConnects /\ connection >= 1
    BY DEF TypeOK, ServerSends, PlainInv, PlaceInv
  <2> QED BY <2>1, Sizes, SMTT(30) DEF TypeOK
<1>2. sent[connection] \in Nat
  BY <1>1, Sizes
<1> DEFINE p == Pieces(connection, sent[connection] + 1)
<1>3. /\ sent[connection] + 1 \in Numbers
      /\ stream' = stream \o p /\ sent' = [sent EXCEPT ![connection] = sent[connection] + 1]
      /\ link = "up" /\ Due(sent[connection] + 1)
      /\ UNCHANGED <<clientVars, packetVars, tx, out, got, server, outOfStep, netVars>>
  BY DEF ServerSends
<1>4. p \in Seq(Piece)
  BY <1>1, <1>3, PiecesAre
<1> HIDE DEF p
<1>5. (buffer \o stream) \o p = buffer \o (stream \o p)
  BY <1>4, AheadType, Associated, SMTT(30)
<1>6. rxState' = rxState /\ buffer' = buffer
  BY <1>3 DEF packetVars
<1>7. Ahead' = Ahead \o p
  BY <1>3, <1>5, <1>6 DEF Ahead
<1> QED BY <1>1, <1>2, <1>3, <1>7 DEF p

LEMMA LoseAhead ==
  ASSUME TypeOK, Lose
  PROVE  /\ \E k \in 0..Len(Ahead) : Ahead' = SubSeq(Ahead, 1, k)
         /\ link = "up" /\ link' \in {"closed", "reset"} /\ out' = <<>>
         /\ UNCHANGED <<clientVars, packetVars, tx, serverVars, connection, split, resumed>>
<1>1. PICK k \in 0..Len(stream) : stream' = SubSeq(stream, 1, k)
  BY DEF Lose
<1>2. rxState' = rxState /\ buffer' = buffer
  BY DEF Lose, packetVars
<1>3. CASE rxState = "hdr"
  <2>1. /\ Len(buffer) + k \in 0..Len(buffer \o stream)
        /\ buffer \o SubSeq(stream, 1, k) = SubSeq(buffer \o stream, 1, Len(buffer) + k)
    BY AheadType, PartJoined
  <2>2. Ahead = buffer \o stream /\ Ahead' = buffer \o SubSeq(stream, 1, k)
    BY <1>1, <1>2, <1>3 DEF Ahead
  <2> QED BY <2>1, <2>2 DEF Lose
<1>4. CASE rxState # "hdr"
  <2>1. Ahead = stream /\ Ahead' = SubSeq(stream, 1, k)
    BY <1>1, <1>2, <1>4 DEF Ahead
  <2> QED BY <2>1 DEF Lose
<1> QED BY <1>3, <1>4

-----------------------------------------------------------------------------
LEMMA CompletedNext ==
  ASSUME TypeOK, PlainInv, CompletedInv, [Next]_vars PROVE CompletedInv'
<1>0. (~resumed' => ~resumed) /\ connection \in Nat
  <2>1. TcpConnected \/ UNCHANGED resumed
    BY StreamSteps DEF Header, Body, Close, ServerSends, Lose, Established, streamVars, netVars
  <2> QED BY <2>1, Sizes, SMTT(30) DEF TcpConnected, TypeOK
<1> SUFFICES ASSUME ~resumed, ~resumed' PROVE \A j \in 1..Len(completed)' : completed'[j][1] <= connection'
  BY <1>0 DEF CompletedInv
<1>1. \A j \in 1..Len(completed) : completed[j][1] <= connection /\ completed[j][1] \in Nat
  <2>1. \A x \in {Garbled} \cup ((1..MaxConnects) \X Numbers) : x[1] \in Nat
    BY Sizes DEF Garbled
  <2>2. \A j \in 1..Len(completed) : completed[j] \in {Garbled} \cup ((1..MaxConnects) \X Numbers)
    BY DEF TypeOK
  <2> QED BY <2>1, <2>2 DEF CompletedInv
<1>2. CASE completed' = completed /\ connection' \in Nat /\ connection' >= connection
  BY <1>0, <1>1, <1>2
<1>3. CASE Body
  <2>1. PICK contents \in Seq(Piece) :
           /\ contents # <<>> /\ contents[1] = buffer[1]
           /\ BodyIncomplete(contents) \/ BodyComplete(contents) \/ BodyBad(contents)
    BY <1>3, BodyAhead
  <2>2. connection' = connection
    BY <1>3 DEF Body, netVars
  <2>3. CASE BodyComplete(contents)
    <3> DEFINE x == Identity(contents)
               T == {Garbled} \cup ((1..MaxConnects) \X Numbers)
    <3>1. completed' = Append(completed, x) /\ completed \in Seq(T)
      BY <2>3 DEF BodyComplete, TypeOK
    <3>2. x \in T
      BY <2>1, IdentityType
    <3>3. x[1] <= connection
      <4>1. buffer[1].connection <= connection
        BY <1>3 DEF Body, PlainInv, BufferInv
      <4> QED BY <1>0, <2>1, <4>1 DEF Identity, Garbled
    <3> HIDE DEF x, T
    <3>4. /\ Len(completed') = Len(completed) + 1 /\ completed'[Len(completed) + 1] = x
          /\ \A i \in 1..Len(completed) : completed'[i] = completed[i]
      BY <3>1, <3>2, Appended
    <3>5. Len(completed) \in Nat
      BY <3>1
    <3> QED BY <1>1, <2>2, <3>3, <3>4, <3>5
  <2>4. CASE BodyIncomplete(contents) \/ BodyBad(contents)
    BY <1>0, <1>2, <2>2, <2>4 DEF BodyIncomplete, BodyBad
  <2> QED BY <2>1, <2>3, <2>4
<1>4. CASE TcpConnected
  BY <1>0, <1>2, <1>4 DEF TcpConnected, packetVars
<1>5. CASE Header \/ Close \/ ServerSends \/ Lose \/ Established \/ UNCHANGED streamVars
  <2>1. completed' = completed /\ connection' = connection
    BY <1>5 DEF Header, Close, ServerSends, Lose, Established, streamVars, packetVars, netVars
  <2> QED BY <1>0, <1>2, <2>1
<1> QED BY <1>3, <1>4, <1>5, StreamSteps

(* In a step that leaves connection, sent and completed alone              *)
LEMMA StreamNext ==
  ASSUME TypeOK, PlainInv, StreamInv, CompletedInv, [Next]_vars PROVE StreamInv'
<1> SUFFICES ASSUME ~resumed', link' # "none"
             PROVE  /\ AheadOk(Ahead', connection', sent'[connection'], link')
                    /\ DoneOk(completed', Ahead', connection', sent'[connection'])
                    /\ rxState' = "hdr" => buffer'[1].at = 1
  BY DEF StreamInv
<1>0. ~resumed
  <2>1. TcpConnected \/ UNCHANGED resumed
    BY StreamSteps DEF Header, Body, Close, ServerSends, Lose, Established, streamVars, netVars
  <2> QED BY <2>1 DEF TcpConnected
<1> DEFINE c == connection
           n == sent[c]
<1>1. link # "none" => /\ AheadOk(Ahead, c, n, link) /\ DoneOk(completed, Ahead, c, n)
                       /\ rxState = "hdr" => buffer[1].at = 1
  BY <1>0 DEF StreamInv
<1>2. Ahead \in Seq(Piece) /\ connection \in Nat
  BY AheadType, Sizes, SMTT(30) DEF TypeOK
<1>3. CASE TcpConnected
  <2>1. rxState' # "hdr" /\ stream' = <<>> /\ completed' = completed /\ connection' = connection + 1
    BY <1>3 DEF TcpConnected, PlainInv, PlaceInv, packetVars
  <2>2. Ahead' = <<>> /\ Len(<<>>) = 0
    BY <2>1, EmptySeqs DEF Ahead
  <2>3. \A d, m, l : AheadOk(<<>>, d, m, l)
    BY <2>2 DEF AheadOk, InOrder, Follows
  <2>4. \A j \in 1..Len(completed) : completed[j][1] # connection'
    <3>1. \A j \in 1..Len(completed) : completed[j][1] <= connection
      BY <1>0 DEF CompletedInv
    <3> QED BY <1>2, <2>1, <3>1
  <2>5. DoneOk(completed', Ahead', connection', sent'[connection'])
    BY <2>1, <2>4 DEF DoneOk
  <2> QED BY <2>1, <2>2, <2>3, <2>5
<1>4. CASE Header
  <2>1. /\ UNCHANGED <<completed, connection, sent, link>> /\ rxState # "hdr"
        /\ \/ rxState' = "hdr" /\ Ahead' = Ahead /\ buffer'[1] = Ahead[1] /\ Ahead[1].at = 1
           \/ /\ rxState' = rxState
              /\ \E k \in 0..Len(Ahead) : Ahead' = SubSeq(Ahead, k + 1, Len(Ahead))
    BY <1>4, HeaderAhead DEF Header, HeaderDue, serverVars, netVars
  <2>2. AheadOk(Ahead, c, n, link) /\ DoneOk(completed, Ahead, c, n)
    BY <1>1, <2>1
  <2>3. CASE rxState' = "hdr" /\ Ahead' = Ahead /\ buffer'[1] = Ahead[1] /\ Ahead[1].at = 1
    BY <2>1, <2>2, <2>3
  <2>4. CASE rxState' = rxState /\ \E k \in 0..Len(Ahead) : Ahead' = SubSeq(Ahead, k + 1, Len(Ahead))
    <3>1. PICK k \in 0..Len(Ahead) : Ahead' = SubSeq(Ahead, k + 1, Len(Ahead))
      BY <2>4
    <3>2. AheadOk(Ahead', c, n, link) /\ DoneOk(completed, Ahead', c, n)
      BY <1>2, <2>2, <3>1, AheadRest, DoneRest
    <3> QED BY <2>1, <2>4, <3>2
  <2> QED BY <2>1, <2>3, <2>4
<1>5. CASE Body
  <2>0. UNCHANGED <<connection, sent, link>> /\ rxState = "hdr"
    BY <1>5 DEF Body, serverVars, netVars
  <2>1. AheadOk(Ahead, c, n, link) /\ DoneOk(completed, Ahead, c, n) /\ buffer[1].at = 1
    BY <1>1, <2>0
  <2>2. PICK contents \in Seq(Piece) :
           /\ contents # <<>> /\ contents[1] = buffer[1]
           /\ stream' \in Seq(Piece) /\ Ahead = contents \o stream'
           /\ Len(contents) \in 0..Len(Ahead)
           /\ stream' = SubSeq(Ahead, Len(contents) + 1, Len(Ahead))
           /\ \/ BodyIncomplete(contents) /\ rxState' = "hdr" /\ Ahead' = Ahead
              \/ /\ Len(contents) = Size(contents[1].nr) /\ Ahead' = stream'
                 /\ BodyComplete(contents) /\ rxState' # "hdr"
              \/ Ahead' = stream' /\ BodyBad(contents) /\ rxState' # "hdr"
    BY <1>5, BodyAhead
  <2>3. CASE BodyIncomplete(contents) /\ rxState' = "hdr" /\ Ahead' = Ahead
    <3>1. buffer' = contents /\ completed' = completed
      BY <2>3 DEF BodyIncomplete
    <3> QED BY <2>0, <2>1, <2>2, <2>3, <3>1
  <2>4. ASSUME Ahead' = stream'
        PROVE  AheadOk(Ahead', c, n, link) /\ DoneOk(completed, Ahead', c, n)
    BY <1>2, <2>1, <2>2, <2>4, AheadRest, DoneRest
  <2>5. CASE Ahead' = stream' /\ BodyBad(contents) /\ rxState' # "hdr"
    <3>1. completed' = completed
      BY <2>5 DEF BodyBad
    <3> QED BY <2>0, <2>4, <2>5, <3>1
  <2>6. CASE Len(contents) = Size(contents[1].nr) /\ Ahead' = stream' /\ BodyComplete(contents)
             /\ rxState' # "hdr"
    <3> DEFINE T == {Garbled} \cup ((1..MaxConnects) \X Numbers)
               nr == contents[1].nr
               x == Identity(contents)
    <3>1. /\ Whole(contents) /\ contents[1].connection = c /\ nr <= n
          /\ \A i \in 1..Len(stream') : stream'[i].nr > nr
      <4>1. InOrder(contents \o stream', c, n) /\ Follows(contents \o stream', c)
        BY <2>1, <2>2 DEF AheadOk
      <4>2. stream' \in Seq(Piece) /\ contents # <<>> /\ contents[1].at = 1
            /\ Len(contents) = Size(contents[1].nr)
        BY <2>1, <2>2, <2>6
      <4> QED BY <4>1, <4>2, WholePacket
    <3>2. x = <<c, nr>>
      BY <3>1 DEF Identity
    <3>3. completed' = Append(completed, x) /\ completed \in Seq(T)
      BY <2>6 DEF BodyComplete, TypeOK
    <3>4. x \in T
      BY <2>2, IdentityType
    <3> HIDE DEF x, T
    <3>5. /\ Len(completed') = Len(completed) + 1 /\ completed'[Len(completed) + 1] = x
          /\ \A i \in 1..Len(completed) : completed'[i] = completed[i]
          /\ Len(completed) \in Nat
      BY <3>3, <3>4, Appended
    <3>6. \A i \in 1..Len(stream') : nr < stream'[i].nr
      <4>1. \A i \in 1..Len(stream') : stream'[i].nr \in Nat /\ nr \in Nat
        <5>1. \A i \in 1..Len(stream') : stream'[i] \in Piece
          <6>1. stream' \in Seq(Piece)
            BY <2>2
          <6> QED BY <6>1
        <5>2. contents[1] \in Piece
          BY <2>2
        <5> QED BY <5>1, <5>2, PieceParts
      <4> QED BY <3>1, <4>1
    <3>7. DoneOk(completed', Ahead', c, n)
      <4> SUFFICES ASSUME NEW j \in 1..Len(completed'), completed'[j][1] = c
                   PROVE  completed'[j][2] <= n /\ \A i \in 1..Len(Ahead') : completed'[j][2] < Ahead'[i].nr
        BY DEF DoneOk
      <4>1. CASE j \in 1..Len(completed)
        <5>1. completed'[j] = completed[j]
          BY <3>5, <4>1
        <5>2. completed[j][1] = c
          BY <5>1
        <5>3. completed[j][2] <= n /\ \A i \in 1..Len(Ahead') : completed[j][2] < Ahead'[i].nr
          BY <2>4, <2>6, <4>1, <5>2 DEF DoneOk
        <5> QED BY <5>1, <5>3
      <4>2. CASE j = Len(completed) + 1
        <5>1. completed'[j][2] = nr
          BY <3>2, <3>5, <4>2
        <5> QED BY <2>6, <3>1, <3>6, <5>1
      <4> QED BY <3>5, <4>1, <4>2
    <3> QED BY <2>0, <2>4, <2>6, <3>7
  <2> QED BY <2>2, <2>3, <2>5, <2>6
<1>6. CASE ServerSends
  <2> DEFINE p == Pieces(c, n + 1)
  <2>1. /\ c \in 1..MaxConnects /\ n \in Nat /\ n + 1 \in Numbers /\ Ahead' = Ahead \o p
        /\ sent'[c] = n + 1 /\ link = "up"
        /\ UNCHANGED <<packetVars, netVars>>
    BY <1>6, SendsAhead
  <2>2. UNCHANGED <<rxState, buffer, completed, connection, link>>
    BY <2>1 DEF packetVars, netVars
  <2>3. AheadOk(Ahead, c, n, "up") /\ DoneOk(completed, Ahead, c, n) /\ (rxState = "hdr" => buffer[1].at = 1)
    BY <1>1, <2>1
  <2>4. AheadOk(Ahead', c, n + 1, "up")
    BY <1>2, <2>1, <2>3, AheadSent
  <2>5. DoneOk(completed, Ahead', c, n + 1)
    <3>1. /\ p \in Seq(Piece)  /\ \A i \in 1..Len(p) : p[i].nr = n + 1
      <4>1. /\ p \in Seq(Piece) /\ Len(p) = Size(n + 1)
            /\ \A i \in 1..Size(n + 1) : p[i] = [connection |-> c, nr |-> n + 1, at |-> i]
        BY <2>1, PiecesAre
      <4> HIDE DEF p, n
      <4> QED BY <4>1
    <3> HIDE DEF p
    <3>2. /\ Len(Ahead') = Len(Ahead) + Len(p) 
          /\ \A i \in 1..Len(Ahead) + Len(p) : Ahead'[i] = IF i <= Len(Ahead) THEN Ahead[i] ELSE p[i - Len(Ahead)]
      <4>1. p \in Seq(Piece)
        BY <3>1
      <4> QED BY <1>2, <2>1, <4>1, Joined
    <3>3. \A i \in 1..Len(Ahead') : (i \in 1..Len(Ahead) /\ Ahead'[i] = Ahead[i]) \/ Ahead'[i].nr = n + 1
      <4>1. Len(Ahead) \in Nat /\ Len(p) \in Nat
        BY <1>2, <3>1
      <4> SUFFICES ASSUME NEW i \in 1..Len(Ahead'), ~(i <= Len(Ahead)) PROVE Ahead'[i].nr = n + 1
        BY <3>2, <4>1
      <4>2. i - Len(Ahead) \in 1..Len(p)
        BY <3>2, <4>1
      <4>3. Ahead'[i] = p[i - Len(Ahead)]
        BY <3>2, <4>1
      <4> QED BY <3>1, <4>2, <4>3
    <3> SUFFICES ASSUME NEW j \in 1..Len(completed), completed[j][1] = c
                 PROVE  completed[j][2] <= n + 1 /\ \A i \in 1..Len(Ahead') : completed[j][2] < Ahead'[i].nr
      BY DEF DoneOk
    <3>4. completed[j][2] <= n /\ \A i \in 1..Len(Ahead) : completed[j][2] < Ahead[i].nr
      BY <2>3 DEF DoneOk
    <3>5. completed[j][2] \in Nat
      <4>1. completed[j] \in {Garbled} \cup ((1..MaxConnects) \X Numbers)
        BY DEF TypeOK
      <4> QED BY <4>1, Sizes DEF Garbled
    <3>6. completed[j][2] < n + 1
      BY <2>1, <3>4, <3>5
    <3> QED BY <2>1, <3>3, <3>4, <3>5, <3>6, SMTT(30)
  <2> HIDE DEF p, n, c
  <2>6. connection' = c
    BY <2>2 DEF c
  <2> QED BY <2>1, <2>2, <2>3, <2>4, <2>5, <2>6
<1>7. CASE Lose
  <2>1. /\ \E k \in 0..Len(Ahead) : Ahead' = SubSeq(Ahead, 1, k)
        /\ link = "up" /\ link' \notin {"up", "connecting"}
        /\ UNCHANGED <<rxState, buffer, completed, connection, sent>>
    BY <1>7, LoseAhead DEF packetVars, serverVars
  <2>2. AheadOk(Ahead, c, n, link) /\ DoneOk(completed, Ahead, c, n) /\ (rxState = "hdr" => buffer[1].at = 1)
    BY <1>1, <2>1
  <2>3. AheadOk(Ahead', c, n, link') /\ DoneOk(completed, Ahead', c, n)
    <3>1. PICK k \in 0..Len(Ahead) : Ahead' = SubSeq(Ahead, 1, k)
      BY <2>1
    <3> QED BY <1>2, <2>1, <2>2, <3>1, AheadTaken, DoneTaken
  <2> QED BY <2>1, <2>2, <2>3
<1>8. CASE Established
  <2>1. /\ link = "connecting" /\ link' \in {"up", "refused"}
        /\ UNCHANGED <<rxState, buffer, completed, stream, connection, sent>>
    BY <1>8 DEF Established, packetVars, serverVars
  <2>2. AheadOk(Ahead, c, n, link) /\ DoneOk(completed, Ahead, c, n) /\ (rxState = "hdr" => buffer[1].at = 1)
    BY <1>1, <2>1
  <2>3. Ahead' = Ahead /\ Ahead = <<>>
    BY <2>1, <2>2 DEF Ahead, AheadOk
  <2>4. AheadOk(Ahead', c, n, link')
    BY <2>1, <2>2, <2>3 DEF AheadOk
  <2> QED BY <2>1, <2>2, <2>3, <2>4
<1>9. CASE Close
  BY <1>9 DEF Close
<1>10. CASE UNCHANGED streamVars
  BY <1>1, <1>10 DEF streamVars, packetVars, netVars, Ahead
<1> QED BY <1>3, <1>4, <1>5, <1>6, <1>7, <1>8, <1>9, <1>10, StreamSteps

-----------------------------------------------------------------------------
LEMMA InJoined ==
  ASSUME NEW s \in Seq(TxPiece), NEW t \in Seq(TxPiece), NEW kind
  PROVE  IsIn(kind, s \o t) <=> IsIn(kind, s) \/ IsIn(kind, t)
<1> DEFINE st == s \o t
<1>1. /\ Len(st) = Len(s) + Len(t)
      /\ \A i \in 1..Len(s) : st[i] = s[i]
      /\ \A i \in 1..Len(t) : st[Len(s) + i] = t[i]
      /\ Len(s) \in Nat /\ Len(t) \in Nat
  BY Joined
<1> HIDE DEF st
<1>2. IsIn(kind, s) => IsIn(kind, st)
  <2> SUFFICES ASSUME NEW i \in 1..Len(s), s[i].kind = kind PROVE \E j \in 1..Len(st) : st[j].kind = kind
    BY DEF IsIn
  <2>1. i \in 1..Len(st) /\ st[i].kind = kind
    BY <1>1
  <2> QED BY <2>1
<1>3. IsIn(kind, t) => IsIn(kind, st)
  <2> SUFFICES ASSUME NEW i \in 1..Len(t), t[i].kind = kind PROVE \E j \in 1..Len(st) : st[j].kind = kind
    BY DEF IsIn
  <2>1. Len(s) + i \in 1..Len(st) /\ st[Len(s) + i].kind = kind
    BY <1>1
  <2> QED BY <2>1
<1>4. IsIn(kind, st) => IsIn(kind, s) \/ IsIn(kind, t)
  <2> SUFFICES ASSUME NEW i \in 1..Len(st), st[i].kind = kind PROVE IsIn(kind, s) \/ IsIn(kind, t)
    BY DEF IsIn
  <2>1. CASE i <= Len(s)
    <3>1. i \in 1..Len(s) /\ s[i].kind = kind
      BY <1>1, <2>1
    <3> QED BY <3>1 DEF IsIn
  <2>2. CASE i > Len(s)
    <3> DEFINE j == i - Len(s)
    <3>1. j \in 1..Len(t) /\ Len(s) + j = i
      BY <1>1, <2>2
    <3> HIDE DEF j
    <3>2. t[j].kind = kind
      BY <1>1, <3>1
    <3> QED BY <3>1, <3>2 DEF IsIn
  <2> QED BY <1>1, <2>1, <2>2
<1>5. IsIn(kind, st) <=> IsIn(kind, s) \/ IsIn(kind, t)
  BY <1>2, <1>3, <1>4
<1> QED BY <1>5 DEF st

LEMMA InParts ==
  ASSUME NEW s \in Seq(TxPiece), NEW k \in 0..Len(s), NEW kind
  PROVE  /\ IsIn(kind, SubSeq(s, k + 1, Len(s))) => IsIn(kind, s)
         /\ IsIn(kind, SubSeq(s, 1, k)) => IsIn(kind, s)
<1> DEFINE a == SubSeq(s, 1, k)
           b == SubSeq(s, k + 1, Len(s))
<1>1. Len(a) = k /\ \A i \in 1..k : a[i] = s[i]
  BY Taken
<1>2. Len(b) = Len(s) - k /\ \A i \in 1..Len(s) - k : b[i] = s[k + i]
  BY Rest
<1>3. Len(s) \in Nat /\ k \in Nat /\ k <= Len(s)
  OBVIOUS
<1> HIDE DEF a, b
<1>4. \A i \in 1..Len(a) : i \in 1..Len(s) /\ a[i] = s[i]
  BY <1>1, <1>3
<1>5. \A i \in 1..Len(b) : k + i \in 1..Len(s) /\ b[i] = s[k + i]
  BY <1>2, <1>3
<1>6. (IsIn(kind, b) => IsIn(kind, s)) /\ (IsIn(kind, a) => IsIn(kind, s))
  BY <1>4, <1>5 DEF IsIn
<1> QED BY <1>6 DEF a, b

LEMMA InTxPieces ==
  ASSUME NEW k \in Sent, NEW kind
  PROVE  /\ IsIn(kind, TxPieces(k)) <=> kind = k
         /\ \A i \in 1..Len(TxPieces(k)) : TxPieces(k)[i].kind = k
<1> DEFINE t == TxPieces(k)
<1>1. Len(t) = 2 /\ t[1] = [kind |-> k, at |-> 1] /\ t[2] = [kind |-> k, at |-> 2]
  BY TxPiecesAre
<1> HIDE DEF t
<1>2. t[1].kind = k /\ t[2].kind = k
  BY <1>1
<1>3. \A i \in 1..Len(t) : t[i].kind = k
  BY <1>1, <1>2
<1>4. 1 \in 1..Len(t)
  BY <1>1
<1>5. IsIn(kind, t) <=> kind = k
  BY <1>3, <1>4 DEF IsIn
<1> QED BY <1>3, <1>5 DEF t

(* What Body does if no half packet was left over: the packet is one the   *)
(* server sent.                                                            *)
LEMMA BodyDecodes ==
  ASSUME TypeOK, PlainInv, StreamInv, ~resumed, Body
  PROVE  /\ link # "none" /\ UNCHANGED <<out, server, sent, connection, link, resumed, split>>
         /\ Ahead # <<>> /\ 1 \in 1..Len(Ahead) /\ buffer[1].at = 1
         /\ \/ UNCHANGED <<tx, state, completed>> /\ Ahead' = Ahead
            \/ \E nr \in Numbers :
                 /\ nr <= sent[connection] /\ Ahead[1].nr = nr
                 /\ \A i \in 1..Len(Ahead') : Ahead'[i].nr > nr
                 /\ Ahead' # <<>> => Ahead'[1].at = 1 /\ Ahead'[1].nr = nr + 1
                 /\ link = "up" /\ Ahead' = <<>> => sent[connection] = nr
                 /\ state' = Decoded(Kind(nr)).state /\ tx' = Decoded(Kind(nr)).tx
                 /\ completed' = Append(completed, <<connection, nr>>)
<1> DEFINE c == connection
           n == sent[c]
<1>1. UNCHANGED <<out, server, sent, connection, link, resumed, split>> /\ link # "none" /\ rxState = "hdr"
  BY DEF Body, serverVars, netVars, PlainInv, PlaceInv
<1>2. AheadOk(Ahead, c, n, link) /\ buffer[1].at = 1
  BY <1>1 DEF StreamInv
<1>3. PICK contents \in Seq(Piece) :
         /\ contents # <<>> /\ contents[1] = buffer[1]
         /\ stream' \in Seq(Piece) /\ Ahead = contents \o stream'
         /\ \/ BodyIncomplete(contents) /\ rxState' = "hdr" /\ Ahead' = Ahead
            \/ /\ Len(contents) = Size(contents[1].nr) /\ Ahead' = stream'
               /\ FooterIn(contents) /\ BodyComplete(contents)
            \/ Len(contents) = Size(contents[1].nr) /\ ~FooterIn(contents) /\ BodyBad(contents)
  BY BodyAhead
<1>4. Ahead # <<>> /\ 1 \in 1..Len(Ahead) /\ Ahead[1] = contents[1]
      /\ Len(contents) \in Nat /\ Len(contents) >= 1 /\ Len(Ahead) = Len(contents) + Len(stream')
  <2>1. /\ Len(contents \o stream') = Len(contents) + Len(stream')
        /\ \A i \in 1..Len(contents) : (contents \o stream')[i] = contents[i]
    <3>1. stream' \in Seq(Piece)
      BY <1>3
    <3> QED BY <3>1, Joined
  <2>2. Len(contents) \in Nat /\ Len(contents) >= 1 /\ Len(stream') \in Nat
    BY <1>3
  <2>3. /\ Len(Ahead) = Len(contents) + Len(stream')
        /\ \A i \in 1..Len(contents) : Ahead[i] = contents[i]
    BY <1>3, <2>1
  <2> QED BY <2>2, <2>3
<1>5. CASE BodyIncomplete(contents) /\ Ahead' = Ahead
  BY <1>1, <1>2, <1>4, <1>5 DEF BodyIncomplete, NothingReceived, clientVars
<1>6. CASE Len(contents) = Size(contents[1].nr)
  <2> DEFINE nr == contents[1].nr
  <2>1. /\ Whole(contents) /\ contents[1].connection = c /\ nr <= n
        /\ \A i \in 1..Len(stream') : stream'[i].nr > nr
        /\ stream' # <<>> => stream'[1] = [connection |-> c, nr |-> nr + 1, at |-> 1]
        /\ contents[Len(contents)].at = Size(nr) /\ contents[Len(contents)].nr = nr
    <3>1. InOrder(contents \o stream', c, n) /\ Follows(contents \o stream', c)
      BY <1>2, <1>3 DEF AheadOk
    <3>2. stream' \in Seq(Piece) /\ contents # <<>> /\ contents[1].at = 1
      BY <1>2, <1>3
    <3> QED BY <1>6, <3>1, <3>2, WholePacket
  <2>2. FooterIn(contents)
    BY <2>1 DEF FooterIn, Last
  <2>3. Identity(contents) = <<c, nr>> /\ Readings(contents) = {Kind(nr)}
    BY <2>1 DEF Identity, Readings
  <2>4. nr \in Numbers
    <3>1. contents[1] \in Piece
      BY <1>3
    <3> QED BY <3>1, PieceParts
  <2>5. CASE Ahead' = stream' /\ BodyComplete(contents)
    <3>1. /\ completed' = Append(completed, <<c, nr>>)
          /\ state' = Decoded(Kind(nr)).state /\ tx' = Decoded(Kind(nr)).tx
      BY <2>3, <2>5 DEF BodyComplete
    <3>2. stream' # <<>> => stream'[1].at = 1 /\ stream'[1].nr = nr + 1
      BY <2>1
    <3>3. link = "up" /\ stream' = <<>> => n = nr
      <4> SUFFICES ASSUME link = "up", stream' = <<>> PROVE n = nr
        OBVIOUS
      <4>1. contents \o <<>> = contents
        OBVIOUS
      <4>2. Ahead = contents
        BY <1>3, <4>1
      <4>3. Ahead[Len(Ahead)].nr = n
        BY <1>2, <1>4 DEF AheadOk
      <4> QED BY <2>1, <4>2, <4>3
    <3> HIDE DEF nr
    <3>4. Ahead[1].nr = nr
      BY <1>4 DEF nr
    <3>5. /\ nr <= sent[connection]
          /\ \A i \in 1..Len(Ahead') : Ahead'[i].nr > nr
          /\ Ahead' # <<>> => Ahead'[1].at = 1 /\ Ahead'[1].nr = nr + 1
          /\ link = "up" /\ Ahead' = <<>> => sent[connection] = nr
      BY <2>1, <2>5, <3>2, <3>3
    <3> QED BY <1>1, <1>2, <1>4, <2>4, <3>1, <3>4, <3>5
  <2> QED BY <1>3, <1>5, <2>2, <2>5
<1> QED BY <1>3, <1>5, <1>6

-----------------------------------------------------------------------------
(* The actions that change what is on its way to the server                *)
LEMMA AnswerSteps ==
  ASSUME TypeOK, PlainInv, [Next]_vars
  PROVE  \/ Body \/ SendSome \/ ServerTakes
         \/ out' = <<>> /\ UNCHANGED tx /\ server' \in {"none", server}
         \/ UNCHANGED <<out, server>> /\ \/ tx' = tx \/ tx' = <<>>
                                         \/ \E k \in {"data", "alive", "terminate"} : tx' = TxPieces(k)
<1>1. Body \/ SendSome \/ ServerTakes \/ Close \/ Lose \/ SendSwallowed \/ SendFails
      \/ KeepAlive \/ Send \/ Disconnect \/ UNCHANGED <<out, server, tx>>
  BY DEF Next, Client, Application, Server, Header, HeaderError, BodyError, TcpRefused, TcpConnected,
     SendDone, NoKeepAlive, ConnectEnds, TimesOut, ConnectAgain, Connect, Receive, Free, Call,
     ServerSends, Established, vars, serverVars
<1>2. CASE Close
  BY <1>2 DEF Close
<1>3. CASE Lose
  BY <1>3 DEF Lose, serverVars
<1>4. CASE SendSwallowed \/ SendFails
  BY <1>4 DEF SendSwallowed, SendFails, serverVars
<1>5. CASE KeepAlive \/ Send \/ Disconnect
  BY <1>5 DEF KeepAlive, Send, Disconnect, Call, serverVars
<1> QED BY <1>1, <1>2, <1>3, <1>4, <1>5

LEMMA Quiet == [Next]_vars /\ ~resumed' => ~resumed
<1> SUFFICES ASSUME [Next]_vars PROVE resumed => resumed'
  OBVIOUS
<1>1. TcpConnected \/ UNCHANGED resumed
  BY StreamSteps DEF Header, Body, Close, ServerSends, Lose, Established, streamVars, netVars
<1> QED BY <1>1 DEF TcpConnected

LEMMA KindsNumbered ==
  ASSUME NEW nr \in Numbers
  PROVE  /\ Kind(nr) = "greeting" <=> nr = 1
         /\ Kind(nr) = "authRequest" <=> nr = 2
         /\ Kind(nr) = "confirm" <=> nr = 3
         /\ nr \in Nat /\ nr >= 1
<1>1. nr \in Nat /\ nr >= 1
  BY Sizes
<1>2. nr = 1 \/ nr = 2 \/ nr = 3 \/ nr > 3
  BY <1>1
<1> QED BY <1>1, <1>2 DEF Kind, Kinds

(* Out: what the client has still to send goes to the end of what it sent. *)
LEMMA AnswersSent ==
  ASSUME NEW o \in Seq(TxPiece), NEW t \in Seq(TxPiece), NEW by, AnswersOk(o, t, by), NEW k \in 0..Len(t)
  PROVE  AnswersOk(o \o SubSeq(t, 1, k), SubSeq(t, k + 1, Len(t)), by)
<1> DEFINE a == SubSeq(t, 1, k)
           b == SubSeq(t, k + 1, Len(t))
           oa == o \o a
<1>1. a \in Seq(TxPiece) /\ Len(a) = k /\ \A i \in 1..k : a[i] = t[i]
  BY Taken
<1>2. b \in Seq(TxPiece) /\ Len(b) = Len(t) - k /\ \A i \in 1..Len(t) - k : b[i] = t[k + i]
  BY Rest
<1>3. Len(o) \in Nat /\ Len(t) \in Nat /\ k \in Nat /\ k <= Len(t)
  OBVIOUS
<1>4. \A kind : /\ IsIn(kind, a) => IsIn(kind, t)
                /\ IsIn(kind, b) => IsIn(kind, t)
  BY InParts
<1> HIDE DEF a, b
<1>5. \A kind : IsIn(kind, oa) <=> IsIn(kind, o) \/ IsIn(kind, a)
  BY <1>1, InJoined
<1>6. /\ Len(oa) = Len(o) + Len(a)
      /\ \A i \in 1..Len(o) : oa[i] = o[i]
      /\ \A i \in 1..Len(a) : oa[Len(o) + i] = a[i]
  <2>1. a \in Seq(TxPiece)
    BY <1>1
  <2> QED BY <2>1, Joined
<1> HIDE DEF oa
<1>7. IsIn("response", t) => ~IsIn("request", t)
  BY DEF AnswersOk, IsIn
<1>8. ASSUME NEW i \in 1..Len(oa), NEW j \in 1..Len(oa), i < j, oa[i].kind = "response"
      PROVE  oa[j].kind # "request"
  <2>1. CASE j <= Len(o)
    <3>1. i \in 1..Len(o) /\ j \in 1..Len(o)
      BY <1>1, <1>3, <1>6, <1>8, <2>1
    <3>2. o[i].kind = "response" /\ oa[j] = o[j]
      BY <1>6, <1>8, <3>1
    <3> QED BY <1>8, <3>1, <3>2 DEF AnswersOk
  <2>2. CASE j > Len(o)
    <3> DEFINE y == j - Len(o)
    <3>1. y \in 1..Len(a) /\ Len(o) + y = j
      BY <1>1, <1>3, <1>6, <2>2
    <3> HIDE DEF y
    <3>2. oa[j] = a[y]
      BY <1>6, <3>1
    <3>3. oa[j].kind = "request" => IsIn("request", t)
      BY <1>4, <3>1, <3>2 DEF IsIn
    <3>4. CASE i <= Len(o)
      <4>1. i \in 1..Len(o)
        BY <1>3, <3>4
      <4>2. IsIn("response", o)
        BY <1>6, <1>8, <4>1 DEF IsIn
      <4> QED BY <3>3, <4>2 DEF AnswersOk
    <3>5. CASE i > Len(o)
      <4> DEFINE x == i - Len(o)
      <4>1. x \in 1..Len(a) /\ Len(o) + x = i
        BY <1>1, <1>3, <1>6, <3>5
      <4> HIDE DEF x
      <4>2. a[x].kind = "response"
        BY <1>6, <1>8, <4>1
      <4>3. IsIn("response", t)
        BY <1>4, <4>1, <4>2 DEF IsIn
      <4> QED BY <1>7, <3>3, <4>3
    <3> QED BY <1>3, <3>4, <3>5
  <2> QED BY <1>1, <1>3, <1>6, <2>1, <2>2
<1>9. IsIn("response", oa) => ~IsIn("request", b)
  BY <1>4, <1>5, <1>7 DEF AnswersOk
<1>10. ASSUME NEW i \in 1..Len(b), NEW j \in 1..Len(b) PROVE b[i].kind = b[j].kind
  <2>1. k + i \in 1..Len(t) /\ k + j \in 1..Len(t)
    BY <1>2, <1>3
  <2>2. b[i] = t[k + i] /\ b[j] = t[k + j]
    BY <1>2
  <2> QED BY <2>1, <2>2 DEF AnswersOk
<1>11. by = "response" => ~IsIn("request", oa) /\ ~IsIn("request", b)
  BY <1>4, <1>5 DEF AnswersOk
<1>12. AnswersOk(oa, b, by)
  BY <1>8, <1>9, <1>10, <1>11 DEF AnswersOk
<1> QED BY <1>12 DEF oa, a, b

LEMMA AnswersFrom ==
  ASSUME TypeOK, PlainInv, StreamInv, AnswerInv, ~resumed, [Next]_vars
  PROVE  /\ AnswersOk(out', tx', server')
         /\ server = "response" => server' = "response" \/ link' = "none"
         /\ Responded' => \/ Responded
                          \/ Body /\ \E nr \in Numbers : /\ nr = 2 /\ nr <= sent[connection]
                                                         /\ \A i \in 1..Len(Ahead') : Ahead'[i].nr > nr
<1>1. AnswersOk(out, tx, server) /\ out \in Seq(TxPiece) /\ tx \in Seq(TxPiece)
  BY DEF AnswerInv, TypeOK
<1>2. \A kind : ~IsIn(kind, <<>>)
  <2>1. Len(<<>>) = 0
    BY EmptySeqs
  <2> QED BY <2>1 DEF IsIn
<1>3. CASE SendSome
  <2>1. PICK k \in 0..Len(tx) : out' = out \o SubSeq(tx, 1, k) /\ tx' = SubSeq(tx, k + 1, Len(tx))
    BY <1>3, SendSomeStep
  <2>2. AnswersOk(out', tx', server)
    BY <1>1, <2>1, AnswersSent
  <2>3. SubSeq(tx, 1, k) \in Seq(TxPiece)
    BY <1>1, <2>1, Taken
  <2>4. IsIn("response", out') => IsIn("response", out) \/ IsIn("response", tx)
    <3> DEFINE a == SubSeq(tx, 1, k)
    <3>1. IsIn("response", a) => IsIn("response", tx)
      BY <1>1, <2>1, InParts
    <3> HIDE DEF a
    <3>2. IsIn("response", out \o a) <=> IsIn("response", out) \/ IsIn("response", a)
      BY <1>1, <2>3, InJoined DEF a
    <3> QED BY <2>1, <3>1, <3>2 DEF a
  <2>5. IsIn("response", tx') => IsIn("response", tx)
    BY <1>1, <2>1, InParts
  <2>6. server' = server
    BY <1>3 DEF SendSome, serverVars
  <2> QED BY <2>2, <2>4, <2>5, <2>6 DEF Responded
<1>4. CASE ServerTakes
  <2>1. /\ out # <<>> /\ Len(out') = Len(out) - 1
        /\ \A i \in 1..Len(out) - 1 : out'[i] = out[i + 1]
        /\ server' = server \/ (server' \in {"request", "response"} /\ out[1].kind = server')
    <3>1. LET has == Append(got, Head(out)) IN
          /\ out # <<>> /\ Len(out') = Len(out) - 1
          /\ \A i \in 1..Len(out) - 1 : out'[i] = out[i + 1]
          /\ got = <<>> => server' = server
          /\ got # <<>> => /\ has = <<got[1], out[1]>>
                           /\ outOfStep' <=> has # TxPieces(got[1].kind)
                           /\ server' = IF outOfStep' \/ got[1].kind \notin {"request", "response"}
                                          THEN server ELSE got[1].kind
      BY <1>4, ServerTakesStep
    <3>2. CASE got # <<>> /\ server' # server
      <4>1. /\ <<got[1], out[1]>> = TxPieces(got[1].kind) /\ server' = got[1].kind
            /\ server' \in {"request", "response"}
        BY <3>1, <3>2
      <4>2. out[1] = [kind |-> got[1].kind, at |-> 2]
        BY <4>1 DEF TxPieces
      <4>3. out[1].kind = server'
        BY <4>1, <4>2
      <4> QED BY <3>1, <4>1, <4>3
    <3> QED BY <3>1, <3>2
  <2>2. tx' = tx
    BY <1>4 DEF ServerTakes
  <2>3. Len(out) \in Nat /\ 1 \in 1..Len(out)
    BY <1>1, <2>1
  <2>4. \A i \in 1..Len(out') : i \in 1..Len(out) /\ i + 1 \in 1..Len(out) /\ 1 < i + 1 /\ out'[i] = out[i + 1]
    BY <2>1, <2>3
  <2>5. \A kind : IsIn(kind, out') => IsIn(kind, out)
    BY <2>4 DEF IsIn
  <2>6. \A i, j \in 1..Len(out') : i < j /\ out'[i].kind = "response" => out'[j].kind # "request"
    <3> SUFFICES ASSUME NEW i \in 1..Len(out'), NEW j \in 1..Len(out'), i < j, out'[i].kind = "response"
                 PROVE  out'[j].kind # "request"
      OBVIOUS
    <3> DEFINE x == i + 1
               y == j + 1
    <3>1. x \in 1..Len(out) /\ y \in 1..Len(out) /\ x < y /\ out'[i] = out[x] /\ out'[j] = out[y]
      BY <2>3, <2>4
    <3> HIDE DEF x, y
    <3> QED BY <1>1, <3>1 DEF AnswersOk
  <2>7. server' = "response" => ~IsIn("request", out') /\ ~IsIn("request", tx)
    <3>1. CASE server' = server
      BY <1>1, <2>5, <3>1 DEF AnswersOk
    <3>2. CASE out[1].kind = "response"
      <4>1. IsIn("response", out)
        BY <2>3, <3>2 DEF IsIn
      <4>2. ~IsIn("request", tx)
        BY <1>1, <4>1 DEF AnswersOk
      <4>3. \A i \in 1..Len(out') : out'[i].kind # "request"
        <5> SUFFICES ASSUME NEW i \in 1..Len(out') PROVE out'[i].kind # "request"
          OBVIOUS
        <5> DEFINE x == i + 1
        <5>1. x \in 1..Len(out) /\ 1 < x /\ out'[i] = out[x]
          BY <2>4
        <5> HIDE DEF x
        <5> QED BY <1>1, <2>3, <3>2, <5>1 DEF AnswersOk
      <4> QED BY <4>2, <4>3 DEF IsIn
    <3> QED BY <2>1, <3>1, <3>2
  <2>8. AnswersOk(out', tx', server')
    BY <1>1, <2>2, <2>5, <2>6, <2>7 DEF AnswersOk
  <2>9. server = "response" => server' = "response"
    <3> SUFFICES ASSUME server = "response", server' # "response" PROVE FALSE
      OBVIOUS
    <3>1. out[1].kind = "request"
      BY <2>1
    <3>2. IsIn("request", out)
      BY <2>3, <3>1 DEF IsIn
    <3> QED BY <1>1, <3>2 DEF AnswersOk
  <2>10. Responded' => Responded
    <3>1. server' = "response" => server = "response" \/ IsIn("response", out)
      BY <2>1, <2>3 DEF IsIn
    <3> QED BY <2>2, <2>5, <3>1 DEF Responded
  <2> QED BY <2>8, <2>9, <2>10
<1>5. CASE out' = <<>> /\ UNCHANGED tx /\ server' \in {"none", server}
  <2>1. Len(<<>>) = 0
    BY EmptySeqs
  <2>2. \A i, j \in 1..Len(out') : i < j /\ out'[i].kind = "response" => out'[j].kind # "request"
    BY <1>5, <2>1
  <2>3. AnswersOk(out', tx', server')
    BY <1>1, <1>2, <1>5, <2>2 DEF AnswersOk
  <2>4. server = "response" => server' = "response" \/ link' = "none"
    <3>1. UNCHANGED server \/ Close \/ ServerTakes
      BY DEF Next, Client, Application, Server, Header, HeaderError, Body, BodyError, TcpRefused, TcpConnected,
         SendSome, SendSwallowed, SendFails, SendDone, KeepAlive, NoKeepAlive, ConnectEnds, TimesOut,
         ConnectAgain, Connect, Receive, Send, Disconnect, Free, Call, ServerSends, Established, Lose, vars,
         serverVars
    <3>2. CASE ServerTakes
      <4>1. server' # "none" \/ server = "none"
        BY <3>2 DEF ServerTakes
      <4> QED BY <1>5, <4>1
    <3> QED BY <3>1, <3>2 DEF Close
  <2>5. Responded' => Responded
    BY <1>2, <1>5 DEF Responded
  <2> QED BY <2>3, <2>4, <2>5
<1>6. CASE UNCHANGED <<out, server>> /\ \/ tx' = tx \/ tx' = <<>>
                                        \/ \E k \in {"data", "alive", "terminate"} : tx' = TxPieces(k)
  <2>1. CASE tx' = tx
    BY <1>1, <1>6, <2>1 DEF AnswersOk, Responded
  <2>2. CASE tx' = <<>>
    <3>1. Len(<<>>) = 0
      BY EmptySeqs
    <3>2. \A i, j \in 1..Len(tx') : tx'[i].kind = tx'[j].kind
      BY <2>2, <3>1
    <3> QED BY <1>1, <1>2, <1>6, <2>2, <3>2 DEF AnswersOk, Responded
  <2>3. ASSUME NEW k \in {"data", "alive", "terminate"}, tx' = TxPieces(k)
        PROVE  AnswersOk(out', tx', server') /\ (Responded' => Responded)
    <3>1. k \in Sent
      BY <2>3 DEF Sent
    <3>2. \A kind : IsIn(kind, tx') <=> kind = k
      BY <2>3, <3>1, InTxPieces
    <3>3. \A i \in 1..Len(tx') : tx'[i].kind = k
      BY <2>3, <3>1, InTxPieces
    <3>4. ~IsIn("request", tx') /\ ~IsIn("response", tx')
      BY <3>2
    <3>5. \A i, j \in 1..Len(tx') : tx'[i].kind = tx'[j].kind
      BY <3>3
    <3> QED BY <1>1, <1>6, <3>4, <3>5 DEF AnswersOk, Responded
  <2> QED BY <1>6, <2>1, <2>2, <2>3
<1>7. CASE Body
  <2>1. UNCHANGED <<out, server>> /\ 1 \in 1..Len(Ahead)
    BY <1>7, BodyDecodes
  <2>2. CASE UNCHANGED tx
    BY <1>1, <2>1, <2>2 DEF Responded
  <2>3. ASSUME NEW nr \in Numbers, nr <= sent[connection], Ahead[1].nr = nr,
               \A i \in 1..Len(Ahead') : Ahead'[i].nr > nr, tx' = Decoded(Kind(nr)).tx
        PROVE  /\ AnswersOk(out', tx', server')
               /\ Responded' => Responded \/ nr = 2
    <3>1. CASE nr = 1
      <4>1. tx' = TxPieces("request") /\ "request" \in Sent
        BY <2>3, <3>1, KindsNumbered DEF Decoded, Sent
      <4>2. ~Responded
        <5>1. ~(Ahead[1].nr > 1)
          BY <2>3, <3>1
        <5> QED BY <2>1, <5>1 DEF AnswerInv
      <4>3. \A kind : IsIn(kind, tx') <=> kind = "request"
        BY <4>1, InTxPieces
      <4>4. \A i \in 1..Len(tx') : tx'[i].kind = "request"
        BY <4>1, InTxPieces
      <4>5. \A i, j \in 1..Len(tx') : tx'[i].kind = tx'[j].kind
        BY <4>4
      <4>6. ~IsIn("response", tx')
        BY <4>3
      <4> QED BY <1>1, <2>1, <4>2, <4>5, <4>6 DEF AnswersOk, Responded
    <3>2. CASE nr = 2
      <4>1. tx' = TxPieces("response") /\ "response" \in Sent
        BY <2>3, <3>2, KindsNumbered DEF Decoded, Sent
      <4>2. ~IsIn("request", tx')
        BY <4>1, InTxPieces
      <4>3. \A i \in 1..Len(tx') : tx'[i].kind = "response"
        BY <4>1, InTxPieces
      <4>4. \A i, j \in 1..Len(tx') : tx'[i].kind = tx'[j].kind
        BY <4>3
      <4> QED BY <1>1, <2>1, <3>2, <4>2, <4>4 DEF AnswersOk
    <3>3. CASE nr # 1 /\ nr # 2
      <4>1. tx' = <<>>
        BY <2>3, <3>3, KindsNumbered DEF Decoded
      <4>2. Len(<<>>) = 0
        BY EmptySeqs
      <4>3. \A i, j \in 1..Len(tx') : tx'[i].kind = tx'[j].kind
        BY <4>1, <4>2
      <4> QED BY <1>1, <1>2, <2>1, <4>1, <4>3 DEF AnswersOk, Responded
    <3> QED BY <3>1, <3>2, <3>3
  <2>4. UNCHANGED tx
        \/ \E nr \in Numbers :
                 /\ nr <= sent[connection] /\ Ahead[1].nr = nr
                 /\ \A i \in 1..Len(Ahead') : Ahead'[i].nr > nr
                 /\ tx' = Decoded(Kind(nr)).tx
    BY <1>7, BodyDecodes
  <2>5. server = "response" => server' = "response"
    BY <2>1
  <2>6. CASE \E nr \in Numbers :
                 /\ nr <= sent[connection] /\ Ahead[1].nr = nr
                 /\ \A i \in 1..Len(Ahead') : Ahead'[i].nr > nr
                 /\ tx' = Decoded(Kind(nr)).tx
    <3>1. PICK nr \in Numbers :
                 /\ nr <= sent[connection] /\ Ahead[1].nr = nr
                 /\ \A i \in 1..Len(Ahead') : Ahead'[i].nr > nr
                 /\ tx' = Decoded(Kind(nr)).tx
      BY <2>6
    <3>2. AnswersOk(out', tx', server') /\ (Responded' => Responded \/ nr = 2)
      BY <2>3, <3>1
    <3> QED BY <1>7, <2>5, <3>1, <3>2
  <2> QED BY <2>2, <2>4, <2>5, <2>6
<1> QED BY <1>3, <1>4, <1>5, <1>6, <1>7, AnswerSteps

LEMMA AnswerNext ==
  ASSUME TypeOK, PlainInv, StreamInv, AnswerInv, [Next]_vars PROVE AnswerInv'
<1> SUFFICES ASSUME ~resumed'
             PROVE  /\ AnswersOk(out', tx', server')
                    /\ Responded' => /\ sent'[connection'] >= 1
                                     /\ \A i \in 1..Len(Ahead)' : Ahead'[i].nr > 1
                    /\ link' # "none" /\ sent'[connection'] >= 3 => server' = "response"
  BY DEF AnswerInv
<1>0. ~resumed
  BY Quiet
<1>1. /\ Responded => sent[connection] >= 1 /\ \A i \in 1..Len(Ahead) : Ahead[i].nr > 1
      /\ link # "none" /\ sent[connection] >= 3 => server = "response"
  BY <1>0 DEF AnswerInv
<1>2. /\ AnswersOk(out', tx', server')
      /\ server = "response" => server' = "response" \/ link' = "none"
      /\ Responded' => \/ Responded
                       \/ Body /\ \E nr \in Numbers : /\ nr = 2 /\ nr <= sent[connection]
                                                      /\ \A i \in 1..Len(Ahead') : Ahead'[i].nr > nr
  BY <1>0, AnswersFrom
<1>3. Ahead \in Seq(Piece) /\ (connection >= 1 => sent[connection] \in Nat) /\ Len(Ahead) \in Nat
      /\ connection \in 0..MaxConnects /\ sent \in [1..MaxConnects -> 0..3 + MaxData]
  <2>1. sent \in [1..MaxConnects -> 0..3 + MaxData] /\ connection \in 0..MaxConnects
    BY DEF TypeOK
  <2>2. connection >= 1 => sent[connection] \in Nat
    BY <2>1, Sizes
  <2> QED BY <2>1, <2>2, AheadType
<1> DEFINE Good == /\ Responded' => /\ sent'[connection'] >= 1
                                    /\ \A i \in 1..Len(Ahead)' : Ahead'[i].nr > 1
                   /\ link' # "none" /\ sent'[connection'] >= 3 => server' = "response"
<1>4. CASE TcpConnected
  <2>1. /\ tx = <<>> /\ out = <<>> /\ server = "none"
        /\ UNCHANGED <<tx, out, server, sent>> /\ connection' = connection + 1 /\ connection < MaxConnects
    BY <1>4 DEF TcpConnected, PlainInv, PlaceInv, Sending, serverVars
  <2>2. ~Responded'
    <3>1. Len(<<>>) = 0
      BY EmptySeqs
    <3> QED BY <2>1, <3>1 DEF Responded, IsIn
  <2>3. sent'[connection'] = 0
    <3>1. connection + 1 \in 1..MaxConnects /\ connection + 1 > connection
      BY <1>3, <2>1, Sizes
    <3> QED BY <2>1, <3>1 DEF PlainInv, PlaceInv
  <2> QED BY <1>2, <2>2, <2>3
<1>5. CASE Close
  <2>1. tx' = <<>> /\ out' = <<>> /\ server' = "none" /\ link' = "none"
    BY <1>5 DEF Close, PlainInv, PlaceInv, Sending
  <2>2. ~Responded'
    <3>1. Len(<<>>) = 0
      BY EmptySeqs
    <3> QED BY <2>1, <3>1 DEF Responded, IsIn
  <2> QED BY <1>2, <2>1, <2>2
<1>6. CASE ServerSends
  <2> DEFINE n == sent[connection]
             p == Pieces(connection, n + 1)
  <2>1. /\ connection \in 1..MaxConnects /\ n \in Nat /\ n + 1 \in Numbers /\ Ahead' = Ahead \o p
        /\ sent'[connection] = n + 1 /\ link = "up" /\ Due(n + 1)
        /\ UNCHANGED <<tx, out, server, netVars>>
    BY <1>6, SendsAhead
  <2>2. connection' = connection
    BY <2>1 DEF netVars
  <2>3. n + 1 >= 3 => server = "response"
    <3>1. n + 1 # 1 /\ n + 1 # 2 => Kind(n + 1) \notin {"greeting", "authRequest"}
      BY <2>1, KindsNumbered
    <3> QED BY <2>1, <3>1 DEF Due
  <2>4. Responded' => Responded
    BY <2>1 DEF Responded
  <2>5. Responded => \A i \in 1..Len(Ahead') : Ahead'[i].nr > 1
    <3> SUFFICES ASSUME Responded, NEW i \in 1..Len(Ahead') PROVE Ahead'[i].nr > 1
      OBVIOUS
    <3>1. n >= 1 /\ \A x \in 1..Len(Ahead) : Ahead[x].nr > 1
      BY <1>1
    <3>2. /\ p \in Seq(Piece) /\ \A x \in 1..Len(p) : p[x].nr = n + 1
      <4>1. /\ p \in Seq(Piece) /\ Len(p) = Size(n + 1)
            /\ \A x \in 1..Size(n + 1) : p[x] = [connection |-> connection, nr |-> n + 1, at |-> x]
        BY <2>1, PiecesAre
      <4> HIDE DEF p, n
      <4> QED BY <4>1
    <3> HIDE DEF p
    <3>3. /\ Len(Ahead') = Len(Ahead) + Len(p) /\ Len(p) \in Nat
          /\ \A x \in 1..Len(Ahead) + Len(p) : Ahead'[x] = IF x <= Len(Ahead) THEN Ahead[x] ELSE p[x - Len(Ahead)]
      <4>1. p \in Seq(Piece)
        BY <3>2
      <4> QED BY <1>3, <2>1, <4>1, Joined
    <3>4. CASE i <= Len(Ahead)
      <4>1. i \in 1..Len(Ahead) /\ Ahead'[i] = Ahead[i]
        BY <1>3, <3>3, <3>4
      <4> QED BY <3>1, <4>1
    <3>5. CASE ~(i <= Len(Ahead))
      <4>1. i - Len(Ahead) \in 1..Len(p) /\ Ahead'[i] = p[i - Len(Ahead)]
        BY <1>3, <3>3, <3>5
      <4>2. Ahead'[i].nr = n + 1
        BY <3>2, <4>1
      <4> QED BY <2>1, <3>1, <4>2
    <3> QED BY <3>4, <3>5
  <2> HIDE DEF p, n
  <2>6. Responded' => n >= 1
    BY <1>1, <2>4 DEF n
  <2> QED BY <1>2, <2>1, <2>2, <2>3, <2>4, <2>5, <2>6
<1>7. ASSUME UNCHANGED <<connection, sent>>, link' = link \/ link # "none",
             Responded' => Responded,
             \A i \in 1..Len(Ahead') : \E j \in 1..Len(Ahead) : Ahead'[i] = Ahead[j]
      PROVE  Good
  <2>1. sent'[connection'] = sent[connection]
    BY <1>7
  <2>2. Responded' => sent'[connection'] >= 1
    BY <1>1, <1>7, <2>1
  <2>3. Responded' => \A i \in 1..Len(Ahead)' : Ahead'[i].nr > 1
    <3> SUFFICES ASSUME Responded', NEW i \in 1..Len(Ahead') PROVE Ahead'[i].nr > 1
      OBVIOUS
    <3>1. PICK j \in 1..Len(Ahead) : Ahead'[i] = Ahead[j]
      BY <1>7
    <3>2. Ahead[j].nr > 1
      BY <1>1, <1>7
    <3> QED BY <3>1, <3>2
  <2>4. link' # "none" /\ sent'[connection'] >= 3 => server' = "response"
    BY <1>1, <1>2, <1>7, <2>1
  <2> QED BY <2>2, <2>3, <2>4
<1>8. CASE Header
  <2>1. UNCHANGED <<connection, sent, link>>
    BY <1>8 DEF Header, netVars, serverVars
  <2>2. Ahead' = Ahead \/ \E k \in 0..Len(Ahead) : Ahead' = SubSeq(Ahead, k + 1, Len(Ahead))
    BY <1>8, HeaderAhead
  <2>3. ASSUME NEW k \in 0..Len(Ahead), Ahead' = SubSeq(Ahead, k + 1, Len(Ahead)), NEW i \in 1..Len(Ahead')
        PROVE  \E j \in 1..Len(Ahead) : Ahead'[i] = Ahead[j]
    <3>1. Len(Ahead') = Len(Ahead) - k /\ \A x \in 1..Len(Ahead) - k : Ahead'[x] = Ahead[k + x]
      BY <1>3, <2>3, Rest
    <3>2. k + i \in 1..Len(Ahead) /\ Ahead'[i] = Ahead[k + i]
      BY <1>3, <2>3, <3>1
    <3> QED BY <3>2
  <2>4. \A i \in 1..Len(Ahead') : \E j \in 1..Len(Ahead) : Ahead'[i] = Ahead[j]
    BY <2>2, <2>3
  <2>5. Responded' => Responded
    <3>1. ~Body
      BY <1>8 DEF Header, HeaderDue, Body
    <3> QED BY <1>2, <3>1
  <2> QED BY <1>2, <1>7, <2>1, <2>4, <2>5
<1>9. CASE Body
  <2>1. /\ link # "none" /\ UNCHANGED <<out, server, sent, connection, link>> /\ 1 \in 1..Len(Ahead)
        /\ \/ UNCHANGED tx /\ Ahead' = Ahead
           \/ \E nr \in Numbers :
                 /\ nr <= sent[connection] /\ Ahead[1].nr = nr
                 /\ \A i \in 1..Len(Ahead') : Ahead'[i].nr > nr
    BY <1>0, <1>9, BodyDecodes
  <2>2. CASE UNCHANGED tx /\ Ahead' = Ahead
    <3>1. Responded' => Responded
      BY <2>1, <2>2 DEF Responded
    <3>2. \A i \in 1..Len(Ahead') : \E j \in 1..Len(Ahead) : Ahead'[i] = Ahead[j]
      BY <2>2
    <3> QED BY <1>2, <1>7, <2>1, <3>1, <3>2
  <2>3. CASE \E nr \in Numbers :
                 /\ nr <= sent[connection] /\ Ahead[1].nr = nr
                 /\ \A i \in 1..Len(Ahead') : Ahead'[i].nr > nr
    <3>1. PICK nr \in Numbers :
                 /\ nr <= sent[connection] /\ Ahead[1].nr = nr
                 /\ \A i \in 1..Len(Ahead') : Ahead'[i].nr > nr
      BY <2>3
    <3>2. sent[connection] \in Nat /\ nr \in Nat /\ nr >= 1
      <4>1. connection >= 1
        BY <2>1 DEF PlainInv, PlaceInv
      <4> QED BY <1>3, <4>1, KindsNumbered
    <3>3. \A i \in 1..Len(Ahead') : Ahead'[i].nr > 1
      <4>1. Ahead' \in Seq(Piece)
        <5>1. stream' \in Seq(Piece) /\ (Ahead' = Ahead \/ Ahead' = stream')
          BY <1>9, BodyAhead
        <5> QED BY <1>3, <5>1
      <4> SUFFICES ASSUME NEW i \in 1..Len(Ahead') PROVE Ahead'[i].nr > 1
        OBVIOUS
      <4>2. Ahead'[i] \in Piece
        BY <4>1
      <4>3. Ahead'[i].nr \in Nat
        BY <4>2, PieceParts
      <4>4. Ahead'[i].nr > nr
        BY <3>1
      <4> QED BY <3>2, <4>3, <4>4
    <3>4. sent[connection] >= 1
      BY <3>1, <3>2
    <3> QED BY <1>1, <1>2, <2>1, <3>3, <3>4
  <2> QED BY <2>1, <2>2, <2>3
<1>10. CASE Lose
  <2>1. /\ \E k \in 0..Len(Ahead) : Ahead' = SubSeq(Ahead, 1, k)
        /\ link = "up" /\ UNCHANGED <<serverVars, connection>>
    BY <1>10, LoseAhead
  <2>2. UNCHANGED <<connection, sent>> /\ link # "none"
    BY <2>1 DEF serverVars
  <2>3. \A i \in 1..Len(Ahead') : \E j \in 1..Len(Ahead) : Ahead'[i] = Ahead[j]
    <3>1. PICK k \in 0..Len(Ahead) : Ahead' = SubSeq(Ahead, 1, k)
      BY <2>1
    <3>2. Len(Ahead') = k /\ \A x \in 1..k : Ahead'[x] = Ahead[x]
      BY <1>3, <3>1, Taken
    <3>3. \A x \in 1..k : x \in 1..Len(Ahead)
      BY <1>3
    <3> QED BY <3>2, <3>3
  <2>4. Responded' => Responded
    <3>1. link' # link
      BY <1>10 DEF Lose
    <3> QED BY <1>2, <3>1 DEF Body, netVars
  <2> QED BY <1>2, <1>7, <2>2, <2>3, <2>4
<1>11. CASE Established
  <2>1. UNCHANGED <<connection, sent>> /\ link # "none" /\ Ahead' = Ahead
    BY <1>11 DEF Established, serverVars, packetVars, Ahead
  <2>2. Responded' => Responded
    BY <1>11 DEF Established, serverVars, Responded
  <2> QED BY <1>2, <1>7, <2>1, <2>2
<1>12. CASE UNCHANGED streamVars
  <2>1. UNCHANGED <<connection, sent, link, completed, rxState, buffer, stream>> /\ Ahead' = Ahead
    BY <1>12 DEF streamVars, packetVars, netVars, Ahead
  <2>2. ~Body
    <3> SUFFICES ASSUME Body PROVE FALSE
      OBVIOUS
    <3>1. stream \in Seq(Piece) /\ \E k \in 1..Missing : k <= Len(stream) /\ stream' = SubSeq(stream, k + 1, Len(stream))
      BY BodyStep DEF PlainInv, TypeOK
    <3>2. PICK k \in 1..Missing : k <= Len(stream) /\ stream' = SubSeq(stream, k + 1, Len(stream))
      BY <3>1
    <3>3. k \in 0..Len(stream) /\ k # 0 /\ Len(stream) \in Nat
      BY <3>1, <3>2
    <3>4. Len(stream') = Len(stream) - k
      BY <3>1, <3>2, <3>3, Rest
    <3> QED BY <2>1, <3>3, <3>4
  <2>3. Responded' => Responded
    BY <1>2, <2>2
  <2>4. \A i \in 1..Len(Ahead') : \E j \in 1..Len(Ahead) : Ahead'[i] = Ahead[j]
    BY <2>1
  <2> QED BY <1>2, <1>7, <2>1, <2>3, <2>4
<1> QED BY <1>4, <1>5, <1>6, <1>8, <1>9, <1>10, <1>11, <1>12, StreamSteps

(* A client that takes itself for accepted                                 *)
LEMMA ActiveNext ==
  ASSUME TypeOK, PlainInv, StreamInv, AnswerInv, ActiveIsConfirmed, [Next]_vars
  PROVE  ActiveIsConfirmed'
<1> SUFFICES ASSUME state' = "active", ~resumed'
             PROVE  sent'[connection'] >= 3 /\ server' = "response"
  BY DEF ActiveIsConfirmed
<1>0. ~resumed
  BY Quiet
<1>1. AnswerInv'
  BY AnswerNext
<1>2. server = "response" => server' = "response" \/ link' = "none"
  BY <1>0, AnswersFrom
<1>3. link' # "none"
  BY PlainNext DEF PlainInv, PlaceInv
<1>4. CASE state = "active" /\ UNCHANGED connection
  <2>1. sent[connection] >= 3 /\ server = "response" /\ server' = "response"
    BY <1>0, <1>2, <1>3, <1>4 DEF ActiveIsConfirmed
  <2>2. sent'[connection] >= 3
    <3>1. CASE ServerSends
      BY <2>1, <3>1, SendsAhead
    <3>2. ServerSends \/ UNCHANGED sent
      BY DEF Next, Client, Application, Server, Header, HeaderError, Body, BodyError, TcpRefused, TcpConnected,
         SendSome, SendSwallowed, SendFails, SendDone, KeepAlive, NoKeepAlive, ConnectEnds, TimesOut,
         ConnectAgain, Close, Connect, Receive, Send, Disconnect, Free, Call, ServerTakes, Established, Lose,
         vars, serverVars
    <3> QED BY <2>1, <3>1, <3>2
  <2> QED BY <1>4, <2>1, <2>2
<1>5. CASE Body
  <2>1. /\ link # "none" /\ UNCHANGED <<server, sent, connection>>
        /\ \/ UNCHANGED state
           \/ \E nr \in Numbers : nr <= sent[connection] /\ state' = Decoded(Kind(nr)).state
    BY <1>0, <1>5, BodyDecodes
  <2>2. CASE state # "active"
    <3>1. PICK nr \in Numbers : nr <= sent[connection] /\ state' = Decoded(Kind(nr)).state
      BY <2>1, <2>2
    <3>2. nr = 3
      <4>1. Kind(nr) = "confirm"
        BY <2>2, <3>1 DEF Decoded
      <4> QED BY <4>1, KindsNumbered
    <3>3. sent[connection] >= 3
      BY <3>1, <3>2
    <3> QED BY <1>0, <2>1, <3>3 DEF AnswerInv
  <2> QED BY <1>4, <2>1, <2>2
<1>6. (state' = state /\ connection' = connection) \/ Body \/ TcpConnected \/ state' = "noTCP"
  <2>1. HeaderError \/ BodyError \/ Header \/ ServerTakes \/ ServerSends \/ Established \/ Lose \/ Application
           \/ SendSome \/ SendSwallowed \/ KeepAlive \/ NoKeepAlive \/ TcpRefused \/ ConnectEnds
           \/ ConnectAgain \/ UNCHANGED vars => state' = state /\ connection' = connection
    <3>1. CASE Header
      <4>1. UNCHANGED clientVars \/ NothingReceived
        BY <3>1, HeaderAhead
      <4> QED BY <3>1, <4>1 DEF Header, NothingReceived, clientVars, netVars
    <3> QED BY <3>1 DEF Application, HeaderError, BodyError, NothingReceived, TcpRefused,
         SendSome, SendSwallowed, KeepAlive, NoKeepAlive, ConnectEnds,
         ConnectAgain, Connect, Receive, Send, Disconnect, Free, Call, ServerSends, ServerTakes, Established,
         Lose, vars, clientVars, netVars
  <2>2. SendFails \/ SendDone => (state' = state \/ state' = "noTCP") /\ connection' = connection
    BY DEF SendFails, SendDone, AfterSend, netVars
  <2>3. TimesOut \/ Close => state' = "noTCP"
    BY DEF TimesOut, Close
  <2> QED BY <2>1, <2>2, <2>3 DEF Next, Client, Server
<1> QED BY <1>4, <1>5, <1>6 DEF TcpConnected

-----------------------------------------------------------------------------
(* Whole packets followed by a packet, and without their first             *)
LEMMA WholeAnd ==
  ASSUME NEW s \in Seq(TxPiece), WholePackets(s), NEW k \in Sent
  PROVE  WholePackets(s \o TxPieces(k))
<1> DEFINE t == TxPieces(k)
           st == s \o t
<1>1. t \in Seq(TxPiece) /\ Len(t) = 2 /\ t[1] = [kind |-> k, at |-> 1] /\ t[2] = [kind |-> k, at |-> 2]
  BY TxPiecesAre
<1> HIDE DEF t
<1>2. /\ Len(st) = Len(s) + 2 /\ Len(s) \in Nat
      /\ \A i \in 1..Len(s) : st[i] = s[i]
      /\ st[Len(s) + 1] = t[1] /\ st[Len(s) + 2] = t[2]
  <2>1. /\ Len(st) = Len(s) + Len(t)
        /\ \A i \in 1..Len(s) : st[i] = s[i]
        /\ \A i \in 1..Len(t) : st[Len(s) + i] = t[i]
    <3>1. t \in Seq(TxPiece)
      BY <1>1
    <3> QED BY <3>1, Joined
  <2>2. 1 \in 1..Len(t) /\ 2 \in 1..Len(t) /\ Len(s) \in Nat
    BY <1>1
  <2> QED BY <1>1, <2>1, <2>2
<1> HIDE DEF st
<1>3. st[1].at = 1 /\ st[Len(st)].at = 2
  <2>1. st[Len(st)].at = 2
    BY <1>1, <1>2
  <2>2. CASE s = <<>>
    <3>1. Len(s) = 0
      BY <2>2
    <3>2. st[1] = t[1]
      BY <1>2, <3>1
    <3> QED BY <1>1, <2>1, <3>2
  <2>3. CASE s # <<>>
    <3>1. 1 \in 1..Len(s)
      BY <1>2, <2>3
    <3> QED BY <1>2, <2>1, <2>3, <3>1 DEF WholePackets
  <2> QED BY <2>2, <2>3
<1>4. ASSUME NEW i \in 1..Len(st) - 1
      PROVE  IF st[i].at = 1 THEN st[i + 1] = [kind |-> st[i].kind, at |-> 2] ELSE st[i + 1].at = 1
  <2>1. CASE i <= Len(s) - 1
    <3>1. i \in 1..Len(s) - 1 /\ i \in 1..Len(s) /\ i + 1 \in 1..Len(s)
      BY <1>2, <2>1
    <3>2. st[i] = s[i] /\ st[i + 1] = s[i + 1]
      BY <1>2, <3>1
    <3> QED BY <3>1, <3>2 DEF WholePackets
  <2>2. CASE i = Len(s)
    <3>1. s # <<>> /\ i \in 1..Len(s)
      BY <1>2, <2>2
    <3>2. st[i] = s[i] /\ s[i].at = 2
      BY <1>2, <2>2, <3>1 DEF WholePackets
    <3>3. st[i + 1].at = 1
      BY <1>1, <1>2, <2>2
    <3> QED BY <3>2, <3>3
  <2>3. CASE i = Len(s) + 1
    <3>1. st[i] = [kind |-> k, at |-> 1] /\ st[i + 1] = [kind |-> k, at |-> 2]
      BY <1>1, <1>2, <2>3
    <3> QED BY <3>1
  <2> QED BY <1>2, <2>1, <2>2, <2>3
<1>5. WholePackets(st)
  BY <1>3, <1>4 DEF WholePackets
<1> QED BY <1>5 DEF st, t

LEMMA WholeRest ==
  ASSUME NEW s \in Seq(TxPiece), WholePackets(s), s # <<>>
  PROVE  /\ Len(s) >= 2 /\ 2 \in 0..Len(s) /\ s[1].at = 1 /\ s[2] = [kind |-> s[1].kind, at |-> 2]
         /\ WholePackets(SubSeq(s, 3, Len(s)))
<1>1. Len(s) \in Nat /\ Len(s) >= 1 /\ s[1].at = 1 /\ s[Len(s)].at = 2
  BY DEF WholePackets
<1>2. Len(s) >= 2 /\ 2 \in 0..Len(s) /\ 1 \in 1..Len(s) - 1
  BY <1>1
<1>3. s[2] = [kind |-> s[1].kind, at |-> 2]
  <2>1. IF s[1].at = 1 THEN s[1 + 1] = [kind |-> s[1].kind, at |-> 2] ELSE s[1 + 1].at = 1
    BY <1>2 DEF WholePackets
  <2> QED BY <1>1, <2>1
<1> DEFINE t == SubSeq(s, 2 + 1, Len(s))
<1>4. t \in Seq(TxPiece) /\ Len(t) = Len(s) - 2 /\ \A i \in 1..Len(s) - 2 : t[i] = s[2 + i]
  BY <1>2, Rest
<1> HIDE DEF t
<1>5. t # <<>> => t[1].at = 1 /\ t[Len(t)].at = 2
  <2> SUFFICES ASSUME t # <<>> PROVE t[1].at = 1 /\ t[Len(t)].at = 2
    OBVIOUS
  <2>1. Len(t) \in 1..Len(s) - 2 /\ 1 \in 1..Len(s) - 2 /\ 2 + Len(t) = Len(s)
    BY <1>1, <1>4
  <2>2. t[1] = s[3] /\ t[Len(t)] = s[Len(s)]
    <3>1. t[Len(t)] = s[2 + Len(t)] /\ t[1] = s[2 + 1]
      BY <1>4, <2>1
    <3> QED BY <2>1, <3>1
  <2>3. s[3].at = 1
    <3>1. 2 \in 1..Len(s) - 1
      BY <1>1, <2>1
    <3>2. IF s[2].at = 1 THEN s[2 + 1] = [kind |-> s[2].kind, at |-> 2] ELSE s[2 + 1].at = 1
      BY <3>1 DEF WholePackets
    <3> QED BY <1>3, <3>2
  <2> QED BY <1>1, <2>2, <2>3
<1>6. ASSUME NEW i \in 1..Len(t) - 1
      PROVE  IF t[i].at = 1 THEN t[i + 1] = [kind |-> t[i].kind, at |-> 2] ELSE t[i + 1].at = 1
  <2> DEFINE x == 2 + i
             j == i + 1
  <2>1. x \in 1..Len(s) - 1 /\ i \in 1..Len(s) - 2 /\ j \in 1..Len(s) - 2 /\ 2 + j = x + 1
    BY <1>1, <1>4
  <2>2. t[i] = s[x]
    BY <1>4, <2>1
  <2> HIDE DEF x, j
  <2>3. t[j] = s[2 + j]
    BY <1>4, <2>1
  <2>4. t[j] = s[x + 1]
    BY <2>1, <2>3
  <2>5. IF s[x].at = 1 THEN s[x + 1] = [kind |-> s[x].kind, at |-> 2] ELSE s[x + 1].at = 1
    BY <2>1 DEF WholePackets
  <2>6. IF t[i].at = 1 THEN t[j] = [kind |-> t[i].kind, at |-> 2] ELSE t[j].at = 1
    BY <2>2, <2>4, <2>5
  <2> QED BY <2>6 DEF j
<1>7. WholePackets(t)
  BY <1>5, <1>6 DEF WholePackets
<1> QED BY <1>1, <1>2, <1>3, <1>7 DEF t

(* What the server takes, it takes from the front of Pending.              *)
LEMMA ServerTakesPending ==
  ASSUME TypeOK, ServerTakes
  PROVE  /\ Pending \in Seq(TxPiece) /\ Pending # <<>>
         /\ got = <<>> => /\ Pending[1] = out[1]
                          /\ ~outOfStep' => Pending' = Pending
         /\ got # <<>> => /\ Len(Pending) >= 2 => Pending[1] = got[1] /\ Pending[2] = out[1]
                          /\ Pending' = SubSeq(Pending, 3, Len(Pending))
<1> DEFINE rest == Tail(out)
           one == <<out[1]>>
<1>1. /\ out \in Seq(TxPiece) /\ out # <<>> /\ out' = rest /\ tx' = tx
      /\ got = <<>> => (~outOfStep' => got' = one)
      /\ got # <<>> => got' = <<>>
  <2>1. LET has == Append(got, Head(out)) IN
        /\ out \in Seq(TxPiece) /\ out # <<>> /\ out' = rest
        /\ got = <<>> => has = <<out[1]>> /\ (~outOfStep' => got' = has)
        /\ got # <<>> => got' = <<>>
    BY ServerTakesStep
  <2> QED BY <2>1 DEF ServerTakes
<1>2. got \in Seq(TxPiece) /\ tx \in Seq(TxPiece) /\ Len(got) \in {0, 1}
  <2>1. got \in Seq(TxPiece) /\ Len(got) \in {0, 1}
    BY TypeParts DEF ServerType
  <2>2. tx \in Seq(TxPiece)
    BY TypeParts DEF TxType
  <2> QED BY <2>1, <2>2
<1>3. rest \in Seq(TxPiece) /\ one \in Seq(TxPiece) /\ Len(one) = 1 /\ one[1] = out[1]
  <2>1. out[1] \in TxPiece
    BY <1>1
  <2> QED BY <1>1, <2>1
<1>4. one \o rest = out
  <2> DEFINE l == one \o rest
  <2>1. Len(rest) = Len(out) - 1 /\ \A i \in 1..Len(out) - 1 : rest[i] = out[i + 1]
    BY <1>1
  <2> HIDE DEF one, rest
  <2>2. /\ l \in Seq(TxPiece) /\ Len(l) = Len(one) + Len(rest)
        /\ \A i \in 1..Len(one) + Len(rest) : l[i] = IF i <= Len(one) THEN one[i] ELSE rest[i - Len(one)]
    <3>1. one \in Seq(TxPiece) /\ rest \in Seq(TxPiece)
      BY <1>3
    <3> QED BY <3>1, Joined
  <2> HIDE DEF l
  <2>3. Len(l) = Len(out) /\ Len(out) \in Nat
    BY <1>1, <1>3, <2>1, <2>2
  <2>4. ASSUME NEW i \in 1..Len(l) PROVE l[i] = out[i]
    <3>1. CASE i = 1
      BY <1>3, <2>2, <2>3, <3>1
    <3>2. CASE i # 1
      <4>1. i - 1 \in 1..Len(out) - 1 /\ (i - 1) + 1 = i /\ ~(i <= Len(one)) /\ i \in 1..Len(one) + Len(rest)
        BY <1>3, <2>1, <2>2, <2>3, <3>2
      <4>2. l[i] = rest[i - 1]
        BY <1>3, <2>2, <4>1
      <4>3. rest[i - 1] = out[(i - 1) + 1]
        BY <2>1, <4>1
      <4> QED BY <4>1, <4>2, <4>3
    <3> QED BY <3>1, <3>2
  <2>5. l = out
    BY <1>1, <2>2, <2>3, <2>4, SameSeq
  <2> QED BY <2>5 DEF l
<1>5. /\ got \o out \in Seq(TxPiece) /\ Len(got \o out) = Len(got) + Len(out)
      /\ (got \o out)[Len(got) + 1] = out[1]
      /\ got # <<>> => (got \o out)[1] = got[1]
  <2>1. 1 \in 1..Len(out) /\ (got # <<>> => 1 \in 1..Len(got))
    BY <1>1, <1>2
  <2>2. /\ got \o out \in Seq(TxPiece) /\ Len(got \o out) = Len(got) + Len(out)
        /\ \A i \in 1..Len(got) : (got \o out)[i] = got[i]
        /\ \A i \in 1..Len(out) : (got \o out)[Len(got) + i] = out[i]
    BY <1>1, <1>2, Joined
  <2> QED BY <2>1, <2>2
<1> DEFINE go == got \o out
<1> HIDE DEF go
<1>6. /\ Pending \in Seq(TxPiece) /\ Len(Pending) = Len(go) + Len(tx)
      /\ \A i \in 1..Len(go) : Pending[i] = go[i]
  <2>1. go \in Seq(TxPiece)
    BY <1>5 DEF go
  <2>2. /\ go \o tx \in Seq(TxPiece) /\ Len(go \o tx) = Len(go) + Len(tx)
        /\ \A i \in 1..Len(go) : (go \o tx)[i] = go[i]
    BY <1>2, <2>1, Joined
  <2>3. Pending = go \o tx
    BY DEF Pending, go
  <2> QED BY <2>2, <2>3
<1>7. Len(go) >= Len(got) + 1 /\ Len(go) \in Nat /\ Len(tx) \in Nat /\ Len(out) \in Nat
  BY <1>1, <1>2, <1>5 DEF go
<1>8. Pending # <<>>
  BY <1>2, <1>6, <1>7
<1>9. CASE got = <<>>
  <2>1. Pending[1] = out[1]
    <3>1. Len(got) = 0 /\ 1 \in 1..Len(go)
      BY <1>2, <1>7, <1>9
    <3>2. go[1] = out[1]
      BY <1>5, <3>1 DEF go
    <3> QED BY <1>6, <3>1, <3>2
  <2>2. ASSUME ~outOfStep' PROVE Pending' = Pending
    <3>1. got' = one
      BY <1>1, <1>9, <2>2
    <3>2. got \o out = out
      BY <1>1, <1>9
    <3> HIDE DEF one, rest
    <3>3. Pending' = (one \o rest) \o tx
      BY <1>1, <3>1 DEF Pending
    <3> QED BY <1>4, <3>2, <3>3 DEF Pending
  <2> QED BY <1>6, <1>8, <1>9, <2>1, <2>2
<1>10. CASE got # <<>>
  <2>1. Len(got) = 1
    BY <1>2, <1>10
  <2>2. Pending[1] = got[1] /\ Pending[2] = out[1]
    <3>1. 1 \in 1..Len(go) /\ 2 \in 1..Len(go) /\ go[1] = got[1] /\ go[2] = out[1]
      <4>1. 1 \in 1..Len(go) /\ 2 \in 1..Len(go) /\ Len(got) + 1 = 2
        BY <1>7, <2>1
      <4>2. go[1] = got[1] /\ go[Len(got) + 1] = out[1]
        BY <1>5, <1>10 DEF go
      <4> QED BY <4>1, <4>2
    <3> QED BY <1>6, <3>1
  <2> HIDE DEF one, rest
  <2> DEFINE g == got \o one
  <2>3. g \in Seq(TxPiece) /\ Len(g) = Len(got) + Len(one)
    <3>1. got \in Seq(TxPiece) /\ one \in Seq(TxPiece)
      BY <1>2, <1>3
    <3> QED BY <3>1, Joined
  <2>4. g \o rest = got \o out
    <3>1. one \in Seq(TxPiece) /\ rest \in Seq(TxPiece) /\ got \in Seq(TxPiece)
      BY <1>2, <1>3
    <3>2. got \o (one \o rest) = (got \o one) \o rest
      BY <3>1, Associated
    <3> QED BY <1>4, <3>2
  <2>5. rest \o tx \in Seq(TxPiece)
    BY <1>2, <1>3, Joined
  <2> HIDE DEF g
  <2>6. Pending = g \o (rest \o tx)
    <3>1. g \o (rest \o tx) = (g \o rest) \o tx
      <4>1. g \in Seq(TxPiece) /\ rest \in Seq(TxPiece) /\ tx \in Seq(TxPiece)
        BY <1>2, <1>3, <2>3
      <4> QED BY <4>1, Associated
    <3> QED BY <2>4, <3>1 DEF Pending
  <2>7. SubSeq(Pending, Len(g) + 1, Len(Pending)) = rest \o tx
    BY <2>3, <2>5, <2>6, After
  <2>8. Len(g) + 1 = 3
    BY <1>3, <2>1, <2>3
  <2>9. Pending' = rest \o tx
    <3>1. got' = <<>>
      BY <1>1, <1>10
    <3>2. <<>> \o rest = rest
      BY <1>3
    <3>3. Pending' = (<<>> \o rest) \o tx
      BY <1>1, <3>1 DEF Pending
    <3> QED BY <3>2, <3>3
  <2> QED BY <1>6, <1>8, <1>10, <2>2, <2>7, <2>8, <2>9
<1> QED BY <1>9, <1>10

LEMMA WholeNext ==
  ASSUME TypeOK, PlainInv, WholeInv, BlockingSendsWhole, [Next]_vars
  PROVE  WholeInv' /\ BlockingSendsWhole'
<1>0. /\ got \in Seq(TxPiece) /\ out \in Seq(TxPiece) /\ tx \in Seq(TxPiece)
      /\ got \o out \in Seq(TxPiece) /\ Pending \in Seq(TxPiece)
  <2>1. got \in Seq(TxPiece) /\ out \in Seq(TxPiece) /\ tx \in Seq(TxPiece)
    BY TypeParts DEF ServerType, OutType, TxType
  <2>2. got \o out \in Seq(TxPiece)
    BY <2>1, Joined
  <2>3. (got \o out) \o tx \in Seq(TxPiece)
    BY <2>1, <2>2, Joined
  <2> QED BY <2>1, <2>2, <2>3 DEF Pending
<1>1. CASE ServerTakes
  <2>1. UNCHANGED <<noblock, link>> /\ link = "up"
    BY <1>1 DEF ServerTakes, clientVars, netVars
  <2>2. CASE noblock
    BY <2>1, <2>2 DEF WholeInv, BlockingSendsWhole
  <2>3. CASE ~noblock
    <3>1. WholePackets(Pending) /\ Pending # <<>>
      BY <1>1, <2>1, <2>3, ServerTakesPending DEF WholeInv
    <3>2. /\ Len(Pending) >= 2 /\ Pending[1].at = 1 /\ Pending[2] = [kind |-> Pending[1].kind, at |-> 2]
          /\ WholePackets(SubSeq(Pending, 3, Len(Pending)))
      BY <1>0, <3>1, WholeRest
    <3>3. CASE got = <<>>
      <4>1. ~outOfStep'
        <5>1. outOfStep' <=> out[1].at # 1
          BY <1>1, <3>3, ServerTakesStep
        <5>2. Pending[1] = out[1]
          BY <1>1, <3>3, ServerTakesPending
        <5> QED BY <3>2, <5>1, <5>2
      <4>2. Pending' = Pending
        BY <1>1, <3>3, <4>1, ServerTakesPending
      <4> QED BY <2>1, <3>1, <4>1, <4>2 DEF WholeInv, BlockingSendsWhole
    <3>4. CASE got # <<>>
      <4>1. ~outOfStep'
        <5>1. LET has == Append(got, Head(out)) IN
              has = <<got[1], out[1]>> /\ (outOfStep' <=> has # TxPieces(got[1].kind))
          BY <1>1, <3>4, ServerTakesStep
        <5>2. Pending[1] = got[1] /\ Pending[2] = out[1]
          BY <1>1, <3>2, <3>4, ServerTakesPending
        <5>3. got[1] = [kind |-> got[1].kind, at |-> 1]
          <6>1. got[1] \in TxPiece
            BY <1>0, <3>4
          <6> QED BY <3>2, <5>2, <6>1 DEF TxPiece
        <5>4. <<got[1], out[1]>> = TxPieces(got[1].kind)
          BY <3>2, <5>2, <5>3 DEF TxPieces
        <5> QED BY <5>1, <5>4
      <4>2. WholePackets(Pending')
        BY <1>1, <3>2, <3>4, ServerTakesPending
      <4> QED BY <2>1, <4>1, <4>2 DEF WholeInv, BlockingSendsWhole
    <3> QED BY <3>3, <3>4
  <2> QED BY <2>2, <2>3
<1>2. CASE SendSome
  <2>1. PICK k \in 0..Len(tx) : out' = out \o SubSeq(tx, 1, k) /\ tx' = SubSeq(tx, k + 1, Len(tx))
    BY <1>2, SendSomeStep
  <2>2. UNCHANGED <<noblock, link, got, outOfStep>>
    BY <1>2 DEF SendSome, clientVars, netVars, serverVars
  <2> DEFINE a == SubSeq(tx, 1, k)
             b == SubSeq(tx, k + 1, Len(tx))
             go == got \o out
  <2>3. (go \o a) \o b = go \o tx
    BY <1>0, <2>1, Moved
  <2>4. a \in Seq(TxPiece)
    BY <1>0, <2>1, Taken
  <2> HIDE DEF a, b
  <2>5. got \o (out \o a) = (got \o out) \o a
    BY <1>0, <2>4, Associated, SMTT(30)
  <2>6. Pending' = Pending
    BY <2>1, <2>2, <2>3, <2>5 DEF Pending, a, b
  <2> QED BY <2>2, <2>6 DEF WholeInv, BlockingSendsWhole
<1>3. ASSUME UNCHANGED <<noblock, link, got, out, outOfStep>>,
             \/ tx' = tx
             \/ tx = <<>> /\ \E k \in Sent : tx' = TxPieces(k)
             \/ ~noblock => link # "up"
      PROVE  WholeInv' /\ BlockingSendsWhole'
  <2>1. CASE tx' = tx
    BY <1>3, <2>1 DEF WholeInv, BlockingSendsWhole, Pending
  <2>2. CASE ~noblock => link # "up"
    BY <1>3, <2>2 DEF WholeInv, BlockingSendsWhole
  <2>3. CASE tx = <<>> /\ \E k \in Sent : tx' = TxPieces(k)
    <3>1. PICK k \in Sent : tx' = TxPieces(k)
      BY <2>3
    <3>2. Pending = got \o out
      <4> DEFINE go == got \o out
      <4>1. go \in Seq(TxPiece)
        BY <1>0
      <4> HIDE DEF go
      <4>2. go \o <<>> = go
        BY <4>1
      <4> QED BY <2>3, <4>2 DEF Pending, go
    <3>3. WholePackets(Pending) => WholePackets(Pending \o TxPieces(k))
      BY <1>0, <3>1, WholeAnd
    <3>4. Pending' = Pending \o TxPieces(k)
      BY <1>3, <3>1, <3>2 DEF Pending
    <3> QED BY <1>3, <3>3, <3>4 DEF WholeInv, BlockingSendsWhole
  <2> QED BY <1>3, <2>1, <2>2, <2>3
<1>4. CASE Body
  <2>1. UNCHANGED <<link, got, out, outOfStep>> /\ at = "recv"
    BY <1>4 DEF Body, netVars, serverVars
  <2>2. tx = <<>>
    BY <2>1 DEF PlainInv, PlaceInv, Sending
  <2>3. PICK contents \in Seq(Piece) :
          BodyIncomplete(contents) \/ BodyComplete(contents) \/ BodyBad(contents)
    BY <1>4, BodyAhead
  <2>4. UNCHANGED noblock
    BY <2>3 DEF BodyIncomplete, BodyComplete, BodyBad, NothingReceived, clientVars
  <2>5. tx' = tx \/ \E k \in Sent : tx' = TxPieces(k)
    <3>1. CASE BodyComplete(contents)
      <4>1. \A kind : Decoded(kind).tx \in {TxPieces("request"), TxPieces("response"), <<>>}
        BY DEF Decoded
      <4>2. "request" \in Sent /\ "response" \in Sent
        BY DEF Sent
      <4> QED BY <2>2, <3>1, <4>1, <4>2 DEF BodyComplete
    <3> QED BY <2>3, <3>1 DEF BodyIncomplete, BodyBad
  <2> QED BY <1>3, <2>1, <2>2, <2>4, <2>5
<1>5. CASE Send \/ Disconnect \/ KeepAlive
  <2>1. UNCHANGED <<noblock, link, got, out, outOfStep>>
    BY <1>5 DEF Send, Disconnect, KeepAlive, Call, netVars, serverVars
  <2>2. tx = <<>>
    BY <1>5 DEF Send, Disconnect, KeepAlive, Call, PlainInv, PlaceInv, Sending
  <2>3. \E k \in Sent : tx' = TxPieces(k)
    <3>1. {"data", "alive", "terminate"} \subseteq Sent
      BY DEF Sent
    <3> QED BY <1>5, <3>1 DEF Send, Disconnect, KeepAlive
  <2> QED BY <1>3, <2>1, <2>2, <2>3
<1>6. CASE SendSwallowed \/ SendFails
  <2>1. UNCHANGED <<noblock, link, got, out, outOfStep>> /\ (~noblock => link # "up")
    BY <1>6 DEF SendSwallowed, SendFails, clientVars, netVars, serverVars
  <2> QED BY <1>3, <2>1
<1>7. CASE Lose \/ Close
  <2>1. noblock' = noblock /\ link' \notin {"up", "connecting"} /\ (outOfStep' => outOfStep)
    BY <1>7 DEF Lose, Close, Returns, serverVars, clientVars
  <2> QED BY <2>1 DEF WholeInv, BlockingSendsWhole
<1>8. CASE Established
  <2>1. noblock' = noblock /\ outOfStep' = outOfStep /\ link = "connecting" /\ link' # "connecting"
    BY <1>8 DEF Established, serverVars, clientVars
  <2> QED BY <2>1 DEF WholeInv, BlockingSendsWhole
<1>9. CASE TcpConnected
  <2>1. /\ noblock' = noblock /\ got' = <<>> /\ out' = <<>> /\ tx' = <<>> /\ ~outOfStep'
        /\ ~noblock => link' = "up"
    BY <1>9 DEF TcpConnected, PlainInv, PlaceInv, Sending, serverVars
  <2>2. Pending' = <<>>
    <3>1. <<>> \o <<>> = <<>>
      OBVIOUS
    <3> QED BY <2>1, <3>1 DEF Pending
  <2>3. WholePackets(Pending')
    <3>1. Len(<<>>) = 0
      BY EmptySeqs
    <3> QED BY <2>2, <3>1 DEF WholePackets
  <2> QED BY <2>1, <2>3 DEF WholeInv, BlockingSendsWhole
<1>10. CASE Connect
  <2>1. link' = "none" /\ ~outOfStep'
    BY <1>10 DEF Connect, Call, PlainInv, PlaceInv, netVars, serverVars
  <2> QED BY <2>1 DEF WholeInv, BlockingSendsWhole
<1>11. CASE Header
  <2>1. UNCHANGED <<noblock, link, got, out, outOfStep, tx>>
    <3>1. UNCHANGED clientVars \/ NothingReceived
      BY <1>11, HeaderAhead
    <3> QED BY <1>11, <3>1 DEF Header, NothingReceived, clientVars, netVars, serverVars
  <2> QED BY <1>3, <2>1
<1>12. CASE \/ TcpRefused \/ HeaderError \/ BodyError \/ SendDone \/ NoKeepAlive \/ ConnectEnds \/ TimesOut
            \/ ConnectAgain \/ Receive \/ Free \/ ServerSends \/ UNCHANGED vars
  <2>1. UNCHANGED <<noblock, link, got, out, outOfStep, tx>>
    BY <1>12 DEF TcpRefused, HeaderError, BodyError, SendDone, NoKeepAlive, ConnectEnds, TimesOut,
       ConnectAgain, Receive, Free, Call, NothingReceived, ServerSends, vars, clientVars, netVars, serverVars
  <2> QED BY <1>3, <2>1
<1> QED BY <1>1, <1>2, <1>4, <1>5, <1>6, <1>7, <1>8, <1>9, <1>10, <1>11, <1>12
    DEF Next, Client, Application, Server

-----------------------------------------------------------------------------
(* The first connection                                                    *)
LEMMA ReadingFirst ==
  ASSUME NEW s \in Seq(Piece), NEW c, NEW n, InOrder(s, c, n), s # <<>>, s[1].at = 1,
         NEW k \in 1..HeaderSize, k \in 1..Len(s), s[k].at >= HeaderSize
  PROVE  k = HeaderSize
<1>1. s[1] \in Piece /\ k \in Nat /\ HeaderSize \in Nat
  BY Sizes
<1>2. Size(s[1].nr) \in Nat /\ HeaderSize < Size(s[1].nr)
  BY <1>1, PieceParts
<1>3. k <= Size(s[1].nr)
  BY <1>1, <1>2
<1>4. s[k] = [connection |-> c, nr |-> s[1].nr, at |-> k]
  BY <1>3, FirstPacket
<1>5. s[k].at = k
  BY <1>4
<1> QED BY <1>1, <1>5

LEMMA OfFirstGrows ==
  ASSUME NEW x, TypeOK, completed' = Append(completed, x), split' = split, x[1] # 1,
         x \in {Garbled} \cup ((1..MaxConnects) \X Numbers)
  PROVE  /\ OfFirst' = OfFirst /\ \A i \in OfFirst : completed'[i] = completed[i]
<1> DEFINE T == {Garbled} \cup ((1..MaxConnects) \X Numbers)
<1>1. completed \in Seq(T)
  BY DEF TypeOK
<1>2. x \in T
  OBVIOUS
<1> HIDE DEF T
<1>3. /\ completed' \in Seq(T) /\ Len(completed') = Len(completed) + 1 /\ completed'[Len(completed) + 1] = x
      /\ \A i \in 1..Len(completed) : completed'[i] = completed[i]
  BY <1>1, <1>2, Appended
<1>4. DOMAIN completed = 1..Len(completed) /\ DOMAIN completed' = 1..Len(completed) + 1 /\ Len(completed) \in Nat
  BY <1>1, <1>3
<1>5. \A i \in 1..Len(completed) + 1 : i \in 1..Len(completed) \/ i = Len(completed) + 1
  BY <1>4
<1>6. \A i \in 1..Len(completed) : i \in 1..Len(completed) + 1
  BY <1>4
<1>7. OfFirst' = OfFirst
  BY <1>3, <1>4, <1>5, <1>6 DEF OfFirst
<1> QED BY <1>3, <1>4, <1>7 DEF OfFirst

LEMMA FirstNext ==
  ASSUME TypeOK, PlainInv, StreamInv, FirstInv, [Next]_vars
  PROVE  /\ FirstInv'
         /\ (~split /\ Body /\ connection = 1) =>
              \/ completed' = completed
              \/ /\ completed' = Append(completed, <<1, Len(completed) + 1>>)
                 /\ Len(completed) + 1 \in 1..sent[1] /\ OfFirst = 1..Len(completed)
         /\ (~split /\ (~Body \/ connection # 1)) =>
              OfFirst' = OfFirst /\ \A i \in OfFirst : completed'[i] = completed[i]
<1>0. /\ split' = split /\ connection \in 0..MaxConnects /\ connection \in Nat
      /\ Ahead \in Seq(Piece) /\ Len(Ahead) \in Nat
      /\ sent \in [1..MaxConnects -> 0..3 + MaxData] /\ 1 \in 1..MaxConnects /\ sent[1] \in Nat
      /\ Len(completed) \in Nat
      /\ completed \in Seq({Garbled} \cup ((1..MaxConnects) \X Numbers))
  <2>1. split' = split
    BY StreamSteps DEF TcpConnected, Header, Body, Close, ServerSends, Lose, Established, streamVars, netVars
  <2>2. /\ connection \in 0..MaxConnects /\ sent \in [1..MaxConnects -> 0..3 + MaxData]
        /\ completed \in Seq({Garbled} \cup ((1..MaxConnects) \X Numbers))
    BY DEF TypeOK
  <2>3. 1 \in 1..MaxConnects /\ connection \in Nat /\ sent[1] \in 0..3 + MaxData
    BY <2>2, Sizes
  <2>4. sent[1] \in Nat
    BY <2>3, Sizes
  <2>5. Ahead \in Seq(Piece)
    BY AheadType
  <2> QED BY <2>1, <2>2, <2>3, <2>4, <2>5
<1>1. CASE split
  BY <1>0, <1>1 DEF FirstInv
<1>2. CASE ~split
  <2>1. /\ connection <= 1 => ~resumed /\ \A i \in 1..Len(completed) : completed[i] = <<1, i>>
        /\ connection = 0 => completed = <<>> /\ rxState # "hdr"
        /\ connection = 1 /\ link # "none" =>
             /\ Ahead # <<>> => Ahead[1].at = 1 /\ Ahead[1].nr = Len(completed) + 1
             /\ link \in {"up", "connecting"} /\ Ahead = <<>> => sent[1] = Len(completed)
    BY <1>2 DEF FirstInv
  <2>2. PICK m \in 0..sent[1] : OfFirst = 1..m /\ \A i \in 1..m : completed[i] = <<1, i>>
    BY <1>2 DEF FirstInv
  <2> DEFINE Good == /\ FirstInv' /\ OfFirst' = OfFirst /\ \A i \in OfFirst : completed'[i] = completed[i]
  <2>3. sent'[1] \in Nat /\ sent'[1] >= sent[1]
    <3>1. CASE ServerSends
      <4>1. /\ connection \in 1..MaxConnects /\ sent' = [sent EXCEPT ![connection] = sent[connection] + 1]
            /\ sent[connection] \in Nat
        BY <3>1, SendsAhead
      <4> QED BY <1>0, <4>1
    <3>2. ServerSends \/ UNCHANGED sent
      BY DEF Next, Client, Application, Server, Header, HeaderError, Body, BodyError, TcpRefused, TcpConnected,
         SendSome, SendSwallowed, SendFails, SendDone, KeepAlive, NoKeepAlive, ConnectEnds, TimesOut,
         ConnectAgain, Close, Connect, Receive, Send, Disconnect, Free, Call, ServerTakes, Established, Lose,
         vars, serverVars
    <3>3. CASE UNCHANGED sent
      BY <1>0, <3>3
    <3> QED BY <3>1, <3>2, <3>3
  <2>4. ASSUME OfFirst' = OfFirst, \A i \in OfFirst : completed'[i] = completed[i]
        PROVE  \E x \in 0..sent'[1] : OfFirst' = 1..x /\ \A i \in 1..x : completed'[i] = <<1, i>>
    <3>1. m \in 0..sent'[1]
      BY <1>0, <2>3
    <3>2. OfFirst' = 1..m /\ \A i \in 1..m : completed'[i] = <<1, i>>
      BY <2>2, <2>4
    <3> QED BY <3>1, <3>2
  <2>5. ASSUME completed' = completed PROVE OfFirst' = OfFirst /\ \A i \in OfFirst : completed'[i] = completed[i]
    BY <1>0, <2>5 DEF OfFirst
  <2>6. ASSUME completed' = completed, connection' = connection, resumed' = resumed, connection # 0,
               connection = 1 /\ link' # "none" =>
                 /\ Ahead' # <<>> => Ahead'[1].at = 1 /\ Ahead'[1].nr = Len(completed) + 1
                 /\ link' \in {"up", "connecting"} /\ Ahead' = <<>> => sent'[1] = Len(completed)
        PROVE  Good
    BY <2>1, <2>4, <2>5, <2>6 DEF FirstInv
  <2>7. CASE TcpConnected
    <3>1. /\ completed' = completed /\ connection' = connection + 1 /\ stream' = <<>> /\ rxState' = rxState
          /\ resumed' = (resumed \/ rxState = "hdr") /\ sent' = sent
      BY <2>7 DEF TcpConnected, PlainInv, PlaceInv, packetVars, serverVars
    <3>2. CASE connection = 0
      <4>1. ~resumed' /\ Ahead' = <<>> /\ Len(completed) = 0 /\ connection' = 1
        <5>1. completed = <<>> /\ rxState # "hdr" /\ ~resumed
          BY <2>1, <3>2
        <5>2. Ahead' = <<>>
          BY <3>1, <5>1 DEF Ahead
        <5>3. Len(completed) = 0
          BY <5>1, EmptySeqs
        <5>4. connection' = 1
          BY <3>1, <3>2
        <5> QED BY <3>1, <5>1, <5>2, <5>3, <5>4
      <4>2. sent[1] = 0
        BY <1>0, <3>2 DEF PlainInv, PlaceInv
      <4> QED BY <1>0, <2>1, <2>4, <2>5, <2>7, <3>1, <3>2, <4>1, <4>2 DEF FirstInv, TcpConnected, Body
    <3>3. CASE connection # 0
      <4>1. connection' > 1 /\ connection' # 0 /\ connection' # 1 /\ ~(connection' <= 1)
        BY <1>0, <3>1, <3>3
      <4> QED BY <2>4, <2>5, <2>7, <3>1, <4>1 DEF FirstInv, TcpConnected, Body
    <3> QED BY <3>2, <3>3
  <2>8. CASE Header
    <3>1. UNCHANGED <<completed, connection, resumed, link, sent>> /\ rxState # "hdr"
      BY <2>8 DEF Header, HeaderDue, netVars, serverVars
    <3>2. /\ Ahead = stream
          /\ \/ Ahead' = Ahead
             \/ \E k \in 1..HeaderSize :
                    /\ k \in 1..Len(Ahead) /\ k \in 0..Len(Ahead)
                    /\ Ahead' = SubSeq(Ahead, k + 1, Len(Ahead))
                    /\ split \/ k = HeaderSize \/ Ahead[k].at >= HeaderSize \/ (Lost /\ k = Len(Ahead))
                    /\ ~(k = HeaderSize /\ Ahead[1].at = 1)
      BY <2>8, HeaderAhead
    <3>3. connection # 0
      <4>1. link # "none"
        BY <2>8 DEF Header, HeaderDue, PlainInv, PlaceInv
      <4> QED BY <1>0, <4>1 DEF PlainInv, PlaceInv
    <3>4. CASE Ahead' = Ahead
      BY <2>1, <2>6, <3>1, <3>3, <3>4, <2>8 DEF Header, HeaderDue, Body
    <3>5. CASE \E k \in 1..HeaderSize :
                    /\ k \in 1..Len(Ahead) /\ k \in 0..Len(Ahead)
                    /\ Ahead' = SubSeq(Ahead, k + 1, Len(Ahead))
                    /\ split \/ k = HeaderSize \/ Ahead[k].at >= HeaderSize \/ (Lost /\ k = Len(Ahead))
                    /\ ~(k = HeaderSize /\ Ahead[1].at = 1)
      <4>1. PICK k \in 1..HeaderSize :
                    /\ k \in 1..Len(Ahead) /\ k \in 0..Len(Ahead)
                    /\ Ahead' = SubSeq(Ahead, k + 1, Len(Ahead))
                    /\ split \/ k = HeaderSize \/ Ahead[k].at >= HeaderSize \/ (Lost /\ k = Len(Ahead))
                    /\ ~(k = HeaderSize /\ Ahead[1].at = 1)
        BY <3>5
      <4>2. ASSUME connection = 1, link # "none"
            PROVE  Ahead' = <<>> /\ link \notin {"up", "connecting"}
        <5>1. Ahead # <<>> /\ Ahead[1].at = 1
          BY <2>1, <4>1, <4>2
        <5>2. InOrder(Ahead, connection, sent[connection])
          BY <1>0, <2>1, <4>2 DEF StreamInv, AheadOk
        <5>3. Ahead[k].at >= HeaderSize => k = HeaderSize
          BY <1>0, <4>1, <5>1, <5>2, ReadingFirst
        <5>4. Lost /\ k = Len(Ahead)
          BY <1>2, <4>1, <5>1, <5>3
        <5>5. Len(Ahead') = Len(Ahead) - k
          BY <1>0, <4>1, Rest
        <5>6. Ahead' \in Seq(Piece)
          BY <1>0, <4>1, Rest
        <5>7. Ahead' = <<>>
          BY <1>0, <5>4, <5>5, <5>6
        <5> QED BY <5>4, <5>7 DEF Lost
      <4> QED BY <2>6, <3>1, <3>3, <4>2, <2>8 DEF Header, HeaderDue, Body
    <3> QED BY <3>2, <3>4, <3>5
  <2>9. CASE Body /\ connection = 1
    <3>0. ~resumed /\ connection <= 1 /\ connection # 0
      BY <2>1, <2>9
    <3>1. /\ link # "none" /\ UNCHANGED <<sent, connection, link, resumed>> /\ Ahead # <<>>
          /\ \/ UNCHANGED completed /\ Ahead' = Ahead
             \/ \E nr \in Numbers :
                 /\ nr <= sent[connection] /\ Ahead[1].nr = nr
                 /\ Ahead' # <<>> => Ahead'[1].at = 1 /\ Ahead'[1].nr = nr + 1
                 /\ link = "up" /\ Ahead' = <<>> => sent[connection] = nr
                 /\ completed' = Append(completed, <<connection, nr>>)
      BY <2>9, <3>0, BodyDecodes
    <3>2. CASE UNCHANGED completed /\ Ahead' = Ahead
      BY <2>1, <2>6, <2>9, <3>1, <3>2
    <3>3. CASE \E nr \in Numbers :
                 /\ nr <= sent[connection] /\ Ahead[1].nr = nr
                 /\ Ahead' # <<>> => Ahead'[1].at = 1 /\ Ahead'[1].nr = nr + 1
                 /\ link = "up" /\ Ahead' = <<>> => sent[connection] = nr
                 /\ completed' = Append(completed, <<connection, nr>>)
      <4>1. PICK nr \in Numbers :
                 /\ nr <= sent[connection] /\ Ahead[1].nr = nr
                 /\ Ahead' # <<>> => Ahead'[1].at = 1 /\ Ahead'[1].nr = nr + 1
                 /\ link = "up" /\ Ahead' = <<>> => sent[connection] = nr
                 /\ completed' = Append(completed, <<connection, nr>>)
        BY <3>3
      <4>2. nr = Len(completed) + 1 /\ nr \in 1..sent[1] /\ nr \in Nat
        BY <1>0, <2>1, <2>9, <3>1, <4>1
      <4>3. OfFirst = 1..Len(completed)
        <5>1. \A i \in 1..Len(completed) : completed[i][1] = 1
          BY <2>1, <3>0
        <5>2. DOMAIN completed = 1..Len(completed)
          BY <1>0
        <5> QED BY <1>2, <5>1, <5>2 DEF OfFirst
      <4> DEFINE T == {Garbled} \cup ((1..MaxConnects) \X Numbers)
                 x == <<1, nr>>
      <4>4. x \in T /\ completed \in Seq(T) /\ completed' = Append(completed, x)
        BY <1>0, <2>9, <4>1
      <4> HIDE DEF T
      <4>5. /\ completed' \in Seq(T) /\ Len(completed') = Len(completed) + 1
            /\ completed'[Len(completed) + 1] = x
            /\ \A i \in 1..Len(completed) : completed'[i] = completed[i]
        <5> HIDE DEF x
        <5> QED BY <4>4, Appended
      <4>6. ASSUME NEW i \in 1..nr PROVE completed'[i] = <<1, i>>
        <5>1. CASE i \in 1..Len(completed)
          BY <2>1, <3>0, <4>5, <5>1
        <5>2. CASE i = Len(completed) + 1
          BY <4>2, <4>5, <5>2
        <5> QED BY <1>0, <4>2, <5>1, <5>2
      <4>7. OfFirst' = 1..nr
        <5>1. \A i \in 1..nr : completed'[i][1] = 1
          BY <4>6
        <5>2. DOMAIN completed' = 1..nr
          BY <4>2, <4>5
        <5> QED BY <1>0, <1>2, <5>1, <5>2 DEF OfFirst
      <4>8. FirstInv'
        <5>1. Len(completed') = nr /\ sent' = sent /\ connection' = 1 /\ ~resumed'
          BY <2>9, <3>0, <3>1, <4>2, <4>5
        <5>2. nr \in 0..sent'[1]
          BY <4>2, <5>1
        <5>3. link' \in {"up", "connecting"} /\ Ahead' = <<>> => sent'[1] = nr
          <6>1. link # "connecting"
            <7>1. link = "connecting" => Ahead = <<>>
              BY <3>0, <3>1 DEF StreamInv, AheadOk
            <7> QED BY <3>1, <7>1
          <6> QED BY <2>9, <3>1, <4>1, <5>1, <6>1
        <5>4. Ahead' # <<>> => Ahead'[1].at = 1 /\ Ahead'[1].nr = Len(completed') + 1
          BY <4>1, <5>1
        <5>5. \A i \in 1..Len(completed') : completed'[i] = <<1, i>>
          BY <4>6, <5>1
        <5>6. \E z \in 0..sent'[1] : OfFirst' = 1..z /\ \A i \in 1..z : completed'[i] = <<1, i>>
          BY <4>6, <4>7, <5>2
        <5> QED BY <5>1, <5>3, <5>4, <5>5, <5>6 DEF FirstInv
      <4>9. completed' = Append(completed, <<1, Len(completed) + 1>>)
        BY <4>2, <4>4
      <4> QED BY <2>9, <4>2, <4>3, <4>8, <4>9
    <3> QED BY <3>1, <3>2, <3>3
  <2>10. CASE Body /\ connection # 1
    <3>1. PICK contents \in Seq(Piece) :
            /\ contents # <<>> 
            /\ contents[Len(contents)].connection = connection
            /\ BodyIncomplete(contents) \/ BodyComplete(contents) \/ BodyBad(contents)
      BY <2>10, BodyAhead
    <3>2. UNCHANGED <<connection, resumed>> /\ connection > 1 /\ ~(connection <= 1) /\ connection # 0
      <4>1. link # "none"
        BY <2>10 DEF Body, PlainInv, PlaceInv
      <4> QED BY <1>0, <2>10, <4>1 DEF Body, PlainInv, PlaceInv, netVars
    <3>3. CASE BodyComplete(contents)
      <4> DEFINE x == Identity(contents)
      <4>1. completed' = Append(completed, x) /\ x \in {Garbled} \cup ((1..MaxConnects) \X Numbers)
        BY <3>1, <3>3, IdentityType DEF BodyComplete
      <4>2. x[1] # 1
        <5>1. CASE Whole(contents)
          <6>1. contents[1] \in Piece /\ Len(contents) \in 1..Len(contents) /\ Len(contents) \in Nat
            BY <3>1
          <6>2. contents[1].connection \in 1..MaxConnects /\ contents[1].nr \in Numbers
            BY <6>1, PieceParts
          <6> DEFINE p == Pieces(contents[1].connection, contents[1].nr)
          <6>3. /\ Len(p) = Size(contents[1].nr)
                /\ \A i \in 1..Size(contents[1].nr) : p[i] = [connection |-> contents[1].connection,
                                                              nr |-> contents[1].nr, at |-> i]
            BY <6>2, PiecesAre
          <6>4. contents = p
            BY <5>1 DEF Whole
          <6> HIDE DEF p
          <6>5. Len(contents) \in 1..Size(contents[1].nr)
            BY <6>1, <6>3, <6>4
          <6>6. contents[Len(contents)].connection = contents[1].connection
            <7>1. p[Len(contents)] = [connection |-> contents[1].connection,
                                      nr |-> contents[1].nr, at |-> Len(contents)]
              BY <6>3, <6>5
            <7>2. p[Len(contents)].connection = contents[1].connection
              BY <7>1
            <7> QED BY <6>4, <7>2
          <6>7. x = <<connection, contents[1].nr>>
            BY <3>1, <5>1, <6>6 DEF Identity
          <6> QED BY <2>10, <6>7
        <5>2. CASE ~Whole(contents)
          BY <5>2 DEF Identity, Garbled
        <5> QED BY <5>1, <5>2
      <4> HIDE DEF x
      <4>3. OfFirst' = OfFirst /\ \A i \in OfFirst : completed'[i] = completed[i]
        BY <1>0, <4>1, <4>2, OfFirstGrows
      <4> QED BY <2>4, <2>10, <3>2, <4>3 DEF FirstInv
    <3>4. CASE BodyIncomplete(contents) \/ BodyBad(contents)
      <4>1. completed' = completed
        BY <3>4 DEF BodyIncomplete, BodyBad
      <4> QED BY <2>6, <2>10, <3>2, <4>1
    <3> QED BY <3>1, <3>3, <3>4
  <2>11. CASE ServerSends
    <3> DEFINE n == sent[connection]
               p == Pieces(connection, n + 1)
    <3>1. /\ connection \in 1..MaxConnects /\ n \in Nat /\ n + 1 \in Numbers /\ Ahead' = Ahead \o p
          /\ sent'[connection] = n + 1 /\ link = "up" /\ UNCHANGED <<packetVars, clientVars, netVars>>
      BY <2>11, SendsAhead
    <3>2. UNCHANGED <<completed, connection, resumed, link>> /\ connection # 0
      BY <3>1 DEF packetVars, netVars
    <3>3. p \in Seq(Piece) /\ Len(p) = Size(n + 1) /\ 1 \in 1..Size(n + 1) /\ p[1].at = 1 /\ p[1].nr = n + 1
      <4>1. /\ p \in Seq(Piece) /\ Len(p) = Size(n + 1)
            /\ \A i \in 1..Size(n + 1) : p[i] = [connection |-> connection, nr |-> n + 1, at |-> i]
        BY <3>1, PiecesAre
      <4>2. 1 \in 1..Size(n + 1)
        BY <3>1, Sizes, SMTT(30)
      <4> HIDE DEF p, n
      <4> QED BY <4>1, <4>2
    <3> HIDE DEF p
    <3>4. /\ Len(Ahead') = Len(Ahead) + Len(p)
          /\ \A i \in 1..Len(Ahead) + Len(p) : Ahead'[i] = IF i <= Len(Ahead) THEN Ahead[i] ELSE p[i - Len(Ahead)]
      <4>1. p \in Seq(Piece)
        BY <3>3
      <4> QED BY <1>0, <3>1, <4>1, Joined
    <3>5. Ahead' # <<>> /\ Ahead'[1] = IF Ahead = <<>> THEN p[1] ELSE Ahead[1]
      <4>0. Len(p) \in Nat /\ Len(p) >= 1 /\ 1 \in 1..Len(Ahead) + Len(p)
        BY <1>0, <3>3
      <4>1. CASE Ahead = <<>>
        <5>1. Len(Ahead) = 0
          BY <4>1
        <5>2. Ahead'[1] = p[1 - Len(Ahead)] /\ 1 - Len(Ahead) = 1
          BY <3>4, <4>0, <5>1
        <5>3. Ahead' # <<>>
          <6>1. Len(Ahead') >= 1
            BY <1>0, <3>4, <4>0
          <6>2. Len(<<>>) = 0
            BY EmptySeqs
          <6> QED BY <6>1, <6>2
        <5> QED BY <4>1, <5>2, <5>3
      <4>2. CASE Ahead # <<>>
        <5>1. Len(Ahead) >= 1
          BY <1>0, <4>2
        <5>2. Ahead'[1] = Ahead[1]
          BY <1>0, <3>4, <4>0, <5>1
        <5>3. Ahead' # <<>>
          <6>1. Len(Ahead') >= 1
            BY <1>0, <3>4, <4>0
          <6>2. Len(<<>>) = 0
            BY EmptySeqs
          <6> QED BY <6>1, <6>2
        <5> QED BY <4>2, <5>2, <5>3
      <4> QED BY <4>1, <4>2
    <3>6. ASSUME connection = 1 PROVE Ahead'[1].at = 1 /\ Ahead'[1].nr = Len(completed) + 1
      <4>1. CASE Ahead = <<>>
        BY <2>1, <3>1, <3>3, <3>5, <3>6, <4>1
      <4>2. CASE Ahead # <<>>
        BY <2>1, <3>1, <3>5, <3>6, <4>2
      <4> QED BY <4>1, <4>2
    <3>7. ~Body
      <4>1. Ahead' # Ahead
        <5>1. Len(Ahead') # Len(Ahead)
          BY <1>0, <3>3, <3>4, Sizes
        <5> QED BY <5>1
      <4> SUFFICES ASSUME Body PROVE FALSE
        OBVIOUS
      <4>2. at = "recv" /\ rxState = "hdr" /\ rxState' = rxState
        BY <3>1 DEF Body, packetVars
      <4>3. Ahead' = Ahead
        BY <4>2, BodyAhead
      <4> QED BY <4>1, <4>3
    <3> QED BY <2>6, <3>2, <3>5, <3>6, <3>7
  <2>12. CASE Lose
    <3>1. /\ \E k \in 0..Len(Ahead) : Ahead' = SubSeq(Ahead, 1, k)
          /\ link = "up" /\ link' \in {"closed", "reset"}
          /\ UNCHANGED <<packetVars, connection, resumed>>
      BY <2>12, LoseAhead
    <3>2. completed' = completed /\ connection # 0
      BY <1>0, <3>1 DEF packetVars, PlainInv, PlaceInv
    <3>3. PICK k \in 0..Len(Ahead) : Ahead' = SubSeq(Ahead, 1, k)
      BY <3>1
    <3>4. Len(Ahead') = k /\ (\A i \in 1..k : Ahead'[i] = Ahead[i]) /\ Ahead' \in Seq(Piece)
      BY <1>0, <3>3, Taken
    <3>5. Ahead' # <<>> => Ahead # <<>> /\ Ahead'[1] = Ahead[1]
      <4> SUFFICES ASSUME Ahead' # <<>> PROVE Ahead # <<>> /\ Ahead'[1] = Ahead[1]
        OBVIOUS
      <4>1. 1 \in 1..k /\ k # 0
        BY <3>4
      <4>2. Len(Ahead) # 0
        BY <1>0, <4>1
      <4> QED BY <1>0, <3>4, <4>1, <4>2
    <3>6. ~Body
      BY <3>1 DEF Body, netVars
    <3> QED BY <2>1, <2>6, <3>1, <3>2, <3>5, <3>6
  <2>13. CASE Established
    <3>1. /\ link = "connecting" /\ connection # 0 /\ sent' = sent /\ ~Body
          /\ UNCHANGED <<completed, rxState, buffer, stream, connection, resumed>>
      BY <1>0, <2>13 DEF Established, packetVars, serverVars, PlainInv, PlaceInv, Body, netVars
    <3>2. Ahead' = Ahead
      BY <3>1 DEF Ahead
    <3> QED BY <2>1, <2>6, <3>1, <3>2
  <2>14. CASE Close
    <3>1. completed' = completed /\ connection' = connection /\ resumed' = resumed /\ link' = "none" /\ ~Body
      BY <2>14 DEF Close, packetVars, Body
    <3>2. connection # 0
      <4>1. link # "none"
        BY <2>14 DEF Close, PlainInv, PlaceInv
      <4> QED BY <1>0, <4>1 DEF PlainInv, PlaceInv
    <3> QED BY <2>6, <3>1, <3>2
  <2>15. CASE UNCHANGED streamVars
    <3>1. /\ UNCHANGED <<completed, rxState, connection, resumed, link, sent>> /\ Ahead' = Ahead
      BY <2>15 DEF streamVars, packetVars, netVars, Ahead
    <3>2. OfFirst' = OfFirst /\ \A i \in OfFirst : completed'[i] = completed[i]
      BY <2>5, <3>1
    <3>3. FirstInv'
      BY <2>1, <2>4, <3>1, <3>2 DEF FirstInv
    <3> QED BY <3>1, <3>2, <3>3
  <2> QED BY <2>7, <2>8, <2>9, <2>10, <2>11, <2>12, <2>13, <2>14, <2>15, StreamSteps
<1> QED BY <1>1, <1>2

-----------------------------------------------------------------------------
(* The inductive invariant                                                 *)
Invariant ==
  /\ TypeOK /\ PlainInv /\ CompletedInv /\ StreamInv /\ CompletedAsSent
  /\ AnswerInv /\ ActiveIsConfirmed /\ WholeInv /\ BlockingSendsWhole /\ FirstInv

LEMMA CompletedAsSentNext ==
  ASSUME TypeOK, PlainInv, CompletedInv, StreamInv, CompletedAsSent, [Next]_vars
  PROVE  CompletedAsSent'
<1> SUFFICES ASSUME ~resumed'
             PROVE  \A j \in DOMAIN completed' : /\ completed'[j] # Garbled
                                                 /\ \A i \in 1..j - 1 : Before(completed'[i], completed'[j])
  BY DEF CompletedAsSent
<1>0. ~resumed
  BY Quiet
<1>1. \A j \in DOMAIN completed : /\ completed[j] # Garbled
                                  /\ \A i \in 1..j - 1 : Before(completed[i], completed[j])
  BY <1>0 DEF CompletedAsSent
<1>2. CASE completed' = completed
  BY <1>1, <1>2
<1>3. CASE Body
  <2>1. /\ link # "none" /\ 1 \in 1..Len(Ahead)
        /\ \/ completed' = completed
           \/ \E nr \in Numbers : Ahead[1].nr = nr /\ completed' = Append(completed, <<connection, nr>>)
    BY <1>0, <1>3, BodyDecodes
  <2>2. CASE \E nr \in Numbers : Ahead[1].nr = nr /\ completed' = Append(completed, <<connection, nr>>)
    <3>1. PICK nr \in Numbers : Ahead[1].nr = nr /\ completed' = Append(completed, <<connection, nr>>)
      BY <2>2
    <3> DEFINE T == {Garbled} \cup ((1..MaxConnects) \X Numbers)
               x == <<connection, nr>>
    <3>2. connection \in 1..MaxConnects /\ connection \in Nat
      <4>1. connection \in 0..MaxConnects /\ connection >= 1
        BY <2>1 DEF TypeOK, PlainInv, PlaceInv
      <4> QED BY <4>1, Sizes
    <3>3. completed \in Seq(T) /\ x \in T
      BY <3>2 DEF TypeOK
    <3>4. x # Garbled
      BY <3>2 DEF Garbled
    <3>5. ASSUME NEW i \in 1..Len(completed) PROVE Before(completed[i], x)
      <4>1. completed[i][1] <= connection
        BY <1>0 DEF CompletedInv
      <4>2. completed[i][1] = connection => completed[i][2] < nr
        BY <1>0, <2>1, <3>1 DEF StreamInv, DoneOk
      <4>3. completed[i][1] \in Nat
        <5>1. completed[i] \in T
          BY <3>3
        <5> QED BY <5>1, Sizes DEF Garbled
      <4> QED BY <3>2, <4>1, <4>2, <4>3 DEF Before
    <3> HIDE DEF T, x
    <3>6. /\ completed' \in Seq(T) /\ Len(completed') = Len(completed) + 1
          /\ completed'[Len(completed) + 1] = x
          /\ \A i \in 1..Len(completed) : completed'[i] = completed[i]
      <4>1. completed' = Append(completed, x)
        BY <3>1 DEF x
      <4> QED BY <3>3, <4>1, Appended
    <3>7. DOMAIN completed = 1..Len(completed) /\ DOMAIN completed' = 1..Len(completed) + 1 /\ Len(completed) \in Nat
      BY <3>3, <3>6
    <3>8. ASSUME NEW j \in 1..Len(completed) + 1
          PROVE  completed'[j] # Garbled /\ \A i \in 1..j - 1 : Before(completed'[i], completed'[j])
      <4>1. CASE j <= Len(completed)
        <5>1. j \in 1..Len(completed) /\ \A i \in 1..j - 1 : i \in 1..Len(completed)
          BY <3>7, <4>1
        <5> QED BY <1>1, <3>6, <3>7, <5>1
      <4>2. CASE j = Len(completed) + 1
        <5>1. \A i \in 1..j - 1 : i \in 1..Len(completed)
          BY <3>7, <4>2
        <5> QED BY <3>4, <3>5, <3>6, <4>2, <5>1
      <4> QED BY <3>7, <4>1, <4>2
    <3> QED BY <3>7, <3>8
  <2> QED BY <1>2, <2>1, <2>2
<1>4. CASE TcpConnected \/ Header \/ Close \/ ServerSends \/ Lose \/ Established \/ UNCHANGED streamVars
  <2>1. completed' = completed
    BY <1>4 DEF TcpConnected, Header, Close, ServerSends, Lose, Established, streamVars, packetVars
  <2> QED BY <1>2, <2>1
<1> QED BY <1>3, <1>4, StreamSteps

LEMMA InitInvariant == Init => Invariant
<1> SUFFICES ASSUME Init PROVE Invariant
  OBVIOUS
<1>1. /\ Len(<<>>) = 0 /\ DOMAIN completed = {} /\ completed = <<>> /\ Len(completed) = 0
      /\ out = <<>> /\ tx = <<>> /\ got = <<>> /\ link = "none" /\ ~resumed /\ connection = 0 /\ rxState # "hdr"
      /\ server = "none" /\ ~outOfStep /\ state # "active"
  <2>1. Len(<<>>) = 0 /\ DOMAIN <<>> = {}
    OBVIOUS
  <2> QED BY <2>1 DEF Init
<1>2. TypeOK /\ PlainInv
  BY InitType
<1>3. CompletedInv /\ StreamInv /\ CompletedAsSent /\ ActiveIsConfirmed /\ WholeInv /\ BlockingSendsWhole
  BY <1>1 DEF CompletedInv, StreamInv, CompletedAsSent, ActiveIsConfirmed, WholeInv, BlockingSendsWhole
<1>4. AnswerInv
  BY <1>1 DEF AnswerInv, AnswersOk, IsIn, Responded
<1>5. FirstInv
  <2>1. OfFirst = {}
    BY <1>1 DEF OfFirst
  <2>2. 0 \in 0..sent[1] /\ 1..0 = {}
    <3>1. sent[1] = 0
      BY Sizes DEF Init
    <3> QED BY <3>1
  <2>3. \E m \in 0..sent[1] : OfFirst = 1..m /\ \A i \in 1..m : completed[i] = <<1, i>>
    BY <2>1, <2>2
  <2> QED BY <1>1, <2>3 DEF FirstInv
<1> QED BY <1>2, <1>3, <1>4, <1>5 DEF Invariant

LEMMA NextInvariant == Invariant /\ [Next]_vars => Invariant'
<1> SUFFICES ASSUME Invariant, [Next]_vars PROVE Invariant'
  OBVIOUS
<1>1. /\ TypeOK /\ PlainInv /\ CompletedInv /\ StreamInv /\ CompletedAsSent
      /\ AnswerInv /\ ActiveIsConfirmed /\ WholeInv /\ BlockingSendsWhole /\ FirstInv
  BY DEF Invariant
<1>2. TypeOK' /\ PlainInv'
  BY <1>1, PlainNext
<1>3. CompletedInv' /\ StreamInv'
  BY <1>1, CompletedNext, StreamNext
<1>4. CompletedAsSent'
  BY <1>1, CompletedAsSentNext
<1>5. AnswerInv' /\ ActiveIsConfirmed'
  BY <1>1, AnswerNext, ActiveNext
<1>6. WholeInv' /\ BlockingSendsWhole'
  BY <1>1, WholeNext
<1>7. FirstInv'
  BY <1>1, FirstNext
<1> QED BY <1>2, <1>3, <1>4, <1>5, <1>6, <1>7 DEF Invariant

LEMMA AlwaysInvariant == Spec => []Invariant
BY InitInvariant, NextInvariant, PTL DEF Spec

(* Whatever the network does to the stream and to the connection, and      *)
(* however often the application connects again: a packet completed by     *)
(* packet_receive is one the server sent, none twice and none out of order *)
(* (unless half a packet was left over), the client is active only after   *)
(* the server had its answers, and a client that blocks sends whole packets*)
THEOREM ClientHolds == Spec => []ClientInv
<1>1. Invariant => ClientInv
  BY DEF Invariant, ClientInv
<1> QED BY <1>1, AlwaysInvariant, PTL

-----------------------------------------------------------------------------
(* The first connection implements a channel                               *)
chSent == [nr \in 1..(IF split THEN 0 ELSE sent[1]) |-> <<1, nr>>]
chTaken == [i \in OfFirst |-> completed[i]]

LEMMA ChannelInit == Init => AsChannel!Init
<1> SUFFICES ASSUME Init PROVE chSent = <<>> /\ chTaken = <<>>
  BY DEF AsChannel!Init, chSent, chTaken
<1>1. (IF split THEN 0 ELSE sent[1]) = 0
  BY Sizes DEF Init
<1>2. OfFirst = {}
  BY DEF Init, OfFirst
<1> QED BY <1>1, <1>2 DEF chSent, chTaken


LEMMA ChannelNext == Invariant /\ [Next]_vars => [AsChannel!Next]_(AsChannel!vars)
<1> SUFFICES ASSUME Invariant, [Next]_vars
             PROVE  AsChannel!Next \/ UNCHANGED <<chSent, chTaken>>
  BY DEF AsChannel!vars, chSent, chTaken
<1>0. /\ TypeOK /\ PlainInv /\ StreamInv /\ FirstInv
  BY DEF Invariant
<1>1. /\ split' = split /\ 1 \in 1..MaxConnects /\ sent[1] \in Nat
      /\ sent \in [1..MaxConnects -> 0..3 + MaxData] /\ Len(completed) \in Nat
  <2>1. split' = split
    BY StreamSteps DEF TcpConnected, Header, Body, Close, ServerSends, Lose, Established, streamVars, netVars
  <2>2. sent \in [1..MaxConnects -> 0..3 + MaxData] /\ Len(completed) \in Nat
    BY <1>0 DEF TypeOK
  <2>3. 1 \in 1..MaxConnects
    BY Sizes
  <2>4. sent[1] \in Nat
    BY <2>2, <2>3, Sizes
  <2> QED BY <2>1, <2>2, <2>3, <2>4
<1>2. CASE split
  <2>1. OfFirst = {} /\ OfFirst' = {}
    BY <1>1, <1>2 DEF OfFirst
  <2> QED BY <1>1, <1>2, <2>1 DEF chSent, chTaken
<1>3. ASSUME ~split, OfFirst' = OfFirst, \A i \in OfFirst : completed'[i] = completed[i]
      PROVE  chTaken' = chTaken
  BY <1>3 DEF chTaken
<1>4. ASSUME sent'[1] = sent[1] PROVE chSent' = chSent
  BY <1>1, <1>4 DEF chSent
<1>5. CASE ~split /\ Body /\ connection = 1
  <2>1. sent' = sent
    BY <1>5 DEF Body, serverVars
  <2>2. chSent' = chSent
    BY <1>4, <2>1
  <2>3. \/ completed' = completed
        \/ /\ completed' = Append(completed, <<1, Len(completed) + 1>>)
           /\ Len(completed) + 1 \in 1..sent[1] /\ OfFirst = 1..Len(completed)
    BY <1>0, <1>5, FirstNext
  <2>4. CASE completed' = completed
    BY <1>1, <2>2, <2>4 DEF chTaken, OfFirst
  <2>5. CASE /\ completed' = Append(completed, <<1, Len(completed) + 1>>)
             /\ Len(completed) + 1 \in 1..sent[1] /\ OfFirst = 1..Len(completed)
    <3> DEFINE m == Len(completed)
               T == {Garbled} \cup ((1..MaxConnects) \X Numbers)
               x == <<1, m + 1>>
    <3>1. chSent \in Seq({1} \X Nat) /\ Len(chSent) = sent[1] /\ chSent[m + 1] = x
      BY <1>1, <1>5, <2>5 DEF chSent
    <3>2. completed \in Seq(T) /\ m \in Nat
      BY <1>0 DEF TypeOK
    <3>3. DOMAIN completed = 1..m
      BY <3>2
    <3>4. chTaken = completed
      <4>1. chTaken = [i \in 1..m |-> completed[i]]
        BY <2>5 DEF chTaken
      <4> QED BY <3>2, <4>1
    <3>5. x \in T /\ m + 1 \in Nat
      <4>1. m + 1 \in Numbers
        <5>1. sent[1] <= 3 + MaxData
          BY <1>1, Sizes
        <5> QED BY <1>1, <2>5, <5>1, Sizes
      <4> QED BY <1>1, <3>2, <4>1
    <3> HIDE DEF T
    <3>6. /\ completed' \in Seq(T) /\ Len(completed') = m + 1 /\ completed'[m + 1] = x
          /\ \A i \in 1..m : completed'[i] = completed[i]
      <4> HIDE DEF x
      <4>1. completed' = Append(completed, x)
        BY <2>5 DEF x
      <4> QED BY <3>2, <3>5, <4>1, Appended
    <3>7. OfFirst' = 1..m + 1
      <4>1. \A i \in 1..m : completed[i][1] = 1
        BY <2>5, <3>3 DEF OfFirst
      <4>2. \A i \in 1..m + 1 : completed'[i][1] = 1
        <5>1. x[1] = 1
          OBVIOUS
        <5>2. \A i \in 1..m + 1 : i \in 1..m \/ i = m + 1
          BY <3>2
        <5> QED BY <3>6, <4>1, <5>1, <5>2
      <4>3. DOMAIN completed' = 1..m + 1
        BY <3>2, <3>6
      <4> QED BY <1>1, <1>5, <4>2, <4>3 DEF OfFirst
    <3>8. chTaken' = completed'
      <4>1. chTaken' = [i \in 1..m + 1 |-> completed'[i]]
        BY <3>7 DEF chTaken
      <4> QED BY <3>6, <4>1
    <3>9. chTaken' = Append(chTaken, chSent[Len(chTaken) + 1]) /\ Len(chTaken) < Len(chSent)
      <4>1. Len(chTaken) = m /\ chTaken' = Append(chTaken, x)
        BY <2>5, <3>4, <3>8
      <4>2. m < sent[1]
        BY <1>1, <2>5, <3>2
      <4> QED BY <3>1, <4>1, <4>2
    <3>10. AsChannel!Take
      BY <2>2, <3>9 DEF AsChannel!Take, chSent, chTaken
    <3> QED BY <3>10 DEF AsChannel!Next
  <2> QED BY <2>3, <2>4, <2>5
<1>6. CASE ~split /\ (~Body \/ connection # 1)
  <2>1. OfFirst' = OfFirst /\ \A i \in OfFirst : completed'[i] = completed[i]
    BY <1>0, <1>6, FirstNext
  <2>2. chTaken' = chTaken
    BY <1>3, <1>6, <2>1
  <2>3. CASE ServerSends /\ connection = 1
    <3> DEFINE n == sent[1]
               x == <<1, n + 1>>
    <3>1. sent'[1] = n + 1 /\ n + 1 \in Numbers
      BY <1>0, <2>3, SendsAhead
    <3>2. n \in Nat
      BY <1>1
    <3>3. chSent = [nr \in 1..n |-> <<1, nr>>] /\ chSent' = [nr \in 1..n + 1 |-> <<1, nr>>]
      BY <1>1, <1>6, <3>1 DEF chSent
    <3> HIDE DEF n
    <3>4. /\ chSent \in Seq({1} \X Nat) /\ Len(chSent) = n /\ \A i \in 1..n : chSent[i] = <<1, i>>
      BY <3>2, <3>3
    <3>5. /\ chSent' \in Seq({1} \X Nat) /\ Len(chSent') = n + 1 /\ \A i \in 1..n + 1 : chSent'[i] = <<1, i>>
      BY <3>2, <3>3
    <3> DEFINE a == Append(chSent, x)
    <3>6. a \in Seq({1} \X Nat) /\ Len(a) = n + 1 /\ a[n + 1] = x /\ \A i \in 1..n : a[i] = chSent[i]
      <4>1. x \in {1} \X Nat
        BY <3>2
      <4> HIDE DEF x
      <4>2. /\ a \in Seq({1} \X Nat) /\ Len(a) = Len(chSent) + 1 /\ a[Len(chSent) + 1] = x
            /\ \A i \in 1..Len(chSent) : a[i] = chSent[i]
        BY <3>4, <4>1, Appended
      <4> QED BY <3>4, <4>2
    <3> HIDE DEF a
    <3>7. \A i \in 1..n + 1 : a[i] = chSent'[i]
      <4>1. \A i \in 1..n + 1 : i \in 1..n \/ i = n + 1
        BY <3>2
      <4> QED BY <3>4, <3>5, <3>6, <4>1
    <3>8. a = chSent'
      BY <3>5, <3>6, <3>7, SameSeq
    <3>9. x \in {1} \X Numbers
      BY <3>1
    <3>10. PICK y \in {1} \X Numbers : y = x
      BY <3>9
    <3>11. AsChannel!Put(y)
      BY <2>2, <3>8, <3>10 DEF AsChannel!Put, chSent, chTaken, a
    <3> QED BY <3>11 DEF AsChannel!Next
  <2>4. CASE sent'[1] = sent[1]
    BY <1>4, <2>2, <2>4
  <2>5. sent'[1] = sent[1] \/ (ServerSends /\ connection = 1)
    <3>1. CASE ServerSends /\ connection # 1
      <4>1. connection \in 1..MaxConnects /\ sent' = [sent EXCEPT ![connection] = sent[connection] + 1]
        BY <1>0, <3>1, SendsAhead
      <4> QED BY <1>1, <3>1, <4>1
    <3>2. ServerSends \/ UNCHANGED sent
      BY DEF Next, Client, Application, Server, Header, HeaderError, Body, BodyError, TcpRefused, TcpConnected,
         SendSome, SendSwallowed, SendFails, SendDone, KeepAlive, NoKeepAlive, ConnectEnds, TimesOut,
         ConnectAgain, Close, Connect, Receive, Send, Disconnect, Free, Call, ServerTakes, Established, Lose,
         vars, serverVars
    <3> QED BY <3>1, <3>2
  <2> QED BY <2>3, <2>4, <2>5
<1> QED BY <1>2, <1>5, <1>6

(* While headers arrive whole, packet_receive takes the packets of the     *)
(* first connection as from a channel: all of them, in order, until the    *)
(* connection is lost.                                                     *)
THEOREM FirstIsChannel == Spec => FirstConnectionIsChannel
BY ChannelInit, ChannelNext, AlwaysInvariant, PTL DEF Spec, FirstConnectionIsChannel, AsChannel!Spec
=============================================================================
