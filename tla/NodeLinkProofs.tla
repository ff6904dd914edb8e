--------------------------- MODULE NodeLinkProofs ---------------------------
(***************************************************************************)
(* Proofs about NodeLink, for any number of losses, refusals, captures,    *)
(* packets in flight and turns of ackWait.  How many captures a node loses *)
(* is an account kept on the call stack: every call there may still lose   *)
(* so many (Load), every attempt to connect pays for three (Attempts), and *)
(* a wait that finds its acknowledgement in front of the captures (Quiet)  *)
(* loses one less.                                                         *)
(***************************************************************************)
EXTENDS NodeLink, FiniteSetTheorems, SequenceTheorems, TLAPS

FrameType == [at : Labels, ptr : Clients \cup {Null}, turn : 0..MaxTries,
              command : Commands \cup {"none"}]

-----------------------------------------------------------------------------
(* The call stack: which call may be inside which.                         *)
ConnectLabels == {"connect", "handshake"} \cup MissionLabels
ReceiveLabels == {"receive", "receiveAfter", "receiveLoop"}
SendLabels == {"send", "sendAfter"}
AckLabels == {"ackWait", "ackTurn", "ackRead"}
RunLabels == {"run", "decode", "crashed"}

Calls(caller, callee) ==
  \/ caller \in {"run", "receiveAfter", "sendAfter"} /\ callee \in ConnectLabels
  \/ caller \in {"decode", "ackRead"} /\ callee \in ReceiveLabels
  \/ caller \in {"mission2", "mission4"} /\ callee \in SendLabels
  \/ caller \in {"mission3", "mission5"} /\ callee \in AckLabels

(* Labels of frames that are inside the same calls *)
SameCall(a, b) == \/ a \in ConnectLabels /\ b \in ConnectLabels
                  \/ a \in ReceiveLabels /\ b \in ReceiveLabels
                  \/ a \in SendLabels /\ b \in SendLabels
                  \/ a \in AckLabels /\ b \in AckLabels
                  \/ a \in RunLabels /\ b \in RunLabels

(* What a frame holds besides its label *)
FrameOk(f) == /\ f \in FrameType
              /\ f.at \in SendLabels => f.command \in Commands
              /\ f.at = "ackRead" => f.turn < MaxTries

StackInv ==
  /\ stack \in Seq(FrameType) /\ Len(stack) >= 1
  /\ stack[1].at \in RunLabels
  /\ \A i \in 1..Len(stack) - 1 : Calls(stack[i].at, stack[i + 1].at)
  /\ \A i \in 1..Len(stack) : FrameOk(stack[i])

(* What a step does to the stack: a return, a step within a call, a call  *)
Pop == /\ Len(stack) > 1 /\ Len(stack') = Len(stack) - 1
       /\ \A i \in 1..Len(stack) - 1 : stack'[i] = stack[i]
       /\ Top' = stack[Len(stack) - 1] /\ Calls(Top'.at, Top.at)
Swap(f) == /\ Len(stack') = Len(stack) /\ Top' = f
           /\ \A i \in 1..Len(stack) - 1 : stack'[i] = stack[i]
           /\ stack'[Len(stack)] = f
Push(f, g) == /\ Len(stack') = Len(stack) + 1 /\ Top' = g
              /\ \A i \in 1..Len(stack) - 1 : stack'[i] = stack[i]
              /\ stack'[Len(stack)] = f /\ stack'[Len(stack) + 1] = g

(* The client and its connection: each client but the last was lost or     *)
(* refused; outside of connect a live connection is that of an active      *)
(* client, and connect is called only when there is none.                  *)
ClientInv ==
  /\ client \in {Null, created} /\ freed = {}
  /\ breaks \in 0..MaxBreaks /\ refusals \in 0..MaxRefusals
  /\ created = breaks + refusals + (IF link = "up" THEN 1 ELSE 0)
  /\ state \in {"noTCP", "established", "sentRequest", "sentResponse", "active"}
  /\ link \in {"none", "up", "closed", "reset"}
  /\ At("connect") => client = Null /\ link # "up"
  /\ At("handshake") => client = created /\ created > 0
  /\ ~At("handshake") /\ link = "up" => Connected

-----------------------------------------------------------------------------
LEMMA Bounds ==
  /\ MaxBreaks \in Nat /\ MaxRefusals \in Nat /\ MaxData \in Nat /\ MaxData > 0
  /\ MaxWire \in Nat /\ MaxTries \in Nat /\ MaxTries > 0
  /\ Clients = 1..(1 + MaxBreaks + MaxRefusals) /\ Null = 0 /\ Null \notin Clients
BY NodeLinkAssumption DEF Clients, Null

LEMMA ClientRange ==
  ASSUME ClientInv
  PROVE  created \in Clients \cup {0} /\ created \in Nat /\ client \in Clients \cup {Null}
<1>1. created \in 0..(1 + MaxBreaks + MaxRefusals)
  BY Bounds DEF ClientInv
<1> QED BY <1>1, Bounds DEF ClientInv

(* Frame(at) is a frame. *)
LEMMA FrameIsFrame ==
  ASSUME NEW l \in Labels
  PROVE  /\ Frame(l) \in FrameType
         /\ Frame(l).at = l /\ Frame(l).ptr = Null /\ Frame(l).turn = 0 /\ Frame(l).command = "none"
         /\ l \notin SendLabels => FrameOk(Frame(l))
BY Bounds DEF Frame, FrameType, FrameOk

(* A sequence without its last element *)
LEMMA WithoutLast ==
  ASSUME NEW S, NEW s \in Seq(S), NEW n \in Nat, Len(s) = n + 1
  PROVE  /\ SubSeq(s, 1, n) \in Seq(S) /\ Len(SubSeq(s, 1, n)) = n
         /\ \A i \in 1..n : SubSeq(s, 1, n)[i] = s[i]
<1>1. Len(SubSeq(s, 1, n)) = n
  OBVIOUS
<1>2. SubSeq(s, 1, n) \in Seq(S)
  OBVIOUS
<1>3. \A i \in 1..n : SubSeq(s, 1, n)[i] = s[i]
  OBVIOUS
<1> QED BY <1>1, <1>2, <1>3

LEMMA Joined ==
  ASSUME NEW S, NEW s \in Seq(S), NEW e \in Seq(S)
  PROVE  /\ s \o e \in Seq(S) /\ Len(s \o e) = Len(s) + Len(e)
         /\ \A i \in 1..Len(s) : (s \o e)[i] = s[i]
         /\ \A j \in 1..Len(e) : (s \o e)[Len(s) + j] = e[j]
<1>1. s \o e \in Seq(S)
  OBVIOUS
<1>2. Len(s \o e) = Len(s) + Len(e)
  OBVIOUS
<1>3. \A i \in 1..Len(s) : (s \o e)[i] = s[i]
  OBVIOUS
<1>4. \A j \in 1..Len(e) : (s \o e)[Len(s) + j] = e[j]
  OBVIOUS
<1> QED BY <1>1, <1>2, <1>3, <1>4

(* What becomes of a sequence when its last element is replaced by some.   *)
LEMMA LastReplaced ==
  ASSUME NEW S, NEW s \in Seq(S), NEW n \in Nat, Len(s) = n + 1, NEW e \in Seq(S),
         NEW t, t = SubSeq(s, 1, Len(s) - 1) \o e
  PROVE  /\ t \in Seq(S) /\ Len(t) = n + Len(e)
         /\ \A i \in 1..n : t[i] = s[i]
         /\ \A j \in 1..Len(e) : t[n + j] = e[j]
<1> DEFINE below == SubSeq(s, 1, n)
<1>1. below \in Seq(S) /\ Len(below) = n /\ \A i \in 1..n : below[i] = s[i]
  BY WithoutLast
<1>2. t = below \o e
  OBVIOUS
<1> HIDE DEF below
<1>3. /\ below \o e \in Seq(S) /\ Len(below \o e) = Len(below) + Len(e)
      /\ \A i \in 1..Len(below) : (below \o e)[i] = below[i]
      /\ \A j \in 1..Len(e) : (below \o e)[Len(below) + j] = e[j]
  <2>1. below \in Seq(S)
    BY <1>1
  <2> QED BY <2>1, Joined
<1> QED BY <1>1, <1>2, <1>3

(* What becomes of the stack in a step that replaces its top.              *)
LEMMA StackReplaced ==
  ASSUME StackInv, NEW frames \in Seq(FrameType), Becomes(frames)
  PROVE  /\ stack' \in Seq(FrameType) /\ Len(stack') = Len(stack) - 1 + Len(frames)
         /\ Len(stack) \in Nat /\ Len(stack) >= 1
         /\ \A i \in 1..Len(stack) - 1 : stack'[i] = stack[i]
         /\ \A j \in 1..Len(frames) : stack'[Len(stack) - 1 + j] = frames[j]
<1> DEFINE n == Len(stack) - 1
<1>1. n \in Nat /\ Len(stack) = n + 1 /\ stack \in Seq(FrameType)
  BY DEF StackInv
<1>2. stack' = SubSeq(stack, 1, Len(stack) - 1) \o frames
  BY DEF Becomes
<1> HIDE DEF n
<1>3. /\ stack' \in Seq(FrameType) /\ Len(stack') = n + Len(frames)
      /\ \A i \in 1..n : stack'[i] = stack[i]
      /\ \A j \in 1..Len(frames) : stack'[n + j] = frames[j]
  BY <1>1, <1>2, LastReplaced
<1> QED BY <1>1, <1>3 DEF n

LEMMA StackLength ==
  ASSUME StackInv
  PROVE  /\ Len(stack) \in Nat /\ Len(stack) \in 1..Len(stack) /\ stack # <<>>
         /\ FrameOk(Top) /\ Top \in FrameType
         /\ \A l : At(l) <=> Top.at = l
<1>1. Len(stack) \in Nat /\ Len(stack) \in 1..Len(stack) /\ stack # <<>>
  BY DEF StackInv
<1> QED BY <1>1 DEF StackInv, FrameOk, At, Top

(* The bottom of the stack is run, and what is above was called.           *)
LEMMA Callers ==
  ASSUME StackInv
  PROVE  /\ Len(stack) = 1 => Top.at \in RunLabels
         /\ Len(stack) > 1 => Calls(stack[Len(stack) - 1].at, Top.at) /\ Top.at \notin RunLabels
<1>1. CASE Len(stack) = 1
  BY <1>1 DEF StackInv, Top
<1>2. CASE Len(stack) > 1
  <2>1. Len(stack) - 1 \in 1..Len(stack) - 1 /\ (Len(stack) - 1) + 1 = Len(stack)
    BY <1>2, StackLength
  <2>2. Calls(stack[Len(stack) - 1].at, Top.at)
    BY <2>1 DEF StackInv, Top
  <2>3. Top.at \notin RunLabels
    BY <2>2 DEF Calls, RunLabels, ConnectLabels, MissionLabels, ReceiveLabels, SendLabels, AckLabels
  <2> QED BY <1>2, <2>2, <2>3
<1> QED BY <1>1, <1>2, StackLength

LEMMA Returned ==
  ASSUME StackInv, Return, Top.at \notin RunLabels
  PROVE  StackInv' /\ Pop
<1>1. <<>> \in Seq(FrameType) /\ Len(<<>>) = 0
  BY EmptySeq
<1>2. stack \in Seq(FrameType) /\ Len(stack) >= 1 /\ Len(stack) \in Nat
  BY StackLength DEF StackInv
<1>4. /\ stack' \in Seq(FrameType) /\ Len(stack') = Len(stack) - 1
      /\ \A i \in 1..Len(stack) - 1 : stack'[i] = stack[i]
  <2> DEFINE e == <<>>
  <2>1. e \in Seq(FrameType) /\ Len(e) = 0 /\ Becomes(e)
    BY <1>1 DEF Return
  <2> HIDE DEF e
  <2>2. /\ stack' \in Seq(FrameType) /\ Len(stack') = Len(stack) - 1 + Len(e)
        /\ \A i \in 1..Len(stack) - 1 : stack'[i] = stack[i]
    BY <2>1, StackReplaced
  <2> QED BY <1>2, <2>1, <2>2
<1>50. Len(stack) # 1
  BY Callers
<1>5. Len(stack) > 1 /\ Calls(stack[Len(stack) - 1].at, Top.at)
  BY <1>2, <1>50, Callers
<1>6. Top' = stack[Len(stack) - 1]
  BY <1>2, <1>4, <1>5 DEF Top
<1>7. \A i \in 1..Len(stack') - 1 : Calls(stack'[i].at, stack'[i + 1].at)
  BY <1>2, <1>4 DEF StackInv
<1>8. stack'[1].at \in RunLabels /\ \A i \in 1..Len(stack') : FrameOk(stack'[i])
  BY <1>2, <1>4, <1>5 DEF StackInv
<1>9. StackInv'
  BY <1>2, <1>4, <1>5, <1>7, <1>8 DEF StackInv, FrameOk
<1> QED BY <1>4, <1>5, <1>6, <1>9 DEF Pop

LEMMA Replaced1 ==
  ASSUME StackInv, NEW f, FrameOk(f), Becomes(<<f>>), SameCall(Top.at, f.at)
  PROVE  StackInv' /\ Swap(f)
<1>1. <<f>> \in Seq(FrameType) /\ Len(<<f>>) = 1 /\ <<f>>[1] = f
  BY DEF FrameOk
<1>2. stack \in Seq(FrameType) /\ Len(stack) >= 1 /\ Len(stack) \in Nat
  BY StackLength DEF StackInv
<1>4. /\ stack' \in Seq(FrameType) /\ Len(stack') = Len(stack)
      /\ \A i \in 1..Len(stack) - 1 : stack'[i] = stack[i]
      /\ stack'[Len(stack)] = f
  <2> DEFINE e == <<f>>
  <2>1. e \in Seq(FrameType) /\ Len(e) = 1 /\ e[1] = f /\ Becomes(e)
    BY <1>1
  <2> HIDE DEF e
  <2>2. /\ stack' \in Seq(FrameType) /\ Len(stack') = Len(stack) - 1 + Len(e)
        /\ \A i \in 1..Len(stack) - 1 : stack'[i] = stack[i]
        /\ \A j \in 1..Len(e) : stack'[Len(stack) - 1 + j] = e[j]
    BY <2>1, StackReplaced
  <2> QED BY <1>2, <2>1, <2>2
<1>5. Len(stack) = 1 => f.at \in RunLabels
  BY Callers DEF SameCall, RunLabels, ConnectLabels, MissionLabels, ReceiveLabels, SendLabels, AckLabels
<1>6. Len(stack) > 1 => Calls(stack[Len(stack) - 1].at, f.at)
  BY Callers DEF Calls, SameCall, RunLabels, ConnectLabels, MissionLabels, ReceiveLabels, SendLabels, AckLabels
<1>7. \A i \in 1..Len(stack') - 1 : Calls(stack'[i].at, stack'[i + 1].at)
  <2> SUFFICES ASSUME NEW i \in 1..Len(stack) - 1
               PROVE  Calls(stack'[i].at, stack'[i + 1].at)
    BY <1>4
  <2>1. CASE i < Len(stack) - 1
    BY <1>2, <1>4, <2>1 DEF StackInv
  <2>2. CASE i = Len(stack) - 1
    BY <1>2, <1>4, <1>6, <2>2, SMTT(30)
  <2> QED BY <2>1, <2>2, <1>2
<1>8. stack'[1].at \in RunLabels
  BY <1>2, <1>4, <1>5 DEF StackInv
<1>9. \A i \in 1..Len(stack') : FrameOk(stack'[i])
  <2> SUFFICES ASSUME NEW i \in 1..Len(stack) PROVE FrameOk(stack'[i])
    BY <1>4
  <2>1. i \in 1..Len(stack) - 1 \/ i = Len(stack)
    BY <1>2
  <2> QED BY <1>2, <1>4, <2>1 DEF StackInv
<1>10. StackInv'
  BY <1>2, <1>4, <1>7, <1>8, <1>9 DEF StackInv, FrameOk
<1>11. Top' = f
  BY <1>4 DEF Top
<1> QED BY <1>4, <1>10, <1>11 DEF Swap

LEMMA NatAboveOne ==
  \A n \in Nat : n >= 1 /\ n # 1 => 1 \in 1..n - 1 /\ n > 1
OBVIOUS

LEMMA Replaced2 ==
  ASSUME StackInv, NEW f, FrameOk(f), NEW g, FrameOk(g), Becomes(<<f, g>>),
         SameCall(Top.at, f.at), Calls(f.at, g.at)
  PROVE  StackInv' /\ Push(f, g)
<1>1. /\ <<f, g>> \in Seq(FrameType) /\ Len(<<f, g>>) = 2
      /\ <<f, g>>[1] = f /\ <<f, g>>[2] = g
  BY DEF FrameOk
<1>2. stack \in Seq(FrameType) /\ Len(stack) >= 1 /\ Len(stack) \in Nat
  BY StackLength DEF StackInv
<1>4. /\ stack' \in Seq(FrameType) /\ Len(stack') = Len(stack) + 1
      /\ \A i \in 1..Len(stack) - 1 : stack'[i] = stack[i]
      /\ stack'[Len(stack)] = f /\ stack'[Len(stack) + 1] = g
  <2> DEFINE e == <<f, g>>
  <2>1. e \in Seq(FrameType) /\ Len(e) = 2 /\ e[1] = f /\ e[2] = g /\ Becomes(e)
    BY <1>1
  <2> HIDE DEF e
  <2>2. /\ stack' \in Seq(FrameType) /\ Len(stack') = Len(stack) - 1 + Len(e)
        /\ \A i \in 1..Len(stack) - 1 : stack'[i] = stack[i]
        /\ \A j \in 1..Len(e) : stack'[Len(stack) - 1 + j] = e[j]
    BY <2>1, StackReplaced
  <2> QED BY <1>2, <2>1, <2>2
<1>5. stack'[Len(stack)] = f /\ stack'[Len(stack) + 1] = g
  BY <1>4
<1>6. Len(stack) = 1 => f.at \in RunLabels
  BY Callers DEF SameCall, RunLabels, ConnectLabels, MissionLabels, ReceiveLabels, SendLabels, AckLabels
<1>7. Len(stack) > 1 => Calls(stack[Len(stack) - 1].at, f.at)
  BY Callers DEF Calls, SameCall, RunLabels, ConnectLabels, MissionLabels, ReceiveLabels, SendLabels, AckLabels
<1>8. \A i \in 1..Len(stack') - 1 : Calls(stack'[i].at, stack'[i + 1].at)
  <2> SUFFICES ASSUME NEW i \in 1..Len(stack)
               PROVE  Calls(stack'[i].at, stack'[i + 1].at)
    BY <1>2, <1>4
  <2>1. CASE i < Len(stack) - 1
    <3>1. i \in 1..Len(stack) - 1 /\ i + 1 \in 1..Len(stack) - 1
      BY <1>2, <2>1
    <3>2. stack'[i] = stack[i] /\ stack'[i + 1] = stack[i + 1]
      BY <1>4, <3>1
    <3> QED BY <3>1, <3>2 DEF StackInv
  <2>2. CASE i = Len(stack) - 1
    BY <1>2, <1>4, <1>5, <1>7, <2>2
  <2>3. CASE i = Len(stack)
    BY <1>5, <2>3
  <2> QED BY <2>1, <2>2, <2>3, <1>2
<1>9. stack'[1].at \in RunLabels
  <2>1. CASE Len(stack) = 1
    BY <1>5, <1>6, <2>1
  <2>2. CASE Len(stack) # 1
    <3>1. Len(stack) \in Nat /\ Len(stack) >= 1
      BY <1>2
    <3>2. 1 \in 1..Len(stack) - 1
      BY ONLY <2>2, <3>1, NatAboveOne
    <3> QED BY <1>4, <3>2 DEF StackInv
  <2> QED BY <2>1, <2>2
<1>10. \A i \in 1..Len(stack') : FrameOk(stack'[i])
  <2> SUFFICES ASSUME NEW i \in 1..Len(stack) + 1 PROVE FrameOk(stack'[i])
    BY <1>4
  <2>1. i \in 1..Len(stack) - 1 \/ i = Len(stack) \/ i = Len(stack) + 1
    BY <1>2
  <2> QED BY <1>2, <1>4, <1>5, <2>1 DEF StackInv
<1>11. StackInv'
  BY <1>2, <1>4, <1>8, <1>9, <1>10 DEF StackInv, FrameOk
<1>12. Top' = g
  BY <1>4, <1>5 DEF Top
<1> QED BY <1>4, <1>5, <1>11, <1>12 DEF Push

-----------------------------------------------------------------------------
(* What each action does to the stack.                                     *)
LEMMA ConnectStack ==
  ASSUME StackInv
  PROVE  /\ ConnectRefused => StackInv' /\ Pop
         /\ ConnectAccepted => StackInv' /\ Swap(Frame("handshake"))
<1>1. ASSUME ConnectRefused PROVE StackInv' /\ Pop
  BY <1>1, Returned, StackLength DEF ConnectRefused, RunLabels
<1>2. ASSUME ConnectAccepted PROVE StackInv' /\ Swap(Frame("handshake"))
  <2>1. FrameOk(Frame("handshake")) /\ Frame("handshake").at = "handshake"
    BY FrameIsFrame DEF Labels, SendLabels
  <2>2. SameCall(Top.at, Frame("handshake").at)
    BY <1>2, <2>1, StackLength DEF ConnectAccepted, SameCall, ConnectLabels
  <2> QED BY <1>2, <2>1, <2>2, Replaced1 DEF ConnectAccepted
<1> QED BY <1>1, <1>2

LEMMA HandshakeStack ==
  ASSUME StackInv, Handshake
  PROVE  /\ StackInv'
         /\ state' = "active" => Swap(Frame("mission1"))
         /\ state' # "active" => stack' = stack
<1>1. FrameOk(Frame("mission1")) /\ Frame("mission1").at = "mission1"
  BY FrameIsFrame DEF Labels, SendLabels
<1>2. SameCall(Top.at, Frame("mission1").at)
  BY <1>1, StackLength DEF Handshake, SameCall, ConnectLabels, MissionLabels
<1>3. CASE state' = "active"
  BY <1>1, <1>2, <1>3, Replaced1 DEF Handshake
<1>4. CASE state' # "active"
  BY <1>4 DEF Handshake, StackInv
<1> QED BY <1>3, <1>4

SendFrame(command) == [Frame("send") EXCEPT !.command = command]

LEMMA SendFrameOk ==
  ASSUME NEW command \in Commands
  PROVE  FrameOk(SendFrame(command)) /\ SendFrame(command).at = "send" /\ SendFrame(command).command = command
<1>1. /\ "send" \in Labels /\ Null \in Clients \cup {Null} /\ 0 \in 0..MaxTries
  BY Bounds DEF Labels
<1> QED BY <1>1 DEF SendFrame, Frame, FrameOk, FrameType

LEMMA MissionSendStack ==
  ASSUME StackInv, NEW at, NEW next, NEW command \in Commands,
         <<at, next>> \in {<<"mission1", "mission2">>, <<"mission3", "mission4">>},
         MissionSend(at, next, command)
  PROVE  StackInv' /\ Push(Frame(next), SendFrame(command))
<1>1. next \in {"mission2", "mission4"} /\ at \in {"mission1", "mission3"}
  OBVIOUS
<1>2. FrameOk(Frame(next)) /\ Frame(next).at = next
  BY <1>1, FrameIsFrame DEF Labels, SendLabels
<1>3. SameCall(Top.at, Frame(next).at) /\ Calls(Frame(next).at, SendFrame(command).at)
  BY <1>1, <1>2, SendFrameOk, StackLength
  DEF MissionSend, SameCall, ConnectLabels, MissionLabels, Calls, SendLabels
<1>4. Becomes(<<Frame(next), SendFrame(command)>>)
  BY DEF MissionSend, SendFrame
<1> QED BY <1>2, <1>3, <1>4, SendFrameOk, Replaced2

LEMMA MissionWaitStack ==
  ASSUME StackInv, NEW at, NEW next,
         <<at, next>> \in {<<"mission2", "mission3">>, <<"mission4", "mission5">>},
         MissionWait(at, next)
  PROVE  StackInv' /\ Push(Frame(next), Frame("ackWait"))
<1>1. next \in {"mission3", "mission5"} /\ at \in {"mission2", "mission4"}
  OBVIOUS
<1>2. /\ FrameOk(Frame(next)) /\ Frame(next).at = next
      /\ FrameOk(Frame("ackWait")) /\ Frame("ackWait").at = "ackWait"
  BY <1>1, FrameIsFrame DEF Labels, SendLabels
<1>3. SameCall(Top.at, Frame(next).at) /\ Calls(Frame(next).at, Frame("ackWait").at)
  BY <1>1, <1>2, StackLength
  DEF MissionWait, SameCall, ConnectLabels, MissionLabels, Calls, AckLabels
<1>4. Becomes(<<Frame(next), Frame("ackWait")>>)
  BY DEF MissionWait
<1> QED BY <1>2, <1>3, <1>4, Replaced2

(* What a step to startMission may be *)
LEMMA MissionStack ==
  ASSUME StackInv, StartMission
  PROVE  /\ StackInv'
         /\ \/ At("mission1") /\ Push(Frame("mission2"), SendFrame("loop"))
            \/ At("mission2") /\ Push(Frame("mission3"), Frame("ackWait"))
            \/ At("mission3") /\ Push(Frame("mission4"), SendFrame("configure"))
            \/ At("mission4") /\ Push(Frame("mission5"), Frame("ackWait"))
            \/ At("mission5") /\ Pop
<1>1. CASE MissionSend("mission1", "mission2", "loop")
  <2>1. StackInv' /\ Push(Frame("mission2"), SendFrame("loop"))
    BY <1>1, MissionSendStack DEF Commands
  <2> QED BY <1>1, <2>1 DEF MissionSend
<1>2. CASE MissionWait("mission2", "mission3")
  <2>1. StackInv' /\ Push(Frame("mission3"), Frame("ackWait"))
    BY <1>2, MissionWaitStack
  <2> QED BY <1>2, <2>1 DEF MissionWait
<1>3. CASE MissionSend("mission3", "mission4", "configure")
  <2>1. StackInv' /\ Push(Frame("mission4"), SendFrame("configure"))
    BY <1>3, MissionSendStack DEF Commands
  <2> QED BY <1>3, <2>1 DEF MissionSend
<1>4. CASE MissionWait("mission4", "mission5")
  <2>1. StackInv' /\ Push(Frame("mission5"), Frame("ackWait"))
    BY <1>4, MissionWaitStack
  <2> QED BY <1>4, <2>1 DEF MissionWait
<1>5. CASE MissionDone
  <2>1. StackInv' /\ Pop
    BY <1>5, Returned, StackLength DEF MissionDone, RunLabels
  <2> QED BY <1>5, <2>1 DEF MissionDone
<1> QED BY <1>1, <1>2, <1>3, <1>4, <1>5 DEF StartMission

(* The other calls: send_packet, receive_packet, ackWait and run           *)
LEMMA SendStack ==
  ASSUME StackInv
  PROVE  /\ SendConnects => /\ StackInv' /\ Top.command \in Commands
                            /\ Push([Top EXCEPT !.at = "sendAfter"], Frame("connect"))
         /\ SendPacket => StackInv' /\ Pop /\ Top.at \in SendLabels /\ Top.command \in Commands
         /\ SendGivesUp => StackInv' /\ Pop
<1>1. ASSUME SendConnects
      PROVE  /\ StackInv' /\ Top.command \in Commands
             /\ Push([Top EXCEPT !.at = "sendAfter"], Frame("connect"))
  <2> DEFINE f == [Top EXCEPT !.at = "sendAfter"]
  <2>1. Top.at = "send" /\ FrameOk(Top) /\ Top \in FrameType
    BY <1>1, StackLength DEF SendConnects
  <2>2. Top.command \in Commands
    BY <2>1 DEF FrameOk, SendLabels
  <2>3. f \in FrameType /\ f.at = "sendAfter" /\ f.command = Top.command
    BY <2>1 DEF FrameType, Labels
  <2>4. FrameOk(Frame("connect")) /\ Frame("connect").at = "connect"
    BY FrameIsFrame DEF Labels, SendLabels
  <2>5. FrameOk(f)
    BY <2>2, <2>3 DEF FrameOk
  <2>6. SameCall(Top.at, f.at) /\ Calls(f.at, Frame("connect").at)
    BY <2>1, <2>3, <2>4 DEF SameCall, SendLabels, Calls, ConnectLabels
  <2>7. Becomes(<<f, Frame("connect")>>)
    BY <1>1 DEF SendConnects
  <2> HIDE DEF f
  <2>8. StackInv' /\ Push(f, Frame("connect"))
    BY <2>4, <2>5, <2>6, <2>7, Replaced2
  <2> QED BY <2>2, <2>8 DEF f
<1>2. ASSUME SendPacket \/ SendGivesUp
      PROVE  StackInv' /\ Pop /\ Top.at \in SendLabels /\ Top.command \in Commands
  <2>1. Top.at \in SendLabels /\ Return
    BY <1>2, StackLength DEF SendPacket, SendGivesUp, SendLabels
  <2>2. Top.command \in Commands
    BY <2>1, StackLength DEF FrameOk
  <2> QED BY <2>1, <2>2, Returned DEF SendLabels, RunLabels
<1> QED BY <1>1, <1>2

LEMMA ReceiveTestStack ==
  ASSUME StackInv, ReceiveTest
  PROVE  /\ StackInv'
         /\ \/ Connected /\ Swap(Frame("receiveLoop"))
            \/ ~Connected /\ At("receive") /\ Push(Frame("receiveAfter"), Frame("connect"))
            \/ ~Connected /\ At("receiveAfter") /\ Pop
<1>0. /\ FrameOk(Frame("receiveLoop")) /\ Frame("receiveLoop").at = "receiveLoop"
      /\ FrameOk(Frame("receiveAfter")) /\ Frame("receiveAfter").at = "receiveAfter"
      /\ FrameOk(Frame("connect")) /\ Frame("connect").at = "connect"
  BY FrameIsFrame DEF Labels, SendLabels
<1>1. Top.at \in {"receive", "receiveAfter"}
  BY StackLength DEF ReceiveTest
<1>2. CASE Connected /\ Becomes(<<Frame("receiveLoop")>>)
  <2>1. SameCall(Top.at, Frame("receiveLoop").at)
    BY <1>0, <1>1 DEF SameCall, ReceiveLabels
  <2> QED BY <1>0, <1>2, <2>1, Replaced1
<1>3. CASE ~Connected /\ At("receive") /\ Becomes(<<Frame("receiveAfter"), Frame("connect")>>)
  <2>1. SameCall(Top.at, Frame("receiveAfter").at) /\ Calls(Frame("receiveAfter").at, Frame("connect").at)
    BY <1>0, <1>1 DEF SameCall, ReceiveLabels, Calls, ConnectLabels
  <2> QED BY <1>0, <1>3, <2>1, Replaced2
<1>4. CASE ~Connected /\ At("receiveAfter") /\ Return
  BY <1>1, <1>4, Returned DEF RunLabels
<1> QED BY <1>2, <1>3, <1>4 DEF ReceiveTest

LEMMA ReceiveStack ==
  ASSUME StackInv, Receive \/ ReceiveError \/ ReceiveErrorFoundOut
  PROVE  StackInv' /\ (Pop \/ stack' = stack)
<1>1. CASE Return
  <2>1. Top.at = "receiveLoop"
    BY StackLength DEF Receive, ReceiveError, ReceiveErrorFoundOut, RecvFails
  <2> QED BY <1>1, <2>1, Returned DEF RunLabels
<1>2. CASE stack' = stack
  BY <1>2 DEF StackInv
<1> QED BY <1>1, <1>2 DEF Receive, ReceiveError, ReceiveErrorFoundOut, LoopUnlessLink

LEMMA AckWaitStack ==
  ASSUME StackInv, AckWaitEnter
  PROVE  /\ StackInv'
         /\ \/ Connected /\ Swap(Frame("ackTurn"))
            \/ ~Connected /\ Pop
<1>1. Top.at = "ackWait"
  BY StackLength DEF AckWaitEnter
<1>2. CASE Connected
  <2>1. FrameOk(Frame("ackTurn")) /\ Frame("ackTurn").at = "ackTurn"
    BY FrameIsFrame DEF Labels, SendLabels
  <2>2. SameCall(Top.at, Frame("ackTurn").at) /\ Becomes(<<Frame("ackTurn")>>)
    BY <1>1, <1>2, <2>1 DEF SameCall, AckLabels, AckWaitEnter
  <2> QED BY <1>2, <2>1, <2>2, Replaced1
<1>3. CASE ~Connected
  <2>1. Return
    BY <1>3 DEF AckWaitEnter
  <2> QED BY <1>1, <1>3, <2>1, Returned DEF RunLabels
<1> QED BY <1>2, <1>3

LEMMA AckTurnStack ==
  ASSUME StackInv, ClientInv, AckTurn
  PROVE  /\ StackInv'
         /\ client # Null => Push([Top EXCEPT !.at = "ackRead", !.ptr = client], Frame("receive"))
         /\ client = Null => stack' = <<Frame("crashed")>>
<1>1. Top.at = "ackTurn" /\ Top \in FrameType /\ Top.turn < MaxTries
  BY StackLength DEF AckTurn
<1>2. CASE client # Null
  <2> DEFINE f == [Top EXCEPT !.at = "ackRead", !.ptr = client]
  <2>1. f \in FrameType /\ f.at = "ackRead" /\ f.turn = Top.turn
    BY <1>1, ClientRange DEF FrameType, Labels
  <2>2. FrameOk(f)
    BY <1>1, <2>1 DEF FrameOk, SendLabels
  <2>3. FrameOk(Frame("receive")) /\ Frame("receive").at = "receive"
    BY FrameIsFrame DEF Labels, SendLabels
  <2>4. SameCall(Top.at, f.at) /\ Calls(f.at, Frame("receive").at)
    BY <1>1, <2>1, <2>3 DEF SameCall, AckLabels, Calls, ReceiveLabels
  <2>5. Becomes(<<f, Frame("receive")>>)
    BY <1>2 DEF AckTurn
  <2> HIDE DEF f
  <2>6. StackInv' /\ Push(f, Frame("receive"))
    BY <2>2, <2>3, <2>4, <2>5, Replaced2
  <2> QED BY <1>2, <2>6 DEF f
<1>3. CASE client = Null
  <2> DEFINE f == Frame("crashed")
  <2>1. FrameOk(f) /\ f.at = "crashed"
    BY FrameIsFrame DEF Labels, SendLabels
  <2>2. stack' = <<f>>
    BY <1>3 DEF AckTurn
  <2> HIDE DEF f
  <2>3. /\ stack' \in Seq(FrameType) /\ Len(stack') = 1 /\ stack'[1] = f
    BY <2>1, <2>2 DEF FrameOk
  <2>4. StackInv'
    BY <2>1, <2>3 DEF StackInv, FrameOk, RunLabels
  <2> QED BY <1>3, <2>2, <2>4 DEF f
<1> QED BY <1>2, <1>3

LEMMA AckReadStack ==
  ASSUME StackInv, AckRead
  PROVE  /\ StackInv'
         /\ \/ HasParameter(rx[Top.ptr]) /\ Pop
            \/ /\ ~HasParameter(rx[Top.ptr])
               /\ Swap([Frame("ackTurn") EXCEPT !.turn = Top.turn + 1])
<1>1. Top.at = "ackRead" /\ Top \in FrameType /\ Top.turn < MaxTries
  BY StackLength DEF AckRead, FrameOk
<1>2. CASE HasParameter(rx[Top.ptr])
  <2>1. Return
    BY <1>2 DEF AckRead
  <2> QED BY <1>1, <1>2, <2>1, Returned DEF RunLabels
<1>3. CASE ~HasParameter(rx[Top.ptr])
  <2> DEFINE f == [Frame("ackTurn") EXCEPT !.turn = Top.turn + 1]
  <2>1. Frame("ackTurn") \in FrameType
    BY FrameIsFrame DEF Labels
  <2>2. Top.turn + 1 \in 0..MaxTries
    BY <1>1, Bounds DEF FrameType
  <2>3. f \in FrameType /\ f.at = "ackTurn"
    BY <2>1, <2>2 DEF FrameType, Frame
  <2>4. FrameOk(f) /\ SameCall(Top.at, f.at)
    BY <1>1, <2>3 DEF FrameOk, SendLabels, SameCall, AckLabels
  <2>5. Becomes(<<f>>)
    BY <1>3 DEF AckRead
  <2> HIDE DEF f
  <2>6. StackInv' /\ Swap(f)
    BY <2>4, <2>5, Replaced1
  <2> QED BY <1>3, <2>6 DEF f
<1> QED BY <1>2, <1>3

LEMMA AckTimeoutStack ==
  ASSUME StackInv, AckTimeout
  PROVE  StackInv' /\ Pop
BY Returned, StackLength DEF AckTimeout, RunLabels

DecodeFrame == [Frame("decode") EXCEPT !.ptr = ClientAfterTest]

LEMMA RunStack ==
  ASSUME StackInv, ClientInv
  PROVE  /\ RunTurn => /\ StackInv' /\ Push(DecodeFrame, Frame("receive"))
                       /\ DecodeFrame.at = "decode" /\ DecodeFrame.ptr = ClientAfterTest
         /\ RunDecode => StackInv' /\ Swap(Frame("run"))
<1>1. ASSUME RunTurn
      PROVE  /\ StackInv' /\ Push(DecodeFrame, Frame("receive"))
             /\ DecodeFrame.at = "decode" /\ DecodeFrame.ptr = ClientAfterTest
  <2>1. Frame("decode") \in FrameType /\ Frame("decode").at = "decode"
    BY FrameIsFrame DEF Labels
  <2>2. ClientAfterTest \in Clients \cup {Null}
    BY ClientRange DEF ClientAfterTest
  <2>3. DecodeFrame \in FrameType /\ DecodeFrame.at = "decode" /\ DecodeFrame.ptr = ClientAfterTest
    BY <2>1, <2>2 DEF FrameType, DecodeFrame, Frame
  <2>4. FrameOk(Frame("receive")) /\ Frame("receive").at = "receive"
    BY FrameIsFrame DEF Labels, SendLabels
  <2>5. FrameOk(DecodeFrame) /\ Calls(DecodeFrame.at, Frame("receive").at)
    BY <2>3, <2>4 DEF FrameOk, SendLabels, Calls, ReceiveLabels
  <2>6. SameCall(Top.at, DecodeFrame.at)
    BY <1>1, <2>3, StackLength DEF RunTurn, SameCall, RunLabels
  <2>7. Becomes(<<DecodeFrame, Frame("receive")>>)
    BY <1>1 DEF RunTurn, DecodeFrame
  <2> QED BY <2>3, <2>4, <2>5, <2>6, <2>7, Replaced2
<1>2. ASSUME RunDecode PROVE StackInv' /\ Swap(Frame("run"))
  <2>1. FrameOk(Frame("run")) /\ Frame("run").at = "run"
    BY FrameIsFrame DEF Labels, SendLabels
  <2>2. SameCall(Top.at, Frame("run").at) /\ Becomes(<<Frame("run")>>)
    BY <1>2, <2>1, StackLength DEF RunDecode, SameCall, RunLabels
  <2> QED BY <2>1, <2>2, Replaced1
<1> QED BY <1>1, <1>2

-----------------------------------------------------------------------------
(* The client and the connection                                           *)
LEMMA StackLengthNext ==
  ASSUME StackInv'
  PROVE  /\ Len(stack') \in Nat /\ Len(stack') \in 1..Len(stack') /\ stack' # <<>>
         /\ FrameOk(Top)' /\ Top' = stack'[Len(stack')]
         /\ \A l : At(l)' <=> Top'.at = l
<1>1. Len(stack') \in Nat /\ Len(stack') \in 1..Len(stack') /\ stack' # <<>>
  BY DEF StackInv
<1> QED BY <1>1 DEF StackInv, FrameOk, At, Top

LEMMA CallerLabels ==
  ASSUME NEW caller, NEW callee, Calls(caller, callee)
  PROVE  caller \notin {"connect", "handshake", "mission1", "send", "receive", "receiveLoop",
                        "ackWait", "ackTurn", "crashed"}
BY DEF Calls

(* A step that leaves the connection as it is and ends outside connect     *)
LEMMA ClientKeptOk ==
  ASSUME StackInv, StackInv', ClientInv, Top.at # "handshake",
         Top'.at \notin {"connect", "handshake"},
         client' \in {client, ClientAfterTest},
         UNCHANGED <<created, freed, link, bounds>>,
         state' = state \/ (link # "up" /\ state' = "noTCP")
  PROVE  ClientInv'
<1>1. link = "up" => Connected
  BY StackLength DEF ClientInv
<1>2. client' \in {client, Null} /\ (link = "up" => client' = client /\ state' = state)
  BY <1>1 DEF ClientAfterTest
<1>3. ~At("connect")' /\ ~At("handshake")'
  BY StackLengthNext
<1>4. client' \in {Null, created'}
  BY <1>2 DEF ClientInv
<1>5. link' = "up" => Connected'
  BY <1>1, <1>2 DEF Connected
<1> QED BY <1>3, <1>4, <1>5 DEF ClientInv, bounds

LEMMA PopLabel ==
  ASSUME Pop
  PROVE  Top'.at \notin {"connect", "handshake"}
BY CallerLabels DEF Pop

LEMMA ClientInvConnect ==
  ASSUME StackInv, ClientInv, ConnectRefused \/ ConnectAccepted
  PROVE  ClientInv'
<1>1. client = Null /\ link # "up" /\ created = breaks + refusals
  BY DEF ClientInv, ConnectRefused, ConnectAccepted
<1>2. freed' = {} /\ created' = created + 1 /\ client' = created'
  BY <1>1 DEF ClientInv, ConnectRefused, ConnectAccepted, NewClient
<1>3. CASE ConnectRefused
  <2>1. ~At("connect")' /\ ~At("handshake")'
    BY <1>3, ConnectStack, PopLabel, StackLengthNext
  <2>2. refusals' = refusals + 1 /\ refusals' \in 0..MaxRefusals /\ breaks' = breaks
    BY <1>3, Bounds DEF ClientInv, ConnectRefused
  <2>3. breaks \in Int /\ refusals \in Int
    BY Bounds DEF ClientInv
  <2>4. link' = "none" /\ state' = "noTCP"
    BY <1>3 DEF ConnectRefused
  <2>5. created' = breaks' + refusals' + (IF link' = "up" THEN 1 ELSE 0)
    BY <1>1, <1>2, <2>2, <2>3, <2>4
  <2> QED BY <1>2, <2>1, <2>2, <2>4, <2>5 DEF ClientInv
<1>4. CASE ConnectAccepted
  <2>1. ~At("connect")'
    BY <1>4, ConnectStack, StackLengthNext, FrameIsFrame DEF Swap, Labels
  <2>2. refusals' = refusals /\ breaks' = breaks
    BY <1>4 DEF ClientInv, ConnectAccepted, bounds
  <2>3. breaks \in Nat /\ refusals \in Nat
    BY Bounds DEF ClientInv
  <2>4. link' = "up" /\ state' = "established"
    BY <1>4 DEF ConnectAccepted
  <2>5. created' = breaks' + refusals' + (IF link' = "up" THEN 1 ELSE 0)
    BY <1>1, <1>2, <2>2, <2>3, <2>4
  <2>6. At("handshake")'
    BY <1>4, ConnectStack, StackLengthNext, FrameIsFrame DEF Swap, Labels
  <2>7. created' > 0
    BY <1>1, <1>2, <2>3
  <2> QED BY <1>2, <2>1, <2>2, <2>4, <2>5, <2>6, <2>7 DEF ClientInv
<1> QED BY <1>3, <1>4

LEMMA AnswerState ==
  ASSUME NEW p, Answer(p), state \in {"noTCP", "established", "sentRequest", "sentResponse", "active"}
  PROVE  state' \in {"noTCP", "established", "sentRequest", "sentResponse", "active"}
BY DEF Answer

LEMMA ClientInvHandshake ==
  ASSUME StackInv, ClientInv, Handshake
  PROVE  ClientInv'
<1>1. At("handshake") /\ UNCHANGED <<client, created, freed, link, bounds>>
  BY DEF Handshake
<1>2. state' \in {"noTCP", "established", "sentRequest", "sentResponse", "active"}
  BY AnswerState DEF Handshake, ClientInv
<1>3. client = created /\ created > 0 /\ created \in Nat
  BY <1>1, ClientRange DEF ClientInv
<1>4. CASE state' = "active"
  <2>1. ~At("connect")' /\ ~At("handshake")'
    BY <1>4, HandshakeStack, StackLengthNext, FrameIsFrame DEF Swap, Labels
  <2>2. Connected'
    BY <1>1, <1>3, <1>4 DEF Connected, Null
  <2> QED BY <1>1, <1>2, <2>1, <2>2 DEF ClientInv, bounds
<1>5. CASE state' # "active"
  <2>1. \A l : At(l)' <=> At(l)
    BY <1>5, HandshakeStack, StackLength, StackLengthNext DEF Top
  <2>2. ~At("connect")' /\ At("handshake")'
    BY <1>1, <2>1, StackLength
  <2> QED BY <1>1, <1>2, <1>3, <2>2 DEF ClientInv, bounds
<1> QED BY <1>4, <1>5

LEMMA ClientInvMission ==
  ASSUME StackInv, ClientInv, StartMission
  PROVE  ClientInv' /\ StackInv'
<1>0. /\ Frame("ackWait").at = "ackWait" /\ SendFrame("loop").at = "send" /\ SendFrame("configure").at = "send"
  BY FrameIsFrame, SendFrameOk DEF Labels, Commands
<1>1. Top'.at \notin {"connect", "handshake"} /\ StackInv'
  BY <1>0, MissionStack, PopLabel DEF Push
<1>2. Top.at # "handshake" /\ UNCHANGED <<client, created, freed, link, state, bounds>>
  BY StackLength DEF StartMission, MissionSend, MissionWait, MissionDone
<1> QED BY <1>1, <1>2, ClientKeptOk

LEMMA ClientInvSend ==
  ASSUME StackInv, ClientInv, SendConnects \/ SendPacket \/ SendGivesUp
  PROVE  ClientInv' /\ StackInv'
<1>1. CASE SendConnects
  <2>1. StackInv' /\ At("connect")' /\ ~At("handshake")'
    BY <1>1, SendStack, StackLengthNext, FrameIsFrame DEF Push, Labels
  <2>2. link # "up"
    BY <1>1, StackLength DEF SendConnects, ClientInv
  <2>3. client' = Null
    BY <1>1 DEF SendConnects, ClientAfterTest
  <2> QED BY <1>1, <2>1, <2>2, <2>3 DEF ClientInv, SendConnects, bounds
<1>2. CASE SendPacket \/ SendGivesUp
  <2>1. Top'.at \notin {"connect", "handshake"} /\ StackInv'
    BY <1>2, SendStack, PopLabel
  <2>2. Top.at # "handshake"
    BY <1>2, StackLength DEF SendPacket, SendGivesUp
  <2>3. client' \in {client, ClientAfterTest} /\ UNCHANGED <<created, freed, link, state, bounds>>
    BY <1>2 DEF SendPacket, SendGivesUp
  <2> QED BY <2>1, <2>2, <2>3, ClientKeptOk
<1> QED BY <1>1, <1>2

LEMMA ClientInvReceiveTest ==
  ASSUME StackInv, ClientInv, ReceiveTest
  PROVE  ClientInv' /\ StackInv'
<1>0. /\ Frame("receiveLoop").at = "receiveLoop" /\ Frame("connect").at = "connect"
  BY FrameIsFrame DEF Labels
<1>1. Top.at # "handshake" /\ client' = ClientAfterTest
      /\ UNCHANGED <<created, freed, link, state, bounds>>
  BY StackLength DEF ReceiveTest
<1>2. CASE ~Connected /\ At("receive") /\ Push(Frame("receiveAfter"), Frame("connect"))
  <2>1. At("connect")' /\ ~At("handshake")' /\ StackInv'
    BY <1>0, <1>2, ReceiveTestStack, StackLengthNext DEF Push
  <2>2. link # "up"
    BY <1>1, <1>2, StackLength DEF ClientInv
  <2>3. client' = Null
    BY <1>1, <1>2 DEF ClientAfterTest
  <2> QED BY <1>1, <2>1, <2>2, <2>3 DEF ClientInv, bounds
<1>3. CASE Swap(Frame("receiveLoop")) \/ Pop
  <2>1. Top'.at \notin {"connect", "handshake"} /\ StackInv'
    BY <1>0, <1>3, ReceiveTestStack, PopLabel DEF Swap
  <2> QED BY <1>1, <2>1, ClientKeptOk
<1> QED BY <1>2, <1>3, ReceiveTestStack

LEMMA ClientInvReceive ==
  ASSUME StackInv, ClientInv, Receive \/ ReceiveHeader \/ ReceiveError \/ ReceiveErrorFoundOut
  PROVE  ClientInv' /\ StackInv'
<1>1. CASE ReceiveHeader
  <2>1. StackInv' /\ \A l : At(l)' <=> At(l)
    BY <1>1 DEF ReceiveHeader, StackInv, At, Top
  <2>2. Connected' <=> Connected
    BY <1>1 DEF ReceiveHeader, Connected
  <2> QED BY <1>1, <2>1, <2>2 DEF ReceiveHeader, ClientInv, bounds
<1>2. CASE Receive \/ ReceiveError \/ ReceiveErrorFoundOut
  <2>1. Top.at = "receiveLoop" /\ UNCHANGED <<client, created, freed, link, bounds>>
    BY <1>2, StackLength DEF Receive, ReceiveError, ReceiveErrorFoundOut, RecvFails
  <2>2. state' = state \/ (link # "up" /\ state' = "noTCP")
    BY <1>2 DEF Receive, KeepAlive, ReceiveError, ReceiveErrorFoundOut, RecvFails, Lost
  <2>3. Top'.at \notin {"connect", "handshake"} /\ StackInv'
    BY <1>2, <2>1, ReceiveStack, PopLabel DEF Top
  <2> QED BY <2>1, <2>2, <2>3, ClientKeptOk
<1> QED BY <1>1, <1>2

LEMMA ClientInvAck ==
  ASSUME StackInv, ClientInv, AckWaitEnter \/ AckTurn \/ AckTimeout \/ AckRead
  PROVE  ClientInv' /\ StackInv'
<1>1. /\ Top.at # "handshake" /\ UNCHANGED <<created, freed, link, state, bounds>>
      /\ client' \in {client, ClientAfterTest}
  BY StackLength DEF AckWaitEnter, AckTurn, AckTimeout, AckRead
<1>2. Top'.at \notin {"connect", "handshake"} /\ StackInv'
  <2>0. /\ Frame("ackTurn").at = "ackTurn" /\ Frame("receive").at = "receive"
        /\ Frame("crashed").at = "crashed"
        /\ [Frame("ackTurn") EXCEPT !.turn = Top.turn + 1].at = "ackTurn"
    BY FrameIsFrame DEF Labels, Frame
  <2>1. CASE AckWaitEnter
    BY <2>0, <2>1, AckWaitStack, PopLabel DEF Swap
  <2>2. CASE AckTurn
    <3>1. CASE client # Null
      BY <2>0, <2>2, <3>1, AckTurnStack DEF Push
    <3>2. CASE client = Null
      <4>1. StackInv' /\ stack' = <<Frame("crashed")>>
        BY <2>2, <3>2, AckTurnStack
      <4>2. Top' = Frame("crashed")
        BY <4>1 DEF Top
      <4> QED BY <2>0, <4>1, <4>2
    <3> QED BY <3>1, <3>2
  <2>3. CASE AckTimeout
    BY <2>3, AckTimeoutStack, PopLabel
  <2>4. CASE AckRead
    BY <2>0, <2>4, AckReadStack, PopLabel DEF Swap
  <2> QED BY <2>1, <2>2, <2>3, <2>4
<1> QED BY <1>1, <1>2, ClientKeptOk

LEMMA ClientInvRun ==
  ASSUME StackInv, ClientInv, RunTurn \/ RunDecode
  PROVE  ClientInv' /\ StackInv'
<1>1. /\ Top.at # "handshake" /\ UNCHANGED <<created, freed, link, state, bounds>>
      /\ client' \in {client, ClientAfterTest}
  BY StackLength DEF RunTurn, RunDecode
<1>2. Frame("receive").at = "receive" /\ Frame("run").at = "run"
  BY FrameIsFrame DEF Labels
<1>3. Top'.at \notin {"connect", "handshake"} /\ StackInv'
  BY <1>2, RunStack DEF Push, Swap
<1> QED BY <1>1, <1>3, ClientKeptOk

LEMMA ClientInvServer ==
  ASSUME StackInv, ClientInv, ServerHandles \/ ServerData \/ ServerAlive \/ Break
  PROVE  ClientInv' /\ StackInv'
<1>1. UNCHANGED <<stack, client, created, freed, state, refusals>>
  BY DEF ServerHandles, ServerData, ServerAlive, Break, ClientUnchanged, bounds
<1>2. StackInv' /\ (\A l : At(l)' <=> At(l)) /\ (Connected' <=> Connected)
  BY <1>1 DEF StackInv, At, Top, Connected
<1>3. CASE ServerHandles \/ ServerData \/ ServerAlive
  <2>1. UNCHANGED <<link, breaks>>
    BY <1>3 DEF ServerHandles, ServerData, ServerAlive, bounds
  <2> QED BY <1>1, <1>2, <2>1 DEF ClientInv
<1>4. CASE Break
  <2>1. link = "up" /\ link' \in {"closed", "reset"} /\ breaks' = breaks + 1 /\ breaks' \in 0..MaxBreaks
    BY <1>4, Bounds, SMTT(30) DEF Break, ClientInv
  <2>2. breaks \in Nat /\ refusals \in Nat
    BY Bounds DEF ClientInv
  <2>3. created' = breaks' + refusals' + (IF link' = "up" THEN 1 ELSE 0)
    BY <1>1, <2>1, <2>2 DEF ClientInv
  <2> QED BY <1>1, <1>2, <2>1, <2>3 DEF ClientInv
<1> QED BY <1>3, <1>4

(* The stack and the client are as the invariants say in every state.      *)
Base == StackInv /\ ClientInv

LEMMA BaseInit == Init => Base
<1> SUFFICES ASSUME Init PROVE Base
  OBVIOUS
<1>1. /\ FrameOk(Frame("run")) /\ Frame("run").at = "run"
      /\ FrameOk(Frame("connect")) /\ Frame("connect").at = "connect"
  BY FrameIsFrame DEF Labels, SendLabels
<1> DEFINE f == Frame("run")  g == Frame("connect")
<1>2. stack = <<f, g>>
  BY DEF Init
<1> HIDE DEF f, g
<1>3. /\ stack \in Seq(FrameType) /\ Len(stack) = 2 /\ stack[1] = f /\ stack[2] = g
  BY <1>1, <1>2 DEF FrameOk, f, g
<1>4. Calls(stack[1].at, stack[2].at)
  BY <1>1, <1>3 DEF Calls, ConnectLabels, f, g
<1>5. StackInv
  BY <1>1, <1>3, <1>4 DEF StackInv, RunLabels, f, g
<1>6. ~At("handshake") /\ link # "up" /\ client = Null /\ created = 0 /\ breaks = 0 /\ refusals = 0
  BY <1>1, <1>3 DEF Init, At, Top, g
<1> QED BY <1>5, <1>6, Bounds DEF Base, ClientInv, Init

LEMMA BaseNext == Base /\ [Next]_vars => Base'
<1> SUFFICES ASSUME Base, [Next]_vars PROVE Base'
  OBVIOUS
<1> USE DEF Base
<1>1. CASE UNCHANGED vars
  BY <1>1 DEF vars, StackInv, ClientInv, At, Top, Connected
<1>2. CASE ConnectRefused \/ ConnectAccepted
  BY <1>2, ConnectStack, ClientInvConnect
<1>3. CASE Handshake
  BY <1>3, HandshakeStack, ClientInvHandshake
<1>4. CASE StartMission
  BY <1>4, ClientInvMission
<1>5. CASE SendConnects \/ SendPacket \/ SendGivesUp
  BY <1>5, ClientInvSend
<1>6. CASE ReceiveTest
  BY <1>6, ClientInvReceiveTest
<1>7. CASE Receive \/ ReceiveHeader \/ ReceiveError \/ ReceiveErrorFoundOut
  BY <1>7, ClientInvReceive
<1>8. CASE AckWaitEnter \/ AckTurn \/ AckTimeout \/ AckRead
  BY <1>8, ClientInvAck
<1>9. CASE RunTurn \/ RunDecode
  BY <1>9, ClientInvRun
<1>10. CASE ServerHandles \/ ServerData \/ ServerAlive \/ Break
  BY <1>10, ClientInvServer
<1> QED BY <1>1, <1>2, <1>3, <1>4, <1>5, <1>6, <1>7, <1>8, <1>9, <1>10 DEF Next, Node

(* However the calls of a node thread nest, each is inside one that makes  *)
(* it; connect runs only without a client and a connection, and no client  *)
(* is ever freed.                                                          *)
THEOREM BaseHolds == Spec => []Base
BY BaseInit, BaseNext, PTL DEF Spec

-----------------------------------------------------------------------------
(* What is in flight, what was received, what was pushed                   *)
ToServer == Commands \cup {"request", "response"}

DataType ==
  /\ wire \in Seq(Packet) /\ toServer \in Seq(ToServer)
  /\ confirmed \in BOOLEAN /\ mission \subseteq Commands /\ sentData \in 0..MaxData
  /\ rx \in [Clients -> Packet \cup {NoPacket}]
  /\ received \subseteq 1..MaxData /\ pushed \in [1..MaxData -> Nat]

(* A confirmation comes from a server that confirmed.  The captures come   *)
(* in the order in which they were measured, each later than all received. *)
WireInv ==
  /\ state = "active" => confirmed
  /\ \A i \in 1..Len(wire) :
       /\ wire[i].kind = "confirm" => confirmed
       /\ wire[i].kind = "data" => /\ wire[i].nr \in 1..sentData
                                   /\ \A m \in received : m < wire[i].nr
  /\ \A i, j \in 1..Len(wire) :
       i < j /\ wire[i].kind = "data" /\ wire[j].kind = "data" => wire[i].nr < wire[j].nr
  /\ \A m \in received : m <= sentData

(* Until the client is active there is no mission and no capture.          *)
HandshakeInv ==
  At("handshake") => /\ mission = {}
                     /\ \A i \in 1..Len(toServer) : toServer[i] \notin Commands
                     /\ \A i \in 1..Len(wire) : wire[i].kind # "data"

(* A complete capture in a receive packet was received; in the packet of   *)
(* the newest client it is the last.                                       *)
RxInv ==
  /\ \A c \in Clients : /\ Readable(rx[c]) => rx[c].nr \in received
                        /\ c > created => rx[c] = NoPacket
  /\ created \in Clients /\ Readable(rx[created]) => \A m \in received : m <= rx[created].nr

DataInv == DataType /\ WireInv /\ HandshakeInv /\ RxInv /\ PushedWasReceived

LEMMA NoPacketFacts ==
  NoPacket.kind = "none" /\ NoPacket.complete = FALSE /\ ~Readable(NoPacket)
BY DEF NoPacket, Readable

LEMMA ServerPacket ==
  ASSUME NEW k \in LinkKinds \cup {"ack", "data"}, NEW n \in 0..MaxData
  PROVE  /\ [kind |-> k, nr |-> n, complete |-> TRUE] \in Packet
         /\ [kind |-> k, nr |-> n, complete |-> TRUE].kind = k
         /\ [kind |-> k, nr |-> n, complete |-> TRUE].nr = n
BY DEF Packet

(* The wire when the first packet is taken from it, or one put on it       *)
LEMMA WireTaken ==
  ASSUME DataType, NEW p, Delivered(p)
  PROVE  /\ p \in Packet /\ wire' \in Seq(Packet) /\ Len(wire) \in Nat /\ Len(wire) >= 1
         /\ Len(wire') = Len(wire) - 1 /\ p = wire[1]
         /\ \A i \in 1..Len(wire') : wire'[i] = wire[i + 1]
<1>1. wire \in Seq(Packet) /\ wire # <<>> /\ wire' = Tail(wire) /\ p = Head(wire)
  BY DEF DataType, Delivered
<1>2. Len(wire) \in Nat /\ Len(wire) >= 1 /\ p = wire[1]
  BY <1>1
<1>3. wire' \in Seq(Packet) /\ p \in Packet
  BY <1>1
<1>4. Len(wire') = Len(wire) - 1 /\ \A i \in 1..Len(wire') : wire'[i] = wire[i + 1]
  BY <1>1
<1> QED BY <1>2, <1>3, <1>4

LEMMA WirePut ==
  ASSUME DataType, NEW k \in LinkKinds \cup {"ack", "data"}, NEW n \in 0..MaxData, ToClient(k, n)
  PROVE  /\ wire' \in Seq(Packet) /\ Len(wire) \in Nat /\ Len(wire') = Len(wire) + 1
         /\ \A i \in 1..Len(wire) : wire'[i] = wire[i]
         /\ wire'[Len(wire) + 1].kind = k /\ wire'[Len(wire) + 1].nr = n
         /\ wire'[Len(wire) + 1].complete
<1> DEFINE p == [kind |-> k, nr |-> n, complete |-> TRUE]
<1>1. p \in Packet /\ p.kind = k /\ p.nr = n /\ p.complete
  BY ServerPacket
<1>2. wire \in Seq(Packet) /\ wire' = Append(wire, p)
  BY DEF DataType, ToClient
<1> HIDE DEF p
<1>3. /\ wire' \in Seq(Packet) /\ Len(wire) \in Nat /\ Len(wire') = Len(wire) + 1
      /\ \A i \in 1..Len(wire) : wire'[i] = wire[i]
      /\ wire'[Len(wire) + 1] = p
  BY <1>1, <1>2
<1> QED BY <1>1, <1>3

(* What is left on the wire when the connection is lost                    *)
LEMMA WireCut ==
  ASSUME DataType, Break
  PROVE  /\ wire' \in Seq(Packet) /\ Len(wire) \in Nat /\ Len(wire') \in 0..Len(wire)
         /\ \A i \in 1..Len(wire') : wire'[i].kind = wire[i].kind /\ wire'[i].nr = wire[i].nr
         /\ \A i \in 1..Len(wire') : ~wire'[i].complete => i = Len(wire') \/ ~wire[i].complete
<1>1. PICK n \in 0..Len(wire) :
        wire' \in {SubSeq(wire, 1, n)}
                  \cup (IF n = 0 THEN {} ELSE {[SubSeq(wire, 1, n) EXCEPT ![n].complete = FALSE]})
  BY DEF Break
<1>2. wire \in Seq(Packet) /\ Len(wire) \in Nat /\ n \in Nat
  BY DEF DataType
<1> DEFINE w == SubSeq(wire, 1, n)
<1>3. w \in Seq(Packet)
  BY <1>2
<1>4. Len(w) = n
  BY <1>2
<1>5. \A i \in 1..n : w[i] = wire[i]
  BY <1>2
<1> HIDE DEF w
<1>6. CASE wire' = w
  BY <1>2, <1>3, <1>4, <1>5, <1>6
<1>7. CASE n # 0 /\ wire' = [w EXCEPT ![n].complete = FALSE]
  <2>1. n \in 1..Len(w) /\ w[n] \in Packet
    BY <1>2, <1>3, <1>4, <1>7
  <2> DEFINE q == [w[n] EXCEPT !.complete = FALSE]
  <2>2. q \in Packet /\ q.kind = w[n].kind /\ q.nr = w[n].nr
    BY <2>1 DEF Packet
  <2>3. wire' = [w EXCEPT ![n] = q]
    BY <1>7
  <2> HIDE DEF q
  <2>4. wire' \in Seq(Packet) /\ Len(wire') = n
    BY <1>3, <1>4, <2>1, <2>2, <2>3
  <2>5. \A i \in 1..n : wire'[i] = IF i = n THEN q ELSE w[i]
    BY <1>3, <1>4, <2>1, <2>3
  <2> QED BY <1>2, <1>5, <2>1, <2>2, <2>4, <2>5
<1> QED BY <1>1, <1>6, <1>7 DEF w

(* Only connect begins a handshake.                                        *)
LEMMA NoHandshake ==
  ASSUME Base,
         \/ ConnectRefused \/ StartMission
         \/ SendConnects \/ SendPacket \/ SendGivesUp \/ ReceiveTest
         \/ Receive \/ ReceiveError \/ ReceiveErrorFoundOut
         \/ AckWaitEnter \/ AckTurn \/ AckTimeout \/ AckRead \/ RunTurn \/ RunDecode
  PROVE  ~At("handshake")'
<1> USE DEF Base
<1>1. /\ Frame("connect").at = "connect" /\ Frame("ackWait").at = "ackWait"
      /\ SendFrame("loop").at = "send" /\ SendFrame("configure").at = "send"
      /\ Frame("receiveLoop").at = "receiveLoop" /\ Frame("ackTurn").at = "ackTurn"
      /\ Frame("receive").at = "receive" /\ Frame("crashed").at = "crashed"
      /\ Frame("run").at = "run"
      /\ [Frame("ackTurn") EXCEPT !.turn = Top.turn + 1].at = "ackTurn"
  BY FrameIsFrame, SendFrameOk DEF Labels, Commands, Frame
<1>2. StackInv'
  BY BaseNext DEF Next, Node
<1> SUFFICES Top'.at # "handshake"
  BY <1>2, StackLengthNext
<1>3. CASE ConnectRefused \/ SendPacket \/ SendGivesUp \/ AckTimeout
  BY <1>3, ConnectStack, SendStack, AckTimeoutStack, PopLabel
<1>4. CASE StartMission
  BY <1>1, <1>4, MissionStack, PopLabel DEF Push
<1>5. CASE SendConnects
  BY <1>1, <1>5, SendStack DEF Push
<1>6. CASE ReceiveTest
  BY <1>1, <1>6, ReceiveTestStack, PopLabel DEF Push, Swap
<1>7. CASE Receive \/ ReceiveError \/ ReceiveErrorFoundOut
  <2>1. Top.at = "receiveLoop"
    BY <1>7, StackLength DEF Receive, ReceiveError, ReceiveErrorFoundOut, RecvFails
  <2> QED BY <1>7, <2>1, ReceiveStack, PopLabel DEF Top
<1>8. CASE AckWaitEnter \/ AckRead
  BY <1>1, <1>8, AckWaitStack, AckReadStack, PopLabel DEF Swap
<1>9. CASE AckTurn
  <2>1. CASE client # Null
    BY <1>1, <1>9, <2>1, AckTurnStack DEF Push
  <2>2. CASE client = Null
    <3>1. stack' = <<Frame("crashed")>>
      BY <1>9, <2>2, AckTurnStack
    <3>2. Top' = Frame("crashed")
      BY <3>1 DEF Top
    <3> QED BY <1>1, <3>2
  <2> QED BY <2>1, <2>2
<1>10. CASE RunTurn \/ RunDecode
  BY <1>1, <1>10, RunStack DEF Push, Swap
<1> QED BY <1>3, <1>4, <1>5, <1>6, <1>7, <1>8, <1>9, <1>10

(* Steps that receive and push nothing, outside of the handshake           *)
LEMMA DataInvQuiet ==
  ASSUME DataInv, ~At("handshake")',
         UNCHANGED <<created, rx, wire, serverVars, received, pushed>>,
         toServer' \in Seq(ToServer), state' \in {state, "noTCP"}
  PROVE  DataInv'
<1> USE DEF DataInv, serverVars
<1>1. DataType'
  BY DEF DataType
<1>2. WireInv'
  BY DEF WireInv
<1>3. HandshakeInv' /\ PushedWasReceived'
  BY DEF HandshakeInv, PushedWasReceived
<1>4. RxInv'
  BY DEF RxInv
<1> QED BY <1>1, <1>2, <1>3, <1>4

LEMMA DataInvNode ==
  ASSUME Base, DataInv,
         \/ StartMission \/ SendConnects \/ SendPacket \/ SendGivesUp \/ ReceiveTest
         \/ ReceiveError \/ ReceiveErrorFoundOut
         \/ AckWaitEnter \/ AckTurn \/ AckTimeout \/ AckRead \/ RunTurn
  PROVE  DataInv'
<1>1. ~At("handshake")'
  BY NoHandshake
<1>2. UNCHANGED <<created, rx, wire, serverVars, received, pushed>> /\ state' \in {state, "noTCP"}
  BY DEF StartMission, MissionSend, MissionWait, MissionDone, SendConnects, SendPacket, SendGivesUp,
         ReceiveTest, ReceiveError, ReceiveErrorFoundOut, AckWaitEnter, AckTurn, AckTimeout, AckRead, RunTurn
<1>3. toServer' \in Seq(ToServer)
  <2>1. toServer \in Seq(ToServer)
    BY DEF DataInv, DataType
  <2>2. CASE SendPacket
    <3>1. Top.command \in ToServer
      BY <2>2, SendStack DEF Base, ToServer
    <3> QED BY <2>1, <2>2, <3>1 DEF SendPacket, Send
  <2>3. CASE ~SendPacket
    BY <2>1, <2>3 DEF StartMission, MissionSend, MissionWait, MissionDone, SendConnects, SendGivesUp,
         ReceiveTest, ReceiveError, ReceiveErrorFoundOut, AckWaitEnter, AckTurn, AckTimeout, AckRead, RunTurn
  <2> QED BY <2>2, <2>3
<1> QED BY <1>1, <1>2, <1>3, DataInvQuiet

LEMMA DataInvDecode ==
  ASSUME Base, DataInv, RunDecode
  PROVE  DataInv'
<1> DEFINE p == IF Top.ptr = Null THEN NoPacket ELSE rx[Top.ptr]
<1> USE DEF DataInv, serverVars
<1>0. UNCHANGED <<created, rx, wire, toServer, serverVars, received, state>> /\ ~At("handshake")'
  BY NoHandshake DEF RunDecode
<1>1. Top.ptr \in Clients \cup {Null}
  BY StackLength DEF Base, FrameType
<1>2. Readable(p) => p.nr \in received
  BY <1>1, NoPacketFacts DEF RxInv
<1>3. received \subseteq 1..MaxData /\ pushed \in [1..MaxData -> Nat]
  BY DEF DataType
<1>4. pushed' = IF Readable(p) THEN [pushed EXCEPT ![p.nr] = @ + 1] ELSE pushed
  BY DEF RunDecode
<1> HIDE DEF p
<1>5. /\ pushed' \in [1..MaxData -> Nat]
      /\ \A n \in 1..MaxData : pushed'[n] = pushed[n] \/ n \in received
  <2>1. CASE Readable(p)
    <3>1. p.nr \in received /\ p.nr \in 1..MaxData /\ pushed[p.nr] \in Nat
      BY <1>2, <1>3, <2>1
    <3>2. pushed' = [pushed EXCEPT ![p.nr] = pushed[p.nr] + 1] /\ pushed[p.nr] + 1 \in Nat
      BY <1>4, <2>1, <3>1
    <3> QED BY <1>3, <3>1, <3>2
  <2>2. CASE ~Readable(p)
    BY <1>3, <1>4, <2>2
  <2> QED BY <2>1, <2>2
<1>6. DataType'
  BY <1>0, <1>5 DEF DataType
<1>7. WireInv' /\ HandshakeInv'
  BY <1>0 DEF WireInv, HandshakeInv
<1>8. PushedWasReceived'
  BY <1>0, <1>5 DEF PushedWasReceived
<1>9. RxInv'
  BY <1>0 DEF RxInv
<1> QED BY <1>6, <1>7, <1>8, <1>9

LEMMA DataInvConnect ==
  ASSUME Base, DataInv, ConnectRefused \/ ConnectAccepted
  PROVE  DataInv'
<1> USE DEF DataInv
<1>1. /\ UNCHANGED <<rx, sentData, received, pushed>> /\ confirmed' = FALSE /\ mission' = {}
      /\ toServer' = <<>> /\ state' # "active" /\ created' = created + 1
  BY DEF ConnectRefused, ConnectAccepted, NewClient
<1>2. wire' \in Seq(Packet) /\ \A i \in 1..Len(wire') : wire'[i].kind = "greeting"
  <2>1. CASE ConnectRefused
    <3>1. wire' = <<>>
      BY <2>1 DEF ConnectRefused
    <3> QED BY <3>1
  <2>2. CASE ConnectAccepted
    <3> DEFINE p == [kind |-> "greeting", nr |-> 0, complete |-> TRUE]
    <3>1. p \in Packet /\ p.kind = "greeting"
      BY ServerPacket, Bounds DEF LinkKinds
    <3>2. wire' = <<p>>
      BY <2>2 DEF ConnectAccepted
    <3> HIDE DEF p
    <3> QED BY <3>1, <3>2
  <2> QED BY <2>1, <2>2
<1>3. toServer' \in Seq(ToServer) /\ Len(toServer') = 0
  BY <1>1
<1>4. DataType'
  BY <1>1, <1>2, <1>3 DEF DataType
<1>5. WireInv'
  BY <1>1, <1>2 DEF WireInv
<1>6. HandshakeInv'
  BY <1>1, <1>2, <1>3 DEF HandshakeInv
<1>7. PushedWasReceived'
  BY <1>1 DEF PushedWasReceived
<1>8. RxInv'
  <2>1. created \in Nat
    BY ClientRange DEF Base
  <2>2. created' > created /\ \A c \in Clients : c > created' => c > created
    BY <1>1, <2>1, Bounds
  <2>3. \A c \in Clients : /\ Readable(rx'[c]) => rx'[c].nr \in received'
                           /\ c > created' => rx'[c] = NoPacket
    BY <1>1, <2>2 DEF RxInv
  <2>4. created' \in Clients => rx'[created'] = NoPacket
    BY <1>1, <2>2 DEF RxInv
  <2> QED BY <2>3, <2>4, NoPacketFacts DEF RxInv
<1> QED BY <1>4, <1>5, <1>6, <1>7, <1>8

(* The effect of a packet that is taken from the wire, but for what the    *)
(* caller does with it                                                     *)
LEMMA TakenOk ==
  ASSUME Base, DataInv, NEW p, Delivered(p)
  PROVE  /\ p \in Packet /\ rx' \in [Clients -> Packet \cup {NoPacket}]
         /\ \A c \in Clients : rx'[c] = IF c = created THEN p ELSE rx[c]
         /\ wire' \in Seq(Packet) /\ Len(wire') = Len(wire) - 1 /\ p = wire[1] /\ Len(wire) \in Nat
         /\ p.kind = "confirm" => confirmed
         /\ p.kind = "data" => p.nr \in 1..sentData /\ \A m \in received : m < p.nr
         /\ \A i \in 1..Len(wire') :
              /\ wire'[i] = wire[i + 1] /\ i + 1 \in 1..Len(wire)
              /\ wire'[i].kind = "confirm" => confirmed
              /\ wire'[i].kind = "data" =>
                   /\ wire'[i].nr \in 1..sentData
                   /\ \A m \in received : m < wire'[i].nr
                   /\ p.kind = "data" => p.nr < wire'[i].nr
         /\ \A i, j \in 1..Len(wire') :
              i < j /\ wire'[i].kind = "data" /\ wire'[j].kind = "data" => wire'[i].nr < wire'[j].nr
<1> USE DEF DataInv
<1>1. /\ p \in Packet /\ wire' \in Seq(Packet) /\ Len(wire) \in Nat /\ Len(wire) >= 1
      /\ Len(wire') = Len(wire) - 1 /\ p = wire[1]
      /\ \A i \in 1..Len(wire') : wire'[i] = wire[i + 1]
  BY WireTaken
<1>2. 1 \in 1..Len(wire) /\ \A i \in 1..Len(wire') : i + 1 \in 1..Len(wire) /\ 1 < i + 1
  BY <1>1
<1>3. rx \in [Clients -> Packet \cup {NoPacket}] /\ rx' = [rx EXCEPT ![created] = p]
  BY DEF DataType, Delivered
<1>4. /\ rx' \in [Clients -> Packet \cup {NoPacket}]
      /\ \A c \in Clients : rx'[c] = IF c = created THEN p ELSE rx[c]
  BY <1>1, <1>3
<1>5. /\ p.kind = "confirm" => confirmed
      /\ p.kind = "data" => p.nr \in 1..sentData /\ \A m \in received : m < p.nr
  BY <1>1, <1>2 DEF WireInv
<1>6. ASSUME NEW i \in 1..Len(wire')
      PROVE  /\ wire'[i] = wire[i + 1] /\ i + 1 \in 1..Len(wire)
             /\ wire'[i].kind = "confirm" => confirmed
             /\ wire'[i].kind = "data" =>
                  /\ wire'[i].nr \in 1..sentData
                  /\ \A m \in received : m < wire'[i].nr
                  /\ p.kind = "data" => p.nr < wire'[i].nr
  BY <1>1, <1>2 DEF WireInv
<1>7. ASSUME NEW i \in 1..Len(wire'), NEW j \in 1..Len(wire'),
             i < j, wire'[i].kind = "data", wire'[j].kind = "data"
      PROVE  wire'[i].nr < wire'[j].nr
  <2>1. i + 1 \in 1..Len(wire) /\ j + 1 \in 1..Len(wire) /\ i + 1 < j + 1
    BY <1>1, <1>2, <1>7
  <2>2. wire'[i] = wire[i + 1] /\ wire'[j] = wire[j + 1]
    BY <1>1
  <2> QED BY <1>7, <2>1, <2>2 DEF WireInv
<1> QED BY <1>1, <1>4, <1>5, <1>6, <1>7

LEMMA DataInvReceive ==
  ASSUME Base, DataInv, Receive
  PROVE  DataInv'
<1> USE DEF DataInv
<1>1. PICK p \in Packet :
        /\ p.complete /\ Delivered(p)
        /\ received' = IF p.kind = "data" THEN received \cup {p.nr} ELSE received
  BY DEF Receive
<1>2. UNCHANGED <<created, toServer, confirmed, mission, sentData, pushed>>
      /\ state' \in {state, "noTCP"} /\ ~At("handshake")'
  BY NoHandshake DEF Receive, serverVars, KeepAlive
<1>3. /\ rx' \in [Clients -> Packet \cup {NoPacket}]
      /\ \A c \in Clients : rx'[c] = IF c = created THEN p ELSE rx[c]
      /\ wire' \in Seq(Packet)
      /\ p.kind = "data" => p.nr \in 1..sentData /\ \A m \in received : m < p.nr
      /\ \A i \in 1..Len(wire') :
           /\ wire'[i].kind = "confirm" => confirmed
           /\ wire'[i].kind = "data" =>
                /\ wire'[i].nr \in 1..sentData
                /\ \A m \in received : m < wire'[i].nr
                /\ p.kind = "data" => p.nr < wire'[i].nr
      /\ \A i, j \in 1..Len(wire') :
           i < j /\ wire'[i].kind = "data" /\ wire'[j].kind = "data" => wire'[i].nr < wire'[j].nr
  BY <1>1, TakenOk
<1>4. sentData \in 0..MaxData /\ MaxData \in Nat /\ received \subseteq 1..MaxData
  BY Bounds DEF DataType
<1>5. \A m \in received' : m \in received \/ (p.kind = "data" /\ m = p.nr)
  BY <1>1
<1>6. received' \subseteq 1..MaxData /\ \A m \in received' : m <= sentData
  <2> SUFFICES ASSUME NEW m \in received' PROVE m \in 1..MaxData /\ m <= sentData
    OBVIOUS
  <2>1. CASE m \in received
    BY <1>4, <2>1 DEF WireInv
  <2>2. CASE p.kind = "data" /\ m = p.nr
    BY <1>3, <1>4, <2>2
  <2> QED BY <1>5, <2>1, <2>2
<1>7. DataType'
  BY <1>2, <1>3, <1>6 DEF DataType
<1>8. WireInv'
  <2>1. \A i \in 1..Len(wire') : wire'[i].kind = "data" => \A m \in received' : m < wire'[i].nr
    BY <1>3, <1>5
  <2> QED BY <1>2, <1>3, <1>6, <2>1 DEF WireInv
<1>9. HandshakeInv'
  BY <1>2 DEF HandshakeInv
<1>10. received \subseteq received' /\ PushedWasReceived'
  BY <1>1, <1>2 DEF PushedWasReceived
<1>11. RxInv'
  <2>1. created \in Nat
    BY ClientRange DEF Base
  <2>2. Readable(p) => p.nr \in received' /\ \A m \in received' : m <= p.nr
    BY <1>1, <1>3, <1>4, <1>5 DEF Readable
  <2>3. \A c \in Clients : /\ Readable(rx'[c]) => rx'[c].nr \in received'
                           /\ c > created => rx'[c] = NoPacket
    BY <1>3, <1>10, <2>1, <2>2, Bounds DEF RxInv
  <2>4. created \in Clients => rx'[created] = p
    BY <1>3
  <2> QED BY <1>2, <2>2, <2>3, <2>4 DEF RxInv
<1> QED BY <1>7, <1>8, <1>9, <1>10, <1>11

(* A packet is taken that is not a complete capture.                       *)
LEMMA DataInvNoCapture ==
  ASSUME Base, DataInv, NEW p, Delivered(p), ~Readable(p),
         UNCHANGED <<created, confirmed, mission, sentData, received, pushed>>,
         toServer' \in Seq(ToServer),
         At("handshake")' => At("handshake"),
         At("handshake")' => \A i \in 1..Len(toServer') : toServer'[i] \notin Commands,
         state' = "active" => confirmed
  PROVE  DataInv'
<1> USE DEF DataInv
<1>3. /\ rx' \in [Clients -> Packet \cup {NoPacket}]
      /\ \A c \in Clients : rx'[c] = IF c = created THEN p ELSE rx[c]
      /\ wire' \in Seq(Packet)
      /\ \A i \in 1..Len(wire') :
           /\ wire'[i] = wire[i + 1] /\ i + 1 \in 1..Len(wire)
           /\ wire'[i].kind = "confirm" => confirmed
           /\ wire'[i].kind = "data" =>
                /\ wire'[i].nr \in 1..sentData
                /\ \A m \in received : m < wire'[i].nr
      /\ \A i, j \in 1..Len(wire') :
           i < j /\ wire'[i].kind = "data" /\ wire'[j].kind = "data" => wire'[i].nr < wire'[j].nr
  BY TakenOk
<1>7. DataType'
  BY <1>3 DEF DataType
<1>8. WireInv'
  BY <1>3 DEF WireInv
<1>9. HandshakeInv'
  BY <1>3 DEF HandshakeInv
<1>10. PushedWasReceived'
  BY DEF PushedWasReceived
<1>11. RxInv'
  <2>1. created \in Nat
    BY ClientRange DEF Base
  <2>3. \A c \in Clients : /\ Readable(rx'[c]) => rx'[c].nr \in received'
                           /\ c > created => rx'[c] = NoPacket
    BY <1>3, <2>1, Bounds, SMTT(30) DEF RxInv
  <2>4. created \in Clients => rx'[created] = p
    BY <1>3
  <2> QED BY <2>3, <2>4 DEF RxInv
<1> QED BY <1>7, <1>8, <1>9, <1>10, <1>11

LEMMA DataInvHeader ==
  ASSUME Base, DataInv, ReceiveHeader
  PROVE  DataInv'
<1>1. PICK p \in Packet : ~p.complete /\ Delivered(p)
  BY DEF ReceiveHeader
<1>2. /\ UNCHANGED <<created, confirmed, mission, sentData, received, pushed, toServer, state>>
      /\ (At("handshake")' => At("handshake"))
  BY DEF ReceiveHeader, serverVars, At, Top
<1>3. ~Readable(p) /\ toServer \in Seq(ToServer) /\ (state = "active" => confirmed)
  BY <1>1 DEF Readable, DataInv, DataType, WireInv
<1>4. At("handshake")' => \A i \in 1..Len(toServer') : toServer'[i] \notin Commands
  BY <1>2 DEF DataInv, HandshakeInv
<1> QED BY <1>1, <1>2, <1>3, <1>4, DataInvNoCapture

LEMMA DataInvHandshake ==
  ASSUME Base, DataInv, Handshake
  PROVE  DataInv'
<1>0. At("handshake") /\ UNCHANGED <<created, confirmed, mission, sentData, received, pushed>>
  BY DEF Handshake, serverVars
<1>1. PICK p \in Packet : p.complete /\ Delivered(p) /\ Answer(p)
  BY DEF Handshake
<1>2. Len(wire) >= 1 /\ p = wire[1] /\ (p.kind = "confirm" => confirmed) /\ Len(wire) \in Nat
  <2>1. Len(wire) >= 1
    BY <1>1, WireTaken DEF DataInv
  <2>2. p = wire[1] /\ (p.kind = "confirm" => confirmed) /\ Len(wire) \in Nat
    BY <1>1, TakenOk
  <2> QED BY <2>1, <2>2
<1>3. p.kind # "data"
  <2>1. 1 \in 1..Len(wire)
    BY <1>2
  <2> QED BY <1>0, <1>2, <2>1 DEF DataInv, HandshakeInv
<1>4. toServer \in Seq(ToServer) /\ \A i \in 1..Len(toServer) : toServer[i] \notin Commands
  BY <1>0 DEF DataInv, DataType, HandshakeInv
<1>5. \/ toServer' = toServer
      \/ toServer' = Append(toServer, "request")
      \/ toServer' = Append(toServer, "response")
  BY <1>1 DEF Answer, Send
<1>6. toServer' \in Seq(ToServer) /\ \A i \in 1..Len(toServer') : toServer'[i] \notin Commands
  <2>1. ASSUME NEW x \in {"request", "response"}, toServer' = Append(toServer, x)
        PROVE  toServer' \in Seq(ToServer) /\ \A i \in 1..Len(toServer') : toServer'[i] \notin Commands
    <3>1. x \in ToServer /\ x \notin Commands
      BY DEF ToServer, Commands
    <3>2. /\ toServer' \in Seq(ToServer) /\ Len(toServer') = Len(toServer) + 1 /\ Len(toServer) \in Nat
          /\ \A i \in 1..Len(toServer) : toServer'[i] = toServer[i]
          /\ toServer'[Len(toServer) + 1] = x
      BY <1>4, <2>1, <3>1
    <3> QED BY <1>4, <3>1, <3>2
  <2> QED BY <1>4, <1>5, <2>1
<1>7. state' = "active" => confirmed
  <2>1. state' = "active" => p.kind = "confirm" \/ state' = state
    BY <1>1 DEF Answer
  <2> QED BY <1>2, <2>1 DEF DataInv, WireInv
<1> QED BY <1>0, <1>1, <1>3, <1>6, <1>7, DataInvNoCapture DEF Readable

(* The server and the network                                              *)
LEMMA DataInvPut ==
  ASSUME DataInv, NEW k \in LinkKinds \cup {"ack"}, ToClient(k, 0), k = "confirm" => confirmed',
         UNCHANGED <<created, stack, state, rx, sentData, received, pushed>>,
         confirmed' \in BOOLEAN, confirmed => confirmed',
         mission' \subseteq Commands, toServer' \in Seq(ToServer),
         At("handshake") => mission' = {} /\ \A i \in 1..Len(toServer') : toServer'[i] \notin Commands
  PROVE  DataInv'
<1> USE DEF DataInv
<1>1. /\ wire' \in Seq(Packet) /\ Len(wire) \in Nat /\ Len(wire') = Len(wire) + 1
      /\ \A i \in 1..Len(wire) : wire'[i] = wire[i]
      /\ wire'[Len(wire) + 1].kind = k
  <2>1. 0 \in 0..MaxData /\ k \in LinkKinds \cup {"ack", "data"}
    BY Bounds
  <2> QED BY <2>1, WirePut
<1>2. k # "data"
  BY DEF LinkKinds
<1>3. \A i \in 1..Len(wire') : \/ i \in 1..Len(wire) /\ wire'[i] = wire[i]
                               \/ wire'[i].kind = k
  <2> TAKE i \in 1..Len(wire')
  <2>1. CASE i = Len(wire) + 1
    BY <1>1, <2>1
  <2>2. CASE i # Len(wire) + 1
    <3>1. i \in 1..Len(wire)
      BY <1>1, <2>2
    <3> QED BY <1>1, <3>1
  <2> QED BY <2>1, <2>2
<1>4. DataType'
  BY <1>1 DEF DataType
<1>5. WireInv'
  <2>1. \A i \in 1..Len(wire') :
          /\ wire'[i].kind = "confirm" => confirmed'
          /\ wire'[i].kind = "data" => /\ wire'[i].nr \in 1..sentData'
                                       /\ \A m \in received' : m < wire'[i].nr
    BY <1>2, <1>3 DEF WireInv
  <2>2. \A i, j \in 1..Len(wire') :
          i < j /\ wire'[i].kind = "data" /\ wire'[j].kind = "data" => wire'[i].nr < wire'[j].nr
    BY <1>2, <1>3 DEF WireInv
  <2> QED BY <2>1, <2>2 DEF WireInv
<1>6. HandshakeInv'
  <2>1. At("handshake")' <=> At("handshake")
    BY DEF At, Top
  <2> QED BY <1>2, <1>3, <2>1 DEF HandshakeInv
<1>7. RxInv' /\ PushedWasReceived'
  BY DEF RxInv, PushedWasReceived
<1> QED BY <1>4, <1>5, <1>6, <1>7

LEMMA DataInvServer ==
  ASSUME DataInv, ServerHandles \/ ServerAlive
  PROVE  DataInv'
<1>1. CASE ServerHandles
  <2>0. /\ UNCHANGED <<created, stack, state, rx, sentData, received, pushed>>
        /\ toServer \in Seq(ToServer) /\ toServer # <<>> /\ toServer' = Tail(toServer)
        /\ confirmed \in BOOLEAN /\ mission \subseteq Commands
    BY <1>1 DEF ServerHandles, ClientUnchanged, DataInv, DataType
  <2>1. /\ toServer' \in Seq(ToServer) /\ Len(toServer) \in Nat /\ Len(toServer) >= 1
        /\ Len(toServer') = Len(toServer) - 1
        /\ Head(toServer) = toServer[1]
        /\ \A i \in 1..Len(toServer') : toServer'[i] = toServer[i + 1]
    BY <2>0
  <2>2. At("handshake") => /\ mission = {} /\ Head(toServer) \notin Commands
                           /\ \A i \in 1..Len(toServer') : toServer'[i] \notin Commands
    <3> SUFFICES ASSUME At("handshake")
                 PROVE  /\ mission = {} /\ Head(toServer) \notin Commands
                        /\ \A i \in 1..Len(toServer') : toServer'[i] \notin Commands
      OBVIOUS
    <3>1. mission = {} /\ \A i \in 1..Len(toServer) : toServer[i] \notin Commands
      BY DEF DataInv, HandshakeInv
    <3>2. 1 \in 1..Len(toServer) /\ \A i \in 1..Len(toServer') : i + 1 \in 1..Len(toServer)
      BY <2>1
    <3> QED BY <2>1, <3>1, <3>2
  <2>3. CASE Head(toServer) = "request" /\ ToClient("authRequest", 0) /\ UNCHANGED <<confirmed, mission>>
    <3>1. "authRequest" \in LinkKinds \cup {"ack"} /\ "authRequest" # "confirm"
      BY DEF LinkKinds
    <3> QED BY <2>0, <2>1, <2>2, <2>3, <3>1, DataInvPut
  <2>4. CASE Head(toServer) = "response" /\ confirmed' = TRUE /\ ToClient("confirm", 0) /\ UNCHANGED mission
    <3>1. "confirm" \in LinkKinds \cup {"ack"}
      BY DEF LinkKinds
    <3> QED BY <2>0, <2>1, <2>2, <2>4, <3>1, DataInvPut
  <2>5. CASE /\ Head(toServer) \in Commands /\ mission' = mission \cup {Head(toServer)}
             /\ ToClient("ack", 0) /\ UNCHANGED confirmed
    <3>1. "ack" \in LinkKinds \cup {"ack"} /\ "ack" # "confirm" /\ mission' \subseteq Commands
      BY <2>0, <2>5 DEF LinkKinds
    <3>2. ~At("handshake")
      BY <2>2, <2>5
    <3> QED BY <2>0, <2>1, <2>5, <3>1, <3>2, DataInvPut
  <2> QED BY <1>1, <2>3, <2>4, <2>5 DEF ServerHandles
<1>2. CASE ServerAlive
  <2>1. /\ UNCHANGED <<created, stack, state, rx, sentData, received, pushed, confirmed, mission, toServer>>
        /\ ToClient("alive", 0)
    BY <1>2 DEF ServerAlive, ClientUnchanged, serverVars
  <2>2. "alive" \in LinkKinds \cup {"ack"} /\ "alive" # "confirm"
    BY DEF LinkKinds
  <2>3. /\ confirmed' \in BOOLEAN /\ mission' \subseteq Commands /\ toServer' \in Seq(ToServer)
        /\ At("handshake") => mission' = {} /\ \A i \in 1..Len(toServer') : toServer'[i] \notin Commands
    BY <2>1 DEF DataInv, DataType, HandshakeInv
  <2> QED BY <2>1, <2>2, <2>3, DataInvPut
<1> QED BY <1>1, <1>2

LEMMA DataInvData ==
  ASSUME DataInv, ServerData
  PROVE  DataInv'
<1> USE DEF DataInv
<1>0. /\ UNCHANGED <<created, stack, state, rx, received, pushed, confirmed, mission, toServer>>
      /\ ToClient("data", sentData + 1) /\ sentData' = sentData + 1 /\ mission # {}
      /\ sentData \in 0..MaxData /\ sentData + 1 \in 0..MaxData /\ sentData \in Nat
  BY Bounds DEF ServerData, ClientUnchanged, DataType
<1>1. /\ wire' \in Seq(Packet) /\ Len(wire) \in Nat /\ Len(wire') = Len(wire) + 1
      /\ \A i \in 1..Len(wire) : wire'[i] = wire[i]
      /\ wire'[Len(wire) + 1].kind = "data" /\ wire'[Len(wire) + 1].nr = sentData + 1
  BY <1>0, WirePut
<1>2. received \subseteq 1..MaxData /\ \A m \in received : m <= sentData /\ m \in Int
  BY Bounds DEF DataType, WireInv
<1>3. ASSUME NEW i \in 1..Len(wire')
      PROVE  \/ i \in 1..Len(wire) /\ wire'[i] = wire[i]
             \/ i = Len(wire) + 1 /\ wire'[i].kind = "data" /\ wire'[i].nr = sentData + 1
  <2>1. CASE i = Len(wire) + 1
    BY <1>1, <2>1
  <2>2. CASE i # Len(wire) + 1
    <3>1. i \in 1..Len(wire)
      BY <1>1, <2>2
    <3> QED BY <1>1, <3>1
  <2> QED BY <2>1, <2>2
<1>4. DataType'
  BY <1>0, <1>1 DEF DataType
<1>5. WireInv'
  <2>1. ASSUME NEW i \in 1..Len(wire')
        PROVE  /\ wire'[i].kind = "confirm" => confirmed'
               /\ wire'[i].kind = "data" => /\ wire'[i].nr \in 1..sentData'
                                            /\ \A m \in received' : m < wire'[i].nr
    <3>1. CASE i \in 1..Len(wire) /\ wire'[i] = wire[i]
      BY <1>0, <3>1 DEF WireInv
    <3>2. CASE wire'[i].kind = "data" /\ wire'[i].nr = sentData + 1
      BY <1>0, <1>2, <3>2
    <3> QED BY <1>3, <3>1, <3>2
  <2>2. ASSUME NEW i \in 1..Len(wire'), NEW j \in 1..Len(wire'),
               i < j, wire'[i].kind = "data", wire'[j].kind = "data"
        PROVE  wire'[i].nr < wire'[j].nr
    <3>1. i \in 1..Len(wire) /\ wire'[i] = wire[i]
      BY <1>1, <1>3, <2>2
    <3>2. CASE j \in 1..Len(wire) /\ wire'[j] = wire[j]
      BY <2>2, <3>1, <3>2 DEF WireInv
    <3>3. CASE wire'[j].nr = sentData + 1
      BY <1>0, <2>2, <3>1, <3>3 DEF WireInv
    <3> QED BY <1>3, <3>2, <3>3
  <2>3. \A m \in received' : m <= sentData'
    BY <1>0, <1>2
  <2> QED BY <1>0, <2>1, <2>2, <2>3 DEF WireInv
<1>6. HandshakeInv'
  <2>1. At("handshake")' <=> At("handshake")
    BY <1>0 DEF At, Top
  <2> QED BY <1>0, <2>1 DEF HandshakeInv
<1>7. RxInv' /\ PushedWasReceived'
  BY <1>0 DEF RxInv, PushedWasReceived
<1> QED BY <1>4, <1>5, <1>6, <1>7

LEMMA DataInvBreak ==
  ASSUME DataInv, Break
  PROVE  DataInv'
<1> USE DEF DataInv
<1>0. /\ UNCHANGED <<created, stack, state, rx, received, pushed, confirmed, sentData>>
      /\ mission' = {} /\ toServer' = <<>>
  BY DEF Break, ClientUnchanged
<1>1. /\ wire' \in Seq(Packet) /\ Len(wire) \in Nat /\ Len(wire') \in 0..Len(wire)
      /\ \A i \in 1..Len(wire') : wire'[i].kind = wire[i].kind /\ wire'[i].nr = wire[i].nr
  BY WireCut
<1>2. \A i \in 1..Len(wire') : i \in 1..Len(wire)
  BY <1>1
<1>3. toServer' \in Seq(ToServer) /\ Len(toServer') = 0
  BY <1>0
<1>4. DataType'
  BY <1>0, <1>1, <1>3 DEF DataType
<1>5. WireInv'
  BY <1>0, <1>1, <1>2 DEF WireInv
<1>6. HandshakeInv'
  <2>1. At("handshake")' <=> At("handshake")
    BY <1>0 DEF At, Top
  <2> QED BY <1>0, <1>1, <1>2, <1>3, <2>1 DEF HandshakeInv
<1>7. RxInv' /\ PushedWasReceived'
  BY <1>0 DEF RxInv, PushedWasReceived
<1> QED BY <1>4, <1>5, <1>6, <1>7

LEMMA DataInvInit == Init => DataInv
<1> SUFFICES ASSUME Init PROVE DataInv
  OBVIOUS
<1>1. wire = <<>> /\ toServer = <<>> /\ Len(wire) = 0 /\ Len(toServer) = 0
  BY DEF Init
<1>2. wire \in Seq(Packet) /\ toServer \in Seq(ToServer)
  BY <1>1
<1>3. DataType
  <2>1. rx \in [Clients -> Packet \cup {NoPacket}] /\ pushed \in [1..MaxData -> Nat]
    BY DEF Init
  <2>2. confirmed \in BOOLEAN /\ mission \subseteq Commands /\ received \subseteq 1..MaxData
    BY DEF Init
  <2>3. sentData \in 0..MaxData
    BY Bounds DEF Init
  <2> QED BY <1>2, <2>1, <2>2, <2>3 DEF DataType
<1>4. WireInv
  BY <1>1 DEF Init, WireInv
<1>5. HandshakeInv
  BY <1>1 DEF Init, HandshakeInv
<1>6. RxInv
  BY NoPacketFacts, Bounds DEF Init, RxInv
<1>7. PushedWasReceived
  BY DEF Init, PushedWasReceived
<1> QED BY <1>3, <1>4, <1>5, <1>6, <1>7 DEF DataInv

LEMMA DataInvNext == Base /\ DataInv /\ [Next]_vars => DataInv'
<1> SUFFICES ASSUME Base, DataInv, [Next]_vars PROVE DataInv'
  OBVIOUS
<1>1. CASE UNCHANGED vars
  BY <1>1 DEF vars, DataInv, DataType, WireInv, HandshakeInv, RxInv, PushedWasReceived, At, Top
<1>2. CASE ConnectRefused \/ ConnectAccepted
  BY <1>2, DataInvConnect
<1>3. CASE Handshake
  BY <1>3, DataInvHandshake
<1>4. CASE Receive
  BY <1>4, DataInvReceive
<1>5. CASE ReceiveHeader
  BY <1>5, DataInvHeader
<1>6. CASE RunDecode
  BY <1>6, DataInvDecode
<1>7. CASE \/ StartMission \/ SendConnects \/ SendPacket \/ SendGivesUp \/ ReceiveTest
           \/ ReceiveError \/ ReceiveErrorFoundOut
           \/ AckWaitEnter \/ AckTurn \/ AckTimeout \/ AckRead \/ RunTurn
  BY <1>7, DataInvNode
<1>8. CASE ServerHandles \/ ServerAlive
  BY <1>8, DataInvServer
<1>9. CASE ServerData
  BY <1>9, DataInvData
<1>10. CASE Break
  BY <1>10, DataInvBreak
<1> QED BY <1>1, <1>2, <1>3, <1>4, <1>5, <1>6, <1>7, <1>8, <1>9, <1>10 DEF Next, Node

(* What is on the way, and what was received and pushed of it, stays in     *)
(* order whatever is lost (node.cpp, packets.c).                            *)
THEOREM DataHolds == Spec => [](Base /\ DataInv)
BY BaseInit, BaseNext, DataInvInit, DataInvNext, PTL DEF Spec

-----------------------------------------------------------------------------
(* The recursion of receive_packet, connect and startMission               *)
Levels(s) == {i \in 1..Len(s) : s[i].at \in MissionLabels}
RecursionInv ==
  Cardinality(Levels(stack)) + (IF At("handshake") THEN 1 ELSE 0)
    <= breaks + (IF link = "up" THEN 1 ELSE 0)

(* How the levels change when the top of the stack is replaced *)
LEMMA LevelsFinite ==
  ASSUME NEW n \in Nat, NEW M \in SUBSET (1..n)
  PROVE  IsFiniteSet(M) /\ Cardinality(M) \in Nat
<1>1. IsFiniteSet(1..n)
  BY FS_Interval
<1>2. IsFiniteSet(M)
  BY <1>1, FS_Subset
<1> QED BY <1>2, FS_CardinalityType

Below == {i \in 1..Len(stack) - 1 : stack[i].at \in MissionLabels}

LEMMA LevelsOfTop ==
  ASSUME StackInv
  PROVE  /\ Cardinality(Below) \in Nat
         /\ Cardinality(Levels(stack)) = Cardinality(Below) + (IF Top.at \in MissionLabels THEN 1 ELSE 0)
<1>1. Len(stack) \in Nat /\ Len(stack) >= 1 /\ Len(stack) - 1 \in Nat
  BY StackLength
<1>2. Below \in SUBSET (1..Len(stack) - 1)
  BY DEF Below
<1>30. Len(stack) \notin Below
  BY <1>1 DEF Below
<1>31. IsFiniteSet(Below) /\ Cardinality(Below) \in Nat
  BY <1>1, <1>2, LevelsFinite
<1>3. IsFiniteSet(Below) /\ Cardinality(Below) \in Nat /\ Len(stack) \notin Below
  BY <1>30, <1>31
<1>4. CASE Top.at \in MissionLabels
  <2>1. Levels(stack) = Below \cup {Len(stack)}
    BY <1>1, <1>4 DEF Levels, Below, Top
  <2> QED BY <1>3, <1>4, <2>1, FS_AddElement
<1>5. CASE Top.at \notin MissionLabels
  <2>1. Levels(stack) = Below
    BY <1>1, <1>5 DEF Levels, Below, Top
  <2> QED BY <1>3, <1>5, <2>1
<1> QED BY <1>3, <1>4, <1>5

LEMMA LevelsPop ==
  ASSUME StackInv, Pop
  PROVE  Cardinality(Levels(stack')) = Cardinality(Below)
<1>1. Len(stack') = Len(stack) - 1 /\ \A i \in 1..Len(stack) - 1 : stack'[i] = stack[i]
  BY DEF Pop
<1>2. Levels(stack') = Below
  BY <1>1 DEF Levels, Below
<1> QED BY <1>2

LEMMA LevelsSwap ==
  ASSUME StackInv, NEW f, Swap(f)
  PROVE  Cardinality(Levels(stack')) = Cardinality(Below) + (IF f.at \in MissionLabels THEN 1 ELSE 0)
<1>1. Len(stack) \in Nat /\ Len(stack) >= 1 /\ Len(stack) - 1 \in Nat
  BY StackLength
<1>2. Below \in SUBSET (1..Len(stack) - 1)
  BY DEF Below
<1>30. Len(stack) \notin Below
  BY <1>1 DEF Below
<1>31. IsFiniteSet(Below) /\ Cardinality(Below) \in Nat
  BY <1>1, <1>2, LevelsFinite
<1>3. IsFiniteSet(Below) /\ Cardinality(Below) \in Nat /\ Len(stack) \notin Below
  BY <1>30, <1>31
<1>4. /\ Len(stack') = Len(stack) /\ \A i \in 1..Len(stack) - 1 : stack'[i] = stack[i]
      /\ stack'[Len(stack)] = f
  BY DEF Swap
<1>5. CASE f.at \in MissionLabels
  <2>1. Levels(stack') = Below \cup {Len(stack)}
    BY <1>1, <1>4, <1>5 DEF Levels, Below
  <2> QED BY <1>3, <1>5, <2>1, FS_AddElement
<1>6. CASE f.at \notin MissionLabels
  <2>1. Levels(stack') = Below
    BY <1>1, <1>4, <1>6 DEF Levels, Below
  <2> QED BY <1>3, <1>6, <2>1
<1> QED BY <1>5, <1>6

LEMMA LevelsPush ==
  ASSUME StackInv, NEW f, NEW g, Push(f, g), g.at \notin MissionLabels
  PROVE  Cardinality(Levels(stack')) = Cardinality(Below) + (IF f.at \in MissionLabels THEN 1 ELSE 0)
<1>1. Len(stack) \in Nat /\ Len(stack) >= 1 /\ Len(stack) - 1 \in Nat
  BY StackLength
<1>2. Below \in SUBSET (1..Len(stack) - 1)
  BY DEF Below
<1>30. Len(stack) \notin Below
  BY <1>1 DEF Below
<1>31. IsFiniteSet(Below) /\ Cardinality(Below) \in Nat
  BY <1>1, <1>2, LevelsFinite
<1>3. IsFiniteSet(Below) /\ Cardinality(Below) \in Nat /\ Len(stack) \notin Below
  BY <1>30, <1>31
<1>4. /\ Len(stack') = Len(stack) + 1 /\ \A i \in 1..Len(stack) - 1 : stack'[i] = stack[i]
      /\ stack'[Len(stack)] = f /\ stack'[Len(stack) + 1] = g
  BY DEF Push
<1>5. CASE f.at \in MissionLabels
  <2>1. Levels(stack') = Below \cup {Len(stack)}
    BY <1>1, <1>4, <1>5 DEF Levels, Below
  <2> QED BY <1>3, <1>5, <2>1, FS_AddElement
<1>6. CASE f.at \notin MissionLabels
  <2>1. Levels(stack') = Below
    BY <1>1, <1>4, <1>6 DEF Levels, Below
  <2> QED BY <1>3, <1>6, <2>1
<1> QED BY <1>5, <1>6

LEMMA RecursionInit == Init => RecursionInv
<1> SUFFICES ASSUME Init PROVE RecursionInv
  OBVIOUS
<1>1. /\ Frame("run").at = "run" /\ Frame("connect").at = "connect"
  BY FrameIsFrame DEF Labels
<1> DEFINE f == Frame("run")  g == Frame("connect")
<1>2. stack = <<f, g>> /\ breaks = 0 /\ link = "none"
  BY DEF Init
<1> HIDE DEF f, g
<1>3. Len(stack) = 2 /\ stack[1] = f /\ stack[2] = g
  BY <1>2
<1>4. Levels(stack) = {} /\ ~At("handshake")
  BY <1>1, <1>3 DEF Levels, MissionLabels, At, Top, f, g
<1> QED BY <1>2, <1>4, FS_EmptySet DEF RecursionInv

(* Steps outside of a handshake that do not add a level                    *)
LEMMA RecursionNoMore ==
  ASSUME Base, RecursionInv, ~At("handshake")', UNCHANGED <<breaks, link>>,
         Cardinality(Levels(stack')) \in Nat,
         Cardinality(Levels(stack')) <= Cardinality(Levels(stack))
  PROVE  RecursionInv'
<1>1. Cardinality(Levels(stack)) \in Nat
  BY LevelsOfTop DEF Base
<1>2. breaks \in Int
  BY Bounds DEF Base, ClientInv
<1> QED BY <1>1, <1>2 DEF RecursionInv

(* The thread makes no level but in connect.                               *)
LEMMA LevelsNoMore ==
  ASSUME Base,
         \/ StartMission
         \/ SendConnects \/ SendPacket \/ SendGivesUp \/ ReceiveTest
         \/ Receive \/ ReceiveError \/ ReceiveErrorFoundOut
         \/ AckWaitEnter \/ AckTurn \/ AckTimeout \/ AckRead \/ RunTurn \/ RunDecode
  PROVE  /\ Cardinality(Levels(stack')) \in Nat
         /\ Cardinality(Levels(stack')) <= Cardinality(Levels(stack))
<1> USE DEF Base
<1>1. /\ Frame("connect").at = "connect" /\ Frame("ackWait").at = "ackWait"
      /\ SendFrame("loop").at = "send" /\ SendFrame("configure").at = "send"
      /\ Frame("receiveLoop").at = "receiveLoop" /\ Frame("ackTurn").at = "ackTurn"
      /\ Frame("receive").at = "receive" /\ Frame("receiveAfter").at = "receiveAfter"
      /\ Frame("run").at = "run" /\ Frame("mission2").at = "mission2"
      /\ Frame("mission3").at = "mission3" /\ Frame("mission4").at = "mission4"
      /\ Frame("mission5").at = "mission5"
      /\ [Frame("ackTurn") EXCEPT !.turn = Top.turn + 1].at = "ackTurn"
  BY FrameIsFrame, SendFrameOk DEF Labels, Commands, Frame
<1>2. /\ Cardinality(Below) \in Nat
      /\ Cardinality(Levels(stack)) = Cardinality(Below) + (IF Top.at \in MissionLabels THEN 1 ELSE 0)
  BY LevelsOfTop
<1>3. CASE Pop
  BY <1>2, <1>3, LevelsPop
<1>4. ASSUME NEW f, Swap(f), f.at \notin MissionLabels
      PROVE  /\ Cardinality(Levels(stack')) \in Nat
             /\ Cardinality(Levels(stack')) <= Cardinality(Levels(stack))
  BY <1>2, <1>4, LevelsSwap
<1>5. ASSUME NEW f, NEW g, Push(f, g), g.at \notin MissionLabels,
             f.at \in MissionLabels => Top.at \in MissionLabels
      PROVE  /\ Cardinality(Levels(stack')) \in Nat
             /\ Cardinality(Levels(stack')) <= Cardinality(Levels(stack))
  BY <1>2, <1>5, LevelsPush
<1>6. CASE stack' = stack
  BY <1>2, <1>6
<1>7. CASE StartMission
  <2>1. CASE Push(Frame("mission2"), SendFrame("loop")) /\ At("mission1")
    BY <1>1, <1>5, <2>1, StackLength DEF MissionLabels
  <2>2. CASE Push(Frame("mission3"), Frame("ackWait")) /\ At("mission2")
    BY <1>1, <1>5, <2>2, StackLength DEF MissionLabels
  <2>3. CASE Push(Frame("mission4"), SendFrame("configure")) /\ At("mission3")
    BY <1>1, <1>5, <2>3, StackLength DEF MissionLabels
  <2>4. CASE Push(Frame("mission5"), Frame("ackWait")) /\ At("mission4")
    BY <1>1, <1>5, <2>4, StackLength DEF MissionLabels
  <2> QED BY <1>3, <1>7, <2>1, <2>2, <2>3, <2>4, MissionStack
<1>8. CASE SendConnects
  <2>1. Push([Top EXCEPT !.at = "sendAfter"], Frame("connect"))
    BY <1>8, SendStack
  <2>2. [Top EXCEPT !.at = "sendAfter"].at = "sendAfter"
    BY StackLength DEF FrameType
  <2> QED BY <1>1, <1>5, <2>1, <2>2 DEF MissionLabels
<1>9. CASE SendPacket \/ SendGivesUp \/ AckTimeout
  BY <1>3, <1>9, SendStack, AckTimeoutStack
<1>10. CASE ReceiveTest
  BY <1>1, <1>3, <1>4, <1>5, <1>10, ReceiveTestStack DEF MissionLabels
<1>11. CASE Receive \/ ReceiveError \/ ReceiveErrorFoundOut
  BY <1>3, <1>6, <1>11, ReceiveStack
<1>12. CASE AckWaitEnter \/ AckRead
  BY <1>1, <1>3, <1>4, <1>12, AckWaitStack, AckReadStack DEF MissionLabels
<1>13. CASE AckTurn
  <2>1. CASE client # Null
    <3>1. Push([Top EXCEPT !.at = "ackRead", !.ptr = client], Frame("receive"))
      BY <1>13, <2>1, AckTurnStack
    <3>2. [Top EXCEPT !.at = "ackRead", !.ptr = client].at = "ackRead"
      BY StackLength DEF FrameType
    <3> QED BY <1>1, <1>5, <3>1, <3>2 DEF MissionLabels
  <2>2. CASE client = Null
    <3> DEFINE f == Frame("crashed")
    <3>1. stack' = <<f>> /\ f.at = "crashed"
      BY <1>13, <2>2, AckTurnStack, FrameIsFrame DEF Labels
    <3> HIDE DEF f
    <3>2. Len(stack') = 1 /\ stack'[1] = f
      BY <3>1
    <3>3. Levels(stack') = {}
      BY <3>1, <3>2 DEF Levels, MissionLabels
    <3> QED BY <1>2, <3>3, FS_EmptySet
  <2> QED BY <2>1, <2>2
<1>14. CASE RunTurn \/ RunDecode
  BY <1>1, <1>4, <1>5, <1>14, RunStack DEF MissionLabels
<1> QED BY <1>7, <1>8, <1>9, <1>10, <1>11, <1>12, <1>13, <1>14

LEMMA RecursionNext == Base /\ RecursionInv /\ [Next]_vars => RecursionInv'
<1> SUFFICES ASSUME Base, RecursionInv, [Next]_vars PROVE RecursionInv'
  OBVIOUS
<1>0. /\ Cardinality(Below) \in Nat /\ breaks \in Nat
      /\ Cardinality(Levels(stack)) = Cardinality(Below) + (IF Top.at \in MissionLabels THEN 1 ELSE 0)
  BY LevelsOfTop, Bounds DEF Base, ClientInv
<1>1. CASE UNCHANGED vars
  BY <1>1 DEF vars, RecursionInv, At, Top
<1>2. CASE ConnectRefused
  <2>1. Top.at \notin MissionLabels /\ link # "up" /\ ~At("handshake") /\ link' # "up" /\ breaks' = breaks
    BY <1>2, StackLength DEF ConnectRefused, Base, ClientInv, MissionLabels
  <2>2. Cardinality(Levels(stack')) = Cardinality(Below) /\ ~At("handshake")'
    BY <1>2, ConnectStack, LevelsPop, NoHandshake DEF Base
  <2> QED BY <1>0, <2>1, <2>2 DEF RecursionInv
<1>3. CASE ConnectAccepted
  <2>1. Top.at \notin MissionLabels /\ link # "up" /\ ~At("handshake") /\ link' = "up" /\ breaks' = breaks
    BY <1>3, StackLength DEF ConnectAccepted, Base, ClientInv, MissionLabels, bounds
  <2>2. Frame("handshake").at \notin MissionLabels
    BY FrameIsFrame DEF Labels, MissionLabels
  <2>3. Cardinality(Levels(stack')) = Cardinality(Below)
    BY <1>0, <1>3, <2>2, ConnectStack, LevelsSwap DEF Base
  <2> QED BY <1>0, <2>1, <2>3 DEF RecursionInv
<1>4. CASE Handshake
  <2>1. Top.at \notin MissionLabels /\ At("handshake") /\ UNCHANGED <<link, breaks>>
    <3>1. At("handshake") /\ UNCHANGED <<link, breaks>>
      BY <1>4 DEF Handshake, bounds
    <3>2. Top.at = "handshake"
      BY <3>1, StackLength DEF Base
    <3> QED BY <3>1, <3>2 DEF MissionLabels
  <2>2. CASE state' = "active"
    <3>1. Swap(Frame("mission1")) /\ Frame("mission1").at = "mission1" /\ StackInv'
      BY <1>4, <2>2, HandshakeStack, FrameIsFrame DEF Base, Labels
    <3>2. Cardinality(Levels(stack')) = Cardinality(Below) + 1
      BY <3>1, LevelsSwap DEF Base, MissionLabels
    <3>3. ~At("handshake")'
      BY <3>1, StackLengthNext DEF Swap
    <3> QED BY <1>0, <2>1, <3>2, <3>3 DEF RecursionInv
  <2>3. CASE stack' = stack
    BY <2>1, <2>3 DEF RecursionInv, At, Top
  <2> QED BY <1>4, <2>2, <2>3, HandshakeStack DEF Base
<1>5. CASE \/ StartMission
           \/ SendConnects \/ SendPacket \/ SendGivesUp \/ ReceiveTest
           \/ Receive \/ ReceiveError \/ ReceiveErrorFoundOut
           \/ AckWaitEnter \/ AckTurn \/ AckTimeout \/ AckRead \/ RunTurn \/ RunDecode
  <2>1. UNCHANGED <<link, breaks>>
    BY <1>5 DEF StartMission, MissionSend, MissionWait, MissionDone, SendConnects, SendPacket, SendGivesUp,
         ReceiveTest, Receive, ReceiveError, ReceiveErrorFoundOut, AckWaitEnter, AckTurn, AckTimeout,
         AckRead, RunTurn, RunDecode, bounds
  <2>2. ~At("handshake")'
    BY <1>5, NoHandshake
  <2>3. /\ Cardinality(Levels(stack')) \in Nat
        /\ Cardinality(Levels(stack')) <= Cardinality(Levels(stack))
    BY <1>5, LevelsNoMore
  <2> QED BY <2>1, <2>2, <2>3, RecursionNoMore
<1>6. CASE ReceiveHeader \/ ServerHandles \/ ServerData \/ ServerAlive
  <2>1. UNCHANGED <<stack, link, breaks>>
    BY <1>6 DEF ReceiveHeader, ServerHandles, ServerData, ServerAlive, ClientUnchanged, bounds
  <2> QED BY <2>1 DEF RecursionInv, At, Top
<1>7. CASE Break
  <2>1. UNCHANGED stack /\ link = "up" /\ link' # "up" /\ breaks' = breaks + 1
    BY <1>7 DEF Break, ClientUnchanged
  <2>2. (At("handshake")' <=> At("handshake")) /\ Levels(stack') = Levels(stack)
    BY <2>1 DEF At, Top
  <2> QED BY <1>0, <2>1, <2>2 DEF RecursionInv
<1> QED BY <1>1, <1>2, <1>3, <1>4, <1>5, <1>6, <1>7 DEF Next, Node

-----------------------------------------------------------------------------
IInv == Base /\ DataInv /\ RecursionInv

(* The state of a node thread's circular calls: the calls, the data and the *)
(* depth of the recursion (node.cpp).                                       *)
THEOREM Invariant == Spec => []IInv
BY BaseInit, BaseNext, DataInvInit, DataInvNext, RecursionInit, RecursionNext, PTL DEF Spec, IInv

-----------------------------------------------------------------------------
(* The order of what is pushed: the packet run looks at is not older than  *)
(* anything pushed.                                                        *)
DecodeInv ==
  (stack[1].at = "decode" /\ stack[1].ptr # Null /\ Readable(rx[stack[1].ptr]))
    => \A m \in 1..MaxData : pushed[m] > 0 => m <= rx[stack[1].ptr].nr

(* Only run itself changes the bottom of the stack.                        *)
LEMMA BottomKept ==
  ASSUME StackInv, Top.at \notin RunLabels,
         \/ Pop \/ (\E f : Swap(f)) \/ (\E f, g : Push(f, g)) \/ stack' = stack
  PROVE  stack'[1] = stack[1]
<1>1. Len(stack) > 1 /\ Len(stack) \in Nat
  <2>1. Len(stack) # 1
    BY Callers
  <2>2. Len(stack) \in Nat /\ Len(stack) >= 1
    BY StackLength DEF StackInv
  <2> QED BY <2>1, <2>2, NatAboveOne
<1>2. 1 \in 1..Len(stack) - 1
  BY <1>1
<1> QED BY <1>2 DEF Pop, Swap, Push

LEMMA BottomOfNode ==
  ASSUME Base,
         \/ ConnectRefused \/ ConnectAccepted \/ Handshake \/ StartMission
         \/ SendConnects \/ SendPacket \/ SendGivesUp \/ ReceiveTest
         \/ Receive \/ ReceiveHeader \/ ReceiveError \/ ReceiveErrorFoundOut
         \/ AckWaitEnter \/ AckTimeout \/ AckRead
  PROVE  stack'[1] = stack[1]
<1> USE DEF Base
<1>1. CASE ReceiveHeader
  BY <1>1 DEF ReceiveHeader
<1>2. CASE ~ReceiveHeader
  <2>1. Top.at \notin RunLabels
    BY <1>2, StackLength
    DEF ConnectRefused, ConnectAccepted, Handshake, StartMission, MissionSend, MissionWait, MissionDone,
        SendConnects, SendPacket, SendGivesUp, ReceiveTest, Receive, ReceiveError, ReceiveErrorFoundOut,
        RecvFails, AckWaitEnter, AckTimeout, AckRead, RunLabels
  <2>2. \/ Pop \/ (\E f : Swap(f)) \/ (\E f, g : Push(f, g)) \/ stack' = stack
    <3>1. CASE ConnectRefused \/ ConnectAccepted
      BY <3>1, ConnectStack
    <3>2. CASE Handshake
      BY <3>2, HandshakeStack
    <3>3. CASE StartMission
      BY <3>3, MissionStack
    <3>4. CASE SendConnects \/ SendPacket \/ SendGivesUp
      BY <3>4, SendStack
    <3>5. CASE ReceiveTest
      BY <3>5, ReceiveTestStack
    <3>6. CASE Receive \/ ReceiveError \/ ReceiveErrorFoundOut
      BY <3>6, ReceiveStack
    <3>7. CASE AckWaitEnter \/ AckTimeout \/ AckRead
      BY <3>7, AckWaitStack, AckTimeoutStack, AckReadStack
    <3> QED BY <1>2, <3>1, <3>2, <3>3, <3>4, <3>5, <3>6, <3>7
  <2> QED BY <2>1, <2>2, BottomKept
<1> QED BY <1>1, <1>2

LEMMA BottomIsTop ==
  ASSUME StackInv, Top.at \in RunLabels
  PROVE  Len(stack) = 1 /\ Top = stack[1]
<1>1. ~(Len(stack) > 1)
  BY Callers
<1>2. Len(stack) = 1
  BY <1>1, StackLength, SMTT(30)
<1> QED BY <1>2 DEF Top

LEMMA PushedLast ==
  ASSUME DataInv, created \in Clients, Readable(rx[created])
  PROVE  \A m \in 1..MaxData : pushed[m] > 0 => m <= rx[created].nr
BY DEF DataInv, RxInv, PushedWasReceived

LEMMA DecodeInit == Init => DecodeInv
<1> SUFFICES ASSUME Init PROVE DecodeInv
  OBVIOUS
<1> DEFINE f == Frame("run")  g == Frame("connect")
<1>1. f.at = "run"
  BY FrameIsFrame DEF Labels
<1>2. stack = <<f, g>>
  BY DEF Init
<1> HIDE DEF f, g
<1>3. stack[1].at = "run"
  BY <1>1, <1>2
<1> QED BY <1>3 DEF DecodeInv

LEMMA DecodeNext == Base /\ DataInv /\ DecodeInv /\ [Next]_vars => DecodeInv'
<1> SUFFICES ASSUME Base, DataInv, DecodeInv, [Next]_vars PROVE DecodeInv'
  OBVIOUS
<1>0. stack[1] \in FrameType
  BY StackLength DEF Base, StackInv, FrameOk
<1>1. CASE UNCHANGED <<stack, rx, pushed>>
  BY <1>1 DEF DecodeInv
<1>2. CASE Handshake \/ Receive \/ ReceiveHeader
  <2>1. PICK p : Delivered(p)
    BY <1>2 DEF Handshake, Receive, ReceiveHeader
  <2>2. pushed' = pushed /\ stack'[1] = stack[1]
    BY <1>2, BottomOfNode DEF Handshake, Receive, ReceiveHeader
  <2>3. /\ \A c \in Clients : rx'[c] = IF c = created THEN p ELSE rx[c]
        /\ p.kind = "data" => \A m \in received : m < p.nr
        /\ p \in Packet
    BY <2>1, TakenOk
  <2>4. \A m \in 1..MaxData : pushed[m] > 0 => m \in received
    BY DEF DataInv, PushedWasReceived
  <2> SUFFICES ASSUME stack[1].at = "decode", stack[1].ptr # Null, Readable(rx'[stack[1].ptr]),
                      NEW m \in 1..MaxData, pushed[m] > 0
               PROVE  m <= rx'[stack[1].ptr].nr
    BY <2>2 DEF DecodeInv
  <2>5. stack[1].ptr \in Clients
    BY <1>0 DEF FrameType
  <2>6. CASE stack[1].ptr = created
    <3>1. rx'[stack[1].ptr] = p /\ p.kind = "data"
      BY <2>3, <2>5, <2>6 DEF Readable
    <3>2. m < p.nr /\ p.nr \in 0..MaxData
      BY <2>3, <2>4, <3>1 DEF Packet
    <3> QED BY <3>1, <3>2, Bounds
  <2>7. CASE stack[1].ptr # created
    BY <2>3, <2>5, <2>7 DEF DecodeInv
  <2> QED BY <2>6, <2>7
<1>3. CASE \/ ConnectRefused \/ ConnectAccepted \/ StartMission
           \/ SendConnects \/ SendPacket \/ SendGivesUp \/ ReceiveTest
           \/ ReceiveError \/ ReceiveErrorFoundOut
           \/ AckWaitEnter \/ AckTimeout \/ AckRead
  <2>1. stack'[1] = stack[1]
    BY <1>3, BottomOfNode
  <2>2. UNCHANGED <<rx, pushed>>
    BY <1>3 DEF ConnectRefused, ConnectAccepted, StartMission, MissionSend, MissionWait, MissionDone,
         SendConnects, SendPacket, SendGivesUp, ReceiveTest, ReceiveError, ReceiveErrorFoundOut,
         AckWaitEnter, AckTimeout, AckRead
  <2> QED BY <2>1, <2>2 DEF DecodeInv
<1>4. CASE AckTurn
  <2>1. UNCHANGED <<rx, pushed>> /\ Top.at \notin RunLabels
    BY <1>4, StackLength DEF AckTurn, Base, RunLabels
  <2>2. CASE client # Null
    <3>1. stack'[1] = stack[1]
      BY <1>4, <2>1, <2>2, AckTurnStack, BottomKept DEF Base
    <3> QED BY <2>1, <3>1 DEF DecodeInv
  <2>3. CASE client = Null
    <3> DEFINE f == Frame("crashed")
    <3>1. stack' = <<f>> /\ f.at = "crashed"
      BY <1>4, <2>3, AckTurnStack, FrameIsFrame DEF Base, Labels
    <3> HIDE DEF f
    <3>2. stack'[1].at = "crashed"
      BY <3>1
    <3> QED BY <3>2 DEF DecodeInv
  <2> QED BY <2>2, <2>3
<1>5. CASE RunTurn
  <2>1. UNCHANGED <<rx, pushed>> /\ Top.at \in RunLabels
    BY <1>5, StackLength DEF RunTurn, Base, RunLabels
  <2>2. /\ Push(DecodeFrame, Frame("receive")) /\ DecodeFrame.ptr = ClientAfterTest
        /\ Len(stack) = 1
    BY <1>5, <2>1, RunStack, BottomIsTop DEF Base
  <2>3. stack'[1] = DecodeFrame
    BY <2>2 DEF Push
  <2>4. DecodeFrame.ptr # Null => DecodeFrame.ptr = created /\ created \in Clients
    BY <2>2, ClientRange, Bounds DEF ClientAfterTest, Base, ClientInv
  <2> QED BY <2>1, <2>3, <2>4, PushedLast DEF DecodeInv
<1>6. CASE RunDecode
  <2>1. Top.at \in RunLabels /\ Frame("run").at = "run"
    BY <1>6, StackLength, FrameIsFrame DEF RunDecode, Base, RunLabels, Labels
  <2>2. stack'[1].at = "run"
    BY <1>6, <2>1, RunStack, BottomIsTop DEF Base, Swap
  <2> QED BY <2>2 DEF DecodeInv
<1>7. CASE ServerHandles \/ ServerData \/ ServerAlive \/ Break
  <2>1. UNCHANGED <<stack, rx, pushed>>
    BY <1>7 DEF ServerHandles, ServerData, ServerAlive, Break, ClientUnchanged
  <2> QED BY <2>1, <1>1
<1>8. CASE UNCHANGED vars
  BY <1>1, <1>8 DEF vars
<1> QED BY <1>2, <1>3, <1>4, <1>5, <1>6, <1>7, <1>8 DEF Next, Node

Count == [n \in {"this"} |-> pushed]

LEMMA SourceStep ==
  ASSUME Base, DataInv, DecodeInv, [Next]_vars
  PROVE  AsSource!Next \/ Count' = Count
<1>1. CASE UNCHANGED pushed
  BY <1>1 DEF Count
<1>2. CASE RunDecode
  <2> DEFINE p == IF Top.ptr = Null THEN NoPacket ELSE rx[Top.ptr]
  <2>1. Top = stack[1] /\ Top.at = "decode" /\ Top.ptr \in Clients \cup {Null}
    BY <1>2, BottomIsTop, StackLength DEF RunDecode, Base, RunLabels, FrameType
  <2>2. pushed' = IF Readable(p) THEN [pushed EXCEPT ![p.nr] = @ + 1] ELSE pushed
    BY <1>2 DEF RunDecode
  <2>3. Readable(p) => /\ p.nr \in received
                       /\ \A m \in 1..MaxData : pushed[m] > 0 => m <= p.nr
    BY <2>1, NoPacketFacts DEF DataInv, RxInv, DecodeInv
  <2>4. received \subseteq 1..MaxData /\ pushed \in [1..MaxData -> Nat]
    BY DEF DataInv, DataType
  <2> HIDE DEF p
  <2>5. CASE Readable(p)
    <3> DEFINE c == p.nr
    <3>1. c \in 1..MaxData /\ c \in Nat
      <4>1. c \in received
        BY <2>3, <2>5
      <4>2. c \in 1..MaxData
        BY <2>4, <4>1
      <4> QED BY <2>5, <4>2, Bounds
    <3>2. \A later \in 1..MaxData : later > c => pushed[later] = 0
      <4> SUFFICES ASSUME NEW later \in 1..MaxData, later > c PROVE pushed[later] = 0
        OBVIOUS
      <4>1. pushed[later] \in Nat /\ ~(pushed[later] > 0)
        BY <2>3, <2>4, <2>5, <3>1
      <4> QED BY <4>1
    <3>3. pushed' = [pushed EXCEPT ![c] = pushed[c] + 1]
      BY <2>2, <2>4, <2>5, <3>1
    <3> HIDE DEF c
    <3>4. Count["this"] = pushed /\ "this" \in {"this"}
      BY DEF Count
    <3>5. Count' = [Count EXCEPT !["this"][c] = Count["this"][c] + 1]
      BY <3>3, <3>4 DEF Count
    <3>6. AsSource!Push("this", c)
      BY <3>1, <3>2, <3>4, <3>5 DEF AsSource!Push, Count
    <3> QED BY <3>1, <3>6 DEF AsSource!Next
  <2>6. CASE ~Readable(p)
    BY <2>2, <2>6 DEF Count
  <2> QED BY <2>5, <2>6
<1>3. CASE \/ ConnectRefused \/ ConnectAccepted \/ Handshake \/ StartMission
           \/ SendConnects \/ SendPacket \/ SendGivesUp \/ ReceiveTest
           \/ Receive \/ ReceiveHeader \/ ReceiveError \/ ReceiveErrorFoundOut
           \/ AckWaitEnter \/ AckTurn \/ AckTimeout \/ AckRead \/ RunTurn
  BY <1>1, <1>3
  DEF ConnectRefused, ConnectAccepted, Handshake, StartMission, MissionSend, MissionWait, MissionDone,
      SendConnects, SendPacket, SendGivesUp, ReceiveTest, Receive, ReceiveHeader, ReceiveError,
      ReceiveErrorFoundOut, AckWaitEnter, AckTurn, AckTimeout, AckRead, RunTurn
<1>4. CASE ServerHandles \/ ServerData \/ ServerAlive \/ Break \/ UNCHANGED vars
  BY <1>1, <1>4 DEF ServerHandles, ServerData, ServerAlive, Break, ClientUnchanged, vars
<1> QED BY <1>2, <1>3, <1>4 DEF Next, Node

(* Over all losses and reconnections, captures enter the shared queue in   *)
(* the order in which they were measured, and only the latest can come     *)
(* again, any number of times: what the collector (tdoa.cpp) is given by   *)
(* each node.                                                              *)
THEOREM LinkIsSource == Spec => ImplementsSource
<1>1. Init => AsSource!Init
  BY DEF Init, AsSource!Init
<1>2. Base /\ DataInv /\ DecodeInv /\ [Next]_vars => [AsSource!Next]_([n \in {"this"} |-> pushed])
  BY SourceStep DEF Count
<1>3. Spec => [](Base /\ DataInv /\ DecodeInv)
  BY BaseInit, BaseNext, DataInvInit, DataInvNext, DecodeInit, DecodeNext, PTL DEF Spec
<1> QED BY <1>1, <1>2, <1>3, PTL DEF Spec, ImplementsSource, AsSource!Spec

-----------------------------------------------------------------------------
(* How often a capture is pushed.  A turn of run that began with a client  *)
(* does not connect; it ends with a packet just received, which was never  *)
(* pushed, or with a receive that failed and is counted.                   *)
TurnWithClient == stack[1].at = "decode" /\ stack[1].ptr # Null

RepeatInv ==
  /\ fails \in Nat
  /\ \A n \in 1..MaxData : pushed[n] <= 1 + fails
  /\ TurnWithClient =>
       /\ stack[1].ptr = created
       /\ Len(stack) = 1 => (Readable(rx[created]) => pushed[rx[created].nr] <= fails)
       /\ Len(stack) # 1 => /\ Len(stack) = 2
                            /\ Top.at = "receiveLoop" \/ (Top.at = "receive" /\ Connected)

LEMMA RepeatInit == Init => RepeatInv
<1> SUFFICES ASSUME Init PROVE RepeatInv
  OBVIOUS
<1> DEFINE f == Frame("run")  g == Frame("connect")
<1>1. f.at = "run" /\ stack = <<f, g>>
  BY FrameIsFrame DEF Init, Labels
<1> HIDE DEF f, g
<1>2. ~TurnWithClient
  BY <1>1 DEF TurnWithClient
<1>3. fails = 0 /\ \A n \in 1..MaxData : pushed[n] = 0
  BY DEF Init
<1> QED BY <1>2, <1>3 DEF RepeatInv

(* Inside a call that a turn with a client does not make, there is no such *)
(* turn.                                                                   *)
LEMMA OtherCalls ==
  ASSUME Base, RepeatInv, Top.at \notin {"decode", "receive", "receiveLoop"}
  PROVE  ~TurnWithClient
<1> SUFFICES ASSUME TurnWithClient PROVE FALSE
  OBVIOUS
<1>1. CASE Len(stack) = 1
  BY <1>1 DEF TurnWithClient, Top
<1>2. CASE Len(stack) # 1
  BY <1>2 DEF RepeatInv
<1> QED BY <1>1, <1>2

LEMMA RepeatOther ==
  ASSUME Base, RepeatInv, UNCHANGED <<pushed, fails>>,
         \/ ConnectRefused \/ ConnectAccepted \/ Handshake \/ StartMission
         \/ SendConnects \/ SendPacket \/ SendGivesUp \/ AckWaitEnter \/ AckTimeout \/ AckRead
  PROVE  RepeatInv'
<1>1. stack'[1] = stack[1]
  BY BottomOfNode
<1>2. Top.at \notin {"decode", "receive", "receiveLoop"}
  BY StackLength
  DEF Base, ConnectRefused, ConnectAccepted, Handshake, StartMission, MissionSend, MissionWait,
      MissionDone, SendConnects, SendPacket, SendGivesUp, AckWaitEnter, AckTimeout, AckRead
<1>3. ~TurnWithClient'
  BY <1>1, <1>2, OtherCalls DEF TurnWithClient
<1> QED BY <1>3 DEF RepeatInv

LEMMA RepeatReceiveTest ==
  ASSUME Base, RepeatInv, ReceiveTest
  PROVE  RepeatInv'
<1>1. UNCHANGED <<created, rx, pushed, fails>> /\ stack'[1] = stack[1]
  BY BottomOfNode DEF ReceiveTest
<1>2. Top.at \in {"receive", "receiveAfter"}
  BY StackLength DEF Base, ReceiveTest
<1>3. CASE TurnWithClient
  <2>1. Len(stack) # 1
    BY <1>2, <1>3 DEF TurnWithClient, Top
  <2>2. Len(stack) = 2 /\ Connected
    BY <1>2, <1>3, <2>1 DEF RepeatInv
  <2>3. Swap(Frame("receiveLoop")) /\ Frame("receiveLoop").at = "receiveLoop"
    BY <2>2, ReceiveTestStack, FrameIsFrame DEF Base, Labels
  <2>4. Len(stack') = 2 /\ Top'.at = "receiveLoop"
    BY <2>2, <2>3 DEF Swap
  <2> QED BY <1>1, <1>3, <2>4 DEF RepeatInv, TurnWithClient
<1>4. CASE ~TurnWithClient
  BY <1>1, <1>4 DEF RepeatInv, TurnWithClient
<1> QED BY <1>3, <1>4

LEMMA RepeatTaken ==
  ASSUME Base, DataInv, RepeatInv, NEW p, Delivered(p), Receive \/ ReceiveHeader
  PROVE  RepeatInv'
<1>1. UNCHANGED <<created, pushed, fails>> /\ stack'[1] = stack[1]
  BY BottomOfNode DEF Receive, ReceiveHeader
<1>2. Top.at \in {"receiveLoop", "handshake"}
  BY StackLength DEF Base, Receive, ReceiveHeader
<1>3. CASE TurnWithClient
  <2>1. Len(stack) # 1
    BY <1>2, <1>3 DEF TurnWithClient, Top
  <2>2. Len(stack) = 2 /\ Top.at = "receiveLoop" /\ stack[1].ptr = created
    BY <1>2, <1>3, <2>1 DEF RepeatInv
  <2>3. stack[1].ptr \in Clients
    BY <1>3, StackLength DEF Base, StackInv, FrameOk, FrameType, TurnWithClient
  <2>4. rx'[created] = p /\ p \in Packet /\ (p.kind = "data" => p.nr \in 1..sentData /\ \A m \in received : m < p.nr)
    BY <2>2, <2>3, TakenOk
  <2>5. Readable(p) => pushed[p.nr] <= fails
    <3> SUFFICES ASSUME Readable(p) PROVE pushed[p.nr] <= fails
      OBVIOUS
    <3>1. p.nr \in 1..MaxData /\ p.nr \notin received
      BY <2>4, Bounds DEF Readable, DataInv, DataType
    <3>2. pushed[p.nr] \in Nat /\ ~(pushed[p.nr] > 0)
      BY <3>1 DEF DataInv, DataType, PushedWasReceived
    <3> QED BY <3>2 DEF RepeatInv
  <2>6. Pop \/ stack' = stack
    BY ReceiveStack DEF Base, ReceiveHeader
  <2>7. CASE Pop
    <3>1. Len(stack') = 1
      BY <2>2, <2>7 DEF Pop
    <3> QED BY <1>1, <2>2, <2>4, <2>5, <3>1 DEF RepeatInv
  <2>8. CASE stack' = stack
    <3>1. Len(stack') = 2 /\ Top'.at = "receiveLoop"
      BY <2>2, <2>8 DEF Top
    <3> QED BY <1>1, <2>2, <3>1 DEF RepeatInv
  <2> QED BY <2>6, <2>7, <2>8
<1>4. CASE ~TurnWithClient
  BY <1>1, <1>4 DEF RepeatInv, TurnWithClient
<1> QED BY <1>3, <1>4

LEMMA RepeatFailed ==
  ASSUME Base, DataInv, RepeatInv, ReceiveError \/ ReceiveErrorFoundOut
  PROVE  RepeatInv'
<1>1. UNCHANGED <<created, rx, pushed>> /\ stack'[1] = stack[1]
  BY BottomOfNode DEF ReceiveError, ReceiveErrorFoundOut
<1>2. Top.at = "receiveLoop" /\ fails' = (IF At("decode")' THEN fails + 1 ELSE fails)
  BY StackLength DEF Base, ReceiveError, ReceiveErrorFoundOut, RecvFails, CountFailedTurn
<1>3. fails \in Nat /\ fails' \in Nat /\ fails' >= fails /\ \A n \in 1..MaxData : pushed[n] <= 1 + fails
  BY <1>2 DEF RepeatInv
<1>4. pushed \in [1..MaxData -> Nat] /\ \A n \in 1..MaxData : pushed[n] <= 1 + fails'
  <2>1. pushed \in [1..MaxData -> Nat]
    BY DEF DataInv, DataType
  <2> QED BY <1>3, <2>1
<1>5. CASE TurnWithClient
  <2>1. Len(stack) # 1
    BY <1>2, <1>5 DEF TurnWithClient, Top
  <2>2. Len(stack) = 2 /\ stack[1].ptr = created
    BY <1>5, <2>1 DEF RepeatInv
  <2>3. (Pop \/ stack' = stack) /\ StackInv'
    BY ReceiveStack DEF Base
  <2>4. CASE Pop
    <3>1. Len(stack') = 1 /\ stack'[1].at = "decode"
      BY <1>1, <1>5, <2>2, <2>4 DEF Pop, TurnWithClient
    <3>2. At("decode")'
      BY <2>3, <3>1, StackLengthNext
    <3>3. Readable(rx[created]) => pushed[rx[created].nr] <= fails'
      <4> SUFFICES ASSUME Readable(rx[created]) PROVE pushed[rx[created].nr] <= fails'
        OBVIOUS
      <4>1. created \in Clients
        BY <1>5, <2>2, StackLength DEF Base, StackInv, FrameOk, FrameType, TurnWithClient
      <4>2. rx[created].nr \in 1..MaxData
        BY <4>1 DEF DataInv, RxInv, DataType
      <4>3. pushed[rx[created].nr] <= 1 + fails
        BY <1>3, <4>2
      <4>4. fails' = fails + 1
        BY <1>2, <3>2
      <4> QED BY <1>3, <4>3, <4>4
    <3> QED BY <1>1, <1>3, <1>4, <2>2, <3>1, <3>3 DEF RepeatInv
  <2>5. CASE stack' = stack
    <3>1. Len(stack') = 2 /\ Top'.at = "receiveLoop"
      BY <1>2, <2>2, <2>5 DEF Top
    <3> QED BY <1>1, <1>3, <1>4, <2>2, <3>1 DEF RepeatInv
  <2> QED BY <2>3, <2>4, <2>5
<1>6. CASE ~TurnWithClient
  BY <1>1, <1>3, <1>4, <1>6 DEF RepeatInv, TurnWithClient
<1> QED BY <1>5, <1>6

LEMMA RepeatAckTurn ==
  ASSUME Base, RepeatInv, AckTurn
  PROVE  RepeatInv'
<1>1. UNCHANGED <<pushed, fails>> /\ Top.at = "ackTurn"
  BY StackLength DEF AckTurn, Base
<1>2. CASE client # Null
  <2>1. stack'[1] = stack[1]
    BY <1>1, <1>2, AckTurnStack, BottomKept DEF Base, RunLabels
  <2>2. ~TurnWithClient'
    BY <1>1, <2>1, OtherCalls DEF TurnWithClient
  <2> QED BY <1>1, <2>2 DEF RepeatInv
<1>3. CASE client = Null
  <2> DEFINE f == Frame("crashed")
  <2>1. stack' = <<f>> /\ f.at = "crashed"
    BY <1>3, AckTurnStack, FrameIsFrame DEF Base, Labels
  <2> HIDE DEF f
  <2>2. stack'[1].at = "crashed"
    BY <2>1
  <2>3. ~TurnWithClient'
    BY <2>2 DEF TurnWithClient
  <2> QED BY <1>1, <2>3 DEF RepeatInv
<1> QED BY <1>2, <1>3

LEMMA RepeatTurn ==
  ASSUME Base, RepeatInv, RunTurn
  PROVE  RepeatInv'
<1>1. UNCHANGED <<pushed, fails, created, rx, state>> /\ client' = ClientAfterTest /\ Top.at \in RunLabels
  BY StackLength DEF RunTurn, Base, RunLabels
<1>2. /\ Push(DecodeFrame, Frame("receive")) /\ DecodeFrame.ptr = ClientAfterTest
      /\ Len(stack) = 1 /\ Frame("receive").at = "receive"
  BY <1>1, RunStack, BottomIsTop, FrameIsFrame DEF Base, Labels
<1>3. stack'[1].ptr = ClientAfterTest /\ Len(stack') = 2 /\ Top'.at = "receive"
  BY <1>2 DEF Push
<1>4. ClientAfterTest # Null => ClientAfterTest = created /\ Connected'
  BY <1>1 DEF ClientAfterTest, Connected, Base, ClientInv
<1> QED BY <1>1, <1>3, <1>4 DEF RepeatInv, TurnWithClient

LEMMA RepeatDecode ==
  ASSUME Base, DataInv, RepeatInv, RunDecode
  PROVE  RepeatInv'
<1> DEFINE p == IF Top.ptr = Null THEN NoPacket ELSE rx[Top.ptr]
<1>1. Top = stack[1] /\ Len(stack) = 1 /\ Top.at = "decode" /\ Frame("run").at = "run"
  BY BottomIsTop, StackLength, FrameIsFrame DEF RunDecode, Base, RunLabels, Labels
<1>2. stack'[1].at = "run"
  BY <1>1, RunStack DEF Base, Swap
<1>3. ~TurnWithClient' /\ fails' = fails /\ fails \in Nat
  BY <1>2 DEF TurnWithClient, RunDecode, RepeatInv
<1>4. pushed' = IF Readable(p) THEN [pushed EXCEPT ![p.nr] = @ + 1] ELSE pushed
  BY DEF RunDecode
<1>5. Readable(p) => pushed[p.nr] <= fails
  BY <1>1, NoPacketFacts DEF RepeatInv, TurnWithClient
<1>6. pushed \in [1..MaxData -> Nat] /\ \A n \in 1..MaxData : pushed[n] <= 1 + fails
  BY DEF DataInv, DataType, RepeatInv
<1> HIDE DEF p
<1>7. \A n \in 1..MaxData : pushed'[n] <= 1 + fails
  <2> SUFFICES ASSUME NEW n \in 1..MaxData PROVE pushed'[n] <= 1 + fails
    OBVIOUS
  <2>1. CASE Readable(p) /\ n = p.nr
    <3>1. pushed'[n] = pushed[n] + 1 /\ pushed[n] \in Nat /\ pushed[n] <= fails
      BY <1>4, <1>5, <1>6, <2>1
    <3> QED BY <1>3, <3>1
  <2>2. CASE ~(Readable(p) /\ n = p.nr)
    <3>1. pushed'[n] = pushed[n]
      BY <1>4, <1>6, <2>2
    <3> QED BY <1>6, <3>1
  <2> QED BY <2>1, <2>2
<1> QED BY <1>3, <1>7 DEF RepeatInv

LEMMA RepeatNext == Base /\ DataInv /\ RepeatInv /\ [Next]_vars => RepeatInv'
<1> SUFFICES ASSUME Base, DataInv, RepeatInv, [Next]_vars PROVE RepeatInv'
  OBVIOUS
<1>1. CASE \/ ConnectRefused \/ ConnectAccepted \/ Handshake \/ StartMission
           \/ SendConnects \/ SendPacket \/ SendGivesUp \/ AckWaitEnter \/ AckTimeout \/ AckRead
  <2>1. UNCHANGED <<pushed, fails>>
    BY <1>1 DEF ConnectRefused, ConnectAccepted, Handshake, StartMission, MissionSend, MissionWait,
         MissionDone, SendConnects, SendPacket, SendGivesUp, AckWaitEnter, AckTimeout, AckRead
  <2> QED BY <1>1, <2>1, RepeatOther
<1>2. CASE Receive \/ ReceiveHeader
  <2>1. PICK p : Delivered(p)
    BY <1>2 DEF Receive, ReceiveHeader
  <2> QED BY <1>2, <2>1, RepeatTaken
<1>3. CASE \/ ServerHandles \/ ServerData \/ ServerAlive \/ Break \/ UNCHANGED vars
  <2>1. UNCHANGED <<stack, client, created, state, rx, pushed, fails>>
    BY <1>3 DEF ServerHandles, ServerData, ServerAlive, Break, ClientUnchanged, vars
  <2>2. Top' = Top /\ Connected' = Connected /\ TurnWithClient' = TurnWithClient
    BY <2>1 DEF Top, Connected, TurnWithClient
  <2> QED BY <2>1, <2>2 DEF RepeatInv
<1> QED BY <1>1, <1>2, <1>3, RepeatReceiveTest, RepeatFailed, RepeatAckTurn, RepeatTurn, RepeatDecode
        DEF Next, Node

LEMMA TypeFromInv == IInv /\ RepeatInv => TypeOK
<1> SUFFICES ASSUME IInv, RepeatInv PROVE TypeOK
  OBVIOUS
<1>1. \A i \in 1..Len(stack) : stack[i] \in FrameType
  BY DEF IInv, Base, StackInv, FrameOk
<1>2. stack # <<>> /\ created \in Clients \cup {0} /\ client \in Clients \cup {Null} /\ freed \subseteq Clients
  BY StackLength, ClientRange DEF IInv, Base, ClientInv
<1>3. \A i \in 1..Len(wire) : wire[i] \in Packet
  BY DEF IInv, DataInv, DataType
<1>4. \A i \in 1..Len(toServer) : toServer[i] \in Commands \cup {"request", "response"}
  BY DEF IInv, DataInv, DataType, ToServer
<1> QED BY <1>1, <1>2, <1>3, <1>4
  DEF TypeOK, IInv, DataInv, DataType, Base, ClientInv, FrameType, RepeatInv

(* The node thread in the midst of its circular calls speaks only to a     *)
(* server that confirmed it, reads no freed packet, pushes only what was   *)
(* received to the last word, and pushes it again only when receiving      *)
(* failed; and no loss costs more than one level of recursion and one      *)
(* client (node.cpp, ncp_client.c), however many losses and refusals there *)
(* are.                                                                    *)
THEOREM LinkHolds == Spec => []LinkInv
<1>1. IInv /\ RepeatInv => LinkInv
  <2> SUFFICES ASSUME IInv, RepeatInv PROVE LinkInv
    OBVIOUS
  <2>1. TypeOK
    BY TypeFromInv
  <2>2. ActiveIsConfirmed /\ PushedWasReceived
    BY DEF IInv, DataInv, WireInv, ActiveIsConfirmed
  <2>3. NoDanglingPacket
    BY DEF IInv, Base, ClientInv, NoDanglingPacket
  <2>4. RecursionBounded
    <3>1. breaks \in Nat /\ Cardinality(Levels(stack)) \in Nat
      BY Bounds, LevelsOfTop DEF IInv, Base, ClientInv
    <3>2. Cardinality(Levels(stack)) <= breaks + 1
      BY <3>1 DEF IInv, RecursionInv
    <3> QED BY <3>2 DEF RecursionBounded, Levels
  <2>5. OneClientPerLoss
    <3>1. Cardinality(freed) = 0 /\ breaks \in Nat /\ refusals \in Nat
      BY FS_EmptySet, Bounds DEF IInv, Base, ClientInv
    <3> QED BY <3>1 DEF OneClientPerLoss, IInv, Base, ClientInv
  <2>6. RepeatsAreFailures
    BY DEF RepeatInv, RepeatsAreFailures
  <2> QED BY <2>1, <2>2, <2>3, <2>4, <2>5, <2>6 DEF LinkInv
<1>2. Spec => []RepeatInv
  BY BaseInit, BaseNext, DataInvInit, DataInvNext, RepeatInit, RepeatNext, PTL DEF Spec
<1> QED BY <1>1, <1>2, Invariant, PTL

-----------------------------------------------------------------------------
(* When ackWait uses a client that is not there                            *)
Holds(labels) == \E i \in 1..Len(stack) : stack[i].at \in labels
AfterLabels == {"receiveAfter", "sendAfter"}
WaitLabels == {"ackTurn", "ackRead"}

(* The first client is made before anything else.  A call that connects    *)
(* again does so after a client was lost; and so does one that goes on     *)
(* while ackWait is in progress and there is no client.                    *)
CrashInv ==
  /\ created = 0 => Top.at = "connect" /\ ~Holds(AfterLabels)
  /\ Holds(AfterLabels) /\ Top.at # "connect" => created >= 2
  /\ Holds(WaitLabels) /\ client = Null /\ Top.at # "connect" => created >= 2
  /\ Top.at = "crashed" => breaks + refusals >= 2

(* The labels on the stack after a step                                    *)
LEMMA HoldsPop ==
  ASSUME StackInv, Pop, NEW labels, Holds(labels)'
  PROVE  \E i \in 1..Len(stack) - 1 : stack[i].at \in labels
BY DEF Pop, Holds

LEMMA HoldsMore ==
  ASSUME NEW labels, \E i \in 1..Len(stack) - 1 : stack[i].at \in labels, StackInv
  PROVE  Holds(labels)
<1>1. Len(stack) \in Nat
  BY StackLength
<1> QED BY <1>1 DEF Holds

LEMMA HoldsTop ==
  ASSUME StackInv, NEW labels, Top.at \in labels
  PROVE  Holds(labels)
BY StackLength DEF Holds, Top

LEMMA HoldsSwap ==
  ASSUME StackInv, NEW f, Swap(f), NEW labels, Holds(labels)', f.at \notin labels
  PROVE  Holds(labels)
<1>1. PICK i \in 1..Len(stack') : stack'[i].at \in labels
  BY DEF Holds
<1>2. Len(stack) \in Nat /\ Len(stack) >= 1
  BY StackLength DEF StackInv
<1>3. i # Len(stack) /\ Len(stack') = Len(stack)
  BY <1>1 DEF Swap
<1>4. i \in 1..Len(stack) - 1
  BY <1>2, <1>3
<1> QED BY <1>1, <1>2, <1>4 DEF Swap, Holds

LEMMA HoldsPush ==
  ASSUME StackInv, NEW f, NEW g, Push(f, g), NEW labels, Holds(labels)',
         f.at \notin labels, g.at \notin labels
  PROVE  Holds(labels)
<1>1. PICK i \in 1..Len(stack') : stack'[i].at \in labels
  BY DEF Holds
<1>2. Len(stack) \in Nat /\ Len(stack) >= 1
  BY StackLength DEF StackInv
<1>3. i # Len(stack) /\ i # Len(stack) + 1 /\ Len(stack') = Len(stack) + 1
  BY <1>1 DEF Push
<1>4. i \in 1..Len(stack) - 1
  BY <1>2, <1>3
<1> QED BY <1>1, <1>2, <1>4 DEF Push, Holds

(* A receive_packet inside of an ackWait that calls something itself       *)
(* connects again.                                                         *)
LEMMA WaitCalls ==
  ASSUME StackInv, Top.at \notin ReceiveLabels,
         \E i \in 1..Len(stack) - 1 : stack[i].at \in WaitLabels
  PROVE  Holds(AfterLabels)
<1>1. PICK i \in 1..Len(stack) - 1 : stack[i].at \in WaitLabels
  OBVIOUS
<1>2. Len(stack) \in Nat /\ Calls(stack[i].at, stack[i + 1].at)
  BY StackLength DEF StackInv
<1>3. stack[i + 1].at \in ReceiveLabels
  BY <1>1, <1>2 DEF Calls, WaitLabels
<1>4. i + 1 # Len(stack)
  BY <1>3 DEF Top
<1>5. i + 1 \in 1..Len(stack) - 1
  BY <1>2, <1>4
<1>6. Calls(stack[i + 1].at, stack[(i + 1) + 1].at)
  BY <1>5 DEF StackInv
<1>7. stack[i + 1].at = "receiveAfter"
  BY <1>3, <1>6 DEF Calls, ReceiveLabels
<1> QED BY <1>5, <1>7, HoldsMore DEF AfterLabels

(* Steps of the thread other than connect                                  *)
LEMMA CrashQuiet ==
  ASSUME Base, CrashInv, created' = created, Top.at # "connect",
         Top'.at # "crashed",
         Holds(AfterLabels)' /\ Top'.at # "connect" => Holds(AfterLabels),
         Holds(WaitLabels)' /\ client' = Null /\ Top'.at # "connect"
           => Holds(AfterLabels) \/ (Holds(WaitLabels) /\ client = Null)
  PROVE  CrashInv'
BY DEF CrashInv

LEMMA CrashPop ==
  ASSUME Base, CrashInv, created' = created, Top.at # "connect", Pop,
         client' = Null => client = Null \/ Holds(AfterLabels)
  PROVE  CrashInv'
<1>1. Top'.at # "crashed"
  BY CallerLabels DEF Pop
<1>2. \A labels : Holds(labels)' => Holds(labels)
  BY HoldsPop, HoldsMore DEF Base
<1> QED BY <1>1, <1>2, CrashQuiet

LEMMA CrashSwap ==
  ASSUME Base, CrashInv, created' = created, Top.at # "connect", NEW f, Swap(f),
         f.at \notin AfterLabels, f.at # "crashed",
         client' = Null => client = Null,
         f.at \in WaitLabels => Holds(WaitLabels) \/ client # Null
  PROVE  CrashInv'
<1>1. Top'.at # "crashed"
  BY DEF Swap
<1>2. Holds(AfterLabels)' => Holds(AfterLabels)
  BY HoldsSwap DEF Base
<1>3. Holds(WaitLabels)' /\ client' = Null => Holds(WaitLabels)
  BY HoldsSwap DEF Base
<1> QED BY <1>1, <1>2, <1>3, CrashQuiet

LEMMA CrashPush ==
  ASSUME Base, CrashInv, created' = created, Top.at # "connect", NEW f, NEW g, Push(f, g),
         g.at # "crashed",
         \/ g.at = "connect"
         \/ /\ f.at \notin AfterLabels /\ g.at \notin AfterLabels \cup WaitLabels
            /\ client' = Null => client = Null
            /\ f.at \in WaitLabels => Holds(WaitLabels)
  PROVE  CrashInv'
<1>1. Top'.at = g.at
  BY DEF Push
<1>2. CASE g.at = "connect"
  BY <1>1, <1>2, CrashQuiet
<1>3. CASE /\ f.at \notin AfterLabels /\ g.at \notin AfterLabels \cup WaitLabels
           /\ client' = Null => client = Null
           /\ f.at \in WaitLabels => Holds(WaitLabels)
  <2>2. Holds(AfterLabels)' => Holds(AfterLabels)
    BY <1>3, HoldsPush DEF Base
  <2>3. Holds(WaitLabels)' => Holds(WaitLabels)
    BY <1>3, HoldsPush DEF Base
  <2> QED BY <1>1, <1>3, <2>2, <2>3, CrashQuiet
<1> QED BY <1>2, <1>3

LEMMA CrashConnect ==
  ASSUME Base, CrashInv, ConnectRefused \/ ConnectAccepted
  PROVE  CrashInv'
<1>1. created \in Nat /\ created' = created + 1
  BY ClientRange DEF Base, ConnectRefused, ConnectAccepted, NewClient
<1>2. created' # 0 /\ (Holds(AfterLabels) => created' >= 2)
  BY <1>1 DEF CrashInv
<1>3. client' # Null
  BY <1>1 DEF ConnectRefused, ConnectAccepted, NewClient, Null
<1>4. Frame("handshake").at = "handshake"
  BY FrameIsFrame DEF Labels
<1>5. (Holds(AfterLabels)' => Holds(AfterLabels)) /\ Top'.at # "crashed"
  <2>1. CASE ConnectRefused
    <3>1. Pop
      BY <2>1, ConnectStack DEF Base
    <3> QED BY <3>1, HoldsPop, HoldsMore, CallerLabels DEF Base, Pop
  <2>2. CASE ConnectAccepted
    <3>1. Swap(Frame("handshake"))
      BY <2>2, ConnectStack DEF Base
    <3>2. Frame("handshake").at \notin AfterLabels
      BY <1>4 DEF AfterLabels
    <3> QED BY <1>4, <3>1, <3>2, HoldsSwap DEF Base, Swap
  <2> QED BY <2>1, <2>2
<1> QED BY <1>1, <1>2, <1>3, <1>5 DEF CrashInv

LEMMA CrashInit == Init => CrashInv
<1> SUFFICES ASSUME Init PROVE CrashInv
  OBVIOUS
<1> DEFINE f == Frame("run")  g == Frame("connect")
<1>1. f.at = "run" /\ g.at = "connect"
  BY FrameIsFrame DEF Labels
<1>2. stack = <<f, g>>
  BY DEF Init
<1> HIDE DEF f, g
<1>3. Len(stack) = 2 /\ stack[1] = f /\ stack[2] = g
  BY <1>2
<1>4. Top.at = "connect"
  BY <1>1, <1>3 DEF Top
<1>5. ~Holds(AfterLabels)
  BY <1>1, <1>3 DEF Holds, AfterLabels
<1> QED BY <1>4, <1>5 DEF CrashInv

LEMMA CrashNext == Base /\ CrashInv /\ [Next]_vars => CrashInv'
<1> SUFFICES ASSUME Base, CrashInv, [Next]_vars PROVE CrashInv'
  OBVIOUS
<1> USE DEF Base
<1>0. /\ Frame("connect").at = "connect" /\ Frame("ackWait").at = "ackWait"
      /\ SendFrame("loop").at = "send" /\ SendFrame("configure").at = "send"
      /\ Frame("receiveLoop").at = "receiveLoop" /\ Frame("ackTurn").at = "ackTurn"
      /\ Frame("receive").at = "receive" /\ Frame("receiveAfter").at = "receiveAfter"
      /\ Frame("run").at = "run" /\ Frame("mission1").at = "mission1" /\ Frame("mission2").at = "mission2"
      /\ Frame("mission3").at = "mission3" /\ Frame("mission4").at = "mission4"
      /\ Frame("mission5").at = "mission5"
      /\ [Frame("ackTurn") EXCEPT !.turn = Top.turn + 1].at = "ackTurn"
  BY FrameIsFrame, SendFrameOk DEF Labels, Commands, Frame
<1>1. CASE UNCHANGED <<stack, client, created, breaks, refusals>>
  BY <1>1 DEF CrashInv, Holds, Top
<1>2. CASE ConnectRefused \/ ConnectAccepted
  BY <1>2, CrashConnect
<1>3. CASE Handshake
  <2>1. Top.at # "connect" /\ UNCHANGED <<client, created, breaks, refusals>>
    BY <1>3, StackLength DEF Handshake, bounds
  <2>2. CASE stack' = stack
    BY <1>1, <2>1, <2>2
  <2>3. CASE Swap(Frame("mission1"))
    BY <1>0, <2>1, <2>3, CrashSwap DEF AfterLabels, WaitLabels
  <2> QED BY <1>3, <2>2, <2>3, HandshakeStack
<1>4. CASE StartMission
  <2>1. Top.at # "connect" /\ UNCHANGED <<client, created>>
    BY <1>4, StackLength DEF StartMission, MissionSend, MissionWait, MissionDone
  <2>2. CASE Pop
    BY <2>1, <2>2, CrashPop
  <2>3. CASE Push(Frame("mission2"), SendFrame("loop"))
    BY <1>0, <2>1, <2>3, CrashPush DEF AfterLabels, WaitLabels
  <2>4. CASE Push(Frame("mission3"), Frame("ackWait"))
    BY <1>0, <2>1, <2>4, CrashPush DEF AfterLabels, WaitLabels
  <2>5. CASE Push(Frame("mission4"), SendFrame("configure"))
    BY <1>0, <2>1, <2>5, CrashPush DEF AfterLabels, WaitLabels
  <2>6. CASE Push(Frame("mission5"), Frame("ackWait"))
    BY <1>0, <2>1, <2>6, CrashPush DEF AfterLabels, WaitLabels
  <2> QED BY <1>4, <2>2, <2>3, <2>4, <2>5, <2>6, MissionStack
<1>5. CASE SendConnects
  <2>1. Top.at # "connect" /\ created' = created
    BY <1>5, StackLength DEF SendConnects
  <2>2. Push([Top EXCEPT !.at = "sendAfter"], Frame("connect"))
    BY <1>5, SendStack
  <2> QED BY <1>0, <2>1, <2>2, CrashPush
<1>6. CASE SendPacket \/ SendGivesUp
  <2>1. Top.at # "connect" /\ created' = created /\ Pop
    BY <1>6, SendStack, StackLength DEF SendPacket, SendGivesUp
  <2>2. client' = Null => client = Null \/ Holds(AfterLabels)
    <3>1. CASE SendPacket
      BY <3>1 DEF SendPacket
    <3>2. CASE SendGivesUp
      <4>1. Top.at \in AfterLabels
        BY <3>2, StackLength DEF SendGivesUp, AfterLabels
      <4> QED BY <4>1, HoldsTop
    <3> QED BY <1>6, <3>1, <3>2
  <2> QED BY <2>1, <2>2, CrashPop
<1>7. CASE ReceiveTest
  <2>1. Top.at # "connect" /\ created' = created /\ client' = ClientAfterTest
    BY <1>7, StackLength DEF ReceiveTest
  <2>2. CASE Connected /\ Swap(Frame("receiveLoop"))
    BY <1>0, <2>1, <2>2, CrashSwap DEF AfterLabels, WaitLabels, ClientAfterTest
  <2>3. CASE Push(Frame("receiveAfter"), Frame("connect"))
    BY <1>0, <2>1, <2>3, CrashPush
  <2>4. CASE At("receiveAfter") /\ Pop
    <3>1. Top.at \in AfterLabels
      BY <2>4, StackLength DEF AfterLabels
    <3> QED BY <2>1, <2>4, <3>1, HoldsTop, CrashPop
  <2> QED BY <1>7, <2>2, <2>3, <2>4, ReceiveTestStack
<1>8. CASE Receive \/ ReceiveError \/ ReceiveErrorFoundOut
  <2>1. Top.at # "connect" /\ UNCHANGED <<client, created, breaks, refusals>>
    BY <1>8, StackLength DEF Receive, ReceiveError, ReceiveErrorFoundOut, RecvFails, bounds
  <2>2. CASE Pop
    BY <2>1, <2>2, CrashPop
  <2>3. CASE stack' = stack
    BY <1>1, <2>1, <2>3
  <2> QED BY <1>8, <2>2, <2>3, ReceiveStack
<1>9. CASE AckWaitEnter
  <2>1. Top.at = "ackWait" /\ created' = created /\ client' = ClientAfterTest
    BY <1>9, StackLength DEF AckWaitEnter
  <2>2. CASE Connected /\ Swap(Frame("ackTurn"))
    BY <1>0, <2>1, <2>2, CrashSwap DEF AfterLabels, WaitLabels, ClientAfterTest, Connected
  <2>3. CASE Pop
    <3>1. Top'.at # "crashed"
      BY <2>3, CallerLabels DEF Pop
    <3>2. Holds(AfterLabels)' => Holds(AfterLabels)
      BY <2>3, HoldsPop, HoldsMore
    <3>3. Holds(WaitLabels)' => Holds(AfterLabels)
      BY <2>1, <2>3, HoldsPop, WaitCalls DEF ReceiveLabels
    <3> QED BY <2>1, <3>1, <3>2, <3>3, CrashQuiet
  <2> QED BY <1>9, <2>2, <2>3, AckWaitStack
<1>10. CASE AckTurn
  <2>1. Top.at = "ackTurn" /\ Top \in FrameType /\ UNCHANGED <<client, created, bounds>>
    BY <1>10, StackLength DEF AckTurn
  <2>2. Holds(WaitLabels)
    BY <2>1, HoldsTop DEF WaitLabels
  <2>3. CASE client # Null
    <3> DEFINE f == [Top EXCEPT !.at = "ackRead", !.ptr = client]
    <3>1. Push(f, Frame("receive"))
      BY <1>10, <2>3, AckTurnStack
    <3>2. f.at = "ackRead"
      BY <2>1 DEF FrameType
    <3> HIDE DEF f
    <3> QED BY <1>0, <2>1, <2>2, <3>1, <3>2, CrashPush DEF AfterLabels, WaitLabels
  <2>4. CASE client = Null
    <3> DEFINE f == Frame("crashed")
    <3>1. stack' = <<f>> /\ f.at = "crashed"
      BY <1>10, <2>4, AckTurnStack, FrameIsFrame DEF Labels
    <3> HIDE DEF f
    <3>2. Len(stack') = 1 /\ stack'[1] = f
      BY <3>1
    <3>3. Top'.at = "crashed" /\ ~Holds(AfterLabels)' /\ ~Holds(WaitLabels)'
      BY <3>1, <3>2 DEF Top, Holds, AfterLabels, WaitLabels
    <3>4. created >= 2
      BY <2>1, <2>2, <2>4 DEF CrashInv
    <3>5. link # "up"
      BY <2>1, <2>4, StackLength DEF ClientInv, Connected
    <3>6. breaks' + refusals' >= 2
      BY <2>1, <3>4, <3>5, Bounds DEF ClientInv, bounds
    <3> QED BY <2>1, <3>3, <3>4, <3>6 DEF CrashInv
  <2> QED BY <2>3, <2>4
<1>11. CASE AckTimeout \/ AckRead
  <2>1. Top.at \in WaitLabels /\ Top.at # "connect" /\ UNCHANGED <<client, created>>
    BY <1>11, StackLength DEF AckTimeout, AckRead, WaitLabels
  <2>2. CASE Pop
    BY <2>1, <2>2, CrashPop
  <2>3. CASE Swap([Frame("ackTurn") EXCEPT !.turn = Top.turn + 1])
    BY <1>0, <2>1, <2>3, HoldsTop, CrashSwap DEF AfterLabels
  <2> QED BY <1>11, <2>2, <2>3, AckTimeoutStack, AckReadStack
<1>12. CASE RunTurn
  <2>1. Top.at \in RunLabels /\ Top.at # "connect" /\ created' = created
    BY <1>12, StackLength DEF RunTurn, RunLabels
  <2>2. Push(DecodeFrame, Frame("receive")) /\ DecodeFrame.at = "decode" /\ Len(stack) = 1
    BY <1>12, <2>1, RunStack, BottomIsTop
  <2>3. /\ Len(stack') = 2 /\ stack'[1].at = "decode" /\ stack'[2].at = "receive"
        /\ Top'.at = "receive"
    BY <1>0, <2>2 DEF Push
  <2>4. ~Holds(AfterLabels)' /\ ~Holds(WaitLabels)'
    BY <2>3 DEF Holds, AfterLabels, WaitLabels
  <2> QED BY <2>1, <2>3, <2>4, CrashQuiet
<1>13. CASE RunDecode
  <2>1. Top.at # "connect" /\ UNCHANGED <<client, created>> /\ Swap(Frame("run"))
    BY <1>13, RunStack, StackLength DEF RunDecode
  <2> QED BY <1>0, <2>1, CrashSwap DEF AfterLabels, WaitLabels
<1>14. CASE ReceiveHeader \/ ServerHandles \/ ServerData \/ ServerAlive \/ UNCHANGED vars
  <2>1. UNCHANGED <<stack, client, created, breaks, refusals>>
    BY <1>14 DEF ReceiveHeader, ServerHandles, ServerData, ServerAlive, ClientUnchanged, bounds, vars
  <2> QED BY <1>1, <2>1
<1>15. CASE Break
  <2>1. UNCHANGED <<stack, client, created, refusals>> /\ breaks' = breaks + 1
    BY <1>15 DEF Break, ClientUnchanged
  <2>2. breaks \in Nat /\ refusals \in Nat
    BY Bounds DEF ClientInv
  <2> QED BY <2>1, <2>2 DEF CrashInv, Holds, Top
<1> QED BY <1>2, <1>3, <1>4, <1>5, <1>6, <1>7, <1>8, <1>9, <1>10, <1>11, <1>12, <1>13, <1>14, <1>15
  DEF Next, Node

(* ackWait tests the connection once and uses _ncp_client in every turn    *)
(* (node.cpp): one loss, at whatever moment, is survived.                  *)
THEOREM OneLossIsSurvived == Spec => []OneLossSurvived
<1>1. Base /\ CrashInv => OneLossSurvived
  <2> SUFFICES ASSUME Base, CrashInv, breaks + refusals < 2, At("crashed") PROVE FALSE
    BY DEF OneLossSurvived
  <2>1. breaks + refusals >= 2
    BY StackLength DEF Base, CrashInv
  <2>2. breaks \in Nat /\ refusals \in Nat
    BY Bounds DEF Base, ClientInv
  <2> QED BY <2>1, <2>2
<1> QED BY <1>1, BaseInit, BaseNext, CrashInit, CrashNext, PTL DEF Spec

-----------------------------------------------------------------------------
(* How far the mission is on a live connection: all commands are on their  *)
(* way or executed, or startMission is at the place where it sends what is *)
(* missing, perhaps inside of a wait for the first acknowledgement.        *)
Asked(command) == \/ command \in mission
                  \/ \E i \in 1..Len(toServer) : toServer[i] = command
Caller == stack[Len(stack) - 1].at
AtSend(caller, command) ==
  Len(stack) > 1 /\ Top.at = "send" /\ Top.command = command /\ Caller = caller
Waiting == \E i \in 1..Len(stack) :
             /\ stack[i].at = "mission3"
             /\ \A j \in i + 1..Len(stack) : stack[j].at \notin MissionLabels

MissionInv ==
  (link = "up" /\ Top.at # "handshake") =>
    \/ Asked("loop") /\ Asked("configure")
    \/ Top.at = "mission1"
    \/ AtSend("mission2", "loop")
    \/ Asked("loop") /\ (Top.at = "mission2" \/ Waiting \/ AtSend("mission4", "configure"))

(* A wait for the first acknowledgement is not seen from inside the        *)
(* startMission of another connection, nor from send_packet.               *)
LEMMA NotWaiting ==
  ASSUME StackInv,
         \/ Top.at \in MissionLabels \ {"mission3"} \/ Top.at \in SendLabels \/ Len(stack) = 1
  PROVE  ~Waiting
<1> SUFFICES ASSUME Waiting PROVE FALSE
  OBVIOUS
<1>1. PICK i \in 1..Len(stack) : /\ stack[i].at = "mission3"
                                 /\ \A j \in i + 1..Len(stack) : stack[j].at \notin MissionLabels
  BY DEF Waiting
<1>2. Len(stack) \in Nat /\ Len(stack) >= 1
  BY StackLength DEF StackInv
<1>3. CASE Len(stack) = 1
  <2>1. stack[i].at = Top.at /\ Top.at \in RunLabels
    BY <1>1, <1>3, Callers DEF Top
  <2> QED BY <1>1, <2>1 DEF RunLabels
<1>4. CASE Top.at \in MissionLabels \ {"mission3"}
  <2>1. i # Len(stack)
    BY <1>1, <1>4 DEF Top
  <2>2. Len(stack) \in i + 1..Len(stack)
    BY <1>2, <2>1
  <2> QED BY <1>1, <1>4, <2>2 DEF Top
<1>5. CASE Top.at \in SendLabels
  <2>1. i # Len(stack)
    BY <1>1, <1>5 DEF Top, SendLabels
  <2>2. Len(stack) > 1
    BY <1>2, <2>1
  <2>3. Caller \in {"mission2", "mission4"}
    BY <1>5, <2>2, Callers DEF Caller, Calls, SendLabels, ConnectLabels, MissionLabels, ReceiveLabels, AckLabels
  <2>4. i # Len(stack) - 1
    BY <1>1, <2>3 DEF Caller
  <2>5. Len(stack) - 1 \in i + 1..Len(stack)
    BY <1>2, <2>1, <2>4
  <2> QED BY <1>1, <2>3, <2>5 DEF Caller, MissionLabels
<1> QED BY <1>3, <1>4, <1>5

(* Steps inside of a wait *)
LEMMA WaitingKept ==
  ASSUME StackInv, Waiting, Top.at \notin MissionLabels,
         \/ Pop
         \/ \E f : Swap(f) /\ f.at \notin MissionLabels
         \/ \E f, g : Push(f, g) /\ f.at \notin MissionLabels /\ g.at \notin MissionLabels
         \/ stack' = stack
  PROVE  Waiting'
<1>1. PICK i \in 1..Len(stack) : /\ stack[i].at = "mission3"
                                 /\ \A j \in i + 1..Len(stack) : stack[j].at \notin MissionLabels
  BY DEF Waiting
<1>2. Len(stack) \in Nat /\ Len(stack) >= 1
  BY StackLength DEF StackInv
<1>3. i # Len(stack)
  BY <1>1 DEF Top, MissionLabels
<1>4. i \in 1..Len(stack) - 1
  BY <1>2, <1>3
<1>5. CASE Pop
  <2>1. /\ Len(stack') = Len(stack) - 1 /\ \A k \in 1..Len(stack) - 1 : stack'[k] = stack[k]
    BY <1>5 DEF Pop
  <2>2. \A j \in i + 1..Len(stack') : j \in 1..Len(stack) - 1 /\ j \in i + 1..Len(stack)
    BY <1>2, <1>4, <2>1
  <2>3. i \in 1..Len(stack') /\ stack'[i].at = "mission3"
    BY <1>1, <1>4, <2>1
  <2>4. \A j \in i + 1..Len(stack') : stack'[j].at \notin MissionLabels
    BY <1>1, <2>1, <2>2
  <2> QED BY <2>3, <2>4 DEF Waiting
<1>6. ASSUME NEW f, Swap(f), f.at \notin MissionLabels PROVE Waiting'
  <2>1. /\ Len(stack') = Len(stack) /\ \A k \in 1..Len(stack) - 1 : stack'[k] = stack[k]
        /\ stack'[Len(stack)] = f
    BY <1>6 DEF Swap
  <2>2. \A j \in i + 1..Len(stack') : j \in i + 1..Len(stack) /\ (j # Len(stack) => j \in 1..Len(stack) - 1)
    BY <1>2, <1>4, <2>1
  <2>3. i \in 1..Len(stack') /\ stack'[i].at = "mission3"
    BY <1>1, <1>4, <2>1
  <2>4. \A j \in i + 1..Len(stack') : stack'[j].at \notin MissionLabels
    BY <1>1, <1>6, <2>1, <2>2
  <2> QED BY <2>3, <2>4 DEF Waiting
<1>7. ASSUME NEW f, NEW g, Push(f, g), f.at \notin MissionLabels, g.at \notin MissionLabels PROVE Waiting'
  <2>1. /\ Len(stack') = Len(stack) + 1 /\ \A k \in 1..Len(stack) - 1 : stack'[k] = stack[k]
        /\ stack'[Len(stack)] = f /\ stack'[Len(stack) + 1] = g
    BY <1>7 DEF Push
  <2>2. \A j \in i + 1..Len(stack') :
          j # Len(stack) /\ j # Len(stack) + 1 => j \in 1..Len(stack) - 1 /\ j \in i + 1..Len(stack)
    BY <1>2, <1>4, <2>1, SMTT(30)
  <2>3. i \in 1..Len(stack') /\ stack'[i].at = "mission3"
    BY <1>1, <1>2, <1>4, <2>1
  <2>4. \A j \in i + 1..Len(stack') : stack'[j].at \notin MissionLabels
    BY <1>1, <1>7, <2>1, <2>2
  <2> QED BY <2>3, <2>4 DEF Waiting
<1>8. CASE stack' = stack
  BY <1>8 DEF Waiting
<1> QED BY <1>5, <1>6, <1>7, <1>8

(* Steps of receive_packet, ackWait and run *)
LEMMA MissionQuiet ==
  ASSUME StackInv, MissionInv, UNCHANGED <<link, toServer, mission>>,
         Top.at \notin MissionLabels \cup {"send", "handshake"},
         Waiting => Waiting'
  PROVE  MissionInv'
<1>1. (Asked("loop")' <=> Asked("loop")) /\ (Asked("configure")' <=> Asked("configure"))
  BY DEF Asked
<1>2. \A c, d : ~AtSend(c, d)
  BY DEF AtSend
<1>3. Top.at # "mission1" /\ Top.at # "mission2"
  BY DEF MissionLabels
<1> QED BY <1>1, <1>2, <1>3 DEF MissionInv

LEMMA MissionThread ==
  ASSUME Base, MissionInv,
         \/ ReceiveTest
         \/ Receive \/ ReceiveError \/ ReceiveErrorFoundOut
         \/ AckWaitEnter \/ AckTurn \/ AckTimeout \/ AckRead \/ RunTurn \/ RunDecode
  PROVE  MissionInv'
<1> USE DEF Base
<1>0. /\ Frame("receiveLoop").at = "receiveLoop" /\ Frame("ackTurn").at = "ackTurn"
      /\ Frame("receive").at = "receive" /\ Frame("run").at = "run"
      /\ [Frame("ackTurn") EXCEPT !.turn = Top.turn + 1].at = "ackTurn"
  BY FrameIsFrame DEF Labels, Frame
<1>1. /\ Top.at \notin MissionLabels \cup {"send", "handshake"}
      /\ UNCHANGED <<link, toServer, mission>>
  BY StackLength DEF ReceiveTest, Receive, ReceiveError, ReceiveErrorFoundOut, RecvFails, AckWaitEnter,
     AckTurn, AckTimeout, AckRead, RunTurn, RunDecode, MissionLabels, serverVars
<1>2. link = "up" => Connected
  BY <1>1, StackLength DEF ClientInv
<1>3. CASE \/ Pop
           \/ \E f : Swap(f) /\ f.at \notin MissionLabels
           \/ \E f, g : Push(f, g) /\ f.at \notin MissionLabels /\ g.at \notin MissionLabels
           \/ stack' = stack
  BY <1>1, <1>3, WaitingKept, MissionQuiet
<1>4. CASE link # "up"
  BY <1>1, <1>4 DEF MissionInv
<1>5. CASE Len(stack) = 1
  BY <1>1, <1>5, NotWaiting, MissionQuiet
<1>6. CASE ReceiveTest /\ Connected
  <2>1. Swap(Frame("receiveLoop")) /\ Frame("receiveLoop").at \notin MissionLabels
    BY <1>0, <1>6, ReceiveTestStack DEF MissionLabels
  <2> QED BY <1>3, <2>1
<1>7. CASE Receive \/ ReceiveError \/ ReceiveErrorFoundOut
  BY <1>3, <1>7, ReceiveStack
<1>8. CASE AckWaitEnter \/ AckRead
  <2>1. \/ Pop
        \/ Swap(Frame("ackTurn")) /\ Frame("ackTurn").at \notin MissionLabels
        \/ /\ Swap([Frame("ackTurn") EXCEPT !.turn = Top.turn + 1])
           /\ [Frame("ackTurn") EXCEPT !.turn = Top.turn + 1].at \notin MissionLabels
    BY <1>0, <1>8, AckWaitStack, AckReadStack DEF MissionLabels
  <2> QED BY <1>3, <2>1
<1>9. CASE AckTurn /\ Connected
  <2> DEFINE f == [Top EXCEPT !.at = "ackRead", !.ptr = client]
  <2>1. Push(f, Frame("receive"))
    BY <1>9, AckTurnStack DEF Connected
  <2>2. f.at = "ackRead"
    BY StackLength DEF FrameType
  <2> HIDE DEF f
  <2>3. f.at \notin MissionLabels /\ Frame("receive").at \notin MissionLabels
    BY <1>0, <2>2 DEF MissionLabels
  <2> QED BY <1>3, <2>1, <2>3
<1>10. CASE AckTimeout
  BY <1>3, <1>10, AckTimeoutStack
<1>11. CASE RunTurn \/ RunDecode
  <2>1. Top.at \in RunLabels
    BY <1>11, StackLength DEF RunTurn, RunDecode, RunLabels
  <2> QED BY <1>5, <2>1, BottomIsTop
<1> QED BY <1>2, <1>4, <1>6, <1>7, <1>8, <1>9, <1>10, <1>11

LEMMA MissionStart ==
  ASSUME Base, MissionInv, StartMission
  PROVE  MissionInv'
<1> USE DEF Base
<1>0. /\ Frame("ackWait").at = "ackWait"
      /\ SendFrame("loop").at = "send" /\ SendFrame("configure").at = "send"
      /\ SendFrame("loop").command = "loop" /\ SendFrame("configure").command = "configure"
      /\ Frame("mission2").at = "mission2"
      /\ Frame("mission3").at = "mission3" /\ Frame("mission4").at = "mission4"
  BY FrameIsFrame, SendFrameOk DEF Labels, Commands
<1>1. UNCHANGED <<link, toServer, mission>> /\ Top.at # "handshake"
  BY StackLength DEF StartMission, MissionSend, MissionWait, MissionDone, serverVars
<1>2. (Asked("loop")' <=> Asked("loop")) /\ (Asked("configure")' <=> Asked("configure"))
  BY <1>1 DEF Asked
<1>3. Len(stack) \in Nat /\ Len(stack) >= 1
  BY StackLength DEF StackInv
<1>4. \A c, d : Top.at # "send" => ~AtSend(c, d)
  BY DEF AtSend
<1>5. CASE At("mission1") /\ Push(Frame("mission2"), SendFrame("loop"))
  <2>1. /\ Len(stack') = Len(stack) + 1 /\ Top' = SendFrame("loop")
        /\ stack'[Len(stack)] = Frame("mission2")
    BY <1>5 DEF Push
  <2>2. Len(stack') > 1 /\ Len(stack') - 1 = Len(stack)
    BY <1>3, <2>1
  <2>3. AtSend("mission2", "loop")'
    BY <1>0, <2>1, <2>2 DEF AtSend, Caller
  <2> QED BY <2>3 DEF MissionInv
<1>6. CASE At("mission2") /\ Push(Frame("mission3"), Frame("ackWait"))
  <2>1. Top.at = "mission2" /\ ~Waiting
    BY <1>6, StackLength, NotWaiting DEF MissionLabels
  <2>2. link = "up" => Asked("loop")
    BY <1>1, <1>4, <2>1 DEF MissionInv
  <2>3. /\ Len(stack') = Len(stack) + 1 /\ stack'[Len(stack)] = Frame("mission3")
        /\ stack'[Len(stack) + 1] = Frame("ackWait")
    BY <1>6 DEF Push
  <2>4. \A j \in Len(stack) + 1..Len(stack') : j = Len(stack) + 1
    BY <1>3, <2>3
  <2>5. Len(stack) \in 1..Len(stack') /\ Frame("ackWait").at \notin MissionLabels
    BY <1>0, <1>3, <2>3 DEF MissionLabels
  <2>6. Waiting'
    BY <1>0, <2>3, <2>4, <2>5 DEF Waiting
  <2> QED BY <1>1, <1>2, <2>2, <2>6 DEF MissionInv
<1>7. CASE At("mission3") /\ Push(Frame("mission4"), SendFrame("configure"))
  <2>1. Top.at = "mission3"
    BY <1>7, StackLength
  <2>2. link = "up" => Asked("loop")
    BY <1>1, <1>4, <2>1 DEF MissionInv
  <2>3. /\ Len(stack') = Len(stack) + 1 /\ Top' = SendFrame("configure")
        /\ stack'[Len(stack)] = Frame("mission4")
    BY <1>7 DEF Push
  <2>4. Len(stack') > 1 /\ Len(stack') - 1 = Len(stack)
    BY <1>3, <2>3
  <2>5. AtSend("mission4", "configure")'
    BY <1>0, <2>3, <2>4 DEF AtSend, Caller
  <2> QED BY <1>1, <1>2, <2>2, <2>5 DEF MissionInv
<1>8. CASE At("mission4") \/ At("mission5")
  <2>1. Top.at \in {"mission4", "mission5"} /\ ~Waiting
    BY <1>8, StackLength, NotWaiting DEF MissionLabels
  <2>2. link = "up" => Asked("loop") /\ Asked("configure")
    BY <1>1, <1>4, <2>1 DEF MissionInv
  <2> QED BY <1>1, <1>2, <2>2 DEF MissionInv
<1> QED BY <1>5, <1>6, <1>7, <1>8, MissionStack

LEMMA AskedAppend ==
  ASSUME NEW command \in ToServer, toServer \in Seq(ToServer),
         toServer' = Append(toServer, command), mission' = mission
  PROVE  Asked(command)' /\ \A c : Asked(c) => Asked(c)'
<1>1. /\ Len(toServer') = Len(toServer) + 1 /\ Len(toServer) \in Nat
      /\ \A i \in 1..Len(toServer) : toServer'[i] = toServer[i]
      /\ toServer'[Len(toServer) + 1] = command
  OBVIOUS
<1>2. Len(toServer) + 1 \in 1..Len(toServer') /\ \A i \in 1..Len(toServer) : i \in 1..Len(toServer')
  BY <1>1
<1> QED BY <1>1, <1>2 DEF Asked

LEMMA MissionSendStep ==
  ASSUME Base, DataType, MissionInv, SendConnects \/ SendPacket \/ SendGivesUp
  PROVE  MissionInv'
<1> USE DEF Base
<1>1. Top.at \in SendLabels /\ UNCHANGED <<link, mission>> /\ ~Waiting
  <2>1. Top.at \in SendLabels
    BY StackLength DEF SendConnects, SendPacket, SendGivesUp, SendLabels
  <2> QED BY <2>1, NotWaiting DEF SendConnects, SendPacket, SendGivesUp, serverVars
<1>2. link = "up" => Connected
  BY <1>1, StackLength DEF ClientInv, SendLabels
<1>3. CASE link # "up"
  BY <1>1, <1>3 DEF MissionInv
<1>4. CASE link = "up" /\ SendPacket
  <2>0. PICK c \in ToServer : c = Top.command
    BY <1>4, SendStack DEF ToServer
  <2>1. /\ toServer' = Append(toServer, c) /\ Pop
        /\ toServer \in Seq(ToServer) /\ Top.at # "handshake"
    BY <1>1, <1>4, <2>0, SendStack DEF SendPacket, Send, ToServer, DataType, SendLabels
  <2>2. Asked(c)' /\ \A d : Asked(d) => Asked(d)'
    BY <1>1, <2>1, AskedAppend
  <2>3. CASE Asked("loop") /\ Asked("configure")
    BY <2>2, <2>3 DEF MissionInv
  <2>4. CASE AtSend("mission2", "loop")
    <3>1. c = "loop" /\ Top'.at = "mission2"
      BY <2>0, <2>1, <2>4 DEF AtSend, Caller, Pop
    <3>2. Asked("loop")'
      BY <2>2, <3>1
    <3> QED BY <3>1, <3>2 DEF MissionInv
  <2>5. CASE Asked("loop") /\ AtSend("mission4", "configure")
    <3>1. c = "configure"
      BY <2>0, <2>5 DEF AtSend
    <3>2. Asked("loop")' /\ Asked("configure")'
      BY <2>2, <2>5, <3>1
    <3> QED BY <3>2 DEF MissionInv
  <2> QED BY <1>1, <1>4, <2>1, <2>3, <2>4, <2>5 DEF MissionInv, SendLabels
<1> QED BY <1>2, <1>3, <1>4 DEF SendConnects, SendGivesUp

LEMMA MissionServer ==
  ASSUME DataType, MissionInv, ServerHandles
  PROVE  MissionInv'
<1>1. /\ UNCHANGED <<stack, link>> /\ toServer \in Seq(ToServer) /\ toServer # <<>>
      /\ toServer' = Tail(toServer)
      /\ mission' = mission \/ mission' = mission \cup {Head(toServer)}
      /\ Head(toServer) \in Commands => mission' = mission \cup {Head(toServer)}
  BY DEF ServerHandles, ClientUnchanged, DataType, Commands
<1>2. /\ Len(toServer) \in Nat /\ Len(toServer') = Len(toServer) - 1 /\ Head(toServer) = toServer[1]
      /\ \A i \in 1..Len(toServer') : toServer'[i] = toServer[i + 1]
  BY <1>1
<1>3. ASSUME NEW c \in Commands, Asked(c) PROVE Asked(c)'
  <2>1. CASE c \in mission
    BY <1>1, <2>1 DEF Asked
  <2>2. ASSUME NEW i \in 1..Len(toServer), toServer[i] = c PROVE Asked(c)'
    <3>1. CASE i = 1
      BY <1>1, <1>2, <2>2, <3>1 DEF Asked
    <3>2. CASE i # 1
      <4>1. i - 1 \in 1..Len(toServer') /\ (i - 1) + 1 = i
        BY <1>2, <3>2
      <4>2. toServer'[i - 1] = c
        BY <1>2, <2>2, <4>1
      <4> QED BY <4>1, <4>2 DEF Asked
    <3> QED BY <3>1, <3>2
  <2> QED BY <1>3, <2>1, <2>2 DEF Asked
<1>4. Top' = Top /\ Waiting' = Waiting /\ \A c, d : AtSend(c, d)' <=> AtSend(c, d)
  BY <1>1 DEF Top, Waiting, AtSend, Caller
<1> QED BY <1>1, <1>3, <1>4 DEF MissionInv, Commands

LEMMA MissionInit == Init => MissionInv
BY DEF Init, MissionInv

LEMMA MissionNext == Base /\ DataType /\ MissionInv /\ [Next]_vars => MissionInv'
<1> SUFFICES ASSUME Base, DataType, MissionInv, [Next]_vars PROVE MissionInv'
  OBVIOUS
<1>1. CASE UNCHANGED <<stack, link, toServer, mission>>
  BY <1>1 DEF MissionInv, Asked, AtSend, Caller, Waiting, Top
<1>2. CASE ConnectRefused
  BY <1>2 DEF ConnectRefused, MissionInv
<1>3. CASE ConnectAccepted
  <2>1. Top'.at = "handshake"
    BY <1>3, ConnectStack, FrameIsFrame DEF Base, Swap, Labels
  <2> QED BY <2>1 DEF MissionInv
<1>4. CASE Handshake
  <2>1. CASE Swap(Frame("mission1"))
    <3>1. Top'.at = "mission1"
      BY <2>1, FrameIsFrame DEF Swap, Labels
    <3> QED BY <3>1 DEF MissionInv
  <2>2. CASE stack' = stack
    <3>1. Top.at = "handshake"
      BY <1>4, StackLength DEF Handshake, Base
    <3> QED BY <2>2, <3>1 DEF MissionInv, Top
  <2> QED BY <1>4, <2>1, <2>2, HandshakeStack DEF Base
<1>5. CASE StartMission
  BY <1>5, MissionStart
<1>6. CASE SendConnects \/ SendPacket \/ SendGivesUp
  BY <1>6, MissionSendStep
<1>7. CASE \/ ReceiveTest
           \/ Receive \/ ReceiveError \/ ReceiveErrorFoundOut
           \/ AckWaitEnter \/ AckTurn \/ AckTimeout \/ AckRead \/ RunTurn \/ RunDecode
  BY <1>7, MissionThread
<1>8. CASE ServerHandles
  BY <1>8, MissionServer
<1>9. CASE ReceiveHeader \/ ServerData \/ ServerAlive \/ UNCHANGED vars
  <2>1. UNCHANGED <<stack, link, toServer, mission>>
    BY <1>9 DEF ReceiveHeader, ServerData, ServerAlive, ClientUnchanged, serverVars, vars
  <2> QED BY <1>1, <2>1
<1>10. CASE Break
  BY <1>10 DEF Break, MissionInv
<1> QED BY <1>2, <1>3, <1>4, <1>5, <1>6, <1>7, <1>8, <1>9, <1>10 DEF Next, Node

(* node.cpp:195: the mission is started again after each disconnection;    *)
(* however connections come and go in the middle of startMission, both     *)
(* commands are executed or on their way when run turns to a live one.     *)
THEOREM MissionIsRestarted == Spec => []MissionRestarted
<1>1. Base /\ MissionInv => MissionRestarted
  <2> SUFFICES ASSUME Base, MissionInv, At("run"), link = "up", NEW c \in Commands
               PROVE  c \in mission \cup {toServer[i] : i \in 1..Len(toServer)}
    BY DEF MissionRestarted
  <2>1. Top.at = "run" /\ ~Waiting
    BY StackLength, BottomIsTop, NotWaiting DEF Base, RunLabels
  <2>2. Asked("loop") /\ Asked("configure")
    BY <2>1 DEF MissionInv, AtSend
  <2> QED BY <2>2 DEF Asked, Commands
<1>2. Spec => [](Base /\ DataInv)
  BY DataHolds
<1>3. DataInv => DataType
  BY DEF DataInv
<1> QED BY <1>1, <1>2, <1>3, MissionInit, MissionNext, PTL DEF Spec

-----------------------------------------------------------------------------
(* How often labels occur on the stack                                     *)
Places(labels) == {i \in 1..Len(stack) : stack[i].at \in labels}
PlacesBelow(labels) == {i \in 1..Len(stack) - 1 : stack[i].at \in labels}
Times(labels) == Cardinality(Places(labels))
TimesBelow(labels) == Cardinality(PlacesBelow(labels))
Is(l, labels) == IF l \in labels THEN 1 ELSE 0

(* A place more or the same places, as the label is one of them or not     *)
LEMMA PlaceAdded ==
  ASSUME NEW n \in Nat, NEW M \in SUBSET (1..n), NEW L, NEW l, NEW labels,
         l \in labels => L = M \cup {n + 1},
         l \notin labels => L = M
  PROVE  /\ L \in SUBSET (1..n + 1) /\ Cardinality(M) \in Nat
         /\ Cardinality(L) = Cardinality(M) + Is(l, labels)
<1>1. IsFiniteSet(M) /\ Cardinality(M) \in Nat
  BY LevelsFinite
<1>4. n + 1 \notin M
  OBVIOUS
<1>5. M \in SUBSET (1..n + 1) /\ M \cup {n + 1} \in SUBSET (1..n + 1)
  OBVIOUS
<1>6. L \in SUBSET (1..n + 1)
  BY <1>5
<1>2. CASE l \in labels
  <2>1. Cardinality(M \cup {n + 1}) = Cardinality(M) + 1
    BY <1>1, <1>4, FS_AddElement
  <2>2. Is(l, labels) = 1
    BY <1>2 DEF Is
  <2>3. L = M \cup {n + 1}
    BY <1>2
  <2>4. Cardinality(L) = Cardinality(M) + 1
    BY <2>1, <2>3
  <2> QED BY <1>1, <1>6, <2>2, <2>4
<1>3. CASE l \notin labels
  <2>1. Is(l, labels) = 0 /\ L = M
    BY <1>3 DEF Is
  <2> QED BY <1>1, <2>1
<1> QED BY <1>1, <1>2, <1>3, <1>6

LEMMA BelowFacts ==
  ASSUME StackInv, NEW labels
  PROVE  /\ Len(stack) - 1 \in Nat /\ (Len(stack) - 1) + 1 = Len(stack)
         /\ PlacesBelow(labels) \in SUBSET (1..Len(stack) - 1)
         /\ TimesBelow(labels) \in Nat
<1>1. Len(stack) \in Nat /\ Len(stack) >= 1
  BY StackLength DEF StackInv
<1>2. PlacesBelow(labels) \in SUBSET (1..Len(stack) - 1)
  BY DEF PlacesBelow
<1>3. Len(stack) - 1 \in Nat /\ (Len(stack) - 1) + 1 = Len(stack)
  BY <1>1
<1>4. Cardinality(PlacesBelow(labels)) \in Nat
  BY <1>2, <1>3, LevelsFinite
<1> QED BY <1>2, <1>3, <1>4 DEF TimesBelow

LEMMA TimesTop ==
  ASSUME StackInv, NEW labels
  PROVE  Times(labels) = TimesBelow(labels) + Is(Top.at, labels)
<1> DEFINE n == Len(stack) - 1  M == PlacesBelow(labels)  L == Places(labels)
<1>1. Len(stack) \in Nat /\ Len(stack) >= 1 /\ Top = stack[Len(stack)]
  BY StackLength DEF Top
<1>2. Top.at \in labels => L = M \cup {n + 1}
  BY <1>1 DEF Places, PlacesBelow
<1>3. Top.at \notin labels => L = M
  BY <1>1 DEF Places, PlacesBelow
<1>4. n \in Nat /\ M \in SUBSET (1..n)
  BY BelowFacts
<1> HIDE DEF n, M, L
<1>5. Cardinality(L) = Cardinality(M) + Is(Top.at, labels)
  BY <1>2, <1>3, <1>4, PlaceAdded
<1> QED BY <1>5 DEF Times, TimesBelow, M, L

LEMMA TimesPop ==
  ASSUME StackInv, Pop, NEW labels
  PROVE  Times(labels)' = TimesBelow(labels)
<1>1. Len(stack') = Len(stack) - 1 /\ \A i \in 1..Len(stack) - 1 : stack'[i] = stack[i]
  BY DEF Pop
<1>2. Places(labels)' = PlacesBelow(labels)
  BY <1>1 DEF Places, PlacesBelow
<1> QED BY <1>2 DEF Times, TimesBelow

LEMMA TimesSwap ==
  ASSUME StackInv, NEW f, Swap(f), NEW labels
  PROVE  Times(labels)' = TimesBelow(labels) + Is(f.at, labels)
<1> DEFINE n == Len(stack) - 1  M == PlacesBelow(labels)  L == Places(labels)'
<1>1. /\ Len(stack) \in Nat /\ Len(stack) >= 1 /\ Len(stack') = Len(stack)
      /\ \A i \in 1..Len(stack) - 1 : stack'[i] = stack[i]
      /\ stack'[Len(stack)] = f
  BY StackLength DEF Swap
<1>2. f.at \in labels => L = M \cup {n + 1}
  BY <1>1 DEF Places, PlacesBelow
<1>3. f.at \notin labels => L = M
  BY <1>1 DEF Places, PlacesBelow
<1>4. n \in Nat /\ M \in SUBSET (1..n)
  BY BelowFacts
<1> HIDE DEF n, M, L
<1>5. Cardinality(L) = Cardinality(M) + Is(f.at, labels)
  BY <1>2, <1>3, <1>4, PlaceAdded
<1> QED BY <1>5 DEF Times, TimesBelow, M, L

LEMMA TimesPush ==
  ASSUME StackInv, NEW f, NEW g, Push(f, g), NEW labels
  PROVE  Times(labels)' = TimesBelow(labels) + Is(f.at, labels) + Is(g.at, labels)
<1> DEFINE n == Len(stack) - 1  M == PlacesBelow(labels)  L == Places(labels)'
           N == {i \in 1..Len(stack) : stack'[i].at \in labels}
<1>1. /\ Len(stack) \in Nat /\ Len(stack) >= 1 /\ Len(stack') = Len(stack) + 1
      /\ \A i \in 1..Len(stack) - 1 : stack'[i] = stack[i]
      /\ stack'[Len(stack)] = f /\ stack'[Len(stack) + 1] = g
  BY StackLength DEF Push
<1>2. f.at \in labels => N = M \cup {n + 1}
  BY <1>1 DEF PlacesBelow
<1>3. f.at \notin labels => N = M
  BY <1>1 DEF PlacesBelow
<1>4. g.at \in labels => L = N \cup {Len(stack) + 1}
  BY <1>1 DEF Places
<1>5. g.at \notin labels => L = N
  BY <1>1 DEF Places
<1>6. N \in SUBSET (1..Len(stack))
  OBVIOUS
<1>7. n \in Nat /\ M \in SUBSET (1..n)
  BY BelowFacts
<1> HIDE DEF n, M, N, L
<1>8. Cardinality(N) = Cardinality(M) + Is(f.at, labels)
  BY <1>2, <1>3, <1>7, PlaceAdded
<1>9. Cardinality(L) = Cardinality(N) + Is(g.at, labels)
  BY <1>1, <1>4, <1>5, <1>6, PlaceAdded
<1> QED BY <1>8, <1>9 DEF Times, TimesBelow, M, L

-----------------------------------------------------------------------------
(* The captures that may still be lost.  On the stack, a connect that has  *)
(* not come to its first wait may lose one in each wait, and one in the    *)
(* second later; a wait in progress may lose one, and so may a call of     *)
(* receive_packet that has connected again, whose caller looks at the      *)
(* packet of the client before.                                            *)
FirstLabels == {"connect", "handshake", "mission1", "mission2"}
SecondLabels == FirstLabels \cup {"mission3", "mission4"}
AgainLabels == {"receiveAfter"}

Weight(l) == Is(l, FirstLabels) + Is(l, SecondLabels) + Is(l, AckLabels) + Is(l, AgainLabels)
StackLoad == Times(FirstLabels) + Times(SecondLabels) + Times(AckLabels) + Times(AgainLabels)
BelowLoad == TimesBelow(FirstLabels) + TimesBelow(SecondLabels) + TimesBelow(AckLabels)
               + TimesBelow(AgainLabels)

(* Of these, the waits that find their acknowledgement lose nothing.       *)
Room(l) == Is(l, FirstLabels) + Is(l, AckLabels)
StackRoom == Times(FirstLabels) + Times(AckLabels)
BelowRoom == TimesBelow(FirstLabels) + TimesBelow(AckLabels)

(* A wait that has its packet loses no other one; a receive_packet whose   *)
(* caller looks at an old packet will lose what it receives.               *)
Spent == IF Top.at = "ackRead" /\ HasParameter(rx[Top.ptr]) THEN 1 ELSE 0
Stale == IF Top.at = "receiveLoop" /\ stack[Len(stack) - 1].ptr # created THEN 1 ELSE 0
Load == StackLoad - Spent + Stale
Free == StackRoom - Spent

LEMMA Weights ==
  /\ \A l \in FirstLabels : Weight(l) = 2 /\ Room(l) = 1
  /\ \A l \in {"mission3", "mission4"} : Weight(l) = 1 /\ Room(l) = 0
  /\ \A l \in AckLabels : Weight(l) = 1 /\ Room(l) = 1
  /\ Weight("receiveAfter") = 1 /\ Room("receiveAfter") = 0
  /\ \A l \in {"run", "decode", "crashed", "mission5", "send", "sendAfter", "receive", "receiveLoop"} :
       Weight(l) = 0 /\ Room(l) = 0
<1>1. \A l \in FirstLabels : Weight(l) = 2 /\ Room(l) = 1
  BY DEF Weight, Room, Is, FirstLabels, SecondLabels, AckLabels, AgainLabels
<1>2. \A l \in {"mission3", "mission4"} : Weight(l) = 1 /\ Room(l) = 0
  BY DEF Weight, Room, Is, FirstLabels, SecondLabels, AckLabels, AgainLabels
<1>3. \A l \in AckLabels : Weight(l) = 1 /\ Room(l) = 1
  BY DEF Weight, Room, Is, FirstLabels, SecondLabels, AckLabels, AgainLabels
<1>4. Weight("receiveAfter") = 1 /\ Room("receiveAfter") = 0
  BY DEF Weight, Room, Is, FirstLabels, SecondLabels, AckLabels, AgainLabels
<1>5. \A l \in {"run", "decode", "crashed", "mission5", "send", "sendAfter", "receive", "receiveLoop"} :
        Weight(l) = 0 /\ Room(l) = 0
  BY DEF Weight, Room, Is, FirstLabels, SecondLabels, AckLabels, AgainLabels
<1> QED BY <1>1, <1>2, <1>3, <1>4, <1>5

LEMMA WeightType == \A l : Weight(l) \in Nat /\ Room(l) \in Nat
BY DEF Weight, Room, Is

LEMMA BelowType ==
  ASSUME StackInv
  PROVE  BelowLoad \in Nat /\ BelowRoom \in Nat /\ BelowRoom <= BelowLoad
<1>1. \A labels : TimesBelow(labels) \in Nat
  BY BelowFacts
<1> QED BY <1>1 DEF BelowLoad, BelowRoom

LEMMA LoadTop ==
  ASSUME StackInv
  PROVE  /\ Load = BelowLoad + Weight(Top.at) - Spent + Stale
         /\ Free = BelowRoom + Room(Top.at) - Spent
<1>1. \A labels : /\ TimesBelow(labels) \in Nat
                  /\ Times(labels) = TimesBelow(labels) + Is(Top.at, labels)
  BY BelowFacts, TimesTop
<1>2. \A labels : Is(Top.at, labels) \in Nat
  BY DEF Is
<1>3. Spent \in Nat /\ Stale \in Nat
  BY DEF Spent, Stale
<1>4. StackLoad = BelowLoad + Weight(Top.at)
  BY <1>1, <1>2 DEF StackLoad, BelowLoad, Weight
<1>5. StackRoom = BelowRoom + Room(Top.at)
  BY <1>1, <1>2 DEF StackRoom, BelowRoom, Room
<1> QED BY <1>3, <1>4, <1>5, BelowType, WeightType DEF Load, Free

LEMMA LoadPop ==
  ASSUME StackInv, Pop
  PROVE  Load' = BelowLoad - Spent' /\ Free' = BelowRoom - Spent'
<1>1. \A labels : TimesBelow(labels) \in Nat /\ Times(labels)' = TimesBelow(labels)
  BY BelowFacts, TimesPop
<1>2. Stale' = 0 /\ Spent' \in Nat
  BY CallerLabels DEF Stale, Spent, Pop
<1>3. StackLoad' = BelowLoad /\ StackRoom' = BelowRoom
  BY <1>1 DEF StackLoad, BelowLoad, StackRoom, BelowRoom
<1>4. BelowLoad \in Nat /\ BelowRoom \in Nat
  BY BelowType
<1> QED BY <1>2, <1>3, <1>4 DEF Load, Free

LEMMA LoadSwap ==
  ASSUME StackInv, NEW f, Swap(f), f.at # "ackRead"
  PROVE  Load' = BelowLoad + Weight(f.at) + Stale' /\ Free' = BelowRoom + Room(f.at)
<1>1. \A labels : /\ TimesBelow(labels) \in Nat
                  /\ Times(labels)' = TimesBelow(labels) + Is(f.at, labels)
  BY BelowFacts, TimesSwap
<1>2. \A labels : Is(f.at, labels) \in Nat
  BY DEF Is
<1>3. Spent' = 0 /\ Stale' \in Nat
  BY DEF Stale, Spent, Swap
<1>4. StackLoad' = BelowLoad + Weight(f.at)
  BY <1>1, <1>2 DEF StackLoad, BelowLoad, Weight
<1>5. StackRoom' = BelowRoom + Room(f.at)
  BY <1>1, <1>2 DEF StackRoom, BelowRoom, Room
<1> QED BY <1>3, <1>4, <1>5, BelowType, WeightType DEF Load, Free

LEMMA LoadPush ==
  ASSUME StackInv, NEW f, NEW g, Push(f, g), g.at \notin {"ackRead", "receiveLoop"}
  PROVE  /\ Load' = BelowLoad + Weight(f.at) + Weight(g.at)
         /\ Free' = BelowRoom + Room(f.at) + Room(g.at)
<1>1. \A labels : /\ TimesBelow(labels) \in Nat
                  /\ Times(labels)' = TimesBelow(labels) + Is(f.at, labels) + Is(g.at, labels)
  BY BelowFacts, TimesPush
<1>2. \A labels : Is(f.at, labels) \in Nat /\ Is(g.at, labels) \in Nat
  BY DEF Is
<1>3. Spent' = 0 /\ Stale' = 0
  BY DEF Stale, Spent, Push
<1>4. StackLoad' = BelowLoad + Weight(f.at) + Weight(g.at)
  BY <1>1, <1>2 DEF StackLoad, BelowLoad, Weight
<1>5. StackRoom' = BelowRoom + Room(f.at) + Room(g.at)
  BY <1>1, <1>2 DEF StackRoom, BelowRoom, Room
<1> QED BY <1>3, <1>4, <1>5, BelowType, WeightType DEF Load, Free

-----------------------------------------------------------------------------
(* The capture run looks at is pushed next; another one that was received  *)
(* and not pushed will not be.                                             *)
Pending == IF Top.at = "decode" /\ Top.ptr # Null /\ Readable(rx[Top.ptr])
             THEN {rx[Top.ptr].nr} ELSE {}
Unpushed == {n \in received : pushed[n] = 0} \ Pending

(* A wait for an acknowledgement that is sent before any capture is        *)
Quiet == /\ \A i \in 1..Len(wire) : wire[i].kind = "data" => \E j \in 1..i - 1 : wire[j].kind = "ack"
         /\ "loop" \in mission => \E j \in 1..Len(wire) : wire[j].kind = "ack"
Exempt == IF Top.at = "connect" \/ (Quiet /\ Free > 0) THEN 1 ELSE 0
Attempts == created + (IF Top.at = "connect" THEN 1 ELSE 0)

(* What is lost and what may be, for each attempt to connect               *)
DropInv == Cardinality(Unpushed) + Load <= 3 * Attempts - 2 + Exempt

(* There are commands and packets in part only where there may be.         *)
CutInv ==
  /\ link # "up" => mission = {}
  /\ \A i \in 1..Len(wire) : ~wire[i].complete => i = Len(wire) /\ link # "up"

(* receive_packet is called with the packet of the client there is.        *)
PtrInv == Top.at = "receive" => Len(stack) > 1 /\ stack[Len(stack) - 1].ptr = client

LEMMA LoadType ==
  ASSUME StackInv
  PROVE  Load \in Int /\ Free \in Int /\ Spent \in {0, 1} /\ Stale \in {0, 1}
<1>1. Spent \in {0, 1} /\ Stale \in {0, 1}
  BY DEF Spent, Stale
<1> QED BY <1>1, LoadTop, BelowType, WeightType

LEMMA UnpushedType ==
  ASSUME DataType
  PROVE  IsFiniteSet(Unpushed) /\ Cardinality(Unpushed) \in Nat
<1>1. Unpushed \in SUBSET (1..MaxData)
  BY DEF Unpushed, DataType
<1> QED BY <1>1, Bounds, LevelsFinite

LEMMA UnpushedTypeNext ==
  ASSUME DataType'
  PROVE  Cardinality(Unpushed)' \in Nat
<1>1. Unpushed' \in SUBSET (1..MaxData)
  BY DEF Unpushed, DataType
<1> QED BY <1>1, Bounds, LevelsFinite

LEMMA UnpushedLess ==
  ASSUME DataType, Unpushed' \subseteq Unpushed
  PROVE  Cardinality(Unpushed)' <= Cardinality(Unpushed)
BY UnpushedType, FS_Subset

(* Steps outside of connect: what is lost now was counted before.          *)
LEMMA DropStep ==
  ASSUME StackInv, DataType, DataType', DropInv, created \in Nat, created' = created,
         Load' \in Int, Top.at # "connect", Top'.at # "connect",
         Cardinality(Unpushed)' + Load' <= Cardinality(Unpushed) + Load,
         \/ ~(Quiet /\ Free > 0)
         \/ Quiet' /\ Free' > 0
         \/ Cardinality(Unpushed)' + Load' < Cardinality(Unpushed) + Load
  PROVE  DropInv'
<1>1. /\ Cardinality(Unpushed) \in Nat /\ Load \in Int
      /\ Cardinality(Unpushed)' \in Nat /\ Load' \in Int
  BY UnpushedType, UnpushedTypeNext, LoadType
<1>2. Attempts' = created /\ Attempts = created
  BY DEF Attempts
<1>3. Exempt \in {0, 1} /\ Exempt' \in {0, 1}
  BY DEF Exempt
<1>4. \/ Exempt = 0
      \/ Exempt' = 1
      \/ Cardinality(Unpushed)' + Load' < Cardinality(Unpushed) + Load
  BY DEF Exempt
<1> QED BY <1>1, <1>2, <1>3, <1>4 DEF DropInv

LEMMA Spare ==
  \A c, d \in Nat, l, m, f, g \in Int :
     d <= c /\ m <= l /\ m - l <= g - f => d + m <= c + l /\ (f > 0 => g > 0 \/ d + m < c + l)
OBVIOUS

(* Steps that receive nothing and push nothing                             *)
LEMMA DropQuiet ==
  ASSUME StackInv, DataType, DataType', DropInv, created \in Nat,
         UNCHANGED <<created, received, pushed>>, Quiet => Quiet',
         Top.at \notin {"connect", "decode"}, Top'.at # "connect",
         Load' \in Int, Free' \in Int, Load' <= Load, Load' - Load <= Free' - Free
  PROVE  DropInv'
<1>1. Pending = {} /\ Unpushed' \subseteq Unpushed
  BY DEF Pending, Unpushed
<1>2. Cardinality(Unpushed)' <= Cardinality(Unpushed)
  BY <1>1, UnpushedLess
<1>3. /\ Cardinality(Unpushed) \in Nat /\ Load \in Int /\ Free \in Int
      /\ Cardinality(Unpushed)' \in Nat /\ Load' \in Int /\ Free' \in Int
  BY UnpushedType, UnpushedTypeNext, LoadType
<1>4. Cardinality(Unpushed)' + Load' <= Cardinality(Unpushed) + Load
  BY <1>2, <1>3, Spare
<1>5. Free > 0 => Free' > 0 \/ Cardinality(Unpushed)' + Load' < Cardinality(Unpushed) + Load
  BY <1>2, <1>3, Spare
<1> QED BY <1>3, <1>4, <1>5, DropStep

LEMMA QuietKept ==
  ASSUME UNCHANGED <<wire, mission>>, Quiet
  PROVE  Quiet'
BY DEF Quiet

(* The same by what becomes of the stack                                   *)
LEMMA SpentPaid ==
  /\ \A l : Room(l) <= Weight(l)
  /\ Spent <= Weight(Top.at) /\ Spent \in {0, 1} /\ Stale \in {0, 1} /\ Stale' \in {0, 1} /\ Spent' \in {0, 1}
  /\ Top.at # "ackRead" => Spent = 0
  /\ Top.at # "receiveLoop" => Stale = 0
<1>1. \A l : Room(l) <= Weight(l)
  BY DEF Weight, Room, Is
<1>2. /\ Spent \in {0, 1} /\ Stale \in {0, 1} /\ Stale' \in {0, 1} /\ Spent' \in {0, 1}
      /\ Top.at # "ackRead" => Spent = 0
      /\ Top.at # "receiveLoop" => Stale = 0
  BY DEF Spent, Stale
<1>3. Spent <= Weight(Top.at)
  <2>1. Top.at = "ackRead" => Weight(Top.at) = 1
    BY Weights DEF AckLabels
  <2> QED BY <1>2, <2>1, WeightType
<1> QED BY <1>1, <1>2, <1>3

LEMMA DropPop ==
  ASSUME StackInv, DataType, DataType', DropInv, created \in Nat,
         UNCHANGED <<created, received, pushed>>, Quiet => Quiet',
         Top.at \notin {"connect", "decode"}, Pop
  PROVE  DropInv'
<1>1. /\ Load' = BelowLoad - Spent' /\ Free' = BelowRoom - Spent'
      /\ Load = BelowLoad + Weight(Top.at) - Spent + Stale
      /\ Free = BelowRoom + Room(Top.at) - Spent
  BY LoadPop, LoadTop
<1>2. /\ BelowLoad \in Nat /\ BelowRoom \in Nat /\ Weight(Top.at) \in Nat /\ Room(Top.at) \in Nat
      /\ Room(Top.at) <= Weight(Top.at) /\ Spent <= Weight(Top.at)
      /\ Spent \in {0, 1} /\ Stale \in {0, 1} /\ Spent' \in {0, 1}
  BY BelowType, WeightType, SpentPaid
<1>3. Top'.at # "connect"
  BY PopLabel
<1>4. Load' \in Int /\ Free' \in Int /\ Load' <= Load /\ Load' - Load <= Free' - Free
  BY <1>1, <1>2
<1> QED BY <1>3, <1>4, DropQuiet

LEMMA DropSwap ==
  ASSUME StackInv, DataType, DataType', DropInv, created \in Nat,
         UNCHANGED <<created, received, pushed>>, Quiet => Quiet',
         Top.at \notin {"connect", "decode"}, NEW f, Swap(f), f.at \notin {"connect", "ackRead"},
         Weight(f.at) + Stale' <= Weight(Top.at) - Spent,
         Weight(f.at) + Stale' - Weight(Top.at) <= Room(f.at) - Room(Top.at)
  PROVE  DropInv'
<1>1. /\ Load' = BelowLoad + Weight(f.at) + Stale' /\ Free' = BelowRoom + Room(f.at)
      /\ Load = BelowLoad + Weight(Top.at) - Spent + Stale
      /\ Free = BelowRoom + Room(Top.at) - Spent
  BY LoadSwap, LoadTop
<1>2. /\ BelowLoad \in Nat /\ BelowRoom \in Nat /\ Weight(Top.at) \in Nat /\ Room(Top.at) \in Nat
      /\ Weight(f.at) \in Nat /\ Room(f.at) \in Nat
      /\ Spent \in {0, 1} /\ Stale \in {0, 1} /\ Stale' \in {0, 1}
  BY BelowType, WeightType, SpentPaid
<1>3. Top'.at # "connect"
  BY DEF Swap
<1>4. Load' \in Int /\ Free' \in Int /\ Load' <= Load /\ Load' - Load <= Free' - Free
  BY <1>1, <1>2
<1> QED BY <1>3, <1>4, DropQuiet

LEMMA Paid ==
  \A l, m, f, g \in Int, s \in {0, 1} : l = m + s /\ f <= g => m <= l /\ m - l <= g - f
OBVIOUS

LEMMA DropPush ==
  ASSUME StackInv, DataType, DataType', DropInv, created \in Nat,
         UNCHANGED <<created, received, pushed>>, Quiet => Quiet',
         Top.at \notin {"connect", "decode", "ackRead"}, NEW f, NEW g, Push(f, g),
         g.at \notin {"connect", "ackRead", "receiveLoop"},
         Weight(f.at) + Weight(g.at) = Weight(Top.at),
         Room(f.at) + Room(g.at) >= Room(Top.at)
  PROVE  DropInv'
<1>1. /\ Load' = BelowLoad + Weight(f.at) + Weight(g.at)
      /\ Free' = BelowRoom + Room(f.at) + Room(g.at)
      /\ Load = BelowLoad + Weight(Top.at) - Spent + Stale
      /\ Free = BelowRoom + Room(Top.at) - Spent
  BY LoadPush, LoadTop
<1>2. /\ BelowLoad \in Nat /\ BelowRoom \in Nat /\ Weight(Top.at) \in Nat /\ Room(Top.at) \in Nat
      /\ Weight(f.at) \in Nat /\ Room(f.at) \in Nat /\ Weight(g.at) \in Nat /\ Room(g.at) \in Nat
      /\ Spent = 0 /\ Stale \in {0, 1}
  BY BelowType, WeightType, SpentPaid
<1>3. Top'.at # "connect"
  BY DEF Push
<1>4. Load' \in Int /\ Free' \in Int /\ Load = Load' + Stale
  BY <1>1, <1>2
<1>5. Free <= Free' /\ Free \in Int
  BY <1>1, <1>2
<1>6. Load' <= Load /\ Load' - Load <= Free' - Free
  <2>1. Load \in Int
    BY <1>2, <1>4
  <2> QED BY <1>2, <1>4, <1>5, <2>1, Paid
<1> QED BY <1>3, <1>4, <1>6, DropQuiet

(* A call of connect: a new attempt, which may lose three captures, two of *)
(* them in the waits of its mission and one in the call that connects.     *)
LEMMA DropConnects ==
  ASSUME StackInv, DataType, DataType', DropInv, created \in Nat,
         UNCHANGED <<created, received, pushed>>,
         Top.at \in {"send", "receive"}, NEW f, NEW g, Push(f, g), g.at = "connect",
         Weight(f.at) <= 1
  PROVE  DropInv'
<1>1. /\ Load' = BelowLoad + Weight(f.at) + Weight(g.at)
      /\ Load = BelowLoad + Weight(Top.at) - Spent + Stale
  BY LoadPush, LoadTop
<1>2. /\ BelowLoad \in Nat /\ Weight(Top.at) = 0 /\ Weight(f.at) \in Nat /\ Weight(g.at) = 2
      /\ Spent = 0 /\ Stale = 0
  BY BelowType, WeightType, Weights, SpentPaid DEF FirstLabels
<1>3. Load' \in Int /\ Load \in Int /\ Load' <= Load + 3
  BY <1>1, <1>2
<1>4. Top'.at = "connect"
  BY DEF Push
<1>5. Attempts' = created + 1 /\ Attempts = created /\ Exempt' = 1 /\ Exempt \in {0, 1}
  BY <1>4 DEF Attempts, Exempt
<1>6. Pending = {} /\ Unpushed' \subseteq Unpushed
  BY DEF Pending, Unpushed
<1>7. Cardinality(Unpushed)' <= Cardinality(Unpushed)
  BY <1>6, UnpushedLess
<1>8. Cardinality(Unpushed) \in Nat /\ Cardinality(Unpushed)' \in Nat
  BY UnpushedType, UnpushedTypeNext
<1> QED BY <1>3, <1>5, <1>7, <1>8 DEF DropInv

-----------------------------------------------------------------------------
(* The steps of the thread outside of connect and receive                  *)
LEMMA FrameLabels ==
  /\ Frame("connect").at = "connect" /\ Frame("handshake").at = "handshake"
  /\ Frame("ackWait").at = "ackWait" /\ Frame("ackTurn").at = "ackTurn"
  /\ SendFrame("loop").at = "send" /\ SendFrame("configure").at = "send"
  /\ Frame("receive").at = "receive" /\ Frame("receiveAfter").at = "receiveAfter"
  /\ Frame("receiveLoop").at = "receiveLoop"
  /\ Frame("run").at = "run" /\ Frame("crashed").at = "crashed"
  /\ Frame("mission1").at = "mission1" /\ Frame("mission2").at = "mission2"
  /\ Frame("mission3").at = "mission3" /\ Frame("mission4").at = "mission4"
  /\ Frame("mission5").at = "mission5"
  /\ [Frame("ackTurn") EXCEPT !.turn = Top.turn + 1].at = "ackTurn"
BY FrameIsFrame, SendFrameOk DEF Labels, Commands, Frame

LEMMA WeightTable ==
  /\ Weight("connect") = 2 /\ Weight("handshake") = 2 /\ Weight("mission1") = 2 /\ Weight("mission2") = 2
  /\ Room("connect") = 1 /\ Room("handshake") = 1 /\ Room("mission1") = 1 /\ Room("mission2") = 1
  /\ Weight("mission3") = 1 /\ Weight("mission4") = 1 /\ Room("mission3") = 0 /\ Room("mission4") = 0
  /\ Weight("ackWait") = 1 /\ Weight("ackTurn") = 1 /\ Weight("ackRead") = 1
  /\ Room("ackWait") = 1 /\ Room("ackTurn") = 1 /\ Room("ackRead") = 1
  /\ Weight("receiveAfter") = 1 /\ Room("receiveAfter") = 0
  /\ Weight("run") = 0 /\ Weight("decode") = 0 /\ Weight("crashed") = 0 /\ Weight("mission5") = 0
  /\ Weight("send") = 0 /\ Weight("sendAfter") = 0 /\ Weight("receive") = 0 /\ Weight("receiveLoop") = 0
  /\ Room("run") = 0 /\ Room("decode") = 0 /\ Room("crashed") = 0 /\ Room("mission5") = 0
  /\ Room("send") = 0 /\ Room("sendAfter") = 0 /\ Room("receive") = 0 /\ Room("receiveLoop") = 0
<1>1. /\ Weight("connect") = 2 /\ Weight("handshake") = 2 /\ Weight("mission1") = 2 /\ Weight("mission2") = 2
      /\ Room("connect") = 1 /\ Room("handshake") = 1 /\ Room("mission1") = 1 /\ Room("mission2") = 1
  BY Weights DEF FirstLabels
<1>2. /\ Weight("mission3") = 1 /\ Weight("mission4") = 1 /\ Room("mission3") = 0 /\ Room("mission4") = 0
      /\ Weight("receiveAfter") = 1 /\ Room("receiveAfter") = 0
  BY Weights
<1>3. /\ Weight("ackWait") = 1 /\ Weight("ackTurn") = 1 /\ Weight("ackRead") = 1
      /\ Room("ackWait") = 1 /\ Room("ackTurn") = 1 /\ Room("ackRead") = 1
  BY Weights DEF AckLabels
<1>4. /\ Weight("run") = 0 /\ Weight("decode") = 0 /\ Weight("crashed") = 0 /\ Weight("mission5") = 0
      /\ Weight("send") = 0 /\ Weight("sendAfter") = 0 /\ Weight("receive") = 0 /\ Weight("receiveLoop") = 0
      /\ Room("run") = 0 /\ Room("decode") = 0 /\ Room("crashed") = 0 /\ Room("mission5") = 0
      /\ Room("send") = 0 /\ Room("sendAfter") = 0 /\ Room("receive") = 0 /\ Room("receiveLoop") = 0
  BY Weights
<1> QED BY <1>1, <1>2, <1>3, <1>4

LEMMA DropMission ==
  ASSUME Base, DataType, DataType', DropInv, StartMission
  PROVE  DropInv'
<1> USE DEF Base
<1>1. UNCHANGED <<created, received, pushed>> /\ created \in Nat /\ (Quiet => Quiet')
  BY ClientRange, QuietKept DEF StartMission, MissionSend, MissionWait, MissionDone, serverVars
<1>2. CASE At("mission1") /\ Push(Frame("mission2"), SendFrame("loop"))
  <2>1. Top.at = "mission1"
    BY <1>2, StackLength
  <2> QED BY <1>1, <1>2, <2>1, FrameLabels, WeightTable, DropPush
<1>3. CASE At("mission2") /\ Push(Frame("mission3"), Frame("ackWait"))
  <2>1. Top.at = "mission2"
    BY <1>3, StackLength
  <2> QED BY <1>1, <1>3, <2>1, FrameLabels, WeightTable, DropPush
<1>4. CASE At("mission3") /\ Push(Frame("mission4"), SendFrame("configure"))
  <2>1. Top.at = "mission3"
    BY <1>4, StackLength
  <2> QED BY <1>1, <1>4, <2>1, FrameLabels, WeightTable, DropPush
<1>5. CASE At("mission4") /\ Push(Frame("mission5"), Frame("ackWait"))
  <2>1. Top.at = "mission4"
    BY <1>5, StackLength
  <2> QED BY <1>1, <1>5, <2>1, FrameLabels, WeightTable, DropPush
<1>6. CASE At("mission5") /\ Pop
  <2>1. Top.at = "mission5"
    BY <1>6, StackLength
  <2> QED BY <1>1, <1>6, <2>1, DropPop
<1> QED BY <1>2, <1>3, <1>4, <1>5, <1>6, MissionStack

LEMMA DropSend ==
  ASSUME Base, DataType, DataType', DropInv, SendConnects \/ SendPacket \/ SendGivesUp
  PROVE  DropInv'
<1> USE DEF Base
<1>1. UNCHANGED <<created, received, pushed>> /\ created \in Nat /\ (Quiet => Quiet')
  BY ClientRange, QuietKept DEF SendConnects, SendPacket, SendGivesUp, serverVars
<1>2. CASE SendConnects
  <2> DEFINE f == [Top EXCEPT !.at = "sendAfter"]
  <2>1. Top.at = "send" /\ f.at = "sendAfter"
    BY <1>2, StackLength DEF SendConnects, FrameType
  <2>2. Push(f, Frame("connect"))
    BY <1>2, SendStack
  <2> HIDE DEF f
  <2> QED BY <1>1, <2>1, <2>2, FrameLabels, WeightTable, DropConnects
<1>3. CASE SendPacket \/ SendGivesUp
  <2>1. Pop /\ Top.at \notin {"connect", "decode"}
    BY <1>3, SendStack, StackLength DEF SendPacket, SendGivesUp
  <2> QED BY <1>1, <2>1, DropPop
<1> QED BY <1>2, <1>3

LEMMA DropReceiveTest ==
  ASSUME Base, DataType, DataType', DropInv, PtrInv, ReceiveTest
  PROVE  DropInv'
<1> USE DEF Base
<1>1. UNCHANGED <<created, received, pushed>> /\ created \in Nat /\ (Quiet => Quiet')
  BY ClientRange, QuietKept DEF ReceiveTest, serverVars
<1>2. Top.at \in {"receive", "receiveAfter"}
  BY StackLength DEF ReceiveTest
<1>3. CASE Connected /\ Swap(Frame("receiveLoop"))
  <2>1. Len(stack') = Len(stack) /\ \A i \in 1..Len(stack) - 1 : stack'[i] = stack[i]
    BY <1>3 DEF Swap
  <2>2. client = created
    BY <1>3 DEF Connected, ClientInv
  <2>3. Top.at = "receive" => Stale' = 0
    <3> SUFFICES ASSUME Top.at = "receive" PROVE Stale' = 0
      OBVIOUS
    <3>1. Len(stack) > 1 /\ Len(stack) \in Nat /\ stack[Len(stack) - 1].ptr = created
      BY <2>2, StackLength DEF PtrInv
    <3>2. stack'[Len(stack') - 1] = stack[Len(stack) - 1]
      BY <2>1, <3>1
    <3> QED BY <1>1, <3>1, <3>2 DEF Stale
  <2>4. Stale' \in {0, 1} /\ Spent = 0
    BY <1>2, SpentPaid
  <2>5. CASE Top.at = "receive"
    BY <1>1, <1>3, <2>3, <2>4, <2>5, FrameLabels, WeightTable, DropSwap
  <2>6. CASE Top.at = "receiveAfter"
    BY <1>1, <1>3, <2>4, <2>6, FrameLabels, WeightTable, DropSwap
  <2> QED BY <1>2, <2>5, <2>6
<1>4. CASE ~Connected /\ At("receive") /\ Push(Frame("receiveAfter"), Frame("connect"))
  <2>1. Top.at = "receive"
    BY <1>4, StackLength
  <2> QED BY <1>1, <1>4, <2>1, FrameLabels, WeightTable, DropConnects
<1>5. CASE ~Connected /\ At("receiveAfter") /\ Pop
  BY <1>1, <1>2, <1>5, DropPop
<1> QED BY <1>3, <1>4, <1>5, ReceiveTestStack

(* A program that crashed loses nothing any more.                          *)
LEMMA LoadCrashed ==
  ASSUME NEW f, f.at = "crashed", stack' = <<f>>
  PROVE  Load' = 0 /\ Free' = 0 /\ Top'.at = "crashed"
<1>1. Len(stack') = 1 /\ stack'[1] = f /\ Top'.at = "crashed"
  BY DEF Top
<1>2. Spent' = 0 /\ Stale' = 0
  BY <1>1 DEF Spent, Stale
<1>3. ASSUME NEW labels \in {FirstLabels, SecondLabels, AckLabels, AgainLabels} PROVE Times(labels)' = 0
  <2>1. "crashed" \notin labels
    BY DEF FirstLabels, SecondLabels, AckLabels, AgainLabels
  <2>2. Places(labels)' = {}
    BY <1>1, <2>1 DEF Places
  <2> QED BY <2>2, FS_EmptySet DEF Times
<1>4. StackLoad' = 0 /\ StackRoom' = 0
  BY <1>3 DEF StackLoad, StackRoom
<1> QED BY <1>1, <1>2, <1>4 DEF Load, Free

LEMMA DropAck ==
  ASSUME Base, DataType, DataType', DropInv, AckWaitEnter \/ AckTurn \/ AckTimeout \/ AckRead
  PROVE  DropInv'
<1> USE DEF Base
<1>1. /\ UNCHANGED <<created, received, pushed>> /\ created \in Nat /\ (Quiet => Quiet')
      /\ Top.at \in AckLabels
  BY ClientRange, QuietKept, StackLength DEF AckWaitEnter, AckTurn, AckTimeout, AckRead, serverVars, AckLabels
<1>2. CASE Pop
  BY <1>1, <1>2, DropPop DEF AckLabels
<1>3. ASSUME NEW f, Swap(f), f.at = "ackTurn", Spent = 0 PROVE DropInv'
  <2>1. Stale' = 0
    BY <1>3 DEF Stale, Swap
  <2>2. Weight(Top.at) = 1 /\ Room(Top.at) = 1
    BY <1>1, Weights
  <2> QED BY <1>1, <1>3, <2>1, <2>2, WeightTable, DropSwap DEF AckLabels
<1>4. CASE AckWaitEnter
  <2>1. Spent = 0
    BY <1>4, StackLength DEF AckWaitEnter, Spent
  <2> QED BY <1>2, <1>3, <1>4, <2>1, AckWaitStack, FrameLabels
<1>5. CASE AckTurn /\ client # Null
  <2> DEFINE f == [Top EXCEPT !.at = "ackRead", !.ptr = client]
  <2>1. Top.at = "ackTurn" /\ f.at = "ackRead"
    BY <1>5, StackLength DEF AckTurn, FrameType
  <2>2. Push(f, Frame("receive"))
    BY <1>5, AckTurnStack
  <2> HIDE DEF f
  <2> QED BY <1>1, <2>1, <2>2, FrameLabels, WeightTable, DropPush
<1>6. CASE AckTurn /\ client = Null
  <2> DEFINE f == Frame("crashed")
  <2>1. stack' = <<f>> /\ f.at = "crashed" /\ Top.at = "ackTurn"
    BY <1>6, AckTurnStack, FrameLabels, StackLength DEF AckTurn
  <2> HIDE DEF f
  <2>2. Load' = 0 /\ Free' = 0 /\ Top'.at = "crashed"
    BY <2>1, LoadCrashed
  <2>3. Load >= 1 /\ Load \in Int
    BY <2>1, LoadTop, BelowType, WeightTable, SpentPaid
  <2>4. Pending = {} /\ Unpushed' \subseteq Unpushed
    BY <1>1, <2>1 DEF Pending, Unpushed
  <2>5. /\ Cardinality(Unpushed)' <= Cardinality(Unpushed)
        /\ Cardinality(Unpushed)' \in Nat /\ Cardinality(Unpushed) \in Nat
    BY <2>4, UnpushedLess, UnpushedType, UnpushedTypeNext
  <2>6. Cardinality(Unpushed)' + Load' < Cardinality(Unpushed) + Load
    BY <2>2, <2>3, <2>5
  <2> QED BY <1>1, <2>1, <2>2, <2>5, <2>6, <2>3, DropStep
<1>7. CASE AckTimeout
  BY <1>2, <1>7, AckTimeoutStack
<1>8. CASE AckRead
  <2>1. ~HasParameter(rx[Top.ptr]) => Spent = 0
    BY DEF Spent
  <2> QED BY <1>2, <1>3, <1>8, <2>1, AckReadStack, FrameLabels
<1> QED BY <1>4, <1>5, <1>6, <1>7, <1>8

-----------------------------------------------------------------------------
(* Steps that leave the stack as it is                                     *)
LEMMA LoadSame ==
  ASSUME UNCHANGED <<stack, created>>, rx' = rx \/ Top.at # "ackRead"
  PROVE  Load' = Load /\ Free' = Free /\ Top' = Top
<1>1. Top' = Top /\ Spent' = Spent /\ Stale' = Stale
  BY DEF Top, Spent, Stale
<1>2. \A labels : Times(labels)' = Times(labels)
  BY DEF Times, Places
<1> QED BY <1>1, <1>2 DEF Load, Free, StackLoad, StackRoom

LEMMA DropSame ==
  ASSUME StackInv, DataType, DataType', DropInv, created \in Nat,
         UNCHANGED <<stack, created, received, pushed>>, Quiet => Quiet',
         rx' = rx \/ Top.at \notin {"ackRead", "decode"}
  PROVE  DropInv'
<1>1. Load' = Load /\ Free' = Free /\ Top' = Top /\ Load \in Int
  BY LoadSame, LoadType
<1>2. Unpushed' = Unpushed
  BY <1>1 DEF Unpushed, Pending
<1>3. Attempts' = Attempts /\ Exempt \in {0, 1} /\ Exempt' \in {0, 1} /\ (Exempt = 1 => Exempt' = 1)
  BY <1>1 DEF Attempts, Exempt
<1>4. Cardinality(Unpushed) \in Nat
  BY UnpushedType
<1>5. Attempts \in Nat
  BY DEF Attempts
<1> QED BY <1>1, <1>2, <1>3, <1>4, <1>5 DEF DropInv

(* A packet that is neither a capture nor an acknowledgement is put on the *)
(* wire, or an acknowledgement is.                                         *)
LEMMA QuietPut ==
  ASSUME DataType, NEW k \in LinkKinds \cup {"ack"}, ToClient(k, 0), Quiet,
         mission' = mission \/ k = "ack"
  PROVE  Quiet'
<1>1. /\ Len(wire) \in Nat /\ Len(wire') = Len(wire) + 1
      /\ \A i \in 1..Len(wire) : wire'[i] = wire[i]
      /\ wire'[Len(wire) + 1].kind = k
  <2>1. 0 \in 0..MaxData /\ k \in LinkKinds \cup {"ack", "data"}
    BY Bounds
  <2> QED BY <2>1, WirePut
<1>2. k # "data"
  BY DEF LinkKinds
<1>3. ASSUME NEW i \in 1..Len(wire'), wire'[i].kind = "data"
      PROVE  \E j \in 1..i - 1 : wire'[j].kind = "ack"
  <2>1. i # Len(wire) + 1
    BY <1>1, <1>2, <1>3
  <2>2. i \in 1..Len(wire) /\ wire[i].kind = "data"
    BY <1>1, <1>3, <2>1
  <2>3. PICK j \in 1..i - 1 : wire[j].kind = "ack"
    BY <2>2 DEF Quiet
  <2>4. j \in 1..Len(wire)
    BY <1>1, <2>2, <2>3
  <2> QED BY <1>1, <2>3, <2>4
<1>4. "loop" \in mission' => \E j \in 1..Len(wire') : wire'[j].kind = "ack"
  <2>1. CASE k = "ack"
    BY <1>1, <2>1
  <2>2. CASE mission' = mission
    BY <1>1, <2>2 DEF Quiet
  <2> QED BY <2>1, <2>2
<1> QED BY <1>3, <1>4 DEF Quiet

LEMMA QuietServer ==
  ASSUME DataType, ServerHandles \/ ServerData \/ ServerAlive \/ Break, Quiet
  PROVE  Quiet'
<1>1. CASE ServerHandles
  <2>1. \E k \in LinkKinds \cup {"ack"} : ToClient(k, 0) /\ (mission' = mission \/ k = "ack")
    BY <1>1 DEF ServerHandles, LinkKinds
  <2> QED BY <2>1, QuietPut
<1>2. CASE ServerAlive
  <2>1. mission' = mission /\ "alive" \in LinkKinds \cup {"ack"} /\ ToClient("alive", 0)
    BY <1>2 DEF ServerAlive, LinkKinds, serverVars
  <2> QED BY <2>1, QuietPut
<1>3. CASE ServerData
  <2>1. /\ "loop" \in mission /\ mission' = mission /\ ToClient("data", sentData + 1)
        /\ sentData + 1 \in 0..MaxData
    BY <1>3, Bounds DEF ServerData, DataType
  <2>2. /\ Len(wire) \in Nat /\ Len(wire') = Len(wire) + 1
        /\ \A i \in 1..Len(wire) : wire'[i] = wire[i]
    BY <2>1, WirePut
  <2>3. PICK a \in 1..Len(wire) : wire[a].kind = "ack"
    BY <2>1 DEF Quiet
  <2>4. ASSUME NEW i \in 1..Len(wire'), wire'[i].kind = "data"
        PROVE  \E j \in 1..i - 1 : wire'[j].kind = "ack"
    <3>1. CASE i = Len(wire) + 1
      <4>1. a \in 1..i - 1 /\ wire'[a] = wire[a]
        BY <2>2, <2>3, <3>1
      <4> QED BY <2>3, <4>1
    <3>2. CASE i # Len(wire) + 1
      <4>1. i \in 1..Len(wire) /\ wire[i].kind = "data"
        BY <2>2, <2>4, <3>2
      <4>2. PICK j \in 1..i - 1 : wire[j].kind = "ack"
        BY <4>1 DEF Quiet
      <4>3. j \in 1..Len(wire)
        BY <2>2, <4>1, <4>2
      <4> QED BY <2>2, <4>2, <4>3
    <3> QED BY <3>1, <3>2
  <2>5. a \in 1..Len(wire') /\ wire'[a].kind = "ack"
    BY <2>2, <2>3
  <2> QED BY <2>4, <2>5 DEF Quiet
<1>4. CASE Break
  <2>1. /\ Len(wire) \in Nat /\ Len(wire') \in 0..Len(wire)
        /\ \A i \in 1..Len(wire') : wire'[i].kind = wire[i].kind
    BY <1>4, WireCut
  <2>2. mission' = {}
    BY <1>4 DEF Break
  <2>3. ASSUME NEW i \in 1..Len(wire'), wire'[i].kind = "data"
        PROVE  \E j \in 1..i - 1 : wire'[j].kind = "ack"
    <3>1. i \in 1..Len(wire) /\ wire[i].kind = "data"
      BY <2>1, <2>3
    <3>2. PICK j \in 1..i - 1 : wire[j].kind = "ack"
      BY <3>1 DEF Quiet
    <3>3. j \in 1..Len(wire')
      BY <2>1, <3>2
    <3> QED BY <2>1, <3>2, <3>3
  <2> QED BY <2>2, <2>3 DEF Quiet
<1> QED BY <1>1, <1>2, <1>3, <1>4

LEMMA DropServer ==
  ASSUME Base, DataType, DataType', DropInv, ServerHandles \/ ServerData \/ ServerAlive \/ Break
  PROVE  DropInv'
<1>1. UNCHANGED <<stack, created, rx, received, pushed>>
  BY DEF ServerHandles, ServerData, ServerAlive, Break, ClientUnchanged
<1> QED BY <1>1, ClientRange, QuietServer, DropSame DEF Base

-----------------------------------------------------------------------------
(* run, a failing recv, the rest of a packet                               *)
LEMMA DropRun ==
  ASSUME Base, DataInv, DataType', DropInv, RunTurn \/ RunDecode
  PROVE  DropInv'
<1> USE DEF Base
<1>0. DataType /\ created \in Nat
  BY ClientRange DEF DataInv
<1>1. CASE RunTurn
  <2>1. UNCHANGED <<created, received, pushed>> /\ (Quiet => Quiet') /\ Top.at = "run"
    BY <1>1, QuietKept, StackLength DEF RunTurn, serverVars
  <2>2. Push(DecodeFrame, Frame("receive")) /\ DecodeFrame.at = "decode"
    BY <1>1, RunStack
  <2> QED BY <1>0, <2>1, <2>2, FrameLabels, WeightTable, DropPush
<1>2. CASE RunDecode
  <2>1. UNCHANGED <<created, received, rx>> /\ (Quiet => Quiet') /\ Top.at = "decode"
    BY <1>2, QuietKept, StackLength DEF RunDecode, serverVars
  <2>2. Swap(Frame("run"))
    BY <1>2, RunStack
  <2>3. Top'.at = "run" /\ Stale' = 0
    BY <2>2, FrameLabels DEF Swap, Stale
  <2>4. /\ Load' = BelowLoad /\ Free' = BelowRoom
        /\ Load = BelowLoad /\ Free = BelowRoom
        /\ BelowLoad \in Nat /\ BelowRoom \in Nat
    BY <2>1, <2>2, <2>3, FrameLabels, WeightTable, LoadSwap, LoadTop, SpentPaid, BelowType
  <2>5. Unpushed' \subseteq Unpushed
    <3> DEFINE p == IF Top.ptr = Null THEN NoPacket ELSE rx[Top.ptr]
    <3>1. pushed' = IF Readable(p) THEN [pushed EXCEPT ![p.nr] = @ + 1] ELSE pushed
      BY <1>2 DEF RunDecode
    <3>2. Top.ptr \in Clients \cup {Null}
      BY StackLength DEF FrameType
    <3>3. Readable(p) => p.nr \in received
      BY <3>2, NoPacketFacts DEF DataInv, RxInv
    <3>4. Pending = IF Readable(p) THEN {p.nr} ELSE {}
      BY <2>1, NoPacketFacts DEF Pending
    <3>5. received \subseteq 1..MaxData /\ pushed \in [1..MaxData -> Nat]
      BY <1>0 DEF DataType
    <3> HIDE DEF p
    <3>6. ASSUME NEW n \in received, pushed'[n] = 0 PROVE pushed[n] = 0 /\ n \notin Pending
      <4>1. CASE Readable(p)
        <5>0. p.nr \in 1..MaxData
          BY <3>3, <3>5, <4>1
        <5>1. pushed[p.nr] \in Nat /\ pushed[p.nr] + 1 # 0
          BY <3>5, <5>0
        <5>2. pushed' = [pushed EXCEPT ![p.nr] = pushed[p.nr] + 1]
          BY <3>1, <4>1
        <5>3. n # p.nr
          BY <3>5, <3>6, <5>0, <5>1, <5>2
        <5> QED BY <3>4, <3>5, <3>6, <5>2, <5>3
      <4>2. CASE ~Readable(p)
        <5>1. pushed' = pushed
          BY <3>1, <4>2
        <5>2. Readable(p) => n # p.nr
          BY <3>6, <4>2, <5>1
        <5> QED BY <3>4, <3>6, <5>1, <5>2
      <4> QED BY <4>1, <4>2
    <3> QED BY <2>1, <3>6 DEF Unpushed
  <2>6. /\ Cardinality(Unpushed)' <= Cardinality(Unpushed)
        /\ Cardinality(Unpushed)' \in Nat /\ Cardinality(Unpushed) \in Nat
    BY <1>0, <2>5, UnpushedLess, UnpushedType, UnpushedTypeNext
  <2>7. Load' \in Int /\ Cardinality(Unpushed)' + Load' <= Cardinality(Unpushed) + Load
    BY <2>4, <2>6
  <2>8. ~(Quiet /\ Free > 0) \/ (Quiet' /\ Free' > 0)
    BY <2>1, <2>4
  <2> QED BY <1>0, <2>1, <2>3, <2>7, <2>8, DropStep
<1> QED BY <1>1, <1>2

LEMMA DropError ==
  ASSUME Base, DataType, DataType', DropInv, ReceiveError \/ ReceiveErrorFoundOut
  PROVE  DropInv'
<1>1. /\ UNCHANGED <<created, received, pushed, rx>> /\ created \in Nat /\ (Quiet => Quiet')
      /\ Top.at = "receiveLoop"
  BY ClientRange, QuietKept, StackLength DEF Base, ReceiveError, ReceiveErrorFoundOut, RecvFails, serverVars
<1>2. CASE Pop
  BY <1>1, <1>2, DropPop DEF Base
<1>3. CASE stack' = stack
  BY <1>1, <1>3, DropSame DEF Base
<1> QED BY <1>2, <1>3, ReceiveStack DEF Base

(* After a packet that arrives in part there is nothing on the wire.       *)
LEMMA DropHeader ==
  ASSUME Base, DataType, DataType', DropInv, CutInv, ReceiveHeader
  PROVE  DropInv'
<1>1. PICK p \in Packet : ~p.complete /\ Delivered(p)
  BY DEF ReceiveHeader
<1>2. Len(wire) \in Nat /\ Len(wire) >= 1 /\ Len(wire') = Len(wire) - 1 /\ p = wire[1]
  BY <1>1, WireTaken
<1>3. Len(wire) = 1 /\ mission = {}
  <2>1. 1 \in 1..Len(wire)
    BY <1>2
  <2> QED BY <1>1, <1>2, <2>1 DEF CutInv
<1>4. /\ UNCHANGED <<stack, created, received, pushed, mission>> /\ created \in Nat
      /\ Top.at \in {"receiveLoop", "handshake"}
  BY ClientRange, StackLength DEF Base, ReceiveHeader, serverVars
<1>5. Len(wire') = 0 /\ Quiet'
  BY <1>2, <1>3, <1>4 DEF Quiet
<1> QED BY <1>4, <1>5, DropSame DEF Base

-----------------------------------------------------------------------------
(* connect and the handshake                                               *)
LEMMA DropHandshake ==
  ASSUME Base, DataInv, DataType', DropInv, Handshake
  PROVE  DropInv'
<1> USE DEF Base
<1>1. /\ UNCHANGED <<created, received, pushed, mission>> /\ created \in Nat /\ DataType
      /\ Top.at = "handshake"
  BY ClientRange, StackLength DEF Handshake, serverVars, DataInv
<1>2. mission = {} /\ \A i \in 1..Len(wire) : wire[i].kind # "data"
  BY DEF DataInv, HandshakeInv, Handshake
<1>3. PICK p \in Packet : Delivered(p)
  BY DEF Handshake
<1>4. \A i \in 1..Len(wire') : wire'[i] = wire[i + 1] /\ i + 1 \in 1..Len(wire)
  BY <1>3, TakenOk
<1>5. Quiet'
  BY <1>1, <1>2, <1>4 DEF Quiet
<1>6. CASE Swap(Frame("mission1"))
  <2>1. Stale' = 0 /\ Spent = 0
    BY <1>1, <1>6, FrameLabels DEF Stale, Spent, Swap
  <2> QED BY <1>1, <1>5, <1>6, <2>1, FrameLabels, WeightTable, DropSwap
<1>7. CASE stack' = stack
  BY <1>1, <1>5, <1>7, DropSame
<1> QED BY <1>6, <1>7, HandshakeStack

LEMMA DropConnect ==
  ASSUME Base, DataType, DataType', DropInv, ConnectRefused \/ ConnectAccepted
  PROVE  DropInv'
<1> USE DEF Base
<1>1. /\ UNCHANGED <<received, pushed>> /\ created \in Nat /\ created' = created + 1 /\ Top.at = "connect"
  BY ClientRange, StackLength DEF ConnectRefused, ConnectAccepted, NewClient
<1>2. Pending = {} /\ Unpushed' \subseteq Unpushed
  BY <1>1 DEF Pending, Unpushed
<1>3. /\ Cardinality(Unpushed)' <= Cardinality(Unpushed)
      /\ Cardinality(Unpushed)' \in Nat /\ Cardinality(Unpushed) \in Nat
  BY <1>2, UnpushedLess, UnpushedType, UnpushedTypeNext
<1>4. /\ Load = BelowLoad + 2 /\ BelowLoad \in Nat /\ BelowRoom \in Nat
      /\ Attempts = created + 1 /\ Exempt = 1
  BY <1>1, LoadTop, WeightTable, SpentPaid, BelowType DEF Attempts, Exempt
<1>5. CASE ConnectRefused
  <2>1. Pop
    BY <1>5, ConnectStack
  <2>2. Load' = BelowLoad - Spent' /\ Spent' \in {0, 1} /\ Top'.at # "connect"
    BY <2>1, LoadPop, SpentPaid, PopLabel
  <2>3. Attempts' = created + 1 /\ Exempt' \in {0, 1}
    BY <1>1, <2>2 DEF Attempts, Exempt
  <2> QED BY <1>1, <1>3, <1>4, <2>2, <2>3 DEF DropInv
<1>6. CASE ConnectAccepted
  <2>1. Swap(Frame("handshake"))
    BY <1>6, ConnectStack
  <2>2. Top'.at = "handshake" /\ Stale' = 0
    BY <2>1, FrameLabels DEF Swap, Stale
  <2>3. Load' = BelowLoad + 2 /\ Free' = BelowRoom + 1
    BY <1>4, <2>1, <2>2, FrameLabels, WeightTable, LoadSwap
  <2>4. Quiet'
    <3> DEFINE p == [kind |-> "greeting", nr |-> 0, complete |-> TRUE]
    <3>1. p.kind = "greeting" /\ wire' = <<p>> /\ mission' = {}
      BY <1>6 DEF ConnectAccepted
    <3> HIDE DEF p
    <3>2. \A i \in 1..Len(wire') : wire'[i].kind = "greeting"
      BY <3>1
    <3> QED BY <3>1, <3>2 DEF Quiet
  <2>5. Attempts' = created + 1 /\ Exempt' = 1
    BY <1>1, <1>4, <2>2, <2>3, <2>4 DEF Attempts, Exempt
  <2> QED BY <1>1, <1>3, <1>4, <2>3, <2>5 DEF DropInv
<1> QED BY <1>5, <1>6

-----------------------------------------------------------------------------
(* A packet is received                                                    *)
LEMMA QuietTaken ==
  ASSUME DataType, Quiet, NEW p, Delivered(p), p.kind \notin {"ack", "data"}, mission' = mission
  PROVE  Quiet'
<1>1. /\ Len(wire) \in Nat /\ Len(wire) >= 1 /\ Len(wire') = Len(wire) - 1 /\ p = wire[1]
      /\ \A i \in 1..Len(wire') : wire'[i] = wire[i + 1]
  BY WireTaken
<1>2. ASSUME NEW j \in 1..Len(wire), wire[j].kind = "ack"
      PROVE  j - 1 \in 1..Len(wire') /\ wire'[j - 1].kind = "ack"
  <2>1. j # 1
    BY <1>1, <1>2
  <2>2. j - 1 \in 1..Len(wire') /\ (j - 1) + 1 = j
    BY <1>1, <2>1
  <2> QED BY <1>1, <1>2, <2>2
<1>3. ASSUME NEW i \in 1..Len(wire'), wire'[i].kind = "data"
      PROVE  \E j \in 1..i - 1 : wire'[j].kind = "ack"
  <2>1. i + 1 \in 1..Len(wire) /\ wire[i + 1].kind = "data"
    BY <1>1, <1>3
  <2>2. PICK j \in 1..(i + 1) - 1 : wire[j].kind = "ack"
    BY <2>1 DEF Quiet
  <2>3. j \in 1..Len(wire)
    BY <1>1, <2>1, <2>2
  <2>4. j - 1 \in 1..Len(wire') /\ wire'[j - 1].kind = "ack"
    BY <1>2, <2>2, <2>3
  <2>5. j - 1 \in 1..i - 1
    BY <1>1, <2>2, <2>4
  <2> QED BY <2>4, <2>5
<1>4. "loop" \in mission' => \E j \in 1..Len(wire') : wire'[j].kind = "ack"
  <2> SUFFICES ASSUME "loop" \in mission PROVE \E j \in 1..Len(wire') : wire'[j].kind = "ack"
    OBVIOUS
  <2>1. PICK j \in 1..Len(wire) : wire[j].kind = "ack"
    BY DEF Quiet
  <2> QED BY <1>2, <2>1
<1> QED BY <1>3, <1>4 DEF Quiet

LEMMA NatAboveTwo ==
  \A n \in Nat : n > 1 /\ n - 1 # 1 => n - 2 \in 1..(n - 1) - 1 /\ (n - 2) + 1 = n - 1 /\ n - 2 \in 1..n - 1
OBVIOUS

(* Who receives: ackWait or run, which is at the bottom of the stack.      *)
LEMMA ReceiveCaller ==
  ASSUME StackInv, Top.at = "receiveLoop"
  PROVE  /\ Len(stack) > 1 /\ Len(stack) \in Nat
         /\ stack[Len(stack) - 1].at \in {"decode", "ackRead"}
         /\ stack[Len(stack) - 1].at = "decode" => BelowRoom = 0
<1>1. Len(stack) > 1 /\ Len(stack) \in Nat
  <2>1. Len(stack) # 1
    BY Callers DEF RunLabels
  <2>2. Len(stack) \in Nat /\ Len(stack) >= 1
    BY StackLength DEF StackInv
  <2> QED BY <2>1, <2>2, NatAboveOne
<1>2. Calls(stack[Len(stack) - 1].at, "receiveLoop")
  BY <1>1, Callers
<1>3. stack[Len(stack) - 1].at \in {"decode", "ackRead"}
  BY <1>2 DEF Calls, ConnectLabels, MissionLabels, SendLabels, AckLabels
<1>4. ASSUME stack[Len(stack) - 1].at = "decode" PROVE BelowRoom = 0
  <2>1. Len(stack) - 1 = 1
    <3> SUFFICES ASSUME Len(stack) - 1 # 1 PROVE FALSE
      OBVIOUS
    <3>1. Len(stack) - 2 \in 1..Len(stack) - 1 /\ (Len(stack) - 2) + 1 = Len(stack) - 1
      BY <1>1, NatAboveTwo
    <3>2. Calls(stack[Len(stack) - 2].at, stack[Len(stack) - 1].at)
      BY <3>1 DEF StackInv
    <3> QED BY <1>4, <3>2 DEF Calls, ConnectLabels, MissionLabels, ReceiveLabels, SendLabels, AckLabels
  <2>2. ASSUME NEW labels, "decode" \notin labels PROVE TimesBelow(labels) = 0
    <3>1. ASSUME NEW i \in 1..Len(stack) - 1 PROVE i = 1 /\ stack[i].at = "decode"
      <4>1. i \in 1..1
        BY <2>1
      <4>2. i = Len(stack) - 1
        BY <2>1, <4>1
      <4> QED BY <1>4, <4>1, <4>2
    <3>2. PlacesBelow(labels) = {}
      BY <2>2, <3>1 DEF PlacesBelow
    <3> QED BY <3>2, FS_EmptySet DEF TimesBelow
  <2>3. "decode" \notin FirstLabels /\ "decode" \notin AckLabels
    BY DEF FirstLabels, AckLabels
  <2>4. TimesBelow(FirstLabels) = 0 /\ TimesBelow(AckLabels) = 0
    BY <2>2, <2>3
  <2> QED BY <2>4 DEF BelowRoom
<1> QED BY <1>1, <1>3, <1>4

LEMMA SpentOrStale ==
  \A b \in Nat, spent \in {0, 1}, stale \in {0, 1} :
    /\ b - spent \in Int /\ b + stale \in Int /\ b - spent <= b + stale
    /\ stale = 1 \/ spent = 1 => b - spent < b + stale
OBVIOUS

(* An acknowledgement or a capture: receive_packet returns. Either its     *)
(* caller, waiting, has its packet now; or it looks at an old packet; or   *)
(* it is run, and will see what was received.                              *)
LEMMA DropTaken ==
  ASSUME Base, DataInv, DataType', DropInv, CrashInv, Top.at = "receiveLoop", Pop,
         NEW p \in Packet, p.complete, Delivered(p), p.kind \in {"ack", "data"},
         received' = IF p.kind = "data" THEN received \cup {p.nr} ELSE received,
         UNCHANGED <<created, pushed>>
  PROVE  DropInv'
<1> USE DEF Base
<1>1. /\ created \in Clients /\ created \in Nat /\ DataType
      /\ created # Null
  BY ClientRange, Bounds DEF CrashInv, DataInv
<1> DEFINE caller == stack[Len(stack) - 1]
<1>2. /\ Top' = caller /\ caller.at \in {"decode", "ackRead"}
      /\ caller.at = "decode" => BelowRoom = 0
  BY ReceiveCaller DEF Pop
<1>3. rx'[created] = p
  BY <1>1, TakenOk
<1>4. /\ Load' = BelowLoad - Spent' /\ Free' = BelowRoom - Spent'
      /\ Load = BelowLoad + Stale /\ Free = BelowRoom
      /\ BelowLoad \in Nat /\ BelowRoom \in Nat
      /\ Spent' \in {0, 1} /\ Stale \in {0, 1}
  BY LoadPop, LoadTop, BelowType, WeightTable, SpentPaid
<1>5. Stale = 1 \/ Spent' = 1 \/ (caller.at = "decode" /\ caller.ptr = created)
  <2>1. Stale = 1 \/ caller.ptr = created
    BY DEF Stale
  <2>2. caller.at = "ackRead" /\ caller.ptr = created => Spent' = 1
    BY <1>2, <1>3 DEF Spent, HasParameter
  <2> QED BY <1>2, <2>1, <2>2
<1>6. Load' \in Int /\ Load \in Int /\ Load' <= Load /\ (Stale = 1 \/ Spent' = 1 => Load' < Load)
  BY <1>4, SpentOrStale
<1>7. Top.at \notin {"connect", "decode"} /\ Top'.at # "connect" /\ Pending = {}
  BY PopLabel DEF Pending
<1> HIDE DEF caller
<1>8. IsFiniteSet(Unpushed) /\ Cardinality(Unpushed) \in Nat /\ Cardinality(Unpushed)' \in Nat
  BY <1>1, UnpushedType, UnpushedTypeNext
<1>9. CASE p.kind = "ack"
  <2>1. Unpushed' \subseteq Unpushed
    BY <1>7, <1>9 DEF Unpushed
  <2>2. Cardinality(Unpushed)' <= Cardinality(Unpushed)
    BY <1>1, <2>1, UnpushedLess
  <2>3. Cardinality(Unpushed)' + Load' <= Cardinality(Unpushed) + Load
    BY <1>6, <1>8, <2>2
  <2>4. Stale = 1 \/ Spent' = 1 => Cardinality(Unpushed)' + Load' < Cardinality(Unpushed) + Load
    BY <1>6, <1>8, <2>2
  <2>5. caller.at = "decode" => ~(Free > 0)
    BY <1>2, <1>4
  <2> QED BY <1>1, <1>5, <1>6, <1>7, <2>3, <2>4, <2>5, DropStep
<1>10. CASE p.kind = "data"
  <2>1. ~Quiet
    <3>1. Len(wire) >= 1 /\ Len(wire) \in Nat /\ wire[1] = p
      BY <1>1, WireTaken
    <3>2. 1 \in 1..Len(wire) /\ ~\E j \in 1..1 - 1 : wire[j].kind = "ack"
      BY <3>1
    <3> QED BY <1>10, <3>1, <3>2 DEF Quiet
  <2>2. CASE Stale = 1 \/ Spent' = 1
    <3>1. Unpushed' \subseteq Unpushed \cup {p.nr}
      BY <1>7, <1>10 DEF Unpushed
    <3>2. /\ IsFiniteSet(Unpushed \cup {p.nr}) /\ Cardinality(Unpushed \cup {p.nr}) \in Nat
          /\ Cardinality(Unpushed \cup {p.nr}) <= Cardinality(Unpushed) + 1
      <4>1. /\ IsFiniteSet(Unpushed \cup {p.nr})
            /\ Cardinality(Unpushed \cup {p.nr})
                 = IF p.nr \in Unpushed THEN Cardinality(Unpushed) ELSE Cardinality(Unpushed) + 1
        BY <1>8, FS_AddElement
      <4> QED BY <1>8, <4>1
    <3>3. Cardinality(Unpushed') <= Cardinality(Unpushed \cup {p.nr})
      BY <3>1, <3>2, FS_Subset
    <3>4. Cardinality(Unpushed)' <= Cardinality(Unpushed) + 1
      BY <1>8, <3>2, <3>3
    <3>5. Load' <= Load - 1
      BY <1>6, <2>2
    <3>6. Cardinality(Unpushed)' + Load' <= Cardinality(Unpushed) + Load
      BY <1>6, <1>8, <3>4, <3>5
    <3> QED BY <1>1, <1>6, <1>7, <2>1, <3>6, DropStep
  <2>3. CASE caller.at = "decode" /\ caller.ptr = created
    <3>1. Pending' = {p.nr}
      BY <1>1, <1>2, <1>3, <1>10, <2>3 DEF Pending, Readable
    <3>2. Unpushed' \subseteq Unpushed
      BY <1>7, <1>10, <3>1 DEF Unpushed
    <3>3. Cardinality(Unpushed)' <= Cardinality(Unpushed)
      BY <1>1, <3>2, UnpushedLess
    <3>4. Cardinality(Unpushed)' + Load' <= Cardinality(Unpushed) + Load
      BY <1>6, <1>8, <3>3
    <3> QED BY <1>1, <1>6, <1>7, <2>1, <3>4, DropStep
  <2> QED BY <1>5, <2>2, <2>3
<1> QED BY <1>9, <1>10

LEMMA DropReceive ==
  ASSUME Base, DataInv, DataType', DropInv, CrashInv, Receive
  PROVE  DropInv'
<1>1. PICK p \in Packet :
        /\ p.complete /\ Delivered(p)
        /\ received' = IF p.kind = "data" THEN received \cup {p.nr} ELSE received
        /\ LoopUnlessLink(p)
  BY DEF Receive
<1>2. /\ UNCHANGED <<created, pushed, mission>> /\ created \in Nat /\ DataType
      /\ Top.at = "receiveLoop"
  BY ClientRange, StackLength DEF Base, Receive, serverVars, DataInv
<1>3. CASE p.kind \in LinkKinds
  <2>1. stack' = stack /\ received' = received /\ p.kind \notin {"ack", "data"}
    BY <1>1, <1>3 DEF LoopUnlessLink, LinkKinds
  <2>2. Quiet => Quiet'
    BY <1>1, <1>2, <2>1, QuietTaken
  <2> QED BY <1>2, <2>1, <2>2, DropSame DEF Base
<1>4. CASE p.kind \notin LinkKinds
  <2>1. p.kind \in {"ack", "data"}
    BY <1>4 DEF Packet
  <2>2. Pop
    BY <1>1, <1>2, <1>4, Returned DEF Base, LoopUnlessLink, RunLabels
  <2> QED BY <1>1, <1>2, <2>1, <2>2, DropTaken
<1> QED BY <1>3, <1>4

-----------------------------------------------------------------------------
(* Commands and partial packets after a step                               *)
LEMMA CutPut ==
  ASSUME DataType, CutInv, NEW k \in LinkKinds \cup {"ack", "data"}, NEW n \in 0..MaxData,
         ToClient(k, n), link = "up", link' = "up"
  PROVE  CutInv'
<1>1. /\ Len(wire) \in Nat /\ Len(wire') = Len(wire) + 1
      /\ \A i \in 1..Len(wire) : wire'[i] = wire[i]
      /\ wire'[Len(wire) + 1].complete
  BY WirePut
<1>2. ASSUME NEW i \in 1..Len(wire') PROVE wire'[i].complete
  <2>1. CASE i = Len(wire) + 1
    BY <1>1, <2>1
  <2>2. CASE i # Len(wire) + 1
    <3>1. i \in 1..Len(wire) /\ wire'[i] = wire[i]
      BY <1>1, <2>2
    <3> QED BY <3>1 DEF CutInv
  <2> QED BY <2>1, <2>2
<1> QED BY <1>2 DEF CutInv

LEMMA CutInit == Init => CutInv
<1> SUFFICES ASSUME Init PROVE CutInv
  OBVIOUS
<1>1. wire = <<>> /\ mission = {}
  BY DEF Init
<1>2. Len(wire) = 0
  BY <1>1
<1> QED BY <1>1, <1>2 DEF CutInv

LEMMA CutNext == DataType /\ CutInv /\ [Next]_vars => CutInv'
<1> SUFFICES ASSUME DataType, CutInv, [Next]_vars PROVE CutInv'
  OBVIOUS
<1>1. CASE UNCHANGED <<link, wire, mission>>
  BY <1>1 DEF CutInv
<1>2. CASE ConnectRefused
  <2>1. wire' = <<>> /\ mission' = {}
    BY <1>2 DEF ConnectRefused
  <2>2. Len(wire') = 0
    BY <2>1
  <2> QED BY <2>1, <2>2 DEF CutInv
<1>3. CASE ConnectAccepted
  <2> DEFINE p == [kind |-> "greeting", nr |-> 0, complete |-> TRUE]
  <2>1. p.complete = TRUE /\ wire' = <<p>> /\ mission' = {} /\ link' = "up"
    BY <1>3 DEF ConnectAccepted
  <2> HIDE DEF p
  <2>2. \A i \in 1..Len(wire') : wire'[i].complete
    BY <2>1
  <2> QED BY <2>1, <2>2 DEF CutInv
<1>4. CASE Handshake \/ Receive \/ ReceiveHeader
  <2>1. PICK p : Delivered(p)
    BY <1>4 DEF Handshake, Receive, ReceiveHeader
  <2>2. UNCHANGED <<link, mission>>
    BY <1>4 DEF Handshake, Receive, ReceiveHeader, serverVars
  <2>3. /\ Len(wire) \in Nat /\ Len(wire) >= 1 /\ Len(wire') = Len(wire) - 1
        /\ \A i \in 1..Len(wire') : wire'[i] = wire[i + 1]
    BY <2>1, WireTaken
  <2>4. ASSUME NEW i \in 1..Len(wire'), ~wire'[i].complete PROVE i = Len(wire') /\ link # "up"
    <3>1. i + 1 \in 1..Len(wire) /\ ~wire[i + 1].complete
      BY <2>3, <2>4
    <3>2. i + 1 = Len(wire) /\ link # "up"
      BY <3>1 DEF CutInv
    <3> QED BY <2>3, <3>2
  <2> QED BY <2>2, <2>4 DEF CutInv
<1>5. CASE \/ StartMission \/ SendConnects \/ SendPacket \/ SendGivesUp \/ ReceiveTest
           \/ ReceiveError \/ ReceiveErrorFoundOut
           \/ AckWaitEnter \/ AckTurn \/ AckTimeout \/ AckRead \/ RunTurn \/ RunDecode
           \/ UNCHANGED vars
  <2>1. UNCHANGED <<link, wire, mission>>
    BY <1>5 DEF StartMission, MissionSend, MissionWait, MissionDone, SendConnects, SendPacket, SendGivesUp,
         ReceiveTest, ReceiveError, ReceiveErrorFoundOut, AckWaitEnter, AckTurn, AckTimeout, AckRead,
         RunTurn, RunDecode, serverVars, vars
  <2> QED BY <1>1, <2>1
<1>6. CASE ServerHandles
  <2>1. \E k \in LinkKinds \cup {"ack"} : ToClient(k, 0)
    BY <1>6 DEF ServerHandles, LinkKinds
  <2>2. link = "up" /\ link' = "up" /\ 0 \in 0..MaxData
    BY <1>6, Bounds DEF ServerHandles
  <2> QED BY <2>1, <2>2, CutPut
<1>7. CASE ServerData
  <2>1. /\ link = "up" /\ link' = "up" /\ ToClient("data", sentData + 1) /\ sentData + 1 \in 0..MaxData
    BY <1>7, Bounds DEF ServerData, DataType
  <2> QED BY <2>1, CutPut
<1>8. CASE ServerAlive
  <2>1. /\ link = "up" /\ link' = "up" /\ ToClient("alive", 0) /\ 0 \in 0..MaxData
        /\ "alive" \in LinkKinds \cup {"ack", "data"}
    BY <1>8, Bounds DEF ServerAlive, LinkKinds
  <2> QED BY <2>1, CutPut
<1>9. CASE Break
  <2>1. /\ Len(wire) \in Nat /\ Len(wire') \in 0..Len(wire)
        /\ \A i \in 1..Len(wire') : ~wire'[i].complete => i = Len(wire') \/ ~wire[i].complete
    BY <1>9, WireCut
  <2>2. link = "up" /\ link' # "up" /\ mission' = {}
    BY <1>9 DEF Break
  <2>3. ASSUME NEW i \in 1..Len(wire'), ~wire'[i].complete PROVE i = Len(wire')
    <3>1. i \in 1..Len(wire)
      BY <2>1
    <3> QED BY <2>1, <2>2, <2>3, <3>1 DEF CutInv
  <2> QED BY <2>2, <2>3 DEF CutInv
<1> QED BY <1>2, <1>3, <1>4, <1>5, <1>6, <1>7, <1>8, <1>9 DEF Next, Node

-----------------------------------------------------------------------------
(* The pointer a caller of receive_packet holds                            *)
LEMMA PtrPushed ==
  ASSUME StackInv, NEW f, NEW g, Push(f, g), f.ptr = client'
  PROVE  PtrInv'
<1>1. Len(stack) \in Nat /\ Len(stack) >= 1 /\ Len(stack') = Len(stack) + 1
  BY StackLength DEF StackInv, Push
<1>2. Len(stack') > 1 /\ stack'[Len(stack') - 1] = f
  BY <1>1 DEF Push
<1> QED BY <1>2 DEF PtrInv

LEMMA PtrInit == Init => PtrInv
<1> SUFFICES ASSUME Init PROVE PtrInv
  OBVIOUS
<1> DEFINE f == Frame("run")  g == Frame("connect")
<1>1. stack = <<f, g>> /\ g.at = "connect"
  BY FrameLabels DEF Init
<1> HIDE DEF f, g
<1>2. Top.at = "connect"
  BY <1>1 DEF Top
<1> QED BY <1>2 DEF PtrInv

LEMMA PtrNext == Base /\ PtrInv /\ [Next]_vars => PtrInv'
<1> SUFFICES ASSUME Base, PtrInv, [Next]_vars PROVE PtrInv'
  OBVIOUS
<1> USE DEF Base
<1>1. CASE UNCHANGED <<stack, client>>
  BY <1>1 DEF PtrInv, Top
<1>2. CASE Top'.at # "receive"
  BY <1>2 DEF PtrInv
<1>3. CASE Pop
  BY <1>2, <1>3, CallerLabels DEF Pop
<1>4. ASSUME NEW f, Swap(f), f.at # "receive" PROVE PtrInv'
  BY <1>2, <1>4 DEF Swap
<1>5. ASSUME NEW f, NEW g, Push(f, g), g.at # "receive" PROVE PtrInv'
  BY <1>2, <1>5 DEF Push
<1>6. CASE ConnectRefused \/ ConnectAccepted
  BY <1>3, <1>4, <1>6, ConnectStack, FrameLabels
<1>7. CASE Handshake
  <2>1. CASE stack' = stack
    BY <1>1, <1>7, <2>1 DEF Handshake
  <2>2. CASE Swap(Frame("mission1"))
    BY <1>4, <2>2, FrameLabels
  <2> QED BY <1>7, <2>1, <2>2, HandshakeStack
<1>8. CASE StartMission
  BY <1>3, <1>5, <1>8, MissionStack, FrameLabels
<1>9. CASE SendConnects \/ SendPacket \/ SendGivesUp
  BY <1>3, <1>5, <1>9, SendStack, FrameLabels
<1>10. CASE ReceiveTest
  BY <1>3, <1>4, <1>5, <1>10, ReceiveTestStack, FrameLabels
<1>11. CASE Receive \/ ReceiveHeader \/ ReceiveError \/ ReceiveErrorFoundOut
  <2>1. client' = client
    BY <1>11 DEF Receive, ReceiveHeader, ReceiveError, ReceiveErrorFoundOut
  <2>2. Pop \/ stack' = stack
    BY <1>11, ReceiveStack DEF ReceiveHeader
  <2> QED BY <1>1, <1>3, <2>1, <2>2
<1>12. CASE AckWaitEnter \/ AckTimeout \/ AckRead
  BY <1>3, <1>4, <1>12, AckWaitStack, AckTimeoutStack, AckReadStack, FrameLabels
<1>13. CASE AckTurn
  <2> DEFINE f == [Top EXCEPT !.at = "ackRead", !.ptr = client]
  <2>1. CASE client # Null
    <3>1. Push(f, Frame("receive")) /\ f.ptr = client' /\ f.ptr = client
      BY <1>13, <2>1, AckTurnStack, StackLength DEF AckTurn, FrameType
    <3> HIDE DEF f
    <3> QED BY <3>1, PtrPushed
  <2>2. CASE client = Null
    <3> DEFINE e == Frame("crashed")
    <3>1. stack' = <<e>> /\ e.at = "crashed"
      BY <1>13, <2>2, AckTurnStack, FrameLabels
    <3> HIDE DEF e
    <3>2. Top'.at = "crashed"
      BY <3>1 DEF Top
    <3> QED BY <1>2, <3>2
  <2> QED BY <2>1, <2>2
<1>14. CASE RunTurn
  <2>1. Push(DecodeFrame, Frame("receive")) /\ DecodeFrame.ptr = client'
    BY <1>14, RunStack DEF RunTurn
  <2> QED BY <2>1, PtrPushed
<1>15. CASE RunDecode
  BY <1>4, <1>15, RunStack, FrameLabels
<1>16. CASE ServerHandles \/ ServerData \/ ServerAlive \/ Break \/ UNCHANGED vars
  <2>1. UNCHANGED <<stack, client>>
    BY <1>16 DEF ServerHandles, ServerData, ServerAlive, Break, ClientUnchanged, vars
  <2> QED BY <1>1, <2>1
<1> QED BY <1>6, <1>7, <1>8, <1>9, <1>10, <1>11, <1>12, <1>13, <1>14, <1>15, <1>16 DEF Next, Node

-----------------------------------------------------------------------------
LEMMA DropInit == Init => DropInv
<1> SUFFICES ASSUME Init PROVE DropInv
  OBVIOUS
<1>1. StackInv
  BY BaseInit DEF Base
<1> DEFINE f == Frame("run")  g == Frame("connect")
<1>2. stack = <<f, g>> /\ f.at = "run" /\ g.at = "connect" /\ received = {} /\ created = 0
  BY FrameLabels DEF Init
<1> HIDE DEF f, g
<1>3. Len(stack) = 2 /\ stack[1] = f /\ stack[2] = g /\ Top.at = "connect"
  BY <1>2 DEF Top
<1>4. Load = BelowLoad + 2
  BY <1>1, <1>3, LoadTop, BelowType, WeightTable, SpentPaid
<1>5. BelowLoad = 0
  <2>1. ASSUME NEW labels \in {FirstLabels, SecondLabels, AckLabels, AgainLabels}
        PROVE  TimesBelow(labels) = 0
    <3>1. "run" \notin labels
      BY DEF FirstLabels, SecondLabels, AckLabels, AgainLabels
    <3>2. PlacesBelow(labels) = {}
      BY <1>2, <1>3, <3>1 DEF PlacesBelow
    <3> QED BY <3>2, FS_EmptySet DEF TimesBelow
  <2>2. /\ TimesBelow(FirstLabels) = 0 /\ TimesBelow(SecondLabels) = 0
        /\ TimesBelow(AckLabels) = 0 /\ TimesBelow(AgainLabels) = 0
    BY <2>1
  <2> QED BY <2>2 DEF BelowLoad
<1>6. Unpushed = {} /\ Cardinality(Unpushed) = 0
  BY <1>2, FS_EmptySet DEF Unpushed
<1>7. Attempts = 1 /\ Exempt = 1
  BY <1>2, <1>3 DEF Attempts, Exempt
<1> QED BY <1>4, <1>5, <1>6, <1>7 DEF DropInv

LEMMA DropNext ==
  Base /\ DataInv /\ DataInv' /\ CrashInv /\ CutInv /\ PtrInv /\ DropInv /\ [Next]_vars => DropInv'
<1> SUFFICES ASSUME Base, DataInv, DataInv', CrashInv, CutInv, PtrInv, DropInv, [Next]_vars
             PROVE  DropInv'
  OBVIOUS
<1>1. DataType /\ DataType'
  BY DEF DataInv
<1>2. CASE ConnectRefused \/ ConnectAccepted
  BY <1>1, <1>2, DropConnect
<1>3. CASE Handshake
  BY <1>1, <1>3, DropHandshake
<1>4. CASE StartMission
  BY <1>1, <1>4, DropMission
<1>5. CASE SendConnects \/ SendPacket \/ SendGivesUp
  BY <1>1, <1>5, DropSend
<1>6. CASE ReceiveTest
  BY <1>1, <1>6, DropReceiveTest
<1>7. CASE Receive
  BY <1>1, <1>7, DropReceive
<1>8. CASE ReceiveHeader
  BY <1>1, <1>8, DropHeader
<1>9. CASE ReceiveError \/ ReceiveErrorFoundOut
  BY <1>1, <1>9, DropError
<1>10. CASE AckWaitEnter \/ AckTurn \/ AckTimeout \/ AckRead
  BY <1>1, <1>10, DropAck
<1>11. CASE RunTurn \/ RunDecode
  BY <1>1, <1>11, DropRun
<1>12. CASE ServerHandles \/ ServerData \/ ServerAlive \/ Break
  BY <1>1, <1>12, DropServer
<1>13. CASE UNCHANGED vars
  <2>1. UNCHANGED <<stack, created, rx, received, pushed, wire, mission>> /\ created \in Nat
    BY <1>13, ClientRange DEF vars, Base
  <2> QED BY <1>1, <2>1, QuietKept, DropSame DEF Base
<1> QED BY <1>2, <1>3, <1>4, <1>5, <1>6, <1>7, <1>8, <1>9, <1>10, <1>11, <1>12, <1>13 DEF Next, Node

(* What is received is pushed: but for one capture on the first            *)
(* connection and three for each further attempt, in however many losses,  *)
(* refusals and calls of startMission inside each other.                   *)
THEOREM FewAreDropped == Spec => []FewCapturesDropped
<1>1. Base /\ DataInv /\ DropInv => FewCapturesDropped
  <2> SUFFICES ASSUME Base, DataInv, DropInv, At("run")
               PROVE  Cardinality({n \in received : pushed[n] = 0}) <= 3 * created - 2
    BY DEF FewCapturesDropped
  <2>1. Top.at = "run" /\ Len(stack) = 1 /\ StackInv
    BY StackLength, BottomIsTop DEF Base, RunLabels
  <2>2. \A labels : TimesBelow(labels) = 0
    <3>1. \A labels : PlacesBelow(labels) = {}
      BY <2>1 DEF PlacesBelow
    <3> QED BY <3>1, FS_EmptySet DEF TimesBelow
  <2>3. BelowLoad = 0 /\ BelowRoom = 0
    BY <2>2 DEF BelowLoad, BelowRoom
  <2>4. Load = 0 /\ Free = 0
    BY <2>1, <2>3, LoadTop, WeightTable, SpentPaid
  <2>5. Attempts = created /\ Exempt = 0 /\ created \in Nat
    BY <2>1, <2>4, ClientRange DEF Attempts, Exempt, Base
  <2>6. Unpushed = {n \in received : pushed[n] = 0}
    BY <2>1 DEF Unpushed, Pending
  <2>7. Cardinality(Unpushed) \in Nat
    BY UnpushedType DEF DataInv
  <2> QED BY <2>4, <2>5, <2>6, <2>7 DEF DropInv
<1>2. DataInv => DataType
  BY DEF DataInv
<1> QED BY <1>1, <1>2, BaseInit, BaseNext, DataInvInit, DataInvNext, CrashInit, CrashNext,
           CutInit, CutNext, PtrInit, PtrNext, DropInit, DropNext, PTL DEF Spec

=============================================================================
