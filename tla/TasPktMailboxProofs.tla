-------------------------- MODULE TasPktMailboxProofs --------------------------
(*****************************************************************************)
(* Proofs about TasPktMailbox, for every size of packets and buffers: its    *)
(* types, where packets begin in the stream and which calls they answer as   *)
(* long as no read was short, and that the mailbox implements TasPktChannel, *)
(* which says what is left when one was.                                     *)
(*****************************************************************************)
EXTENDS TasPktMailbox, TLAPS

--------------------------------------------------------------------------------
(* Sequences.                                                                 *)

LEMMA PrefixType ==
    ASSUME NEW S, NEW s \in Seq(S), NEW n \in Nat, n <= Len(s)
    PROVE  SubSeq(s, 1, n) \in Seq(S) /\ Len(SubSeq(s, 1, n)) = n
BY SMT

LEMMA RestType ==
    ASSUME NEW S, NEW s \in Seq(S), NEW n \in Nat
    PROVE  SubSeq(s, n + 1, Len(s)) \in Seq(S)
BY SMT

LEMMA EmptyType ==
    ASSUME NEW S PROVE <<>> \in Seq(S) /\ Len(<<>>) = 0
BY SMT

LEMMA ConcatType ==
    ASSUME NEW S, NEW s \in Seq(S), NEW t \in Seq(S)
    PROVE  s \o t \in Seq(S) /\ Len(s \o t) = Len(s) + Len(t)
BY SMT

LEMMA SeqGrow ==
    ASSUME NEW S, NEW T, S \subseteq T, NEW s \in Seq(S)
    PROVE  s \in Seq(T)
BY SMT

LEMMA SeqEq ==
    ASSUME NEW S, NEW s \in Seq(S), NEW t \in Seq(S), Len(s) = Len(t), \A k \in 1..Len(s) : s[k] = t[k]
    PROVE  s = t
BY SMT

LEMMA ConcatAt ==
    ASSUME NEW S, NEW s \in Seq(S), NEW t \in Seq(S)
    PROVE  /\ Len(s) \in Nat /\ Len(t) \in Nat
           /\ \A k \in 1..Len(s) : (s \o t)[k] = s[k]
           /\ \A k \in 1..Len(t) : (s \o t)[Len(s) + k] = t[k]
BY SMT

LEMMA ConcatAssoc ==
    ASSUME NEW S, NEW s \in Seq(S), NEW t \in Seq(S), NEW u \in Seq(S)
    PROVE  (s \o t) \o u = s \o (t \o u)
<1>1. (s \o t) \o u \in Seq(S) /\ s \o (t \o u) \in Seq(S) /\ Len((s \o t) \o u) = Len(s \o (t \o u))
  BY SMT
<1>2. \A k \in 1..Len((s \o t) \o u) : ((s \o t) \o u)[k] = (s \o (t \o u))[k]
  BY SMT
<1> QED BY <1>1, <1>2, SeqEq

LEMMA ConcatEmpty ==
    ASSUME NEW S, NEW s \in Seq(S)
    PROVE  <<>> \o s = s /\ s \o <<>> = s
BY SMT

LEMMA SubSeqAll ==
    ASSUME NEW S, NEW s \in Seq(S)
    PROVE  SubSeq(s, 1, Len(s)) = s
<1> DEFINE n == Len(s)
<1>1. n \in Nat
  BY SMT
<1>2. SubSeq(s, 1, n) \in Seq(S) /\ Len(SubSeq(s, 1, n)) = n /\ \A k \in 1..n : SubSeq(s, 1, n)[k] = s[k]
  BY SMT
<1> QED BY <1>2, SeqEq

LEMMA LastWord ==
    ASSUME NEW S, NEW s \in Seq(S), NEW n \in Nat, Len(s) = n + 1
    PROVE  SubSeq(s, 1, n) \o <<s[n + 1]>> = s /\ SubSeq(s, 1, n) \in Seq(S)
<1> DEFINE a == SubSeq(s, 1, n)
           b == <<s[n + 1]>>
<1>1. a \in Seq(S) /\ Len(a) = n /\ \A k \in 1..n : a[k] = s[k]
  BY SMT
<1>2. s[n + 1] \in S
  BY SMT
<1>3. b \in Seq(S) /\ Len(b) = 1 /\ b[1] = s[n + 1] /\ 1 \in 1..Len(b)
  BY <1>2, SMT
<1> HIDE DEF a, b
<1>4. a \o b \in Seq(S) /\ Len(a \o b) = n + 1
  <2>1. a \o b \in Seq(S) /\ Len(a \o b) = Len(a) + Len(b)
    BY <1>1, <1>3, ConcatType
  <2> QED BY <1>1, <1>3, <2>1
<1>5. ASSUME NEW k \in 1..(n + 1) PROVE (a \o b)[k] = s[k]
  <2>1. CASE k \in 1..n
    <3>1. \A j \in 1..Len(a) : (a \o b)[j] = a[j]
      BY <1>1, <1>3, ConcatAt
    <3> QED BY <1>1, <2>1, <3>1
  <2>2. CASE k = n + 1
    <3>1. \A j \in 1..Len(b) : (a \o b)[Len(a) + j] = b[j]
      BY <1>1, <1>3, ConcatAt
    <3> QED BY <1>1, <1>3, <2>2, <3>1
  <2>3. k \in 1..n \/ k = n + 1
    BY SMT
  <2> QED BY <2>1, <2>2, <2>3
<1> QED BY <1>1, <1>4, <1>5, SeqEq DEF a, b

LEMMA MoveWords ==
    ASSUME NEW S, NEW s \in Seq(S), NEW t \in Seq(S), NEW n \in 0..Len(t)
    PROVE  (s \o SubSeq(t, 1, n)) \o SubSeq(t, n + 1, Len(t)) = s \o t
<1> DEFINE a == SubSeq(t, 1, n)
           b == SubSeq(t, n + 1, Len(t))
<1>1. a \in Seq(S) /\ b \in Seq(S) /\ Len(a) = n /\ Len(b) = Len(t) - n /\ Len(t) \in Nat
  BY SMT
<1>2. a \o b = t
  <2>1. a \o b \in Seq(S) /\ Len(a \o b) = Len(t)
    <3> HIDE DEF a, b
    <3> QED BY <1>1, ConcatType, SMT
  <2>b. \A k \in 1..n : a[k] = t[k]
    BY SMT
  <2>c. \A k \in 1..(Len(t) - n) : b[k] = t[k + n]
    BY SMT
  <2>a. (\A k \in 1..n : a[k] = t[k]) /\ (\A k \in 1..Len(b) : b[k] = t[k + n])
    <3> HIDE DEF a, b
    <3> QED BY <1>1, <2>b, <2>c
  <2>2. ASSUME NEW k \in 1..Len(t) PROVE (a \o b)[k] = t[k]
    <3> HIDE DEF a, b
    <3>1. CASE k <= n
      <4>1. k \in 1..n
        BY <1>1, <3>1, SMT
      <4> QED BY <1>1, <2>a, <4>1, ConcatAt
    <3>2. CASE ~(k <= n)
      <4> DEFINE j == k - n
      <4>1. j \in 1..Len(b) /\ k = n + j /\ k = j + n
        BY <1>1, <3>2, SMT
      <4> HIDE DEF j
      <4>2. (a \o b)[Len(a) + j] = b[j] /\ b[j] = t[j + n]
        BY <1>1, <2>a, <4>1, ConcatAt
      <4> QED BY <1>1, <4>1, <4>2
    <3> QED BY <3>1, <3>2
  <2> HIDE DEF a, b
  <2> QED BY <2>1, <2>2, SeqEq
<1> HIDE DEF a, b
<1>3. (s \o a) \o b = s \o (a \o b)
  <2>1. a \in Seq(S) /\ b \in Seq(S)
    BY <1>1
  <2> QED BY <2>1, ConcatAssoc, SMTT(30)
<1> QED BY <1>2, <1>3 DEF a, b

LEMMA HeadRest ==
    ASSUME NEW S, NEW s \in Seq(S), s # <<>>
    PROVE  <<Head(s)>> \o SubSeq(s, 2, Len(s)) = s /\ Head(s) = s[1] /\ s[1] \in S
<1>1. Head(s) = s[1] /\ s[1] \in S /\ Len(s) \in Nat /\ Len(s) >= 1
  BY SMT
<1> DEFINE b == SubSeq(s, 2, Len(s))
<1>2. b \in Seq(S) /\ Len(b) = Len(s) - 1 /\ \A k \in 1..Len(b) : b[k] = s[k + 1]
  <2>1. \A n \in Nat : n <= Len(s) =>
          /\ SubSeq(s, n + 1, Len(s)) \in Seq(S) /\ Len(SubSeq(s, n + 1, Len(s))) = Len(s) - n
          /\ \A k \in 1..(Len(s) - n) : SubSeq(s, n + 1, Len(s))[k] = s[k + n]
    BY <1>1, SMT
  <2>2. 1 \in Nat /\ 1 <= Len(s) /\ 1 + 1 = 2
    BY <1>1, SMT
  <2> QED BY <2>1, <2>2
<1>3. <<s[1]>> \in Seq(S) /\ Len(<<s[1]>>) = 1 /\ <<s[1]>>[1] = s[1]
  BY <1>1, SMT
<1> DEFINE a == <<s[1]>>
<1> HIDE DEF a, b
<1>4. a \o b \in Seq(S) /\ Len(a \o b) = Len(s)
  BY <1>1, <1>2, <1>3, ConcatType, SMT DEF a
<1>5. ASSUME NEW k \in 1..Len(s) PROVE (a \o b)[k] = s[k]
  <2>1. CASE k = 1
    BY <2>1, <1>2, <1>3, ConcatAt, SMT DEF a
  <2>2. CASE k # 1
    <3>1. k - 1 \in 1..Len(b) /\ 1 + (k - 1) = k /\ (k - 1) + 1 = k
      BY <1>1, <1>2, <2>2, SMT
    <3>2. (a \o b)[Len(a) + (k - 1)] = b[k - 1] /\ b[k - 1] = s[(k - 1) + 1]
      BY <1>2, <1>3, <3>1, ConcatAt DEF a
    <3> QED BY <1>3, <3>1, <3>2 DEF a
  <2> QED BY <2>1, <2>2
<1>6. a \o b = s
  BY <1>4, <1>5, SeqEq
<1> QED BY <1>1, <1>6 DEF a, b

LEMMA PrefixOfConcat ==
    ASSUME NEW S, NEW s \in Seq(S), NEW t \in Seq(S), NEW n \in 0..Len(s)
    PROVE  /\ SubSeq(s \o t, 1, n) = SubSeq(s, 1, n)
           /\ SubSeq(s \o t, n + 1, Len(s \o t)) = SubSeq(s, n + 1, Len(s)) \o t
<1>1. Len(s) \in Nat /\ Len(t) \in Nat /\ s \o t \in Seq(S) /\ Len(s \o t) = Len(s) + Len(t)
  BY SMT
<1>2. /\ SubSeq(s \o t, 1, n) \in Seq(S) /\ SubSeq(s, 1, n) \in Seq(S)
      /\ Len(SubSeq(s \o t, 1, n)) = n /\ Len(SubSeq(s, 1, n)) = n
  BY <1>1, SMT
<1>3. \A k \in 1..n : SubSeq(s \o t, 1, n)[k] = SubSeq(s, 1, n)[k]
  BY <1>1, SMT
<1>4. SubSeq(s \o t, 1, n) = SubSeq(s, 1, n)
  BY <1>2, <1>3, SeqEq
<1> DEFINE a == SubSeq(s, n + 1, Len(s))
           b == SubSeq(s \o t, n + 1, Len(s \o t))
<1>5. /\ a \in Seq(S) /\ b \in Seq(S) /\ Len(a) = Len(s) - n /\ Len(b) = Len(s) + Len(t) - n
      /\ (\A k \in 1..Len(a) : a[k] = s[k + n])
      /\ (\A k \in 1..Len(b) : b[k] = (s \o t)[k + n])
  BY <1>1, SMT
<1> HIDE DEF a, b
<1>6. a \o t \in Seq(S) /\ Len(a \o t) = Len(b)
  <2>1. a \o t \in Seq(S) /\ Len(a \o t) = Len(a) + Len(t)
    BY <1>5, ConcatType
  <2> QED BY <1>1, <1>5, <2>1, SMT
<1>7. ASSUME NEW k \in 1..Len(b) PROVE b[k] = (a \o t)[k]
  <2>1. CASE k <= Len(a)
    <3>1. k \in 1..Len(a) /\ k + n \in 1..Len(s)
      BY <1>1, <1>5, <2>1, SMT
    <3> QED BY <1>5, <3>1, ConcatAt
  <2>2. CASE ~(k <= Len(a))
    <3> DEFINE j == k - Len(a)
    <3>1. j \in 1..Len(t) /\ k = Len(a) + j /\ k + n = Len(s) + j
      BY <1>1, <1>5, <2>2, SMT
    <3> HIDE DEF j
    <3>2. (a \o t)[Len(a) + j] = t[j] /\ (s \o t)[Len(s) + j] = t[j]
      BY <1>5, <3>1, ConcatAt
    <3> QED BY <1>5, <3>1, <3>2
  <2> QED BY <2>1, <2>2
<1>8. b = a \o t
  BY <1>5, <1>6, <1>7, SeqEq
<1> QED BY <1>4, <1>8 DEF a, b

LEMMA RestOfConcat ==
    ASSUME NEW S, NEW s \in Seq(S), NEW t \in Seq(S)
    PROVE  SubSeq(s \o t, Len(s) + 1, Len(s \o t)) = t
<1> DEFINE n == Len(s)
<1>1. n \in 0..n /\ n \in Nat
  BY SMT
<1>2. SubSeq(s \o t, n + 1, Len(s \o t)) = SubSeq(s, n + 1, n) \o t
  BY <1>1, PrefixOfConcat
<1>3. SubSeq(s, n + 1, n) = <<>>
  BY <1>1, SMT
<1> QED BY <1>2, <1>3, ConcatEmpty

LEMMA PrefixOfCons ==
    ASSUME NEW S, NEW x \in S, NEW s \in Seq(S), NEW r, r = <<x>> \o s, NEW n, n \in 0..Len(s)
    PROVE  /\ r \in Seq(S) /\ Len(r) = 1 + Len(s) /\ r[1] = x
           /\ \A k \in 1..Len(s) : r[k + 1] = s[k]
           /\ SubSeq(r, 1, n + 1) = <<x>> \o SubSeq(s, 1, n)
           /\ SubSeq(r, (n + 1) + 1, Len(r)) = SubSeq(s, n + 1, Len(s))
<1>1. r \in Seq(S) /\ Len(r) = 1 + Len(s) /\ r[1] = x /\ (\A k \in 1..Len(s) : r[k + 1] = s[k]) /\ Len(s) \in Nat
  BY SMT
<1> DEFINE a == SubSeq(s, 1, n)
           b == SubSeq(r, 1, n + 1)
           c == <<x>> \o a
<1>2. a \in Seq(S) /\ Len(a) = n /\ \A k \in 1..n : a[k] = s[k]
  BY <1>1, SMT
<1>3. b \in Seq(S) /\ Len(b) = n + 1 /\ \A k \in 1..(n + 1) : b[k] = r[k]
  BY <1>1, SMT
<1> HIDE DEF a, b
<1>4. c \in Seq(S) /\ Len(c) = 1 + Len(a) /\ c[1] = x /\ \A k \in 1..Len(a) : c[k + 1] = a[k]
  BY <1>2, SMT
<1> HIDE DEF c
<1>5. ASSUME NEW k \in 1..Len(b) PROVE b[k] = c[k]
  <2>1. CASE k = 1
    BY <1>1, <1>3, <1>4, <2>1
  <2>2. CASE k # 1
    <3> DEFINE j == k - 1
    <3>1. j \in 1..n /\ j \in 1..Len(s) /\ k = j + 1 /\ k \in 1..(n + 1)
      BY <1>1, <1>3, <2>2, SMT
    <3> HIDE DEF j
    <3>2. b[k] = s[j] /\ c[k] = s[j]
      BY <1>1, <1>2, <1>3, <1>4, <3>1
    <3> QED BY <3>2
  <2> QED BY <2>1, <2>2
<1>6. Len(b) = Len(c)
  BY <1>2, <1>3, <1>4, SMT
<1>7. b = c
  BY <1>3, <1>4, <1>5, <1>6, SeqEq
<1> DEFINE d == SubSeq(r, (n + 1) + 1, Len(r))
           e == SubSeq(s, n + 1, Len(s))
<1>8. d \in Seq(S) /\ Len(d) = Len(s) - n /\ \A k \in 1..Len(d) : d[k] = r[k + (n + 1)]
  BY <1>1, SMT
<1>9. e \in Seq(S) /\ Len(e) = Len(s) - n /\ \A k \in 1..Len(e) : e[k] = s[k + n]
  BY <1>1, SMT
<1> HIDE DEF d, e
<1>10. ASSUME NEW k \in 1..Len(d) PROVE d[k] = e[k]
  <2>1. k + n \in 1..Len(s) /\ (k + n) + 1 = k + (n + 1) /\ k \in 1..Len(e)
    BY <1>1, <1>8, <1>9, SMT
  <2> QED BY <1>1, <1>8, <1>9, <2>1
<1>11. d = e
  BY <1>8, <1>9, <1>10, SeqEq
<1> QED BY <1>1, <1>7, <1>11 DEF a, b, c, d, e

--------------------------------------------------------------------------------
(* Types.                                                                     *)

LEMMA RecvType ==
    ASSUME NEW S, sock \in Seq(S), NEW n \in Nat
    PROVE  /\ recv(n) \in Seq(S) /\ Len(recv(n)) \in 0..n
           /\ Len(recv(n)) = IF n < Len(sock) THEN n ELSE Len(sock)
BY SMT DEF recv

\* Words of a state are words of every later one.
LEMMA WordsGrow ==
    ASSUME TypeOK, pkts' \in Nat, call' \in Nat, pkts' >= pkts, call' >= call
    PROVE  /\ Words \subseteq Words'
           /\ \A s \in Seq(Words) : s \in Seq(Words')
           /\ \A s \in Seq(0..call) : s \in Seq((0..call)')
<1>1. pkts \in Nat /\ call \in Nat
  BY DEF TypeOK
<1>2. 0..pkts \subseteq 0..pkts' /\ 0..call \subseteq 0..call'
  BY <1>1, SMT
<1>3. Words \subseteq Words'
  BY <1>2 DEF Words
<1> QED BY <1>2, <1>3, SeqGrow

LEMMA PacketType ==
    ASSUME TypeOK, NEW size \in Nat, NEW rq \in 0..call, pkts' = pkts + 1, call' = call
    PROVE  Packet(size, rq) \in Seq(Words') /\ Len(Packet(size, rq)) = size
<1>1. \A k \in 1..size : [pkt |-> pkts + 1, i |-> k - 1, len |-> size, rq |-> rq] \in Words'
  BY SMT DEF TypeOK, Words
<1>2. Packet(size, rq) \in [1..size -> Words']
  BY <1>1 DEF Packet
<1> QED BY <1>2, SMT

LEMMA FlagsStep ==
    ASSUME TypeOK, Next
    PROVE  (ok \in BOOLEAN /\ established \in BOOLEAN /\ outOfStep \in BOOLEAN /\ short \in BOOLEAN)'
<1>0. ok \in BOOLEAN /\ established \in BOOLEAN /\ outOfStep \in BOOLEAN /\ short \in BOOLEAN
  BY DEF TypeOK
<1> USE <1>0 DEF Returns, history
<1>1. CASE server_connect
  BY <1>1, Zenon DEF server_connect
<1>2. CASE \E k, n : Begin(k, n)
  BY <1>2, Zenon DEF Begin
<1>3. CASE Send \/ ReceiveStep
  BY <1>3, Zenon DEF ReceiveStep, Send, RecvHeader, BadHeader, HeaderTimeout, HeaderClosed, RecvBody, BodyLost, Done
<1>4. CASE \E size \in RspSizes : Answer(size) \/ Push(size)
  BY <1>4, Zenon DEF Answer, Push, Serves
<1>5. CASE Arrive \/ Ignore \/ ServerCloses
  BY <1>5, Zenon DEF Arrive, Ignore, ServerCloses
<1> QED BY <1>1, <1>2, <1>3, <1>4, <1>5, Zenon DEF Next, send, execute, receive

LEMMA BeginType ==
    ASSUME TypeOK, (ok \in BOOLEAN /\ established \in BOOLEAN /\ outOfStep \in BOOLEAN /\ short \in BOOLEAN)',
           NEW k, k \in {"send", "execute", "receive"}, NEW n, n \in Nat,
           call' = call + 1, kind' = k, num_pl2_pkt' = n, left' = (IF k = "send" THEN 0 ELSE n), mRspBuf' = <<>>,
           UNCHANGED <<mSocket, toServer, net, sock, peer, pkts, pushed, connects>>,
           (pc' = "send" /\ mNumBytesRsp' = mNumBytesRsp) \/ (pc' = "header" /\ mNumBytesRsp' = 0)
    PROVE  TypeOK'
<1>t. /\ mRspBuf \in Seq(Words) /\ net \in Seq(Words) /\ sock \in Seq(Words) /\ toServer \in Seq(0..call)
      /\ left \in 0..num_pl2_pkt /\ num_pl2_pkt \in Nat /\ mNumBytesRsp \in 0..MaxRsp /\ MaxRsp \in Nat
      /\ Len(mRspBuf) <= MaxRsp + 1 /\ Len(mRspBuf) \in Nat
      /\ call \in Nat /\ pkts \in Nat /\ pushed \in Nat /\ connects \in Nat
      /\ pc \in {"idle", "send", "header", "body"} /\ mSocket \in {"none", "bad", "up"}
  BY SizeAssumption, SMT DEF TypeOK
<1>h. /\ pc = "header" => Len(mRspBuf) = mNumBytesRsp
      /\ pc = "body" => Len(mRspBuf) = mNumBytesRsp + 1
      /\ pc = "send" => mRspBuf = <<>>
      /\ mSocket = "up" \/ (net = <<>> /\ sock = <<>> /\ toServer = <<>>)
  BY SMT DEF TypeOK
<1>1. call' = call + 1 /\ UNCHANGED <<toServer, net, sock, pkts>>
  OBVIOUS
<1>2. /\ \A s \in Seq(Words) : s \in Seq(Words')
      /\ \A s \in Seq(0..call) : s \in Seq((0..call)')
  BY <1>t, <1>1, WordsGrow, SMT
<1>3. net' \in Seq(Words') /\ sock' \in Seq(Words') /\ toServer' \in Seq((0..call)')
  BY <1>t, <1>1, <1>2
<1>4. <<>> \in Seq(Words')
  BY EmptyType
<1> QED BY <1>t, <1>h, <1>1, <1>3, <1>4, SMT DEF TypeOK

LEMMA TypeStep ==
    ASSUME TypeOK, Next
    PROVE  TypeOK'
<1>f. (ok \in BOOLEAN /\ established \in BOOLEAN /\ outOfStep \in BOOLEAN /\ short \in BOOLEAN)'
  BY FlagsStep
<1>t. /\ mRspBuf \in Seq(Words) /\ net \in Seq(Words) /\ sock \in Seq(Words) /\ toServer \in Seq(0..call)
      /\ left \in 0..num_pl2_pkt /\ num_pl2_pkt \in Nat /\ mNumBytesRsp \in 0..MaxRsp /\ MaxRsp \in Nat
      /\ Len(mRspBuf) <= MaxRsp + 1 /\ Len(mRspBuf) \in Nat
      /\ call \in Nat /\ pkts \in Nat /\ pushed \in Nat /\ connects \in Nat
      /\ pc \in {"idle", "send", "header", "body"} /\ mSocket \in {"none", "bad", "up"}
  BY SizeAssumption, SMT DEF TypeOK
<1>h. /\ pc = "header" => Len(mRspBuf) = mNumBytesRsp
      /\ pc = "body" => Len(mRspBuf) = mNumBytesRsp + 1
      /\ pc = "send" => mRspBuf = <<>>
      /\ mSocket = "up" \/ (net = <<>> /\ sock = <<>> /\ toServer = <<>>)
  BY SMT DEF TypeOK
<1> USE DEF history, Returns
<1>w. ASSUME UNCHANGED <<pkts, call>>
      PROVE  Words' = Words /\ (0..call)' = 0..call
  BY <1>w DEF Words
<1>e. <<>> \in Seq(Words) /\ <<>> \in Seq(0..call)
  BY EmptyType
<1>1. CASE server_connect
  BY <1>w, <1>1, <1>f, <1>t, <1>e, SMT DEF server_connect, TypeOK
<1>2. CASE Send
  <2>1. [k \in 1..num_pl2_pkt |-> call] \in Seq(0..call)
    BY <1>t, SMT
  <2>2. toServer \o [k \in 1..num_pl2_pkt |-> call] \in Seq(0..call)
    BY <1>t, <2>1, ConcatType
  <2>a. \/ toServer' = toServer
        \/ toServer' = toServer \o [k \in 1..num_pl2_pkt |-> call]
        \/ toServer' = <<>>
    BY <1>2, Zenon DEF Send, mSocketDisconnect
  <2>b. toServer' \in Seq(0..call)
    BY <2>a, <2>2, <1>e, <1>t
  <2>c. UNCHANGED <<mRspBuf, left, kind, num_pl2_pkt, call, pkts, pushed, connects>>
    BY <1>2, Zenon DEF Send, callVars
  <2>3. CASE mSocket = "up" /\ mSocket' = mSocket
    <3>1. pc' = "header" /\ mNumBytesRsp' = 0 /\ UNCHANGED <<net, sock, peer>> /\ mRspBuf = <<>>
      BY <1>h, <1>2, <2>3, SMT DEF Send, mSocketDisconnect
    <3> QED BY <1>f, <1>t, <1>h, <1>w, <1>e, <2>b, <2>c, <2>3, <3>1, SMT DEF TypeOK
  <2>4. CASE mSocketDisconnect /\ pc' = "idle"
    BY <1>f, <1>t, <1>w, <1>e, <1>2, <2>4, <2>c, SMT DEF mSocketDisconnect, TypeOK, Send
  <2> QED BY <1>2, <2>3, <2>4 DEF Send
<1>3. CASE RecvHeader
  <2> USE <1>3
  <2>0. /\ mSocket = "up" /\ sock # <<>> /\ pc = "header"
        /\ mRspBuf' = SubSeq(mRspBuf, 1, mNumBytesRsp) \o recv(1)
        /\ UNCHANGED <<mNumBytesRsp, left, callVars, pkts, pushed, connects>>
    BY DEF RecvHeader, Receiving, Nothing
  <2>1. SubSeq(mRspBuf, 1, mNumBytesRsp) \in Seq(Words) /\ Len(SubSeq(mRspBuf, 1, mNumBytesRsp)) = mNumBytesRsp
    BY <1>t, <1>h, <2>0, PrefixType
  <2>2. Len(recv(1)) = 1 /\ recv(1) \in Seq(Words)
    <3>1. Len(sock) >= 1 /\ Len(sock) \in Nat
      BY <1>t, <2>0, SMT
    <3>2. recv(1) \in Seq(Words) /\ Len(recv(1)) = IF 1 < Len(sock) THEN 1 ELSE Len(sock)
      BY <1>t, RecvType
    <3>3. Len(recv(1)) = 1
      <4> DEFINE m == Len(sock)
      <4>1. m \in Nat /\ m >= 1 /\ Len(recv(1)) = IF 1 < m THEN 1 ELSE m
        BY <3>1, <3>2
      <4> HIDE DEF m
      <4>2. (IF 1 < m THEN 1 ELSE m) = 1
        BY <4>1, SMT
      <4> QED BY <4>1, <4>2
    <3> QED BY <3>2, <3>3
  <2>3. mRspBuf' \in Seq(Words) /\ Len(mRspBuf') = mNumBytesRsp + 1
    <3>1. SubSeq(mRspBuf, 1, mNumBytesRsp) \o recv(1) \in Seq(Words)
          /\ Len(SubSeq(mRspBuf, 1, mNumBytesRsp) \o recv(1)) = mNumBytesRsp + 1
      BY <2>1, <2>2, ConcatType
    <3> QED BY <2>0, <3>1
  <2>4. \/ /\ pc' \in {"idle", "body"} /\ sock' = SubSeq(sock, 1 + 1, Len(sock))
           /\ UNCHANGED <<mSocket, toServer, net, peer>>
        \/ pc' = "idle" /\ mSocketDisconnect
    BY Zenon DEF RecvHeader, BadHeader, Unread
  <2>5. SubSeq(sock, 1 + 1, Len(sock)) \in Seq(Words)
    BY <1>t, RestType
  <2>6. net' \in Seq(Words) /\ sock' \in Seq(Words) /\ toServer' \in Seq(0..call) /\ mSocket' \in {"none", "up"}
        /\ peer' = peer /\ pc' \in {"idle", "body"} /\ (mSocket' = "up" \/ (net' = <<>> /\ sock' = <<>> /\ toServer' = <<>>))
    <3>1. CASE mSocketDisconnect /\ pc' = "idle"
      BY <1>t, <2>0, <3>1, <1>e, SMT DEF mSocketDisconnect
    <3>2. CASE pc' \in {"idle", "body"} /\ sock' = SubSeq(sock, 1 + 1, Len(sock)) /\ UNCHANGED <<mSocket, toServer, net, peer>>
      BY <1>t, <2>0, <3>2, <2>5, SMT
    <3> QED BY <2>4, <3>1, <3>2
  <2> QED BY <1>f, <1>t, <1>w, <2>0, <2>3, <2>6, SMT DEF callVars, TypeOK
<1>4. CASE HeaderTimeout
  <2>1. SubSeq(mRspBuf, 1, mNumBytesRsp) \in Seq(Words) /\ Len(SubSeq(mRspBuf, 1, mNumBytesRsp)) = mNumBytesRsp
    BY <1>t, <1>4, <1>h, PrefixType DEF HeaderTimeout, Receiving
  <2> QED BY <1>f, <1>t, <1>h, <1>w, <1>4, <2>1, SMT DEF TypeOK, HeaderTimeout, Receiving, callVars, envVars
<1>5. CASE HeaderClosed
  BY <1>f, <1>t, <1>h, <1>w, <1>5, <1>e, SMT DEF TypeOK, HeaderClosed, Receiving, mSocketDisconnect, callVars
<1>6. CASE RecvBody
  <2>1. PICK size \in PktSizes :
        /\ mRspBuf' = mRspBuf \o recv(size - 1) \o [k \in 1..(size - 1 - Len(recv(size - 1))) |-> Garbage]
        /\ mNumBytesRsp' = mNumBytesRsp + size
        /\ Unread(size - 1)
    BY <1>6 DEF RecvBody
  <2>2. /\ mSocket = "up" /\ pc = "body" /\ left > 0 /\ left' = left - 1 /\ pc' = "header"
        /\ UNCHANGED <<mSocket, toServer, net, peer, callVars, history>>
    BY <1>6 DEF RecvBody, Receiving
  <2>3. mRspBuf[mNumBytesRsp + 1] \in Words
    BY <1>t, <1>h, <2>2, SMT
  <2>4. SizesOf(mRspBuf[mNumBytesRsp + 1]) \subseteq Nat
    <3>1. mRspBuf[mNumBytesRsp + 1].len \in Nat
      BY <2>3 DEF Words
    <3> HIDE <3>1
    <3> QED BY <3>1, SizeAssumption DEF SizesOf
  <2>5. size \in Nat /\ ~BadSize(size)
    BY <2>4 DEF PktSizes
  <2>6. size >= 2 /\ size + mNumBytesRsp <= MaxRsp
    BY <1>t, <2>5, SMT DEF BadSize
  <2>7. size - 1 \in Nat
    BY <2>5, <2>6, SMT
  <2>8. recv(size - 1) \in Seq(Words) /\ Len(recv(size - 1)) \in 0..(size - 1)
    BY <1>t, <2>7, RecvType
  <2> DEFINE garbage == [k \in 1..(size - 1 - Len(recv(size - 1))) |-> Garbage]
  <2>9. Garbage \in Words
    BY <1>t, SMT DEF Garbage, Words
  <2>10. size - 1 - Len(recv(size - 1)) \in Nat
    BY <2>7, <2>8, SMT
  <2>11. garbage \in Seq(Words) /\ Len(garbage) = size - 1 - Len(recv(size - 1))
    <3> DEFINE m == size - 1 - Len(recv(size - 1))
    <3>1. m \in Nat
      BY <2>10
    <3> HIDE DEF m
    <3>2. [k \in 1..m |-> Garbage] \in Seq(Words) /\ Len([k \in 1..m |-> Garbage]) = m
      BY <2>9, <3>1, SMT
    <3> QED BY <3>2 DEF m
  <2> HIDE DEF garbage
  <2>12. mRspBuf' = mRspBuf \o recv(size - 1) \o garbage
    BY <2>1 DEF garbage
  <2>13. mRspBuf' \in Seq(Words) /\ Len(mRspBuf') = mNumBytesRsp + size
    <3>1. mRspBuf \o recv(size - 1) \in Seq(Words) /\ Len(mRspBuf \o recv(size - 1)) = Len(mRspBuf) + Len(recv(size - 1))
      BY <1>t, <2>8, ConcatType
    <3>2. Len(mRspBuf) = mNumBytesRsp + 1
      BY <1>h, <2>2
    <3>a. (mRspBuf \o recv(size - 1)) \o garbage \in Seq(Words)
          /\ Len((mRspBuf \o recv(size - 1)) \o garbage) = Len(mRspBuf \o recv(size - 1)) + Len(garbage)
      BY <2>11, <3>1, ConcatType
    <3>3. mRspBuf' \in Seq(Words) /\ Len(mRspBuf') = Len(mRspBuf) + Len(recv(size - 1)) + Len(garbage)
      BY <2>12, <3>1, <3>a
    <3> QED BY <1>t, <2>5, <2>8, <2>11, <3>2, <3>3, SMT
  <2>14. sock' \in Seq(Words)
    BY <1>t, <2>1, <2>7, RestType DEF Unread
  <2>15. Words' = Words /\ (0..call)' = 0..call
    BY <1>w, <2>2 DEF callVars
  <2>16. mNumBytesRsp' \in 0..MaxRsp /\ Len(mRspBuf') <= MaxRsp + 1 /\ left' \in 0..num_pl2_pkt
    <3>1. mNumBytesRsp' \in Nat /\ mNumBytesRsp' <= MaxRsp
      BY <1>t, <2>1, <2>5, <2>6, SMT
    <3>2. Len(mRspBuf') = mNumBytesRsp'
      BY <2>1, <2>13
    <3>3. left' \in 0..num_pl2_pkt
      BY <1>t, <2>2, SMT
    <3> QED BY <1>t, <3>1, <3>2, <3>3, SMT
  <2>17. UNCHANGED <<mSocket, toServer, net, peer, kind, num_pl2_pkt, call, pkts, pushed, connects>>
    BY <2>2 DEF callVars
  <2>18. mRspBuf' \in Seq(Words') /\ sock' \in Seq(Words') /\ Len(mRspBuf') = mNumBytesRsp'
    BY <2>1, <2>13, <2>14, <2>15
  <2>19. /\ pc' \in {"header", "body"} => Len(mRspBuf') = mNumBytesRsp' + (IF pc' = "body" THEN 1 ELSE 0)
         /\ pc' = "send" => mRspBuf' = <<>>
         /\ mSocket' = "up"
    <3>1. (IF pc' = "body" THEN 1 ELSE 0) = 0
      BY <2>2, SMT
    <3> DEFINE m == mNumBytesRsp'
    <3>a. m \in Nat
      BY <1>t, <2>16, SMT
    <3> HIDE DEF m
    <3>b. m + 0 = m
      BY <3>a, SMT
    <3>2. mNumBytesRsp' + 0 = mNumBytesRsp'
      BY <3>b DEF m
    <3>3. pc' # "send" /\ mSocket' = "up"
      BY <2>2, SMT
    <3> QED BY <2>18, <3>1, <3>2, <3>3, Zenon
  <2>20. net' \in Seq(Words') /\ toServer' \in Seq((0..call)') /\ left' \in 0..num_pl2_pkt'
    BY <1>t, <2>15, <2>16, <2>17
  <2>21. kind' \in {"connect", "send", "receive", "execute"} /\ peer' \in {"open", "closed"}
    BY <2>17 DEF TypeOK
  <2> QED BY <1>f, <1>t, <2>2, <2>16, <2>17, <2>18, <2>19, <2>20, <2>21, Zenon DEF TypeOK
<1>7. CASE BodyLost
  BY <1>f, <1>t, <1>h, <1>w, <1>7, <1>e, SMT DEF TypeOK, BodyLost, Receiving, mSocketDisconnect, callVars
<1>8. CASE Done
  BY <1>f, <1>t, <1>h, <1>w, <1>8, SMT DEF TypeOK, Done, callVars, envVars
<1>9. CASE Arrive
  <2>a. /\ net # <<>> /\ sock' = Append(sock, Head(net)) /\ net' = Tail(net)
        /\ UNCHANGED <<mSocket, mRspBuf, mNumBytesRsp, pc, left, ok, callVars, toServer, peer, history>>
    BY <1>9 DEF Arrive
  <2>2. Append(sock, Head(net)) \in Seq(Words) /\ Tail(net) \in Seq(Words)
    BY <1>t, <2>a, SMT
  <2>3. sock' \in Seq(Words) /\ net' \in Seq(Words) /\ mSocket = "up"
    BY <1>t, <1>h, <2>a, <2>2
  <2> QED BY <1>f, <1>t, <1>h, <1>w, <2>a, <2>3, SMT DEF callVars, TypeOK
<1>10. CASE Ignore
  BY <1>f, <1>t, <1>h, <1>w, <1>10, SMT DEF TypeOK, Ignore, callVars
<1>11. CASE ServerCloses
  BY <1>f, <1>t, <1>h, <1>w, <1>11, SMT DEF TypeOK, ServerCloses, callVars
<1>13. ASSUME NEW size \in RspSizes, Answer(size) \/ Push(size)
       PROVE  TypeOK'
  <2>1. PICK rq \in 0..call : Serves(size, rq)
    BY <1>t, <1>13, SMT DEF Answer, Push
  <2>2. /\ pkts' = pkts + 1 /\ net' = net \o Packet(size, rq)
        /\ mSocket = "up" /\ UNCHANGED <<mSocket, mRspBuf, mNumBytesRsp, pc, left, callVars, sock, peer, connects>>
    BY <2>1 DEF Serves
  <2>3. /\ \A s \in Seq(Words) : s \in Seq(Words')
        /\ \A s \in Seq(0..call) : s \in Seq((0..call)')
    BY <1>t, <2>2, WordsGrow, SMT DEF callVars
  <2>4. Packet(size, rq) \in Seq(Words')
    <3>1. size \in Nat
      BY SizeAssumption
    <3> QED BY <2>2, <3>1, PacketType DEF callVars
  <2>5. net \in Seq(Words') /\ sock' \in Seq(Words') /\ mRspBuf' \in Seq(Words')
    BY <1>t, <2>2, <2>3
  <2>6. net' \in Seq(Words')
    BY <2>2, <2>4, <2>5, ConcatType
  <2>7. toServer' \in Seq((0..call)') /\ pushed' \in Nat
    <3>1. CASE Answer(size)
      <4>1. Tail(toServer) \in Seq(0..call)
        BY <1>t, <3>1, SMT DEF Answer
      <4> QED BY <1>t, <2>3, <3>1, <4>1 DEF Answer
    <3>2. CASE Push(size)
      BY <1>t, <2>3, <3>2, SMT DEF Push
    <3> QED BY <1>13, <3>1, <3>2
  <2> QED BY <1>f, <1>t, <1>h, <2>2, <2>5, <2>6, <2>7, SMT DEF callVars, TypeOK
<1>14. CASE \E n \in 1..MaxPkts : send(n) \/ execute(n)
  <2>1. PICK n \in 1..MaxPkts : send(n) \/ execute(n)
    BY <1>14
  <2>2. n \in Nat
    BY SizeAssumption, SMT
  <2>3. CASE send(n)
    <3>1. /\ call' = call + 1 /\ kind' = "send" /\ num_pl2_pkt' = n /\ left' = 0 /\ mRspBuf' = <<>>
          /\ UNCHANGED <<mSocket, toServer, net, sock, peer, pkts, pushed, connects>>
          /\ pc' = "send" /\ mNumBytesRsp' = mNumBytesRsp
      BY <2>3 DEF send, Begin, envVars
    <3> QED BY <1>f, <2>2, <3>1, BeginType
  <2>4. CASE execute(n)
    <3>1. /\ call' = call + 1 /\ kind' = "execute" /\ num_pl2_pkt' = n /\ left' = n /\ mRspBuf' = <<>>
          /\ UNCHANGED <<mSocket, toServer, net, sock, peer, pkts, pushed, connects>>
          /\ pc' = "send" /\ mNumBytesRsp' = mNumBytesRsp
      BY <2>4 DEF execute, Begin, envVars
    <3> QED BY <1>f, <2>2, <3>1, BeginType
  <2> QED BY <2>1, <2>3, <2>4
<1>15. CASE receive
  <2>1. /\ call' = call + 1 /\ kind' = "receive" /\ num_pl2_pkt' = 1 /\ left' = 1 /\ mRspBuf' = <<>>
        /\ UNCHANGED <<mSocket, toServer, net, sock, peer, pkts, pushed, connects>>
        /\ pc' = "header" /\ mNumBytesRsp' = 0
    BY <1>15 DEF receive, Begin, envVars
  <2> QED BY <1>f, <2>1, BeginType
<1>16. CASE \E size \in RspSizes : Answer(size) \/ Push(size)
  BY <1>13, <1>16
<1> QED BY <1>1, <1>2, <1>3, <1>4, <1>5, <1>6, <1>7, <1>8, <1>9, <1>10, <1>11, <1>14, <1>15, <1>16,
           Zenon DEF Next, ReceiveStep

\* The types of all reachable states, also after a short read.
THEOREM Typing == Spec => []TypeOK
<1>1. Init => TypeOK
  <2>1. <<>> \in Seq(Words) /\ <<>> \in Seq(0..call) /\ Len(<<>>) = 0
    BY EmptyType
  <2> SUFFICES ASSUME Init PROVE TypeOK
    OBVIOUS
  <2>2. ok \in BOOLEAN /\ established \in BOOLEAN /\ outOfStep \in BOOLEAN /\ short \in BOOLEAN
    BY Zenon DEF Init
  <2> QED BY SizeAssumption, <2>1, <2>2, SMT DEF Init, TypeOK
<1>2. TypeOK /\ [Next]_vars => TypeOK'
  <2> SUFFICES ASSUME TypeOK, [Next]_vars PROVE TypeOK'
    OBVIOUS
  <2>1. CASE UNCHANGED vars
    BY <2>1 DEF TypeOK, Words, vars, callVars, envVars, history
  <2> QED BY <2>1, TypeStep
<1> QED BY <1>1, <1>2, PTL DEF Spec

--------------------------------------------------------------------------------
(* The stream of words.                                                        *)

\* The words of the packet of the k-th word of s, as far as s has them.
InPacket(s, k, j) == j \in 1..Len(s) /\ j >= k - s[k].i /\ j < k - s[k].i + s[k].len

\* A stretch of a stream of packets, perhaps from the middle of one on, but to the end of one.
Framed(s) == \A k \in 1..Len(s) :
    /\ s[k].i \in Nat /\ s[k].len \in Nat /\ s[k].len >= 2 /\ s[k].i < s[k].len
    /\ k - s[k].i + s[k].len - 1 <= Len(s)
    /\ \A j \in 1..Len(s) : InPacket(s, k, j) =>
            s[j].pkt = s[k].pkt /\ s[j].i = s[k].i + (j - k) /\ s[j].len = s[k].len

LEMMA FramedRest ==
    ASSUME NEW S, NEW s \in Seq(S), Framed(s), NEW n \in 0..Len(s)
    PROVE  Framed(SubSeq(s, n + 1, Len(s)))
<1> DEFINE r == SubSeq(s, n + 1, Len(s))
<1>1. Len(r) = Len(s) - n /\ Len(r) \in Nat /\ Len(s) \in Nat /\ \A k \in 1..Len(r) : r[k] = s[k + n] /\ k + n \in 1..Len(s)
  BY SMT
<1> HIDE DEF r
<1> SUFFICES ASSUME NEW k \in 1..Len(r)
             PROVE  /\ r[k].i \in Nat /\ r[k].len \in Nat /\ r[k].len >= 2 /\ r[k].i < r[k].len
                    /\ k - r[k].i + r[k].len - 1 <= Len(r)
                    /\ \A j \in 1..Len(r) : InPacket(r, k, j) =>
                            r[j].pkt = r[k].pkt /\ r[j].i = r[k].i + (j - k) /\ r[j].len = r[k].len
  BY DEF Framed, r
<1>2. r[k] = s[k + n] /\ k + n \in 1..Len(s)
  BY <1>1
<1>3. /\ s[k + n].i \in Nat /\ s[k + n].len \in Nat /\ s[k + n].len >= 2 /\ s[k + n].i < s[k + n].len
      /\ (k + n) - s[k + n].i + s[k + n].len - 1 <= Len(s)
  BY <1>2 DEF Framed
<1>4. ASSUME NEW j \in 1..Len(r), InPacket(r, k, j)
      PROVE  r[j].pkt = r[k].pkt /\ r[j].i = r[k].i + (j - k) /\ r[j].len = r[k].len
  <2>1. r[j] = s[j + n] /\ j + n \in 1..Len(s)
    BY <1>1
  <2>2. InPacket(s, k + n, j + n)
    <3> DEFINE a == s[k + n].i
               b == s[k + n].len
    <3>1. j >= k - a /\ j < k - a + b
      BY <1>2, <1>4 DEF InPacket
    <3>2. a \in Nat /\ b \in Nat /\ n \in Nat
      BY <1>3, <1>1, SMT
    <3> HIDE DEF a, b
    <3>3. j + n >= (k + n) - a /\ j + n < (k + n) - a + b
      BY <3>1, <3>2, SMT
    <3> QED BY <2>1, <3>3 DEF InPacket, a, b
  <2>3. s[j + n].pkt = s[k + n].pkt /\ s[j + n].i = s[k + n].i + ((j + n) - (k + n)) /\ s[j + n].len = s[k + n].len
    BY <1>2, <2>1, <2>2 DEF Framed
  <2>4. (j + n) - (k + n) = j - k
    BY <1>1, SMT
  <2> QED BY <1>2, <2>1, <2>3, <2>4
<1>5. k - r[k].i + r[k].len - 1 <= Len(r)
  <2> DEFINE a == s[k + n].i
             b == s[k + n].len
             x == Len(s)
             y == Len(r)
  <2>1. a \in Nat /\ b \in Nat /\ (k + n) - a + b - 1 <= x
    BY <1>3
  <2>2. x \in Nat /\ n \in Nat /\ y = x - n /\ k \in Nat
    BY <1>1
  <2> HIDE DEF a, b, x, y
  <2>3. k - a + b - 1 <= y
    BY <2>1, <2>2, SMT
  <2> QED BY <1>2, <2>3 DEF a, b, y
<1> QED BY <1>2, <1>3, <1>4, <1>5

LEMMA FramedAppend ==
    ASSUME NEW S, NEW s \in Seq(S), NEW p \in Seq(S), Framed(s), Len(p) >= 2,
           \A k \in 1..Len(p) : p[k].pkt = p[1].pkt /\ p[k].i = k - 1 /\ p[k].len = Len(p)
    PROVE  Framed(s \o p)
<1> DEFINE r == s \o p
           m == Len(s)
<1>1. m \in Nat /\ Len(p) \in Nat /\ Len(r) = m + Len(p) /\ (\A k \in 1..m : r[k] = s[k]) /\ (\A k \in (m + 1)..Len(r) : r[k] = p[k - m])
  BY SMT
<1> HIDE DEF r, m
<1> SUFFICES ASSUME NEW k \in 1..Len(r)
             PROVE  /\ r[k].i \in Nat /\ r[k].len \in Nat /\ r[k].len >= 2 /\ r[k].i < r[k].len
                    /\ k - r[k].i + r[k].len - 1 <= Len(r)
                    /\ \A j \in 1..Len(r) : InPacket(r, k, j) =>
                            r[j].pkt = r[k].pkt /\ r[j].i = r[k].i + (j - k) /\ r[j].len = r[k].len
  BY DEF Framed, r
<1>2. CASE k \in 1..m
  <2>1. /\ s[k].i \in Nat /\ s[k].len \in Nat /\ s[k].len >= 2 /\ s[k].i < s[k].len
        /\ k - s[k].i + s[k].len - 1 <= m
        /\ \A j \in 1..m : InPacket(s, k, j) =>
                            s[j].pkt = s[k].pkt /\ s[j].i = s[k].i + (j - k) /\ s[j].len = s[k].len
    BY <1>2 DEF Framed, m
  <2>2. r[k] = s[k]
    BY <1>1, <1>2
  <2>3. ASSUME NEW j \in 1..Len(r), InPacket(r, k, j)
        PROVE  j \in 1..m /\ InPacket(s, k, j) /\ r[j] = s[j]
    <3>1. j \in 1..m
      <4> DEFINE a == s[k].i
                 b == s[k].len
      <4>1. j < k - a + b /\ k - a + b - 1 <= m /\ a \in Nat /\ b \in Nat
        BY <2>1, <2>2, <2>3 DEF InPacket
      <4> HIDE DEF a, b
      <4> QED BY <1>1, <1>2, <4>1, SMT
    <3> QED BY <1>1, <2>1, <2>2, <2>3, <3>1, SMT DEF InPacket, m
  <2>4. k - s[k].i + s[k].len - 1 <= Len(r)
    BY <1>1, <1>2, <2>1, SMT
  <2> QED BY <2>1, <2>2, <2>3, <2>4
<1>3. CASE k \in (m + 1)..Len(r)
  <2>1. r[k] = p[k - m] /\ k - m \in 1..Len(p)
    BY <1>1, <1>3, SMT
  <2>2. r[k].pkt = p[1].pkt /\ r[k].i = (k - m) - 1 /\ r[k].len = Len(p)
    BY <2>1
  <2>3. ASSUME NEW j \in 1..Len(r), InPacket(r, k, j)
        PROVE  r[j].pkt = r[k].pkt /\ r[j].i = r[k].i + (j - k) /\ r[j].len = r[k].len
    <3>1. j \in (m + 1)..Len(r)
      BY <1>1, <1>3, <2>2, <2>3, SMT DEF InPacket
    <3>2. r[j] = p[j - m] /\ j - m \in 1..Len(p)
      BY <1>1, <3>1, SMT
    <3>3. r[j].pkt = p[1].pkt /\ r[j].i = (j - m) - 1 /\ r[j].len = Len(p)
      BY <3>2
    <3>4. (j - m) - 1 = ((k - m) - 1) + (j - k)
      BY <1>1, SMT
    <3> QED BY <2>2, <3>3, <3>4
  <2>4. r[k].i \in Nat /\ r[k].len \in Nat /\ r[k].len >= 2 /\ r[k].i < r[k].len /\ k - r[k].i + r[k].len - 1 <= Len(r)
    BY <1>1, <1>3, <2>2, SMT
  <2> QED BY <2>3, <2>4
<1>4. k \in 1..m \/ k \in (m + 1)..Len(r)
  BY <1>1, SMT
<1> QED BY <1>2, <1>3, <1>4

LEMMA AfterPacket ==
    ASSUME NEW S, NEW s \in Seq(S), Framed(s), NEW k, k \in 1..Len(s), k - 1 \in 1..Len(s),
           s[k - 1].i = s[k - 1].len - 1
    PROVE  s[k].i = 0
<1>1. s[k].i \in Nat /\ s[k].len \in Nat /\ s[k].i < s[k].len
  BY DEF Framed
<1>2. SUFFICES ASSUME s[k].i # 0 PROVE FALSE
  OBVIOUS
<1>3. InPacket(s, k, k - 1)
  BY <1>1, <1>2, SMT DEF InPacket
<1>4. s[k - 1].i = s[k].i + ((k - 1) - k) /\ s[k - 1].len = s[k].len
  BY <1>3 DEF Framed
<1>5. k \in Int
  BY SMT
<1> QED BY <1>1, <1>4, <1>5, SMT

LEMMA FramedPacket ==
    ASSUME NEW S, NEW s \in Seq(S), Framed(s), s # <<>>, s[1].i = 0
    PROVE  /\ s[1].len \in 2..Len(s)
           /\ \A j \in 1..s[1].len : s[j].pkt = s[1].pkt /\ s[j].i = j - 1 /\ s[j].len = s[1].len
           /\ s[1].len < Len(s) => s[s[1].len + 1].i = 0
<1> DEFINE n == s[1].len
<1>0. Len(s) \in Nat /\ 1 \in 1..Len(s)
  BY SMT
<1>1. n \in Nat /\ n >= 2 /\ n <= Len(s)
  BY <1>0, SMT DEF Framed
<1> HIDE DEF n
<1>2. ASSUME NEW j \in 1..n PROVE s[j].pkt = s[1].pkt /\ s[j].i = j - 1 /\ s[j].len = n
  <2>1. j \in 1..Len(s) /\ InPacket(s, 1, j)
    BY <1>0, <1>1, SMT DEF InPacket, n
  <2>2. s[j].pkt = s[1].pkt /\ s[j].i = s[1].i + (j - 1) /\ s[j].len = s[1].len
    BY <1>0, <2>1 DEF Framed
  <2> QED BY <2>2, SMT DEF n
<1>3. ASSUME n < Len(s) PROVE s[n + 1].i = 0
  <2> DEFINE k == n + 1
  <2>1. k \in 1..Len(s) /\ k - 1 \in 1..n /\ k - 1 = n /\ k - 1 \in 1..Len(s)
    BY <1>0, <1>1, <1>3, SMT
  <2>2. s[k - 1].i = n - 1 /\ s[k - 1].len = n
    BY <1>2, <2>1
  <2> HIDE DEF k
  <2>3. s[k].i \in Nat /\ s[k].len \in Nat /\ s[k].i < s[k].len
    BY <2>1 DEF Framed
  <2>4. SUFFICES ASSUME s[k].i # 0 PROVE FALSE
    BY DEF k
  <2>5. InPacket(s, k, k - 1)
    BY <2>1, <2>3, <2>4, SMT DEF InPacket
  <2>6. s[k - 1].i = s[k].i + ((k - 1) - k) /\ s[k - 1].len = s[k].len
    BY <2>1, <2>5 DEF Framed
  <2> QED BY <1>0, <1>1, <2>1, <2>2, <2>3, <2>6, SMT
<1> QED BY <1>1, <1>2, <1>3, SMT DEF n

--------------------------------------------------------------------------------
(* The stream of a connection.                                                *)

\* What is not received yet is whole packets from a header on, until a read was short;
\* a call is in the middle of a packet only on a connection.
FrameInv ==
    /\ short \/ (Framed(Unreceived) /\ (Unreceived # <<>> => Unreceived[1].i = 0))
    /\ pc = "body" => mSocket = "up"
    /\ kind \in {"send", "receive"} => established

\* The header that was read and not yet followed by the rest.
HeaderWord == IF pc = "body" THEN <<mRspBuf[mNumBytesRsp + 1]>> ELSE <<>>

LEMMA StreamType ==
    ASSUME TypeOK
    PROVE  /\ HeaderWord \in Seq(Words) /\ sock \in Seq(Words) /\ net \in Seq(Words) /\ mRspBuf \in Seq(Words)
           /\ HeaderWord \o sock \in Seq(Words) /\ Unreceived \in Seq(Words)
           /\ Unreceived = (HeaderWord \o sock) \o net
           /\ Len(mRspBuf) \in Nat /\ mNumBytesRsp \in Nat
           /\ pc = "header" => Len(mRspBuf) = mNumBytesRsp
           /\ pc = "body" => Len(mRspBuf) = mNumBytesRsp + 1
<1>1. sock \in Seq(Words) /\ net \in Seq(Words) /\ mRspBuf \in Seq(Words) /\ mNumBytesRsp \in Nat /\ Len(mRspBuf) \in Nat
      /\ (pc = "header" => Len(mRspBuf) = mNumBytesRsp)
      /\ (pc = "body" => Len(mRspBuf) = mNumBytesRsp + 1)
  BY SizeAssumption, SMT DEF TypeOK
<1>2. HeaderWord \in Seq(Words)
  <2>1. CASE pc = "body"
    <3>1. mRspBuf[mNumBytesRsp + 1] \in Words
      BY <1>1, <2>1, SMT
    <3> QED BY <2>1, <3>1, SMT DEF HeaderWord
  <2>2. CASE pc # "body"
    BY <2>2, EmptyType DEF HeaderWord
  <2> QED BY <2>1, <2>2
<1>3. HeaderWord \o sock \in Seq(Words)
  BY <1>1, <1>2, ConcatType
<1>4. (HeaderWord \o sock) \o net \in Seq(Words)
  BY <1>1, <1>3, ConcatType
<1> QED BY <1>1, <1>2, <1>3, <1>4, Zenon DEF Unreceived, HeaderWord

\* Reading a header takes nothing out of what is not received; a header at the
\* front says how long its packet is.
LEMMA RecvHeaderStream ==
    ASSUME TypeOK, FrameInv, RecvHeader
    PROVE  /\ \/ /\ pc' = "body" /\ Unreceived' = Unreceived
                 /\ UNCHANGED <<mSocket, ok, toServer, net, peer, outOfStep>>
              \/ BadHeader /\ UNCHANGED outOfStep
              \/ /\ short /\ pc' = "idle" /\ ok' = FALSE /\ UNCHANGED mSocket
                 /\ Unreceived' = SubSeq(Unreceived, 1 + 1, Len(Unreceived))
           /\ mSocket = "up" /\ left > 0
           /\ mRspBuf' = mRspBuf \o <<Unreceived[1]>> /\ Unreceived # <<>>
<1>1. /\ pc = "header" /\ left > 0 /\ mSocket = "up" /\ sock # <<>>
      /\ mRspBuf' = SubSeq(mRspBuf, 1, mNumBytesRsp) \o recv(1)
      /\ mNumBytesRsp' = mNumBytesRsp
  BY DEF RecvHeader, Receiving, Nothing
<1>2. /\ sock \in Seq(Words) /\ net \in Seq(Words) /\ mRspBuf \in Seq(Words)
      /\ Len(mRspBuf) = mNumBytesRsp /\ mNumBytesRsp \in Nat
      /\ Unreceived \in Seq(Words) /\ Unreceived = (HeaderWord \o sock) \o net
  BY <1>1, StreamType
<1>3. Unreceived = sock \o net
  <2>1. HeaderWord = <<>>
    BY <1>1, SMT DEF HeaderWord
  <2> QED BY <1>2, <2>1, ConcatEmpty
<1>4. <<Head(sock)>> \o SubSeq(sock, 2, Len(sock)) = sock /\ Head(sock) = sock[1] /\ sock[1] \in Words
  BY <1>1, <1>2, HeadRest
<1>5. Len(sock) \in Nat /\ Len(sock) >= 1
  BY <1>1, <1>2, SMT
<1>6. Unreceived # <<>> /\ Unreceived[1] = sock[1]
  <2>1. 1 \in 1..Len(sock)
    BY <1>5, SMT
  <2>2. Unreceived[1] = sock[1]
    BY <1>2, <1>3, <2>1, ConcatAt
  <2>3. Len(Unreceived) = Len(sock) + Len(net) /\ Len(net) \in Nat
    BY <1>2, <1>3, ConcatType, SMT
  <2>4. Len(Unreceived) # 0
    BY <1>5, <2>3, SMT
  <2> QED BY <2>2, <2>4, EmptyType
<1>7. ASSUME ~short PROVE sock[1].i = 0 /\ sock[1].len \in Nat /\ sock[1].len >= 2
  <2>1. Unreceived[1].i = 0 /\ Unreceived[1].len \in 2..Len(Unreceived)
    BY <1>2, <1>6, <1>7, FramedPacket DEF FrameInv
  <2>2. Len(Unreceived) \in Nat
    BY <1>2, SMT
  <2>3. Unreceived[1].len \in Nat /\ Unreceived[1].len >= 2
    BY <2>1, <2>2, SMT
  <2> QED BY <1>6, <2>1, <2>3
<1>8. recv(1) = <<sock[1]>>
  <2>1. recv(1) = SubSeq(sock, 1, 1)
    <3>1. (IF 1 < Len(sock) THEN 1 ELSE Len(sock)) = 1
      <4> DEFINE m == Len(sock)
      <4>1. m \in Nat /\ m >= 1
        BY <1>5
      <4> HIDE DEF m
      <4>2. (IF 1 < m THEN 1 ELSE m) = 1
        BY <4>1, SMT
      <4> QED BY <4>2 DEF m
    <3> QED BY <3>1 DEF recv
  <2>2. SubSeq(sock, 1, 1) \in Seq(Words) /\ Len(SubSeq(sock, 1, 1)) = 1 /\ SubSeq(sock, 1, 1)[1] = sock[1]
    BY <1>2, <1>5, SMT
  <2>3. <<sock[1]>> \in Seq(Words) /\ Len(<<sock[1]>>) = 1 /\ <<sock[1]>>[1] = sock[1]
    BY <1>4, SMT
  <2>4. \A k \in 1..1 : k = 1
    BY SMT
  <2>5. SubSeq(sock, 1, 1) = <<sock[1]>>
    BY <2>2, <2>3, <2>4, SeqEq, Zenon
  <2> QED BY <2>1, <2>5
<1>9. mRspBuf' = mRspBuf \o <<sock[1]>>
  <2>1. SubSeq(mRspBuf, 1, mNumBytesRsp) = mRspBuf
    BY <1>2, SubSeqAll
  <2> QED BY <1>1, <1>8, <2>1
<1>10. PICK size \in SizesOf(Head(sock)) :
        \/ size = 0 /\ pc' = "idle" /\ ok' = FALSE /\ Unread(1) /\ UNCHANGED <<mSocket, net>>
        \/ BadHeader /\ UNCHANGED outOfStep
        \/ pc' = "body" /\ Unread(1) /\ UNCHANGED <<mSocket, ok, toServer, net, peer, outOfStep>>
  BY Zenon DEF RecvHeader, Returns
<1>11. ASSUME ~short PROVE size # 0
  BY <1>4, <1>7, <1>11, SMT DEF SizesOf
<1>12. ASSUME pc' = "body", Unread(1), UNCHANGED net PROVE Unreceived' = Unreceived
  <2>1. mRspBuf'[mNumBytesRsp' + 1] = sock[1]
    <3>1. <<sock[1]>> \in Seq(Words) /\ Len(<<sock[1]>>) = 1 /\ <<sock[1]>>[1] = sock[1] /\ 1 \in 1..1
      BY <1>4, SMT
    <3>2. (mRspBuf \o <<sock[1]>>)[Len(mRspBuf) + 1] = sock[1]
      <4> DEFINE w == <<sock[1]>>
      <4>1. w \in Seq(Words) /\ 1 \in 1..Len(w) /\ w[1] = sock[1]
        BY <3>1
      <4> HIDE DEF w
      <4>2. (mRspBuf \o w)[Len(mRspBuf) + 1] = w[1]
        BY <1>2, <4>1, ConcatAt
      <4> QED BY <4>1, <4>2 DEF w
    <3> QED BY <1>1, <1>2, <1>9, <3>2
  <2>2. Unreceived' = (<<sock[1]>> \o SubSeq(sock, 1 + 1, Len(sock))) \o net
    BY <1>12, <2>1, Zenon DEF Unreceived, Unread
  <2>3. 1 + 1 = 2
    BY SMT
  <2> QED BY <1>3, <1>4, <2>2, <2>3
<1>13. ASSUME pc' = "idle", Unread(1), UNCHANGED net
       PROVE  Unreceived' = SubSeq(Unreceived, 1 + 1, Len(Unreceived))
  <2>1. Unreceived' = (<<>> \o SubSeq(sock, 1 + 1, Len(sock))) \o net
    BY <1>13, Zenon DEF Unreceived, Unread
  <2>2. SubSeq(sock, 1 + 1, Len(sock)) \in Seq(Words) /\ 1 \in 0..Len(sock)
    BY <1>2, <1>5, SMT
  <2>3. <<>> \o SubSeq(sock, 1 + 1, Len(sock)) = SubSeq(sock, 1 + 1, Len(sock))
    BY <2>2, ConcatEmpty
  <2>4. sock \in Seq(Words) /\ net \in Seq(Words)
    BY <1>2
  <2>5. SubSeq(sock \o net, 1 + 1, Len(sock \o net)) = SubSeq(sock, 1 + 1, Len(sock)) \o net
    BY <2>2, <2>4, PrefixOfConcat
  <2> QED BY <1>3, <2>1, <2>3, <2>5
<1> QED BY <1>1, <1>6, <1>9, <1>10, <1>11, <1>12, <1>13, Zenon

\* When the rest of a packet was there, what is taken out of what is not received is
\* one packet, and it is written to the buffer.
LEMMA RecvBodyStream ==
    ASSUME TypeOK, FrameInv, RecvBody, ~short'
    PROVE  LET n == Unreceived[1].len
           IN  /\ Unreceived # <<>> /\ n \in 2..Len(Unreceived)
               /\ Unreceived' = SubSeq(Unreceived, n + 1, Len(Unreceived))
               /\ mRspBuf' = SubSeq(mRspBuf, 1, mNumBytesRsp) \o SubSeq(Unreceived, 1, n)
               /\ mNumBytesRsp' = mNumBytesRsp + n
<1> DEFINE h == mRspBuf[mNumBytesRsp + 1]
           n == Unreceived[1].len
<1>1. PICK size \in PktSizes :
        /\ mRspBuf' = mRspBuf \o recv(size - 1) \o [k \in 1..(size - 1 - Len(recv(size - 1))) |-> Garbage]
        /\ mNumBytesRsp' = mNumBytesRsp + size
        /\ Unread(size - 1)
        /\ short' = (short \/ Len(recv(size - 1)) < size - 1)
  BY DEF RecvBody
<1>s. ~short /\ ~(Len(recv(size - 1)) < size - 1)
  BY <1>1
<1>2. /\ mSocket = "up" /\ pc = "body" /\ pc' = "header" /\ UNCHANGED net /\ sock # <<>>
  BY DEF RecvBody, Receiving, Nothing
<1>3. /\ sock \in Seq(Words) /\ net \in Seq(Words) /\ mRspBuf \in Seq(Words)
      /\ Len(mRspBuf) = mNumBytesRsp + 1 /\ mNumBytesRsp \in Nat
      /\ HeaderWord \in Seq(Words) /\ HeaderWord \o sock \in Seq(Words)
      /\ Unreceived \in Seq(Words) /\ Unreceived = (HeaderWord \o sock) \o net
  BY <1>2, StreamType
<1>4. h \in Words /\ HeaderWord = <<h>>
  <2>1. h \in Words
    BY <1>3, SMT
  <2> QED BY <1>2, <2>1 DEF HeaderWord
<1> HIDE DEF h
<1>5. Len(sock) \in Nat /\ Len(net) \in Nat /\ Len(sock) >= 1
  BY <1>2, <1>3, SMT
<1> DEFINE front == <<h>> \o sock
<1>6. /\ front \in Seq(Words) /\ Len(front) = 1 + Len(sock) /\ front[1] = h
      /\ \A k \in 1..Len(sock) : front[k + 1] = sock[k]
      /\ \A k \in 0..Len(sock) :
            /\ SubSeq(front, 1, k + 1) = <<h>> \o SubSeq(sock, 1, k)
            /\ SubSeq(front, (k + 1) + 1, Len(front)) = SubSeq(sock, k + 1, Len(sock))
  <2>1. 0 \in 0..Len(sock)
    BY <1>5, SMT
  <2>2. ASSUME NEW k \in 0..Len(sock)
        PROVE  /\ SubSeq(front, 1, k + 1) = <<h>> \o SubSeq(sock, 1, k)
               /\ SubSeq(front, (k + 1) + 1, Len(front)) = SubSeq(sock, k + 1, Len(sock))
    <3>1. h \in Words /\ sock \in Seq(Words) /\ front = <<h>> \o sock
      BY <1>3, <1>4
    <3> HIDE DEF front
    <3> QED BY <3>1, PrefixOfCons
  <2>3. /\ front \in Seq(Words) /\ Len(front) = 1 + Len(sock) /\ front[1] = h
        /\ \A k \in 1..Len(sock) : front[k + 1] = sock[k]
    <3> HIDE DEF front
    <3>1. front = <<h>> \o sock
      BY DEF front
    <3> QED BY <1>3, <1>4, <2>1, <3>1, PrefixOfCons
  <2> QED BY <2>2, <2>3, Zenon
<1>7. front \in Seq(Words) /\ Len(front) = 1 + Len(sock) /\ Unreceived = front \o net
  BY <1>3, <1>4, <1>6
<1> HIDE DEF front
<1>8. /\ Len(Unreceived) = 1 + Len(sock) + Len(net)
      /\ Unreceived[1] = h
      /\ \A k \in 1..Len(net) : Unreceived[(1 + Len(sock)) + k] = net[k]
  <2>1. Len(Unreceived) = Len(front) + Len(net)
    BY <1>3, <1>7, ConcatType
  <2>2. 1 \in 1..Len(front)
    BY <1>5, <1>7, SMT
  <2>3. Unreceived[1] = front[1] /\ \A k \in 1..Len(net) : Unreceived[Len(front) + k] = net[k]
    BY <1>3, <1>7, <2>2, ConcatAt
  <2> QED BY <1>6, <1>7, <2>1, <2>3 DEF front
<1>9. Unreceived # <<>>
  <2>1. Len(Unreceived) # 0
    BY <1>5, <1>8, SMT
  <2> QED BY <2>1, EmptyType
<1>10. /\ h.i = 0 /\ h.len \in 2..Len(Unreceived)
       /\ \A j \in 1..h.len : Unreceived[j].i = j - 1
  BY <1>3, <1>8, <1>9, <1>s, FramedPacket DEF FrameInv
<1>11. size = h.len
  BY <1>10, Zenon DEF PktSizes, SizesOf, h
<1>12. size \in Nat /\ size >= 2 /\ size <= Len(Unreceived) /\ size - 1 \in Nat
  BY <1>5, <1>8, <1>10, <1>11, SMT
<1>13. size - 1 <= Len(sock)
  <2>1. Len(recv(size - 1)) = IF size - 1 < Len(sock) THEN size - 1 ELSE Len(sock)
    BY <1>3, <1>12, RecvType
  <2> DEFINE m == Len(sock)
             l == Len(recv(size - 1))
  <2>2. m \in Nat /\ l = (IF size - 1 < m THEN size - 1 ELSE m) /\ ~(l < size - 1)
    BY <1>5, <1>s, <2>1
  <2> HIDE DEF m, l
  <2>3. size - 1 <= m
    BY <1>12, <2>2, SMT
  <2> QED BY <2>3 DEF m
<1>14. recv(size - 1) = SubSeq(sock, 1, size - 1)
  <2>1. (IF size - 1 < Len(sock) THEN size - 1 ELSE Len(sock)) = size - 1
    BY <1>5, <1>12, <1>13, SMT
  <2> QED BY <2>1 DEF recv
<1>15. SubSeq(sock, 1, size - 1) \in Seq(Words) /\ Len(SubSeq(sock, 1, size - 1)) = size - 1
  BY <1>3, <1>12, <1>13, PrefixType
<1>16. mRspBuf' = mRspBuf \o SubSeq(sock, 1, size - 1)
  <2> DEFINE r == SubSeq(sock, 1, size - 1)
             m == size - 1 - Len(recv(size - 1))
             g == [k \in 1..m |-> Garbage]
  <2>1. m = 0
    BY <1>12, <1>14, <1>15, SMT
  <2>2. g = <<>>
    BY <2>1, SMT
  <2>3. mRspBuf' = (mRspBuf \o r) \o g
    BY <1>1, <1>14
  <2>4. mRspBuf \o r \in Seq(Words)
    BY <1>3, <1>15, ConcatType
  <2> HIDE DEF g, r
  <2>5. mRspBuf' = mRspBuf \o r
    BY <2>2, <2>3, <2>4, ConcatEmpty
  <2> QED BY <2>5 DEF r
<1>17. Unreceived' = SubSeq(Unreceived, size + 1, Len(Unreceived))
  <2>1. Unreceived' = (<<>> \o sock') \o net
    BY <1>2, Zenon DEF Unreceived
  <2>2. sock' = SubSeq(sock, (size - 1) + 1, Len(sock)) /\ sock' \in Seq(Words)
    BY <1>1, <1>3, <1>12, RestType DEF Unread
  <2>3. Unreceived' = sock' \o net
    BY <2>1, <2>2, ConcatEmpty
  <2>4. size - 1 \in 0..Len(sock) /\ size \in 0..Len(front) /\ (size - 1) + 1 = size
    BY <1>5, <1>7, <1>12, <1>13, SMT
  <2>5. SubSeq(Unreceived, size + 1, Len(Unreceived)) = SubSeq(front, size + 1, Len(front)) \o net
    BY <1>3, <1>7, <2>4, PrefixOfConcat
  <2>6. SubSeq(front, size + 1, Len(front)) = SubSeq(sock, (size - 1) + 1, Len(sock))
    BY <1>6, <2>4 DEF front
  <2> QED BY <2>2, <2>3, <2>5, <2>6
<1>18. mRspBuf' = SubSeq(mRspBuf, 1, mNumBytesRsp) \o SubSeq(Unreceived, 1, size)
  <2> DEFINE r == SubSeq(sock, 1, size - 1)
             p == SubSeq(mRspBuf, 1, mNumBytesRsp)
  <2>1. size - 1 \in 0..Len(sock) /\ size \in 0..Len(front) /\ (size - 1) + 1 = size
    BY <1>5, <1>7, <1>12, <1>13, SMT
  <2>2. SubSeq(Unreceived, 1, size) = SubSeq(front, 1, size)
    BY <1>3, <1>7, <2>1, PrefixOfConcat
  <2>3. SubSeq(front, 1, size) = <<h>> \o r
    BY <1>6, <2>1 DEF front
  <2>4. p \o <<h>> = mRspBuf /\ p \in Seq(Words)
    BY <1>3, LastWord DEF h
  <2>5. <<h>> \in Seq(Words)
    BY <1>4, SMT
  <2>6. r \in Seq(Words)
    BY <1>15
  <2> HIDE DEF p, r
  <2>7. (p \o <<h>>) \o r = p \o (<<h>> \o r)
    BY <2>4, <2>5, <2>6, ConcatAssoc, SMTT(30)
  <2> QED BY <1>16, <2>2, <2>3, <2>4, <2>7 DEF p, r
<1> QED BY <1>1, <1>8, <1>9, <1>10, <1>11, <1>17, <1>18

\* Whatever recv() returned is taken out of what is not received, with the header
\* before it, and the buffer grows.
LEMMA CutBodyStream ==
    ASSUME TypeOK, RecvBody
    PROVE  /\ \E n \in 1..Len(Unreceived) : Unreceived' = SubSeq(Unreceived, n + 1, Len(Unreceived))
           /\ \E t \in Seq(Words) : mRspBuf' = mRspBuf \o t
<1> DEFINE h == mRspBuf[mNumBytesRsp + 1]
<1>1. PICK size \in PktSizes :
        /\ mRspBuf' = mRspBuf \o recv(size - 1) \o [k \in 1..(size - 1 - Len(recv(size - 1))) |-> Garbage]
        /\ Unread(size - 1)
  BY DEF RecvBody
<1>2. /\ pc = "body" /\ pc' = "header" /\ UNCHANGED net
  BY DEF RecvBody, Receiving
<1>3. /\ sock \in Seq(Words) /\ net \in Seq(Words) /\ mRspBuf \in Seq(Words)
      /\ Len(mRspBuf) = mNumBytesRsp + 1 /\ mNumBytesRsp \in Nat
      /\ Unreceived \in Seq(Words) /\ Unreceived = (HeaderWord \o sock) \o net
  BY <1>2, StreamType
<1>4. h \in Words /\ HeaderWord = <<h>>
  <2>1. h \in Words
    BY <1>3, SMT
  <2> QED BY <1>2, <2>1 DEF HeaderWord
<1>5. size - 1 \in Nat
  <2>1. h.len \in Nat
    BY <1>4 DEF Words
  <2>2. SizesOf(h) \subseteq Nat
    BY <2>1, SizeAssumption DEF SizesOf
  <2>3. size \in Nat /\ ~BadSize(size)
    BY <2>2 DEF PktSizes
  <2>4. ~(size < 2)
    BY <2>3 DEF BadSize
  <2> QED BY <2>3, <2>4, SMT
<1> HIDE DEF h
<1> DEFINE rest == recv(size - 1)
           m == Len(rest)
           front == <<h>> \o sock
<1>6. rest \in Seq(Words) /\ m \in 0..(size - 1) /\ m = (IF size - 1 < Len(sock) THEN size - 1 ELSE Len(sock))
  BY <1>3, <1>5, RecvType
<1>7. m \in 0..Len(sock) /\ Len(sock) \in Nat /\ Len(net) \in Nat
  <2> DEFINE l == Len(sock)
  <2>1. l \in Nat /\ Len(net) \in Nat
    BY <1>3, SMT
  <2> HIDE DEF l, m
  <2>2. m = (IF size - 1 < l THEN size - 1 ELSE l)
    BY <1>6 DEF l
  <2>3. m \in 0..l
    BY <1>5, <2>1, <2>2, SMT
  <2> QED BY <2>1, <2>3 DEF l
<1> HIDE DEF rest, m
<1>8. sock' = SubSeq(sock, m + 1, Len(sock))
  <2> DEFINE l == Len(sock)
  <2>1. sock' = SubSeq(sock, (size - 1) + 1, l)
    BY <1>1 DEF Unread
  <2>2. CASE size - 1 < l
    BY <1>6, <2>1, <2>2
  <2>3. CASE ~(size - 1 < l)
    <3>1. SubSeq(sock, (size - 1) + 1, l) = <<>> /\ SubSeq(sock, l + 1, l) = <<>>
      BY <1>3, <1>5, <1>7, <2>3, SMT
    <3> QED BY <1>6, <2>1, <2>3, <3>1
  <2> QED BY <2>2, <2>3
<1>9. /\ front \in Seq(Words) /\ Len(front) = 1 + Len(sock)
      /\ SubSeq(front, (m + 1) + 1, Len(front)) = SubSeq(sock, m + 1, Len(sock))
  <2>1. h \in Words /\ front = <<h>> \o sock
    BY <1>4
  <2> HIDE DEF front
  <2> QED BY <1>3, <1>7, <2>1, PrefixOfCons
<1>10. Unreceived = front \o net
  BY <1>3, <1>4
<1>11. Unreceived' = SubSeq(sock, m + 1, Len(sock)) \o net
  <2>1. Unreceived' = (<<>> \o sock') \o net
    BY <1>2, Zenon DEF Unreceived
  <2>2. sock' \in Seq(Words)
    BY <1>3, <1>7, <1>8, SMT
  <2> QED BY <1>8, <2>1, <2>2, ConcatEmpty
<1> HIDE DEF front
<1>12. m + 1 \in 0..Len(front)
  BY <1>7, <1>9, SMT
<1>13. Unreceived' = SubSeq(Unreceived, (m + 1) + 1, Len(Unreceived))
  <2> DEFINE k == m + 1
  <2>1. front \in Seq(Words) /\ net \in Seq(Words) /\ k \in 0..Len(front)
    BY <1>3, <1>9, <1>12
  <2> HIDE DEF k
  <2>2. SubSeq(front \o net, k + 1, Len(front \o net)) = SubSeq(front, k + 1, Len(front)) \o net
    BY <2>1, PrefixOfConcat
  <2> QED BY <1>9, <1>10, <1>11, <2>2 DEF k
<1>14. m + 1 \in 1..Len(Unreceived)
  <2>1. Len(Unreceived) = Len(front) + Len(net)
    BY <1>3, <1>9, <1>10, ConcatType
  <2> QED BY <1>7, <1>9, <2>1, SMT
<1> DEFINE z == [k \in 1..(size - 1 - m) |-> Garbage]
<1>15. z \in Seq(Words)
  <2>1. Garbage \in Words
    <3>1. 0 \in 0..pkts /\ 0 \in 0..call
      BY SMT DEF TypeOK
    <3> QED BY <3>1, SMT DEF Garbage, Words
  <2> DEFINE d == size - 1 - m
  <2>2. d \in Nat
    BY <1>5, <1>6, SMT
  <2> HIDE DEF d
  <2>3. [k \in 1..d |-> Garbage] \in Seq(Words)
    BY <2>1, <2>2, SMT
  <2> QED BY <2>3 DEF d
<1>16. mRspBuf' = (mRspBuf \o rest) \o z
  BY <1>1 DEF rest, m
<1> HIDE DEF z
<1>17. (mRspBuf \o rest) \o z = mRspBuf \o (rest \o z)
  <2>1. mRspBuf \in Seq(Words)
    BY <1>3
  <2> QED BY <1>6, <1>15, <2>1, ConcatAssoc
<1>18. rest \o z \in Seq(Words)
  BY <1>6, <1>15, ConcatType
<1> QED BY <1>13, <1>14, <1>16, <1>17, <1>18

\* Arriving moves a word within what is not received.
LEMMA ArriveStream ==
    ASSUME TypeOK, Arrive
    PROVE  Unreceived' = Unreceived
<1>1. /\ net # <<>> /\ sock' = Append(sock, Head(net)) /\ net' = Tail(net)
      /\ UNCHANGED <<pc, mRspBuf, mNumBytesRsp>>
  BY DEF Arrive
<1>2. /\ HeaderWord \in Seq(Words) /\ sock \in Seq(Words) /\ net \in Seq(Words)
      /\ HeaderWord \o sock \in Seq(Words)
      /\ Unreceived = (HeaderWord \o sock) \o net
  BY StreamType
<1> DEFINE a == SubSeq(net, 1, 1)
           b == SubSeq(net, 1 + 1, Len(net))
<1>3. 1 \in 0..Len(net) /\ a \in Seq(Words) /\ Append(sock, Head(net)) = sock \o a /\ Tail(net) = b
  BY <1>1, <1>2, SMT
<1>4. Unreceived' = (HeaderWord \o (sock \o a)) \o b
  BY <1>1, <1>3, Zenon DEF Unreceived, HeaderWord
<1>5. ((HeaderWord \o sock) \o a) \o b = (HeaderWord \o sock) \o net
  BY <1>2, <1>3, MoveWords
<1> HIDE DEF a, b
<1>6. (HeaderWord \o sock) \o a = HeaderWord \o (sock \o a)
  <2>1. HeaderWord \in Seq(Words) /\ sock \in Seq(Words) /\ a \in Seq(Words)
    BY <1>2, <1>3
  <2> QED BY <2>1, ConcatAssoc, SMTT(30)
<1> QED BY <1>2, <1>4, <1>5, <1>6

LEMMA PacketWords ==
    ASSUME TypeOK, NEW size \in RspSizes, NEW rq \in 0..call, pkts' = pkts + 1, call' = call
    PROVE  /\ Packet(size, rq) \in Seq(Words') /\ Len(Packet(size, rq)) = size /\ size \in Nat /\ size >= 2
           /\ \A k \in 1..size : Packet(size, rq)[k] = [pkt |-> pkts + 1, i |-> k - 1, len |-> size, rq |-> rq]
<1>1. size \in Nat /\ size >= 2
  BY SizeAssumption, SMT
<1>2. Packet(size, rq) \in Seq(Words') /\ Len(Packet(size, rq)) = size
  BY <1>1, PacketType
<1> QED BY <1>1, <1>2 DEF Packet

\* The server appends a packet to what is not received.
LEMMA ServesStream ==
    ASSUME TypeOK, NEW size \in RspSizes, NEW rq \in 0..call, pkts' = pkts + 1, call' = call,
           net' = net \o Packet(size, rq), UNCHANGED <<pc, mRspBuf, mNumBytesRsp, sock>>
    PROVE  Unreceived' = Unreceived \o Packet(size, rq) /\ Unreceived \in Seq(Words')
<1>1. /\ HeaderWord \in Seq(Words) /\ sock \in Seq(Words) /\ net \in Seq(Words)
      /\ HeaderWord \o sock \in Seq(Words) /\ Unreceived \in Seq(Words)
      /\ Unreceived = (HeaderWord \o sock) \o net
  BY StreamType
<1>2. HeaderWord \o sock \in Seq(Words') /\ net \in Seq(Words') /\ Unreceived \in Seq(Words')
  <2>1. pkts' \in Nat /\ call' \in Nat /\ pkts' >= pkts /\ call' >= call
    BY SMT DEF TypeOK
  <2> QED BY <1>1, <2>1, WordsGrow
<1>3. Packet(size, rq) \in Seq(Words')
  BY PacketWords
<1>4. Unreceived' = (HeaderWord \o sock) \o (net \o Packet(size, rq))
  BY Zenon DEF Unreceived, HeaderWord
<1> DEFINE front == HeaderWord \o sock
           p == Packet(size, rq)
<1>5. front \in Seq(Words') /\ p \in Seq(Words')
  BY <1>2, <1>3
<1> HIDE DEF front, p
<1>6. (front \o net) \o p = front \o (net \o p)
  <2>1. net \in Seq(Words')
    BY <1>2
  <2> QED BY <1>5, <2>1, ConcatAssoc, SMTT(30)
<1> QED BY <1>1, <1>2, <1>4, <1>6 DEF front, p

LEMMA FramedEmpty == Framed(<<>>)
BY EmptyType, SMT DEF Framed

\* The three conjuncts about the stream, from what a step does to it.
LEMMA FrameStep ==
    ASSUME TypeOK, FrameInv, Next
    PROVE  FrameInv'
<1> DEFINE Rest == /\ pc' = "body" => mSocket' = "up"
                   /\ kind' \in {"send", "receive"} => established'
<1>f. /\ short \/ (Framed(Unreceived) /\ (Unreceived # <<>> => Unreceived[1].i = 0))
      /\ (pc = "body" => mSocket = "up")
      /\ (kind \in {"send", "receive"} => established)
  BY DEF FrameInv
<1>s. ASSUME short' \/ (Unreceived' = Unreceived /\ ~short), Rest PROVE FrameInv'
  BY <1>f, <1>s DEF FrameInv
<1>e. ASSUME Unreceived' = <<>>, Rest PROVE FrameInv'
  BY <1>e, FramedEmpty DEF FrameInv
<1>d. ASSUME mSocketDisconnect, pc' # "body", UNCHANGED <<kind, established>> PROVE FrameInv'
  <2>1. Unreceived' = <<>>
    <3>1. Unreceived' = (<<>> \o <<>>) \o <<>>
      BY <1>d, Zenon DEF Unreceived, mSocketDisconnect
    <3>2. <<>> \in Seq(Words) /\ <<>> \o <<>> = <<>>
      BY EmptyType, ConcatEmpty
    <3> QED BY <3>1, <3>2
  <2> QED BY <1>d, <1>e, <1>f, <2>1 DEF mSocketDisconnect
<1>u. ASSUME pc # "body", pc' # "body", UNCHANGED <<sock, net>> PROVE Unreceived' = Unreceived
  BY <1>u, Zenon DEF Unreceived
<1>k. ASSUME UNCHANGED short, ~short => Unreceived' = Unreceived
      PROVE  short' \/ (Unreceived' = Unreceived /\ ~short)
  BY <1>k
<1>1. CASE server_connect
  <2>1. pc' = "idle" /\ sock' = <<>> /\ net' = <<>> /\ kind' = "connect"
    BY <1>1 DEF server_connect
  <2>2. Unreceived' = (<<>> \o <<>>) \o <<>>
    BY <2>1, Zenon DEF Unreceived
  <2>3. <<>> \in Seq(Words) /\ <<>> \o <<>> = <<>>
    BY EmptyType, ConcatEmpty
  <2> QED BY <1>e, <2>1, <2>2, <2>3
<1>2. CASE Send
  <2>1. pc # "body" /\ pc' # "body" /\ UNCHANGED <<kind, established, short>>
    BY <1>2 DEF Send, Returns, callVars
  <2>2. mSocketDisconnect \/ UNCHANGED <<sock, net>>
    BY <1>2 DEF Send
  <2> QED BY <1>d, <1>f, <1>k, <1>s, <1>u, <2>1, <2>2
<1>3. CASE RecvHeader
  <2>1. UNCHANGED <<kind, established, short>>
    BY <1>3 DEF RecvHeader, callVars
  <2>2. CASE BadHeader
    BY <1>d, <2>1, <2>2 DEF BadHeader, Returns
  <2>3. CASE short /\ pc' = "idle"
    BY <1>f, <1>s, <2>1, <2>3
  <2>4. CASE pc' = "body" /\ Unreceived' = Unreceived /\ UNCHANGED mSocket /\ mSocket = "up"
    BY <1>f, <1>k, <1>s, <2>1, <2>4
  <2> QED BY <1>3, <2>2, <2>3, <2>4, RecvHeaderStream
<1>4. CASE HeaderTimeout
  <2>1. pc # "body" /\ pc' # "body" /\ UNCHANGED <<sock, net, kind, established, short>>
    BY <1>4 DEF HeaderTimeout, Receiving, Returns, callVars, envVars
  <2> QED BY <1>f, <1>k, <1>s, <1>u, <2>1
<1>5. CASE HeaderClosed
  BY <1>5, <1>d DEF HeaderClosed, Returns, callVars
<1>6. CASE RecvBody
  <2>0. UNCHANGED <<kind, established>> /\ pc' = "header"
    BY <1>6 DEF RecvBody, callVars
  <2> SUFFICES ASSUME ~short' PROVE FrameInv'
    BY <1>f, <1>s, <2>0
  <2>s. ~short
    BY <1>6 DEF RecvBody
  <2> DEFINE n == Unreceived[1].len
  <2>1. /\ Unreceived # <<>> /\ n \in 2..Len(Unreceived)
        /\ Unreceived' = SubSeq(Unreceived, n + 1, Len(Unreceived))
    BY <1>6, RecvBodyStream
  <2>3. Unreceived \in Seq(Words)
    BY StreamType
  <2>4. n < Len(Unreceived) => Unreceived[n + 1].i = 0
    BY <1>f, <2>s, <2>1, <2>3, FramedPacket
  <2> HIDE DEF n
  <2>5. n \in 0..Len(Unreceived) /\ Len(Unreceived) \in Nat
    BY <2>1, <2>3, SMT
  <2>6. Framed(Unreceived')
    BY <1>f, <2>s, <2>1, <2>3, <2>5, FramedRest
  <2>7. ASSUME Unreceived' # <<>> PROVE Unreceived'[1].i = 0
    <3> DEFINE U == Unreceived
    <3> HIDE DEF U
    <3>1. U \in Seq(Words) /\ n \in 0..Len(U) /\ SubSeq(U, n + 1, Len(U)) # <<>>
      BY <2>1, <2>3, <2>5, <2>7 DEF U
    <3>2. n < Len(U) /\ SubSeq(U, n + 1, Len(U))[1] = U[n + 1]
      BY <3>1, SMT
    <3> QED BY <2>1, <2>4, <3>2 DEF U
  <2> QED BY <1>f, <2>0, <2>6, <2>7 DEF FrameInv
<1>7. CASE BodyLost
  BY <1>7, <1>d DEF BodyLost, Returns, callVars
<1>8. CASE Done
  <2>1. pc # "body" /\ pc' # "body" /\ UNCHANGED <<sock, net, kind, short>> /\ (established => established')
    BY <1>8 DEF Done, Returns, callVars, envVars
  <2> QED BY <1>f, <1>k, <1>s, <1>u, <2>1
<1>9. CASE Arrive
  <2>1. UNCHANGED <<pc, mSocket, kind, established, short>>
    BY <1>9 DEF Arrive, callVars
  <2> QED BY <1>9, <1>f, <1>k, <1>s, <2>1, ArriveStream
<1>10. CASE Ignore \/ ServerCloses
  <2>1. UNCHANGED <<pc, mSocket, mRspBuf, mNumBytesRsp, sock, net, kind, established, short>>
    BY <1>10 DEF Ignore, ServerCloses, callVars
  <2>2. Unreceived' = Unreceived
    BY <2>1, Zenon DEF Unreceived
  <2> QED BY <1>f, <1>k, <1>s, <2>1, <2>2
<1>12. ASSUME NEW size \in RspSizes, Answer(size) \/ Push(size)
       PROVE  FrameInv'
  <2>0. toServer \in Seq(0..call) /\ call \in Nat /\ pkts \in Nat
    BY DEF TypeOK
  <2>1. PICK rq \in 0..call : Serves(size, rq)
    BY <1>12, <2>0, SMT DEF Answer, Push
  <2>2. /\ pkts' = pkts + 1 /\ net' = net \o Packet(size, rq) /\ call' = call
        /\ UNCHANGED <<mSocket, mRspBuf, mNumBytesRsp, pc, sock, kind, established, short>>
    BY <2>1 DEF Serves, callVars
  <2> SUFFICES ASSUME ~short PROVE FrameInv'
    BY <1>f, <1>s, <2>2
  <2>3. Unreceived' = Unreceived \o Packet(size, rq) /\ Unreceived \in Seq(Words')
    BY <2>2, ServesStream
  <2> DEFINE p == Packet(size, rq)
  <2>4. /\ p \in Seq(Words') /\ Len(p) = size /\ size \in Nat /\ size >= 2
        /\ \A k \in 1..size : p[k] = [pkt |-> pkts + 1, i |-> k - 1, len |-> size, rq |-> rq]
    BY <2>2, PacketWords
  <2> HIDE DEF p
  <2>5. /\ \A k \in 1..Len(p) : p[k].pkt = p[1].pkt /\ p[k].i = k - 1 /\ p[k].len = Len(p)
        /\ 1 \in 1..Len(p) /\ p[1].i = 0
    <3>1. 1 \in 1..size /\ 1 - 1 = 0
      BY <2>4, SMT
    <3> QED BY <2>4, <3>1
  <2>6. Framed(Unreceived \o p)
    BY <1>f, <2>3, <2>4, <2>5, FramedAppend
  <2>7. (Unreceived \o p)[1].i = 0
    <3> DEFINE U == Unreceived
    <3>0. U \in Seq(Words') /\ (U # <<>> => U[1].i = 0)
      BY <1>f, <2>3
    <3> HIDE DEF U
    <3>1. CASE U = <<>>
      <4>1. U \o p = p
        BY <2>4, <3>1, ConcatEmpty
      <4> QED BY <2>5, <4>1 DEF U
    <3>2. CASE U # <<>>
      <4>1. 1 \in 1..Len(U)
        BY <3>0, <3>2, SMT
      <4>2. (U \o p)[1] = U[1]
        BY <2>4, <3>0, <4>1, ConcatAt
      <4> QED BY <3>0, <3>2, <4>2 DEF U
    <3> QED BY <3>1, <3>2
  <2> QED BY <1>f, <2>2, <2>3, <2>6, <2>7 DEF FrameInv, p
<1>13. CASE \E n \in 1..MaxPkts : send(n) \/ execute(n)
  <2>1. PICK n \in 1..MaxPkts : send(n) \/ execute(n)
    BY <1>13
  <2>2. pc # "body" /\ pc' # "body" /\ UNCHANGED <<sock, net, established, short>>
    BY <2>1 DEF send, execute, Begin, envVars
  <2>3. kind' \in {"send", "receive"} => established
    BY <2>1 DEF send, execute, Begin
  <2> QED BY <1>k, <1>s, <1>u, <2>2, <2>3
<1>14. CASE receive
  <2>1. pc # "body" /\ pc' # "body" /\ UNCHANGED <<sock, net, established, short>>
    BY <1>14 DEF receive, Begin, envVars
  <2>2. kind' \in {"send", "receive"} => established
    BY <1>14 DEF receive, Begin
  <2> QED BY <1>k, <1>s, <1>u, <2>1, <2>2
<1>15. CASE \E size \in RspSizes : Answer(size) \/ Push(size)
  BY <1>12, <1>15
<1> QED BY <1>1, <1>2, <1>3, <1>4, <1>5, <1>6, <1>7, <1>8, <1>9, <1>10, <1>13, <1>14, <1>15,
           Zenon DEF Next, ReceiveStep

\* The words not received are whole packets and the rest of the one whose header
\* is in the buffer, until a read was short.
THEOREM Framing == Spec => []FrameInv
<1>1. Init => FrameInv
  <2> SUFFICES ASSUME Init PROVE FrameInv
    OBVIOUS
  <2>1. Unreceived = (<<>> \o <<>>) \o <<>> /\ net = <<>> /\ pc = "idle" /\ kind = "connect"
    BY Zenon DEF Init, Unreceived
  <2>2. <<>> \in Seq(Words) /\ <<>> \o <<>> = <<>>
    BY EmptyType, ConcatEmpty
  <2> QED BY <2>1, <2>2, FramedEmpty DEF FrameInv
<1>2. TypeOK /\ FrameInv /\ [Next]_vars => FrameInv'
  <2> SUFFICES ASSUME TypeOK, FrameInv, [Next]_vars PROVE FrameInv'
    OBVIOUS
  <2>1. CASE UNCHANGED vars
    <3>1. UNCHANGED <<pc, mRspBuf, mNumBytesRsp, sock, net, mSocket, kind, established, short>>
      BY <2>1 DEF vars, callVars, envVars
    <3>2. Unreceived' = Unreceived
      BY <3>1, Zenon DEF Unreceived
    <3> QED BY <3>1, <3>2 DEF FrameInv
  <2> QED BY <2>1, FrameStep
<1> QED BY <1>1, <1>2, Typing, PTL DEF Spec

\* Whatever has failed on a connection, as long as no recv() has returned less than it
\* was asked for the word that the next call reads first is the header of a packet.
THEOREM Boundary == Spec => []AtBoundary
<1>1. TypeOK /\ FrameInv => AtBoundary
  <2> SUFFICES ASSUME TypeOK, FrameInv, pc = "idle", ~short, sock \o net # <<>>
               PROVE  Head(sock \o net).i = 0
    BY DEF AtBoundary
  <2>1. sock \o net \in Seq(Words) /\ sock \in Seq(Words)
    BY StreamType, ConcatType
  <2>2. Unreceived = (<<>> \o sock) \o net
    BY Zenon DEF Unreceived
  <2>3. Unreceived = sock \o net
    BY <2>1, <2>2, ConcatEmpty
  <2>4. Head(sock \o net) = (sock \o net)[1]
    BY <2>1, HeadRest
  <2> QED BY <2>3, <2>4 DEF FrameInv
<1> QED BY <1>1, Typing, Framing, PTL

--------------------------------------------------------------------------------
(* Answers.                                                                   *)

\* Packets of s are numbered one by one, the last of them is last.
Numbered(s, last) == \A k \in 1..Len(s) : s[k].i = s[k].len - 1 =>
    /\ k = Len(s) => s[k].pkt = last
    /\ k < Len(s) => s[k + 1].pkt = s[k].pkt + 1

\* The number of the packet that comes next.
First == IF Unreceived = <<>> THEN pkts + 1 ELSE Unreceived[1].pkt

\* Requests that are not answered and packets that are not received.
Outstanding == Len(toServer) + ((pkts + 1) - First)

Due == IF pc \in {"idle", "send"} THEN 0 ELSE left

AnswersTo(s, rq) == \A k \in 1..Len(s) : s[k].rq = rq

\* As long as nothing made the stream go out of step and no read was short, no more packets are on their
\* way than the running call still wants, and all are its own.
InStep ==
    /\ Numbered(Unreceived, pkts)
    /\ Outstanding <= Due
    /\ \A k \in 1..Len(toServer) : toServer[k] = call
    /\ AnswersTo(Unreceived, call)
    /\ pc # "idle" \/ (ok /\ kind = "execute") => AnswersTo(mRspBuf, call)
    /\ pc = "send" => left = num_pl2_pkt

AnswerInv == outOfStep \/ short \/ InStep

LEMMA AnswersEmpty ==
    ASSUME NEW a, NEW b PROVE Numbered(<<>>, a) /\ AnswersTo(<<>>, b)
BY EmptyType, SMT DEF Numbered, AnswersTo

LEMMA AnswersConcat ==
    ASSUME NEW S, NEW s \in Seq(S), NEW t \in Seq(S), NEW rq, AnswersTo(s, rq), AnswersTo(t, rq)
    PROVE  AnswersTo(s \o t, rq)
<1> DEFINE r == s \o t
<1>1. /\ Len(s) \in Nat /\ Len(t) \in Nat
      /\ \A k \in 1..Len(s) : r[k] = s[k]
      /\ \A k \in 1..Len(t) : r[Len(s) + k] = t[k]
  BY ConcatAt
<1>2. Len(r) = Len(s) + Len(t)
  BY ConcatType
<1> HIDE DEF r
<1>3. ASSUME NEW k \in 1..Len(r) PROVE r[k].rq = rq
  <2>1. CASE k \in 1..Len(s)
    BY <1>1, <2>1 DEF AnswersTo
  <2>2. CASE k \notin 1..Len(s)
    <3> DEFINE j == k - Len(s)
    <3>1. j \in 1..Len(t) /\ k = Len(s) + j
      BY <1>1, <1>2, <2>2, SMT
    <3> HIDE DEF j
    <3> QED BY <1>1, <3>1 DEF AnswersTo
  <2> QED BY <2>1, <2>2
<1> QED BY <1>3 DEF AnswersTo, r

LEMMA AnswersPart ==
    ASSUME NEW S, NEW s \in Seq(S), NEW rq, AnswersTo(s, rq), NEW n, n \in 0..Len(s)
    PROVE  AnswersTo(SubSeq(s, 1, n), rq) /\ AnswersTo(SubSeq(s, n + 1, Len(s)), rq)
<1> DEFINE a == SubSeq(s, 1, n)
           b == SubSeq(s, n + 1, Len(s))
<1>1. Len(s) \in Nat /\ Len(a) = n /\ Len(b) = Len(s) - n
  BY SMT
<1>2. \A k \in 1..n : a[k] = s[k] /\ k \in 1..Len(s)
  BY SMT
<1>3. \A k \in 1..(Len(s) - n) : b[k] = s[k + n] /\ k + n \in 1..Len(s)
  BY SMT
<1> HIDE DEF a, b
<1>4. AnswersTo(a, rq) /\ AnswersTo(b, rq)
  BY <1>1, <1>2, <1>3 DEF AnswersTo
<1> QED BY <1>4 DEF a, b

LEMMA NumberedRest ==
    ASSUME NEW S, NEW s \in Seq(S), NEW last, Numbered(s, last), NEW n, n \in 0..Len(s)
    PROVE  Numbered(SubSeq(s, n + 1, Len(s)), last)
<1> DEFINE b == SubSeq(s, n + 1, Len(s))
<1>1. Len(s) \in Nat /\ Len(b) = Len(s) - n /\ n \in Nat
  BY SMT
<1>3. \A k \in 1..(Len(s) - n) : b[k] = s[k + n] /\ k + n \in 1..Len(s)
  BY SMT
<1> HIDE DEF b
<1>4. ASSUME NEW k \in 1..Len(b), b[k].i = b[k].len - 1
      PROVE  (k = Len(b) => b[k].pkt = last) /\ (k < Len(b) => b[k + 1].pkt = b[k].pkt + 1)
  <2>1. b[k] = s[k + n] /\ k + n \in 1..Len(s)
    BY <1>1, <1>3
  <2>2. (k + n = Len(s) => b[k].pkt = last) /\ (k + n < Len(s) => s[(k + n) + 1].pkt = b[k].pkt + 1)
    BY <1>4, <2>1 DEF Numbered
  <2>3. k = Len(b) => k + n = Len(s)
    BY <1>1, SMT
  <2>4. ASSUME k < Len(b) PROVE k + n < Len(s) /\ b[k + 1] = s[(k + n) + 1]
    <3>1. k + n < Len(s) /\ k + 1 \in 1..(Len(s) - n) /\ (k + 1) + n = (k + n) + 1
      BY <1>1, <2>4, SMT
    <3> DEFINE j == k + 1
    <3>2. j \in 1..(Len(s) - n) /\ j + n = (k + n) + 1
      BY <3>1
    <3> HIDE DEF j
    <3>3. b[j] = s[j + n]
      BY <1>3, <3>2
    <3>4. b[j] = s[(k + n) + 1]
      BY <3>2, <3>3
    <3> QED BY <3>1, <3>4 DEF j
  <2> QED BY <2>2, <2>3, <2>4
<1> QED BY <1>4 DEF Numbered, b

LEMMA NumberedAppend ==
    ASSUME NEW S, NEW s \in Seq(S), NEW p \in Seq(S), NEW last \in Nat, Numbered(s, last), Len(p) >= 2,
           \A k \in 1..Len(p) : p[k].pkt = last + 1 /\ p[k].i = k - 1 /\ p[k].len = Len(p)
    PROVE  Numbered(s \o p, last + 1)
<1> DEFINE r == s \o p
           m == Len(s)
<1>1. m \in Nat /\ Len(p) \in Nat /\ Len(r) = m + Len(p) /\ (\A k \in 1..m : r[k] = s[k]) /\ (\A k \in (m + 1)..Len(r) : r[k] = p[k - m])
  BY SMT
<1> HIDE DEF r
<1>2. ASSUME NEW k \in 1..Len(r), r[k].i = r[k].len - 1
      PROVE  (k = Len(r) => r[k].pkt = last + 1) /\ (k < Len(r) => r[k + 1].pkt = r[k].pkt + 1)
  <2>1. CASE k \in 1..m /\ k < m
    <3>1. k + 1 \in 1..m /\ k # m + Len(p)
      <4> HIDE DEF m
      <4> QED BY <1>1, <2>1, SMT
    <3>2. r[k] = s[k] /\ r[k + 1] = s[k + 1] /\ k # Len(r)
      BY <1>1, <2>1, <3>1
    <3> QED BY <1>2, <2>1, <3>2 DEF Numbered
  <2>2. CASE k \in 1..m /\ k = m
    <3>1. r[k] = s[k] /\ m + 1 \in (m + 1)..Len(r) /\ (m + 1) - m = 1 /\ 1 \in 1..Len(p) /\ k # Len(r)
      BY <1>1, <2>2, SMT
    <3>2. r[k + 1] = p[1]
      BY <1>1, <2>2, <3>1
    <3>3. r[k].pkt = last
      BY <1>2, <2>2, <3>1 DEF Numbered
    <3> QED BY <3>1, <3>2, <3>3
  <2>3. CASE k \in (m + 1)..Len(r)
    <3>1. r[k] = p[k - m] /\ k - m \in 1..Len(p)
      BY <1>1, <2>3, SMT
    <3>2. r[k].pkt = last + 1 /\ r[k].i = (k - m) - 1 /\ r[k].len = Len(p)
      BY <3>1
    <3>3. k = Len(r) /\ ~(k < Len(r))
      <4> DEFINE q == Len(p)
                 l == Len(r)
      <4>1. (k - m) - 1 = q - 1 /\ q \in Nat /\ l = m + q /\ k \in (m + 1)..l /\ m \in Nat
        BY <1>1, <1>2, <2>3, <3>2
      <4> HIDE DEF q, l, m
      <4>2. k = l /\ ~(k < l)
        BY <4>1, SMT
      <4> QED BY <4>2 DEF l
    <3> QED BY <3>2, <3>3
  <2>4. (k \in 1..m /\ k < m) \/ (k \in 1..m /\ k = m) \/ k \in (m + 1)..Len(r)
    BY <1>1, SMT
  <2> QED BY <2>1, <2>2, <2>3, <2>4
<1> QED BY <1>2 DEF Numbered, r

LEMMA FirstType ==
    ASSUME TypeOK
    PROVE  /\ First \in Int /\ First <= pkts + 1 /\ (Unreceived # <<>> => First <= pkts)
           /\ Len(toServer) \in Nat /\ pkts \in Nat /\ call \in Nat /\ Due \in Nat
           /\ Outstanding \in Nat /\ (Outstanding = 0 => Unreceived = <<>> /\ toServer = <<>>)
<1>1. pkts \in Nat /\ call \in Nat /\ Len(toServer) \in Nat /\ Due \in Nat /\ (Len(toServer) = 0 => toServer = <<>>)
  BY SMT DEF TypeOK, Due
<1>2. ASSUME Unreceived # <<>> PROVE First \in 0..pkts
  <2>1. Unreceived[1] \in Words
    BY <1>2, StreamType, HeadRest
  <2> QED BY <1>2, <2>1 DEF First, Words
<1>3. Unreceived = <<>> => First = pkts + 1
  BY DEF First
<1>4. First \in Int /\ First <= pkts + 1 /\ (Unreceived # <<>> => First <= pkts)
  BY <1>1, <1>2, <1>3, SMT
<1>5. Outstanding \in Nat /\ (Outstanding = 0 => Len(toServer) = 0 /\ First = pkts + 1)
  <2> DEFINE t == Len(toServer)
  <2>1. t \in Nat
    BY <1>1
  <2> HIDE DEF t
  <2>2. t + ((pkts + 1) - First) \in Nat /\ (t + ((pkts + 1) - First) = 0 => t = 0 /\ First = pkts + 1)
    BY <1>1, <1>4, <2>1, SMT
  <2> QED BY <2>2 DEF t, Outstanding
<1>6. Outstanding = 0 => Unreceived = <<>>
  BY <1>1, <1>4, <1>5, SMT
<1> QED BY <1>1, <1>4, <1>5, <1>6

\* A step that leaves what is not received alone.
LEMMA AnswerKeep ==
    ASSUME TypeOK, InStep, Unreceived' = Unreceived, UNCHANGED <<pkts, call, toServer>>,
           Due' >= Due, Due' \in Nat, pc' # "send",
           pc' # "idle" \/ (ok' /\ kind' = "execute") => AnswersTo(mRspBuf', call)
    PROVE  InStep'
<1>1. Outstanding' = Outstanding /\ Numbered(Unreceived, pkts)'
  BY DEF Outstanding, First, InStep
<1>2. Outstanding \in Nat /\ Due \in Nat
  BY FirstType
<1>3. Outstanding' <= Due'
  BY <1>1, <1>2, SMT DEF InStep
<1> QED BY <1>1, <1>3 DEF InStep

\* The same for a step that leaves nothing to receive.
LEMMA AnswerNone ==
    ASSUME Unreceived' = <<>>, toServer' = <<>>, pkts' \in Nat, pc' = "idle",
           ok' /\ kind' = "execute" => FALSE
    PROVE  InStep'
<1>1. First' = pkts' + 1
  BY DEF First
<1>2. Outstanding' = 0 + ((pkts' + 1) - (pkts' + 1))
  BY <1>1, EmptyType DEF Outstanding
<1>3. Outstanding' <= Due'
  <2> DEFINE p == pkts'
  <2>1. p \in Nat
    OBVIOUS
  <2> HIDE DEF p
  <2>2. 0 + ((p + 1) - (p + 1)) <= 0
    BY <2>1, SMT
  <2>3. Due' = 0
    BY DEF Due
  <2> QED BY <1>2, <2>2, <2>3 DEF p
<1>4. Numbered(Unreceived, pkts)' /\ AnswersTo(Unreceived, call)'
  BY AnswersEmpty
<1>5. \A k \in 1..Len(toServer') : FALSE
  BY EmptyType, SMT
<1> QED BY <1>3, <1>4, <1>5 DEF InStep

LEMMA AnswerStep ==
    ASSUME TypeOK, FrameInv, AnswerInv, Next, ~outOfStep', ~short'
    PROVE  InStep'
<1>t. /\ pkts \in Nat /\ call \in Nat /\ Len(toServer) \in Nat /\ Due \in Nat /\ Outstanding \in Nat
      /\ First \in Int /\ First <= pkts + 1 /\ (Unreceived # <<>> => First <= pkts)
      /\ (Outstanding = 0 => Unreceived = <<>> /\ toServer = <<>>)
      /\ left \in Nat /\ num_pl2_pkt \in Nat /\ toServer \in Seq(0..call)
      /\ pc \in {"idle", "send", "header", "body"}
  <2>1. left \in Nat /\ num_pl2_pkt \in Nat /\ toServer \in Seq(0..call) /\ pc \in {"idle", "send", "header", "body"}
    BY SMT DEF TypeOK
  <2> QED BY <2>1, FirstType
<1>b. outOfStep \in BOOLEAN
  BY Zenon DEF TypeOK
<1>u. ASSUME pc # "body", pc' # "body", UNCHANGED <<sock, net>> PROVE Unreceived' = Unreceived
  BY <1>u, Zenon DEF Unreceived
<1>d. ASSUME mSocketDisconnect, pc' = "idle", ok' = FALSE, UNCHANGED <<pkts>> PROVE InStep'
  <2>1. Unreceived' = <<>>
    <3>1. Unreceived' = (<<>> \o <<>>) \o <<>>
      BY <1>d, Zenon DEF Unreceived, mSocketDisconnect
    <3>2. <<>> \in Seq(Words) /\ <<>> \o <<>> = <<>>
      BY EmptyType, ConcatEmpty
    <3> QED BY <3>1, <3>2
  <2> QED BY <1>d, <1>t, <2>1, AnswerNone DEF mSocketDisconnect
<1>1. CASE server_connect
  <2>1. pc' = "idle" /\ sock' = <<>> /\ net' = <<>> /\ kind' = "connect" /\ toServer' = <<>> /\ pkts' = pkts
    BY <1>1 DEF server_connect
  <2>2. Unreceived' = (<<>> \o <<>>) \o <<>>
    BY <2>1, Zenon DEF Unreceived
  <2>3. <<>> \in Seq(Words) /\ <<>> \o <<>> = <<>>
    BY EmptyType, ConcatEmpty
  <2> QED BY <1>t, <2>1, <2>2, <2>3, AnswerNone
<1> SUFFICES ASSUME ~server_connect PROVE InStep'
  BY <1>1
<1>k. ~short
  BY Zenon DEF Next, ReceiveStep, Send, RecvHeader, HeaderTimeout, HeaderClosed, RecvBody, BodyLost, Done,
               send, execute, receive, Begin, Answer, Push, Serves, Arrive, Ignore, ServerCloses
<1>i. ASSUME ~outOfStep PROVE InStep
  BY <1>i, <1>k DEF AnswerInv
<1>2. CASE Send
  <2>1. pc = "send" /\ UNCHANGED <<mRspBuf, left, kind, num_pl2_pkt, call, pkts, outOfStep>> /\ ~outOfStep
    BY <1>2 DEF Send, callVars, history
  <2>2. InStep
    BY <1>i, <2>1
  <2>3. CASE mSocketDisconnect /\ pc' = "idle" /\ ok' = FALSE
    BY <1>d, <2>1, <2>3
  <2>4. CASE /\ toServer' = IF peer = "open" THEN toServer \o [k \in 1..num_pl2_pkt |-> call] ELSE toServer
             /\ pc' = "header" /\ UNCHANGED <<sock, net>>
    <3>1. Unreceived' = Unreceived
      BY <1>u, <2>1, <2>4
    <3>2. Due = 0 /\ Due' = left /\ left = num_pl2_pkt
      BY <2>1, <2>2, <2>4 DEF Due, InStep
    <3>3. Outstanding = 0
      BY <1>t, <2>2, <3>2, SMT DEF InStep
    <3>4. Unreceived = <<>> /\ toServer = <<>> /\ mRspBuf = <<>>
      BY <1>t, <2>1, <3>3 DEF TypeOK
    <3> DEFINE q == [k \in 1..num_pl2_pkt |-> call]
    <3>5. q \in Seq(0..call) /\ Len(q) = num_pl2_pkt /\ \A k \in 1..Len(q) : q[k] = call
      BY <1>t, SMT
    <3> HIDE DEF q
    <3>6. toServer' = q \/ toServer' = <<>>
      BY <2>4, <3>4, <3>5, ConcatEmpty DEF q
    <3>7. Len(toServer') \in Nat /\ Len(toServer') <= num_pl2_pkt /\ \A k \in 1..Len(toServer') : toServer'[k] = call
      <4>1. \A k \in 1..0 : FALSE
        BY SMT
      <4>2. Len(<<>>) = 0
        BY EmptyType
      <4> QED BY <1>t, <3>5, <3>6, <4>1, <4>2, SMT
    <3>8. First' = pkts + 1
      BY <2>1, <3>1, <3>4 DEF First
    <3>9. Outstanding' <= Due'
      <4> DEFINE l == Len(toServer')
      <4>1. l \in Nat /\ l <= num_pl2_pkt
        BY <3>7
      <4> HIDE DEF l
      <4>2. l + ((pkts + 1) - (pkts + 1)) <= num_pl2_pkt
        BY <1>t, <4>1, SMT
      <4> QED BY <2>1, <3>2, <3>8, <4>2 DEF l, Outstanding
    <3>10. Numbered(<<>>, pkts) /\ AnswersTo(<<>>, call)
      BY AnswersEmpty
    <3> QED BY <2>1, <2>4, <3>1, <3>4, <3>7, <3>9, <3>10 DEF InStep
  <2> QED BY <1>2, <2>3, <2>4 DEF Send, Returns
<1>3. CASE RecvHeader
  <2>1. UNCHANGED <<kind, left, call, pkts>> /\ pc = "header"
    BY <1>3 DEF RecvHeader, Receiving, callVars, history
  <2>2. CASE BadHeader
    BY <1>d, <2>1, <2>2 DEF BadHeader, Returns
  <2>3. CASE ~BadHeader
    <3>1. /\ pc' = "body" /\ Unreceived' = Unreceived /\ UNCHANGED <<toServer, outOfStep>>
          /\ mRspBuf' = mRspBuf \o <<Unreceived[1]>> /\ Unreceived # <<>>
      BY <1>3, <1>k, <2>3, RecvHeaderStream
    <3>2. InStep
      BY <1>i, <3>1
    <3>3. Unreceived \in Seq(Words) /\ mRspBuf \in Seq(Words)
      BY StreamType
    <3>4. AnswersTo(<<Unreceived[1]>>, call)
      <4>1. 1 \in 1..Len(Unreceived)
        BY <3>1, <3>3, SMT
      <4>2. Unreceived[1].rq = call
        BY <3>2, <4>1 DEF InStep, AnswersTo
      <4> QED BY <4>2, SMT DEF AnswersTo
    <3>5. <<Unreceived[1]>> \in Seq(Words)
      <4>1. Unreceived[1] \in Words
        BY <3>1, <3>3, HeadRest
      <4> QED BY <4>1, SMT
    <3>6. AnswersTo(mRspBuf, call)
      BY <2>1, <3>2 DEF InStep
    <3>7. AnswersTo(mRspBuf', call)
      BY <3>1, <3>3, <3>4, <3>5, <3>6, AnswersConcat
    <3>8. Due' = Due
      BY <2>1, <3>1 DEF Due
    <3> QED BY <1>t, <2>1, <3>1, <3>2, <3>7, <3>8, AnswerKeep
  <2> QED BY <2>2, <2>3
<1>4. CASE HeaderTimeout
  BY <1>4 DEF HeaderTimeout
<1>5. CASE HeaderClosed
  BY <1>5, <1>d DEF HeaderClosed, Returns, history
<1>6. CASE RecvBody
  <2> DEFINE n == Unreceived[1].len
             U == Unreceived
  <2>1. /\ pc = "body" /\ left > 0 /\ left' = left - 1 /\ pc' = "header"
        /\ UNCHANGED <<toServer, call, pkts, outOfStep>> /\ ~outOfStep
    BY <1>6 DEF RecvBody, Receiving, callVars, history
  <2>2. InStep
    BY <1>i, <2>1
  <2>3. /\ U # <<>> /\ n \in 2..Len(U)
        /\ U' = SubSeq(U, n + 1, Len(U))
        /\ mRspBuf' = SubSeq(mRspBuf, 1, mNumBytesRsp) \o SubSeq(U, 1, n)
    BY <1>6, RecvBodyStream
  <2>4. U \in Seq(Words) /\ mRspBuf \in Seq(Words) /\ mNumBytesRsp \in Nat /\ Len(mRspBuf) = mNumBytesRsp + 1
    BY <2>1, StreamType
  <2>5. /\ \A j \in 1..n : U[j].pkt = U[1].pkt /\ U[j].i = j - 1 /\ U[j].len = n
    BY <1>k, <2>3, <2>4, FramedPacket DEF FrameInv
  <2> HIDE DEF n, U
  <2>6. Len(U) \in Nat /\ n \in 0..Len(U) /\ n \in 1..n /\ n \in 1..Len(U) /\ n \in Nat
    BY <2>3, <2>4, SMT
  <2>7. Numbered(U, pkts) /\ AnswersTo(U, call) /\ AnswersTo(mRspBuf, call)
    BY <2>1, <2>2 DEF InStep, U
  <2>8. Numbered(U', pkts) /\ AnswersTo(U', call) /\ AnswersTo(SubSeq(U, 1, n), call)
    BY <2>3, <2>4, <2>6, <2>7, NumberedRest, AnswersPart
  <2>9. AnswersTo(mRspBuf', call)
    <3>1. mNumBytesRsp \in 0..Len(mRspBuf)
      BY <2>4, SMT
    <3>2. AnswersTo(SubSeq(mRspBuf, 1, mNumBytesRsp), call)
      BY <2>4, <2>7, <3>1, AnswersPart
    <3>3. SubSeq(mRspBuf, 1, mNumBytesRsp) \in Seq(Words) /\ SubSeq(U, 1, n) \in Seq(Words)
      BY <2>4, <2>6, <3>1, PrefixType, SMT
    <3> QED BY <2>3, <2>8, <3>2, <3>3, AnswersConcat
  <2>10. First' = First + 1
    <3>1. First = U[1].pkt
      BY <2>3 DEF First, U
    <3>2. U[n].pkt = First /\ U[n].i = U[n].len - 1
      BY <2>5, <2>6, <3>1
    <3>3. CASE n = Len(U)
      <4>1. First = pkts
        BY <2>6, <2>7, <3>2, <3>3 DEF Numbered
      <4>2. U' = <<>>
        <5>1. Len(SubSeq(U, n + 1, Len(U))) = 0 /\ SubSeq(U, n + 1, Len(U)) \in Seq(Words)
          BY <2>4, <2>6, <3>3, SMT
        <5> QED BY <2>3, <5>1, SMT
      <4> QED BY <2>1, <4>1, <4>2 DEF First, U
    <3>4. CASE n < Len(U)
      <4>1. U[n + 1].pkt = First + 1
        BY <2>6, <2>7, <3>2, <3>4 DEF Numbered
      <4>2. U' # <<>> /\ U'[1] = U[n + 1]
        <5>1. SubSeq(U, n + 1, Len(U)) # <<>> /\ SubSeq(U, n + 1, Len(U))[1] = U[n + 1]
          <6>1. SubSeq(U, n + 1, Len(U)) \in Seq(Words) /\ Len(SubSeq(U, n + 1, Len(U))) = Len(U) - n
            BY <2>4, <2>6, <3>4, SMT
          <6>2. Len(U) - n # 0
            BY <2>6, <3>4, SMT
          <6>3. SubSeq(U, n + 1, Len(U)) # <<>>
            BY <6>1, <6>2, EmptyType
          <6>4. SubSeq(U, n + 1, Len(U))[1] = U[n + 1]
            BY <2>4, <2>6, <3>4, SMT
          <6> QED BY <6>3, <6>4
        <5> QED BY <2>3, <5>1
      <4> QED BY <4>1, <4>2 DEF First, U
    <3>5. n = Len(U) \/ n < Len(U)
      BY <2>6, SMT
    <3> QED BY <3>3, <3>4, <3>5
  <2>11. Outstanding' <= Due'
    <3> DEFINE t == Len(toServer)
    <3>1. t \in Nat /\ t + ((pkts + 1) - First) <= left
      BY <1>t, <2>1, <2>2 DEF InStep, Outstanding, Due
    <3> HIDE DEF t
    <3>2. t + ((pkts + 1) - (First + 1)) <= left - 1
      BY <1>t, <3>1, SMT
    <3> QED BY <2>1, <2>10, <3>2 DEF t, Outstanding, Due
  <2> QED BY <2>1, <2>2, <2>8, <2>9, <2>11 DEF InStep, U
<1>7. CASE BodyLost
  BY <1>7, <1>d DEF BodyLost, Returns, history
<1>8. CASE Done
  <2>1. /\ pc = "header" /\ pc' = "idle" /\ left = 0
        /\ UNCHANGED <<sock, net, kind, toServer, pkts, call, mRspBuf, outOfStep>> /\ ~outOfStep
    BY <1>8 DEF Done, Returns, callVars, envVars, history
  <2>2. InStep /\ Unreceived' = Unreceived
    BY <1>i, <1>u, <2>1
  <2>3. Due = 0 /\ Due' = 0
    BY <2>1 DEF Due
  <2>4. Due' >= Due /\ Due' \in Nat
    BY <2>3, SMT
  <2>5. AnswersTo(mRspBuf', call)
    BY <2>1, <2>2 DEF InStep
  <2> QED BY <2>1, <2>2, <2>4, <2>5, AnswerKeep
<1>9. CASE Arrive \/ ServerCloses
  <2>1. UNCHANGED <<pc, left, ok, kind, call, pkts, mRspBuf, toServer, outOfStep>> /\ ~outOfStep
    BY <1>9 DEF Arrive, ServerCloses, callVars, history
  <2>2. Unreceived' = Unreceived
    <3>1. CASE Arrive
      BY <3>1, ArriveStream
    <3>2. CASE ServerCloses
      BY <3>2, Zenon DEF ServerCloses, Unreceived
    <3> QED BY <1>9, <3>1, <3>2
  <2>3. Outstanding' = Outstanding /\ Due' = Due
    BY <2>1, <2>2 DEF Outstanding, First, Due
  <2>4. InStep /\ num_pl2_pkt' = num_pl2_pkt
    BY <1>9, <1>i, <2>1 DEF Arrive, ServerCloses, callVars
  <2>5. Numbered(Unreceived', pkts') /\ Outstanding' <= Due' /\ AnswersTo(Unreceived', call')
        /\ \A k \in 1..Len(toServer') : toServer'[k] = call'
    BY <2>1, <2>2, <2>3, <2>4 DEF InStep
  <2> QED BY <2>1, <2>4, <2>5, Zenon DEF InStep
<1>10. CASE Ignore
  <2>1. /\ UNCHANGED <<pc, left, ok, kind, num_pl2_pkt, call, pkts, mRspBuf, mNumBytesRsp, sock, net, outOfStep>> /\ ~outOfStep
        /\ toServer # <<>> /\ toServer' = Tail(toServer)
    BY <1>10 DEF Ignore, callVars, history
  <2>2. Unreceived' = Unreceived /\ InStep
    BY <1>i, <2>1, Zenon DEF Unreceived
  <2> DEFINE t == Len(toServer)
             v == Len(toServer')
  <2>3. t \in Nat /\ v = t - 1 /\ \A k \in 1..v : k + 1 \in 1..t /\ toServer'[k] = toServer[k + 1]
    BY <1>t, <2>1, SMT
  <2>4. \A k \in 1..v : toServer'[k] = call
    BY <2>2, <2>3 DEF InStep
  <2>5. Outstanding' <= Due'
    <3>1. t + ((pkts + 1) - First) <= Due /\ v = t - 1 /\ t \in Nat
      BY <2>2, <2>3 DEF InStep, Outstanding
    <3> HIDE DEF t, v
    <3>2. v + ((pkts + 1) - First) <= Due
      BY <1>t, <3>1, SMT
    <3>3. First' = First /\ Due' = Due
      BY <2>1, <2>2 DEF First, Due
    <3> QED BY <2>1, <3>2, <3>3 DEF v, Outstanding
  <2> QED BY <2>1, <2>2, <2>4, <2>5, Zenon DEF InStep
<1>a. ASSUME pc = "idle", pc' \in {"send", "header"}, UNCHANGED <<pkts, toServer, sock, net, outOfStep>>, mRspBuf' = <<>>,
             num_pl2_pkt' \in Nat, left' = num_pl2_pkt'
      PROVE  InStep'
  <2>1. InStep /\ Due = 0
    BY <1>a, <1>i DEF Due
  <2>2. Outstanding = 0
    BY <1>t, <2>1, SMT DEF InStep
  <2>3. Unreceived' = <<>> /\ toServer' = <<>>
    BY <1>a, <1>t, <1>u, <2>2
  <2>4. First' = pkts + 1 /\ Len(toServer') = 0
    BY <1>a, <2>3, EmptyType DEF First
  <2>5. Due' \in Nat
    BY <1>a DEF Due
  <2>6. 0 + ((pkts + 1) - (pkts + 1)) <= Due'
    BY <1>t, <2>5, SMT
  <2>7. Numbered(Unreceived, pkts)' /\ AnswersTo(Unreceived, call)' /\ AnswersTo(mRspBuf, call)'
    BY <1>a, <2>3, AnswersEmpty
  <2>8. \A k \in 1..0 : FALSE
    BY SMT
  <2> QED BY <1>a, <2>4, <2>6, <2>7, <2>8 DEF InStep, Outstanding
<1>11. CASE \E n \in 1..MaxPkts : send(n) \/ execute(n)
  <2>1. PICK n \in 1..MaxPkts : send(n) \/ execute(n)
    BY <1>11
  <2>2. ~send(n)
    BY DEF send, Begin
  <2>3. /\ pc = "idle" /\ pc' = "send" /\ UNCHANGED <<pkts, toServer, sock, net>> /\ mRspBuf' = <<>>
        /\ num_pl2_pkt' = n /\ left' = n
    BY <2>1, <2>2 DEF execute, Begin, envVars, history
  <2>4. UNCHANGED outOfStep
    BY <2>1, <2>2, <1>b, Zenon DEF execute, Begin
  <2>5. n \in Nat
    BY SizeAssumption, SMT
  <2> QED BY <1>a, <2>3, <2>4, <2>5
<1>12. CASE receive
  <2>1. /\ pc = "idle" /\ pc' = "header" /\ UNCHANGED <<pkts, toServer, sock, net>> /\ mRspBuf' = <<>>
        /\ num_pl2_pkt' = 1 /\ left' = 1
    BY <1>12 DEF receive, Begin, envVars, history
  <2>2. UNCHANGED outOfStep
    BY <1>12, <1>b, Zenon DEF receive, Begin
  <2> QED BY <1>a, <2>1, <2>2
<1>13. ASSUME NEW size \in RspSizes, Answer(size)
       PROVE  InStep'
  <2> DEFINE rq == Head(toServer)
             U  == Unreceived
             p  == Packet(size, rq)
             t  == Len(toServer)
             v  == Len(toServer')
  <2>1. /\ UNCHANGED <<pc, left, ok, kind, num_pl2_pkt, call, mRspBuf, mNumBytesRsp, sock, outOfStep>> /\ ~outOfStep
        /\ toServer # <<>> /\ toServer' = Tail(toServer)
        /\ net' = net \o Packet(size, rq) /\ pkts' = pkts + 1
    BY <1>13 DEF Answer, Serves, callVars
  <2>2. InStep
    BY <1>i, <2>1
  <2>3. rq \in 0..call /\ rq = toServer[1] /\ 1 \in 1..Len(toServer)
    BY <1>t, <2>1, SMT
  <2>4. rq = call
    BY <2>2, <2>3 DEF InStep
  <2>5. Unreceived' = Unreceived \o Packet(size, rq) /\ Unreceived \in Seq(Words')
    BY <2>1, <2>3, ServesStream
  <2>6. /\ p \in Seq(Words') /\ Len(p) = size /\ size \in Nat /\ size >= 2
        /\ \A k \in 1..size : p[k] = [pkt |-> pkts + 1, i |-> k - 1, len |-> size, rq |-> rq]
    BY <2>1, <2>3, PacketWords
  <2>7. t \in Nat /\ v = t - 1 /\ \A k \in 1..v : k + 1 \in 1..t /\ toServer'[k] = toServer[k + 1]
    BY <1>t, <2>1, SMT
  <2>8. \A k \in 1..v : toServer'[k] = call
    BY <2>2, <2>7 DEF InStep
  <2> HIDE DEF p, U, rq
  <2>9. /\ \A k \in 1..Len(p) : p[k].pkt = pkts + 1 /\ p[k].i = k - 1 /\ p[k].len = Len(p)
        /\ AnswersTo(p, call) /\ 1 \in 1..Len(p) /\ p[1].pkt = pkts + 1 /\ p # <<>>
    <3>1. 1 \in 1..size
      BY <2>6, SMT
    <3>2. p # <<>>
      BY <2>6, EmptyType, SMT
    <3> QED BY <2>4, <2>6, <3>1, <3>2 DEF AnswersTo
  <2>10. U' = U \o p /\ U \in Seq(Words')
    BY <2>5 DEF U, p
  <2>11. Numbered(U, pkts) /\ AnswersTo(U, call)
    BY <2>2 DEF InStep, U
  <2>12. Numbered(U', pkts') /\ AnswersTo(U', call)
    BY <1>t, <2>1, <2>6, <2>9, <2>10, <2>11, NumberedAppend, AnswersConcat
  <2>13. First' = First
    <3>1. CASE U = <<>>
      <4>1. U' = p
        BY <2>6, <2>10, <3>1, ConcatEmpty
      <4> QED BY <2>9, <3>1, <4>1 DEF First, U
    <3>2. CASE U # <<>>
      <4>1. 1 \in 1..Len(U) /\ Len(U) \in Nat
        BY <2>10, <3>2, SMT
      <4>2. U'[1] = U[1]
        BY <2>6, <2>10, <4>1, ConcatAt
      <4>3. U' # <<>>
        <5>1. Len(U') = Len(U) + Len(p)
          BY <2>6, <2>10, ConcatType
        <5>2. Len(U) + Len(p) # 0
          BY <2>6, <4>1, SMT
        <5> QED BY <5>1, <5>2, EmptyType
      <4> QED BY <3>2, <4>2, <4>3 DEF First, U
    <3> QED BY <3>1, <3>2
  <2>14. Outstanding' <= Due'
    <3>1. t + ((pkts + 1) - First) <= Due /\ v = t - 1 /\ t \in Nat
      BY <2>2, <2>7 DEF InStep, Outstanding
    <3> HIDE DEF t, v
    <3>2. v + (((pkts + 1) + 1) - First) <= Due
      BY <1>t, <3>1, SMT
    <3>3. Due' = Due
      BY <2>1 DEF Due
    <3> QED BY <2>1, <2>13, <3>2, <3>3 DEF v, Outstanding
  <2> QED BY <2>1, <2>2, <2>8, <2>12, <2>14, Zenon DEF InStep, U
<1>14. ASSUME NEW size \in RspSizes, Push(size)
       PROVE  InStep'
  BY <1>14 DEF Push
<1>15. CASE \E size \in RspSizes : Answer(size) \/ Push(size)
  BY <1>13, <1>14, <1>15
<1> QED BY <1>1, <1>2, <1>3, <1>4, <1>5, <1>6, <1>7, <1>8, <1>9, <1>10, <1>11, <1>12, <1>15,
           Zenon DEF Next, ReceiveStep

\* While the answers are in step with the calls and no read was short, the packets not
\* received and the requests on their way to the server are, together, those of the
\* running call.
THEOREM Answers == Spec => []AnswerInv
<1>1. Init => AnswerInv
  <2> SUFFICES ASSUME Init PROVE InStep
    BY DEF AnswerInv
  <2>1. /\ Unreceived = (<<>> \o <<>>) \o <<>> /\ toServer = <<>> /\ pc = "idle" /\ pkts = 0
        /\ ~(ok /\ kind = "execute")
    BY Zenon DEF Init, Unreceived
  <2>2. <<>> \in Seq(Words) /\ <<>> \o <<>> = <<>>
    BY EmptyType, ConcatEmpty
  <2>3. First = 0 + 1 /\ Len(toServer) = 0
    BY <2>1, <2>2, EmptyType DEF First
  <2>4. Outstanding = 0 + ((0 + 1) - (0 + 1)) /\ Due = 0
    BY <2>1, <2>3 DEF Outstanding, Due
  <2>5. Outstanding <= Due
    BY <2>4, SMT
  <2>6. \A k \in 1..0 : FALSE
    BY SMT
  <2> QED BY <2>1, <2>2, <2>3, <2>5, <2>6, AnswersEmpty DEF InStep
<1>2. TypeOK /\ FrameInv /\ AnswerInv /\ [Next]_vars => AnswerInv'
  <2> SUFFICES ASSUME TypeOK, FrameInv, AnswerInv, [Next]_vars PROVE AnswerInv'
    OBVIOUS
  <2>1. CASE UNCHANGED vars
    <3>1. /\ UNCHANGED <<pc, mRspBuf, mNumBytesRsp, sock, net, kind, left, num_pl2_pkt, ok, call, pkts>>
          /\ UNCHANGED <<toServer, outOfStep, short>>
      BY <2>1 DEF vars, callVars, envVars, history
    <3>2. Unreceived' = Unreceived
      BY <3>1, Zenon DEF Unreceived
    <3>3. Outstanding' = Outstanding /\ Due' = Due
      BY <3>1, <3>2 DEF Outstanding, First, Due
    <3> QED BY <3>1, <3>2, <3>3, Zenon DEF AnswerInv, InStep
  <2>2. CASE Next
    BY <2>2, AnswerStep DEF AnswerInv
  <2> QED BY <2>1, <2>2
<1> QED BY <1>1, <1>2, Typing, Framing, PTL DEF Spec

\* As long as no call has timed out, no read was short and nothing but execute() has
\* made the server send, what execute() received are the answers to what it has sent.
THEOREM Own == Spec => []OwnAnswers
<1>1. TypeOK /\ AnswerInv => OwnAnswers
  <2> SUFFICES ASSUME TypeOK, AnswerInv, pc = "idle", ok, kind = "execute", ~outOfStep, ~short
               PROVE  \A k \in DOMAIN mRspBuf : mRspBuf[k].rq = call
    BY DEF OwnAnswers
  <2>1. AnswersTo(mRspBuf, call)
    BY DEF AnswerInv, InStep
  <2>2. DOMAIN mRspBuf = 1..Len(mRspBuf)
    BY StreamType, SMT
  <2> QED BY <2>1, <2>2 DEF AnswersTo
<1> QED BY <1>1, Typing, Answers, PTL

--------------------------------------------------------------------------------
(* The mailbox implements the channel.                                        *)

LEMMA PartOf ==
    ASSUME NEW S, NEW s \in Seq(S), NEW n \in Nat
    PROVE  LET r == SubSeq(s, 1, IF n < Len(s) THEN n ELSE Len(s))
           IN  /\ Len(s) = n => r = s
               /\ Len(s) = n + 1 => r = SubSeq(s, 1, n)
               /\ s = <<>> => r = <<>>
<1> DEFINE m == Len(s)
           r == SubSeq(s, 1, IF n < m THEN n ELSE m)
<1>1. m \in Nat
  BY SMT
<1>2. SubSeq(s, 1, m) = s
  BY SubSeqAll
<1>3. (m = n => (IF n < m THEN n ELSE m) = m) /\ (m = n + 1 => (IF n < m THEN n ELSE m) = n)
      /\ (m = 0 => (IF n < m THEN n ELSE m) = m)
  <2> HIDE DEF m
  <2> QED BY <1>1, SMT
<1>4. s = <<>> => m = 0
  BY EmptyType
<1> QED BY <1>2, <1>3, <1>4

\* What a call has got, in the middle of a packet and elsewhere.
LEMMA ReceivedIs ==
    ASSUME TypeOK
    PROVE  /\ pc \in {"header", "body"} => Received = SubSeq(mRspBuf, 1, mNumBytesRsp)
           /\ mRspBuf = <<>> => Received = <<>>
<1>1. mRspBuf \in Seq(Words) /\ mNumBytesRsp \in Nat /\ Len(mRspBuf) \in Nat
      /\ (pc = "header" => Len(mRspBuf) = mNumBytesRsp)
      /\ (pc = "body" => Len(mRspBuf) = mNumBytesRsp + 1)
  BY StreamType
<1>2. Len(mRspBuf) = mNumBytesRsp => SubSeq(mRspBuf, 1, mNumBytesRsp) = mRspBuf
  BY <1>1, SubSeqAll
<1> QED BY <1>1, <1>2, PartOf DEF Received

LEMMA ReceivedAfter ==
    ASSUME TypeOK'
    PROVE  /\ pc' = "header" => Received' = mRspBuf'
           /\ mRspBuf' = <<>> => Received' = <<>>
<1>1. /\ mRspBuf' \in Seq(Words') /\ mNumBytesRsp' \in Nat
      /\ pc' = "header" => Len(mRspBuf') = mNumBytesRsp'
  <2>1. mRspBuf' \in Seq(Words') /\ mNumBytesRsp' \in 0..MaxRsp
    BY Zenon DEF TypeOK
  <2>2. mNumBytesRsp' \in Nat
    BY <2>1, SizeAssumption, SMT
  <2>3. ASSUME pc' = "header" PROVE Len(mRspBuf') = mNumBytesRsp'
    <3> DEFINE v == mNumBytesRsp'
    <3>1. Len(mRspBuf') = v + (IF pc' = "body" THEN 1 ELSE 0)
      BY <2>3, Zenon DEF TypeOK
    <3>2. v \in Nat /\ (IF pc' = "body" THEN 1 ELSE 0) = 0
      BY <2>2, <2>3, SMT
    <3> HIDE DEF v
    <3>3. v + 0 = v
      BY <3>2, SMT
    <3> QED BY <3>1, <3>2, <3>3 DEF v
  <2> QED BY <2>1, <2>2, <2>3
<1> QED BY <1>1, PartOf DEF Received

\* The step of the channel that a step of the mailbox is.
LEMMA ChannelStep ==
    ASSUME TypeOK, TypeOK', FrameInv, Next
    PROVE  Channel!Next \/ UNCHANGED Channel!vars
<1> DEFINE up == mSocket = "up"
           running == pc # "idle"
           taken == Wanted - left
<1>t. /\ left \in Nat /\ num_pl2_pkt \in Nat /\ left <= num_pl2_pkt /\ Wanted \in Nat
      /\ pc \in {"idle", "send", "header", "body"} /\ ok \in BOOLEAN
      /\ mSocket = "up" \/ (net = <<>> /\ sock = <<>> /\ toServer = <<>>)
      /\ pc = "send" => mRspBuf = <<>>
  <2>1. /\ left \in Nat /\ num_pl2_pkt \in Nat /\ left <= num_pl2_pkt
        /\ pc \in {"idle", "send", "header", "body"}
        /\ mSocket = "up" \/ (net = <<>> /\ sock = <<>> /\ toServer = <<>>)
        /\ pc = "send" => mRspBuf = <<>>
    BY SMT DEF TypeOK
  <2>2. ok \in BOOLEAN
    BY Zenon DEF TypeOK
  <2>3. Wanted \in Nat
    BY <2>1, SMT DEF Wanted
  <2> QED BY <2>1, <2>2, <2>3, Zenon
<1>u. ASSUME pc # "body", pc' # "body", UNCHANGED <<sock, net>> PROVE Unreceived' = Unreceived
  BY <1>u, Zenon DEF Unreceived
<1>g. ASSUME UNCHANGED <<mRspBuf, mNumBytesRsp>> PROVE Received' = Received
  BY <1>g DEF Received
<1>w. ASSUME UNCHANGED <<kind, num_pl2_pkt>> PROVE Wanted' = Wanted
  BY <1>w DEF Wanted
\* A call that gives up the connection it has or finds none.
<1>d. ASSUME pc # "idle", mSocketDisconnect, pc' = "idle", ok' = FALSE, mSocket = "up" \/ pc # "body",
             UNCHANGED <<kind, num_pl2_pkt, left, short>>, Received' = Received
      PROVE  Channel!Next
  <2>1. Unreceived' = <<>>
    <3>1. Unreceived' = (<<>> \o <<>>) \o <<>>
      BY <1>d, Zenon DEF Unreceived, mSocketDisconnect
    <3>2. <<>> \in Seq(Words) /\ <<>> \o <<>> = <<>>
      BY EmptyType, ConcatEmpty
    <3> QED BY <3>1, <3>2
  <2>2. mSocket' = "none"
    BY <1>d DEF mSocketDisconnect
  <2>3. CASE mSocket = "up"
    <3>1. Channel!Lose
      BY <1>d, <1>w, <2>1, <2>2, <2>3 DEF Channel!Lose
    <3> QED BY <3>1 DEF Channel!Next
  <2>4. CASE mSocket # "up"
    <3>1. Unreceived = (<<>> \o <<>>) \o <<>>
      BY <1>d, <1>t, <2>4, Zenon DEF Unreceived
    <3>2. <<>> \in Seq(Words) /\ <<>> \o <<>> = <<>>
      BY EmptyType, ConcatEmpty
    <3>3. Channel!Return
      BY <1>d, <1>w, <2>1, <2>2, <2>4, <3>1, <3>2 DEF Channel!Return
    <3> QED BY <3>3 DEF Channel!Next
  <2> QED BY <2>3, <2>4
<1>1. CASE server_connect
  <2>1. /\ pc = "idle" /\ pc' = "idle" /\ sock' = <<>> /\ net' = <<>> /\ kind' = "connect" /\ ~established
        /\ short' = FALSE
        /\ UNCHANGED <<num_pl2_pkt, left, ok, mRspBuf, mNumBytesRsp>>
    BY <1>1 DEF server_connect
  <2>2. Unreceived' = (<<>> \o <<>>) \o <<>>
    BY <2>1, Zenon DEF Unreceived
  <2>3. <<>> \in Seq(Words) /\ <<>> \o <<>> = <<>>
    BY EmptyType, ConcatEmpty
  <2>4. Wanted' = Wanted
    BY <2>1 DEF Wanted, FrameInv
  <2>5. Channel!Connect
    BY <1>g, <2>1, <2>2, <2>3, <2>4 DEF Channel!Connect
  <2> QED BY <2>5 DEF Channel!Next
<1>2. CASE Send
  <2>1. pc = "send" /\ UNCHANGED <<mRspBuf, left, kind, num_pl2_pkt, short>> /\ mRspBuf = <<>>
    BY <1>2, <1>t DEF Send, callVars
  <2>2. Received' = Received
    <3>1. Received = <<>>
      BY <2>1, ReceivedIs
    <3>2. Received' = <<>>
      BY <2>1, ReceivedAfter
    <3> QED BY <3>1, <3>2
  <2>3. CASE mSocketDisconnect /\ pc' = "idle" /\ ok' = FALSE
    BY <1>d, <2>1, <2>2, <2>3
  <2>4. CASE pc' = "header" /\ UNCHANGED <<mSocket, ok, net, sock>>
    <3>1. UNCHANGED Channel!vars
      BY <1>u, <1>w, <2>1, <2>2, <2>4 DEF Channel!vars
    <3> QED BY <3>1
  <2> QED BY <1>2, <2>3, <2>4 DEF Send, Returns
<1>3. CASE RecvHeader
  <2>1. UNCHANGED <<kind, num_pl2_pkt, left, short>> /\ pc = "header"
    BY <1>3 DEF RecvHeader, Receiving, callVars
  <2>2. Received' = Received
    <3>1. mRspBuf' = mRspBuf \o <<Unreceived[1]>> /\ Unreceived # <<>> /\ mNumBytesRsp' = mNumBytesRsp
      BY <1>3, RecvHeaderStream DEF RecvHeader
    <3>2. mRspBuf \in Seq(Words) /\ mNumBytesRsp \in Nat /\ Len(mRspBuf) = mNumBytesRsp /\ Unreceived \in Seq(Words)
      BY <2>1, StreamType
    <3> DEFINE w == <<Unreceived[1]>>
    <3>3. w \in Seq(Words) /\ Len(w) = 1
      <4>1. Unreceived[1] \in Words
        BY <3>1, <3>2, HeadRest
      <4> QED BY <4>1, SMT
    <3> HIDE DEF w
    <3>4. mRspBuf' = mRspBuf \o w
      BY <3>1 DEF w
    <3>5. Len(mRspBuf') = mNumBytesRsp + 1
      <4>1. Len(mRspBuf \o w) = Len(mRspBuf) + Len(w)
        BY <3>2, <3>3, ConcatType
      <4> QED BY <3>2, <3>3, <3>4, <4>1
    <3>6. Received' = SubSeq(mRspBuf \o w, 1, mNumBytesRsp)
      <4>1. (IF mNumBytesRsp < mNumBytesRsp + 1 THEN mNumBytesRsp ELSE mNumBytesRsp + 1) = mNumBytesRsp
        BY <3>2, SMT
      <4> QED BY <3>1, <3>4, <3>5, <4>1 DEF Received
    <3>7. mNumBytesRsp \in 0..Len(mRspBuf)
      BY <3>2, SMT
    <3>8. SubSeq(mRspBuf \o w, 1, mNumBytesRsp) = SubSeq(mRspBuf, 1, mNumBytesRsp)
      BY <3>2, <3>3, <3>7, PrefixOfConcat
    <3> QED BY <2>1, <3>6, <3>8, ReceivedIs
  <2>3. CASE BadHeader
    BY <1>d, <2>1, <2>2, <2>3 DEF BadHeader, Returns
  <2>4. CASE pc' = "body" /\ Unreceived' = Unreceived /\ UNCHANGED <<mSocket, ok>>
    <3>1. UNCHANGED Channel!vars
      BY <1>w, <2>1, <2>2, <2>4 DEF Channel!vars
    <3> QED BY <3>1
  <2>5. CASE /\ short /\ pc' = "idle" /\ ok' = FALSE /\ UNCHANGED mSocket
             /\ Unreceived' = SubSeq(Unreceived, 1 + 1, Len(Unreceived))
    <3>1. 1 \in 1..Len(Unreceived)
      <4>1. Unreceived # <<>> /\ Unreceived \in Seq(Words)
        BY <1>3, RecvHeaderStream, StreamType
      <4> QED BY <4>1, SMT
    <3>2. Channel!Waste
      BY <1>w, <2>1, <2>2, <2>5, <3>1 DEF Channel!Waste
    <3> QED BY <3>2 DEF Channel!Next
  <2> QED BY <1>3, <2>3, <2>4, <2>5, RecvHeaderStream
<1>4. CASE HeaderTimeout
  <2>1. /\ pc = "header" /\ pc' = "idle" /\ ok' = FALSE
        /\ UNCHANGED <<mSocket, sock, net, kind, num_pl2_pkt, left, mNumBytesRsp, short>>
        /\ mRspBuf' = SubSeq(mRspBuf, 1, mNumBytesRsp)
    BY <1>4 DEF HeaderTimeout, Receiving, Returns, callVars, envVars
  <2>2. Received' = Received
    <3>1. mRspBuf \in Seq(Words) /\ mNumBytesRsp \in Nat /\ Len(mRspBuf) = mNumBytesRsp
      BY <2>1, StreamType
    <3>2. mRspBuf' = mRspBuf
      BY <2>1, <3>1, SubSeqAll
    <3> QED BY <1>g, <2>1, <3>2
  <2>3. Channel!Return
    BY <1>u, <1>w, <2>1, <2>2 DEF Channel!Return
  <2> QED BY <2>3 DEF Channel!Next
<1>5. CASE HeaderClosed
  BY <1>5, <1>d, <1>g DEF HeaderClosed, Receiving, Returns, callVars
<1>6. ASSUME RecvBody, short' PROVE Channel!TakeCut
  <2>1. /\ pc = "body" /\ left > 0 /\ left' = left - 1 /\ pc' = "header" /\ mSocket = "up"
        /\ UNCHANGED <<kind, num_pl2_pkt, mSocket, ok>>
    BY <1>6 DEF RecvBody, Receiving, callVars
  <2>2. Wanted - left < Wanted /\ Wanted - (left - 1) = (Wanted - left) + 1
    BY <1>t, <2>1, SMT
  <2>3. PICK u \in Seq(Words) : mRspBuf' = mRspBuf \o u
    BY <1>6, CutBodyStream
  <2>4. SubSeq(Received', 1, Len(Received)) = Received
    <3>1. /\ mRspBuf \in Seq(Words) /\ mNumBytesRsp \in Nat /\ mNumBytesRsp \in 0..Len(mRspBuf)
      <4>1. mRspBuf \in Seq(Words) /\ mNumBytesRsp \in Nat /\ Len(mRspBuf) = mNumBytesRsp + 1
        BY <2>1, StreamType
      <4> QED BY <4>1, SMT
    <3>2. Received = SubSeq(mRspBuf, 1, mNumBytesRsp) /\ Received' = mRspBuf \o u
      BY <2>1, <2>3, ReceivedIs, ReceivedAfter
    <3>3. Len(Received) = mNumBytesRsp
      BY <3>1, <3>2, PrefixType, SMT
    <3>4. SubSeq(mRspBuf \o u, 1, mNumBytesRsp) = SubSeq(mRspBuf, 1, mNumBytesRsp)
      BY <3>1, PrefixOfConcat
    <3> QED BY <3>2, <3>3, <3>4
  <2>5. \E n \in 1..Len(Unreceived) : Unreceived' = SubSeq(Unreceived, n + 1, Len(Unreceived))
    BY <1>6, CutBodyStream
  <2> QED BY <1>6, <1>w, <2>1, <2>2, <2>4, <2>5 DEF Channel!TakeCut
<1>m. ASSUME RecvBody, ~short' PROVE Channel!Take
  <2> DEFINE U == Unreceived
             n == U[1].len
  <2>1. /\ pc = "body" /\ left > 0 /\ left' = left - 1 /\ pc' = "header" /\ mSocket = "up"
        /\ UNCHANGED <<kind, num_pl2_pkt, mSocket, ok>>
    BY <1>m DEF RecvBody, Receiving, callVars
  <2>s. ~short /\ short' = short
    <3>1. ~short
      BY <1>m DEF RecvBody
    <3>2. short \in BOOLEAN /\ short' \in BOOLEAN
      BY Zenon DEF TypeOK
    <3> QED BY <1>m, <3>1, <3>2
  <2>2. /\ U # <<>> /\ n \in 2..Len(U)
        /\ U' = SubSeq(U, n + 1, Len(U))
        /\ mRspBuf' = SubSeq(mRspBuf, 1, mNumBytesRsp) \o SubSeq(U, 1, n)
    BY <1>m, RecvBodyStream
  <2>3. Received = SubSeq(mRspBuf, 1, mNumBytesRsp)
    BY <2>1, ReceivedIs
  <2>4. Received' = mRspBuf'
    BY <2>1, ReceivedAfter
  <2>5. U \in Seq(Words)
    BY StreamType
  <2>6. \A j \in 1..n : U[j].pkt = U[1].pkt /\ U[j].i = j - 1 /\ U[j].len = n
    BY <2>s, <2>2, <2>5, FramedPacket DEF FrameInv
  <2> HIDE DEF U, n
  <2> DEFINE p == SubSeq(U, 1, n)
  <2>7. Len(U) \in Nat /\ n \in Nat /\ n >= 2 /\ n <= Len(U) /\ n \in 1..Len(U)
    BY <2>2, <2>5, SMT
  <2>8. p \in Seq(Words) /\ Len(p) = n /\ 1 \in 1..n /\ \A j \in 1..n : p[j] = U[j]
    BY <2>5, <2>7, SMT
  <2> HIDE DEF p
  <2>9. DOMAIN p = 1..n
    BY <2>8, SMT
  <2>10. p # <<>>
    BY <2>7, <2>8, EmptyType, SMT
  <2>11. Channel!IsPkt(p)
    BY <2>6, <2>8, <2>9, <2>10 DEF Channel!IsPkt
  <2>12. Wanted - left < Wanted /\ Wanted - (left - 1) = (Wanted - left) + 1
    BY <1>t, <2>1, SMT
  <2>13. Received' = Received \o p
    BY <2>2, <2>3, <2>4 DEF p
  <2> QED BY <1>w, <2>1, <2>2, <2>s, <2>7, <2>11, <2>12, <2>13 DEF Channel!Take, U, p
<1>x. CASE RecvBody
  BY <1>6, <1>m, <1>x DEF Channel!Next
<1>7. CASE BodyLost
  BY <1>7, <1>d, <1>g DEF BodyLost, Receiving, Returns, callVars, FrameInv
<1>8. CASE Done
  <2>1. /\ pc = "header" /\ pc' = "idle" /\ left = 0 /\ ok' = TRUE
        /\ UNCHANGED <<sock, net, kind, num_pl2_pkt, left, mRspBuf, mNumBytesRsp, mSocket, short>>
    BY <1>8 DEF Done, Returns, callVars, envVars
  <2>2. Wanted - left = Wanted
    BY <1>t, <2>1, SMT
  <2>3. Channel!Return
    BY <1>u, <1>w, <1>g, <2>1, <2>2 DEF Channel!Return
  <2> QED BY <2>3 DEF Channel!Next
<1>9. CASE Arrive \/ Ignore \/ ServerCloses
  <2>1. UNCHANGED <<pc, left, ok, kind, num_pl2_pkt, mRspBuf, mNumBytesRsp, mSocket, short>>
    BY <1>9 DEF Arrive, Ignore, ServerCloses, callVars
  <2>2. Unreceived' = Unreceived
    <3>1. CASE Arrive
      BY <3>1, ArriveStream
    <3>2. CASE Ignore \/ ServerCloses
      BY <3>2, Zenon DEF Ignore, ServerCloses, Unreceived
    <3> QED BY <1>9, <3>1, <3>2
  <2>3. UNCHANGED Channel!vars
    BY <1>w, <1>g, <2>1, <2>2 DEF Channel!vars
  <2> QED BY <2>3
<1>c. ASSUME pc = "idle", pc' \in {"send", "header"}, UNCHANGED <<sock, net, mSocket, ok, short>>, mRspBuf' = <<>>,
             Wanted' \in 0..MaxPkts, left' = Wanted'
      PROVE  Channel!Next
  <2>1. Unreceived' = Unreceived
    BY <1>c, <1>u
  <2>2. Received' = <<>>
    BY <1>c, ReceivedAfter
  <2>3. Wanted' - left' = 0
    <3> DEFINE v == Wanted'
    <3>1. v \in Nat
      BY <1>c, SizeAssumption, SMT
    <3> HIDE DEF v
    <3>2. v - v = 0
      BY <3>1, SMT
    <3> QED BY <1>c, <3>2 DEF v
  <2>4. Channel!Call
    BY <1>c, <2>1, <2>2, <2>3 DEF Channel!Call
  <2> QED BY <2>4 DEF Channel!Next
<1>10. CASE \E n \in 1..MaxPkts : send(n) \/ execute(n)
  <2>1. PICK n \in 1..MaxPkts : send(n) \/ execute(n)
    BY <1>10
  <2>2. /\ pc = "idle" /\ pc' = "send" /\ UNCHANGED <<sock, net, mSocket, ok, short>> /\ mRspBuf' = <<>>
        /\ num_pl2_pkt' = n /\ kind' \in {"send", "execute"} /\ left' = IF kind' = "send" THEN 0 ELSE n
    BY <2>1 DEF send, execute, Begin, envVars
  <2>3. n \in 0..MaxPkts /\ 0 \in 0..MaxPkts
    BY SizeAssumption, SMT
  <2> QED BY <1>c, <2>2, <2>3 DEF Wanted
<1>11. CASE receive
  <2>1. /\ pc = "idle" /\ pc' = "header" /\ UNCHANGED <<sock, net, mSocket, ok, short>> /\ mRspBuf' = <<>>
        /\ num_pl2_pkt' = 1 /\ kind' = "receive" /\ left' = 1
    BY <1>11 DEF receive, Begin, envVars
  <2>2. 1 \in 0..MaxPkts
    BY SizeAssumption, SMT
  <2> QED BY <1>c, <2>1, <2>2 DEF Wanted
<1>12. ASSUME NEW size \in RspSizes, Answer(size) \/ Push(size)
       PROVE  Channel!ServerSends
  <2>0. toServer \in Seq(0..call) /\ call \in Nat
    BY DEF TypeOK
  <2>1. PICK rq \in 0..call : Serves(size, rq)
    BY <1>12, <2>0, SMT DEF Answer, Push
  <2> DEFINE U == Unreceived
             p == Packet(size, rq)
             q == SubSeq(U', Len(U) + 1, Len(U'))
  <2>2. /\ mSocket = "up" /\ pkts' = pkts + 1 /\ net' = net \o p /\ call' = call
        /\ UNCHANGED <<mSocket, mRspBuf, mNumBytesRsp, pc, left, ok, sock, kind, num_pl2_pkt, short>>
    BY <2>1 DEF Serves, callVars
  <2>3. U' = U \o p /\ U \in Seq(Words')
    BY <2>2, ServesStream
  <2>4. /\ p \in Seq(Words') /\ Len(p) = size /\ size \in Nat /\ size >= 2
        /\ \A k \in 1..size : p[k] = [pkt |-> pkts + 1, i |-> k - 1, len |-> size, rq |-> rq]
    BY <2>2, PacketWords
  <2> HIDE DEF U, p
  <2>5. q = p
    BY <2>3, <2>4, RestOfConcat
  <2>6. DOMAIN p = 1..size /\ 1 \in 1..size
    BY <2>4, SMT
  <2>7. p # <<>>
    BY <2>4, EmptyType, SMT
  <2>8. Channel!IsPkt(p)
    BY <2>4, <2>6, <2>7 DEF Channel!IsPkt
  <2> QED BY <1>g, <1>w, <2>2, <2>3, <2>5, <2>8 DEF Channel!ServerSends, U
<1>13. CASE \E size \in RspSizes : Answer(size) \/ Push(size)
  BY <1>12, <1>13 DEF Channel!Next
<1> QED BY <1>1, <1>2, <1>3, <1>4, <1>5, <1>x, <1>7, <1>8, <1>9, <1>10, <1>11, <1>13,
           Zenon DEF Next, ReceiveStep

\* The mailbox implements the channel: until a read is short it hands over packets
\* whole, once and in their order, a call succeeds only with all it wanted, and one
\* that fails leaves whole packets or no connection; after that it still takes no
\* word twice and leaves alone what it has handed over.
THEOREM Implements == Spec => ChannelSpec
<1>1. Init => Channel!Init
  <2> SUFFICES ASSUME Init PROVE Channel!Init
    OBVIOUS
  <2>1. /\ Unreceived = (<<>> \o <<>>) \o <<>> /\ pc = "idle" /\ mSocket = "none" /\ kind = "connect" /\ num_pl2_pkt = 0
        /\ left = 0 /\ ok = FALSE /\ mRspBuf = <<>> /\ mNumBytesRsp = 0 /\ short = FALSE
    BY Zenon DEF Init, Unreceived
  <2>2. <<>> \in Seq(Words) /\ <<>> \o <<>> = <<>>
    BY EmptyType, ConcatEmpty
  <2>3. Received = <<>>
    BY <2>1, <2>2, PartOf DEF Received
  <2>4. Wanted = 0 /\ Wanted - left = 0
    BY <2>1, SMT DEF Wanted
  <2> QED BY <2>1, <2>2, <2>3, <2>4, SMT DEF Channel!Init
<1>2. TypeOK /\ TypeOK' /\ FrameInv /\ [Next]_vars => [Channel!Next]_(Channel!vars)
  <2> SUFFICES ASSUME TypeOK, TypeOK', FrameInv, [Next]_vars
               PROVE  Channel!Next \/ UNCHANGED Channel!vars
    OBVIOUS
  <2>1. CASE UNCHANGED vars
    <3>1. UNCHANGED <<pc, mRspBuf, mNumBytesRsp, sock, net, mSocket, kind, num_pl2_pkt, left, ok, short>>
      BY <2>1 DEF vars, callVars, envVars
    <3>2. Unreceived' = Unreceived /\ Received' = Received /\ Wanted' = Wanted
      BY <3>1, Zenon DEF Unreceived, Received, Wanted
    <3> QED BY <3>1, <3>2 DEF Channel!vars
  <2> QED BY <2>1, ChannelStep
<1> QED BY <1>1, <1>2, Typing, Framing, PTL DEF Spec, ChannelSpec, Channel!Spec
================================================================================
