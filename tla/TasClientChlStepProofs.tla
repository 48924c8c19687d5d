------------------------ MODULE TasClientChlStepProofs -------------------------
(******************************************************************************)
(* What holds of the channel client while it is in step, that is, as long as  *)
(* no call has timed out and no packet came that nobody asked for: every call *)
(* takes its own answer (OwnResponse), into a buffer that is large enough     *)
(* (BuffersHold), the client and the server have the same channel             *)
(* (SubscriptionAgreed), and messages reach the server only for a channel     *)
(* that may send (NoStrayMsg). All four follow from StepInv, which says where *)
(* the request of the running call is: nowhere (Quiet), underway (Asked), or  *)
(* answered (Told), and which messages may be before and behind it.           *)
(******************************************************************************)
EXTENDS TasClientChlProofs

--------------------------------------------------------------------------------
(* In step: as long as no call has timed out, and no packet came that none asked *)
(* for, what is underway is known. Before the request of the running call there *)
(* are only messages of the client, for the channel that the server has; beside *)
(* its answer there are only messages of the device, before it if the call is   *)
(* unsubscribe(), after it if the call is subscribe().                        *)

Match(rq, sub) == rq.cmd = "CHL_MSG_C2D" /\ sub.cht \in Sending /\ rq.v.chl = sub.chl

Sends(rqs, sub) == IsSeq(rqs) /\ \A k \in 1..Len(rqs) : Match(rqs[k], sub)

\* The command with which a method asks.
Asks(name, cmd) ==
    \/ name = "server_connect" /\ cmd = "SERVER_CONNECT"
    \/ name = "get_targets" /\ cmd = "GET_TARGETS"
    \/ name = "get_target_clients" /\ cmd = "GET_CLIENTS"
    \/ name = "session_start" /\ cmd = "SESSION_START"
    \/ name = "target_ping" /\ cmd = "PING"
    \/ name = "device_unlock_set_key" /\ cmd = "SET_DEVICE_KEY"
    \/ name = "device_connect" /\ cmd = "DEVICE_CONNECT"
    \/ name = "subscribe" /\ cmd = "CHL_SUBSCRIBE"
    \/ name = "unsubscribe" /\ cmd = "CHL_UNSUBSCRIBE"

\* The last request is that of call id of the method name.
Asking(rqs, sub, id, name, v) ==
    /\ IsSeq(rqs) /\ Len(rqs) > 0
    /\ \A k \in 1..(Len(rqs) - 1) : Match(rqs[k], sub)
    /\ rqs[Len(rqs)].call = id /\ Asks(name, rqs[Len(rqs)].cmd)
    /\ name = "subscribe" => rqs[Len(rqs)].v = v

Msg(p) ==
    p.cmd = "CHL_MSG_D2C" /\ p.full /\ p.v.words \in Nat /\ 4 * p.v.words <= TAS_PL1_CHL_MAX_MSG_SIZE

Messages(rsps) == IsSeq(rsps) /\ \A k \in 1..Len(rsps) : Msg(rsps[k])

\* No page has more entries than a packet has room for.
Paged(p) ==
    /\ p.full \in BOOLEAN
    /\ p.cmd = "GET_TARGETS" /\ p.full => Len(p.v.items) \in 0..TargetPage
    /\ p.cmd = "GET_CLIENTS" /\ p.full => Len(p.v.items) \in 0..ClientPage

\* The packet j is the answer to call id of the method name.
Answering(rsps, j, id, name) ==
    /\ IsSeq(rsps) /\ j \in 1..Len(rsps)
    /\ \A k \in 1..Len(rsps) : k # j => Msg(rsps[k])
    /\ rsps[j].call = id /\ Asks(name, rsps[j].cmd) /\ Paged(rsps[j])
    /\ j > 1 => name = "unsubscribe"

Agreed == link = "up" => subscribed = [chl |-> mChlNum, cht |-> mChlCht]

\* No call waits for an answer that may come.
Quiet ==
    /\ pc # "wait" \/ op = "rcv_msg" \/ link # "up"
    /\ Sends(toServer, subscribed) /\ Messages(fromServer)
    /\ fromServer # <<>> => IF pc = "wait" /\ op # "rcv_msg" THEN op = "unsubscribe" ELSE mRcvChlActive
    /\ Agreed

\* The request has not reached the server.
Asked ==
    /\ pc = "wait" /\ op # "rcv_msg" /\ link = "up" /\ ~mRcvChlActive
    /\ Asking(toServer, subscribed, call, op, arg) /\ Messages(fromServer)
    /\ op # "unsubscribe" => fromServer = <<>> /\ Agreed

\* The server has answered.
Told ==
    /\ pc = "wait" /\ op # "rcv_msg" /\ toServer = <<>> /\ ~mRcvChlActive
    /\ \E j \in 1..Len(fromServer) :
        /\ Answering(fromServer, j, call, op)
        /\ IF op = "subscribe" /\ fromServer[j].err = "NO_ERROR"
           THEN /\ fromServer[j].full /\ fromServer[j].v = arg
                /\ link = "up" => subscribed = arg
                /\ j < Len(fromServer) => arg.cht \in Receiving
           ELSE j = Len(fromServer) /\ Agreed

\* What holds also when the client is not in step, so that it is after server_connect().
Outside ==
    /\ IsSeq(toServer) /\ IsSeq(fromServer)
    /\ link # "up" => toServer = <<>>
    /\ mSessionStarted => mServerIpAddr
    /\ pc = "wait" /\ op = "server_connect" => ~mServerIpAddr
    /\ ~mServerIpAddr =>
        /\ subscribed = NoChl /\ mChlCht = "NONE" /\ ~stray
        /\ pc = "wait" => op \in {"server_connect", "target_ping"}
        /\ \A k \in 1..Len(toServer) : toServer[k].cmd \in {"SERVER_CONNECT", "PING"}
    /\ pc = "wait" /\ op = "subscribe" => mChlCht = "NONE" /\ mChl = arg.chl /\ arg = [chl |-> arg.chl, cht |-> arg.cht]
    /\ pc = "wait" /\ op = "unsubscribe" => mChlCht = "NONE"
    /\ pc = "wait" /\ op = "target_ping" => arg.chl

InStep == taken = call /\ pc # "overrun" /\ ~stray /\ (Quiet \/ Asked \/ Told)

StepInv == Outside /\ (inStep => InStep)

LEMMA EmptySeq ==
    ASSUME NEW s, IsSeq(s)
    PROVE  Len(s) \in Nat /\ (s = <<>> <=> Len(s) = 0) /\ (s # <<>> => Len(s) > 0)
<1>1. Len(s) \in Nat /\ s = [k \in 1..Len(s) |-> s[k]]
  BY DEF IsSeq
<1>2. ASSUME Len(s) = 0 PROVE s = <<>>
  BY <1>1, <1>2, SMT
<1>3. ASSUME s = <<>> PROVE Len(s) = 0
  BY <1>3, ShortSeq
<1>4. Len(s) # 0 => Len(s) > 0
  BY <1>1
<1> QED BY <1>1, <1>2, <1>3, <1>4

LEMMA EmptyInterval == \A k \in 1..0 : FALSE
BY SMT

LEMMA SendsNone ==
    ASSUME NEW sub
    PROVE  Sends(<<>>, sub)
BY EmptyInterval, ShortSeq DEF Sends

LEMMA SendsMore ==
    ASSUME NEW rqs, NEW sub, Sends(rqs, sub), NEW rq, Match(rq, sub)
    PROVE  Sends(Append(rqs, rq), sub)
<1> DEFINE n == Len(rqs)
           t == Append(rqs, rq)
<1>1. n \in Nat /\ IsSeq(t) /\ Len(t) = n + 1 /\ t[n + 1] = rq /\ \A k \in 1..n : t[k] = rqs[k]
  BY AppendAny DEF Sends, IsSeq
<1>2. \A k \in 1..n : Match(rqs[k], sub)
  BY DEF Sends
<1> HIDE DEF n, t
<1>3. \A k \in 1..(n + 1) : k \in 1..n \/ k = n + 1
  BY <1>1
<1>4. \A k \in 1..(n + 1) : Match(t[k], sub)
  BY <1>1, <1>2, <1>3
<1>5. Sends(t, sub)
  BY <1>1, <1>4 DEF Sends
<1> QED BY <1>5 DEF t

LEMMA SendsTaken ==
    ASSUME NEW rqs, NEW sub, Sends(rqs, sub), rqs # <<>>
    PROVE  Match(Head(rqs), sub) /\ Sends(Tail(rqs), sub)
<1> DEFINE n == Len(rqs)
           t == Tail(rqs)
<1>1. n \in Nat /\ n > 0 /\ IsSeq(t) /\ Len(t) = n - 1 /\ Head(rqs) = rqs[1] /\ \A k \in 1..(n - 1) : t[k] = rqs[k + 1]
  BY TailAny DEF Sends, IsSeq
<1>2. \A k \in 1..n : Match(rqs[k], sub)
  BY DEF Sends
<1> HIDE DEF n, t
<1>3. 1 \in 1..n /\ \A k \in 1..(n - 1) : k + 1 \in 1..n
  BY <1>1
<1>4. \A k \in 1..(n - 1) : Match(t[k], sub)
  BY <1>1, <1>2, <1>3
<1>5. Sends(t, sub) /\ Match(Head(rqs), sub)
  BY <1>1, <1>2, <1>3, <1>4 DEF Sends
<1> QED BY <1>5 DEF t

\* A call sends its request.
LEMMA AskingOf ==
    ASSUME NEW rqs, NEW sub, Sends(rqs, sub), NEW rq, NEW id, NEW name, NEW v,
           rq.call = id, Asks(name, rq.cmd), name = "subscribe" => rq.v = v
    PROVE  Asking(Append(rqs, rq), sub, id, name, v)
<1> DEFINE n == Len(rqs)
           t == Append(rqs, rq)
<1>1. n \in Nat /\ IsSeq(t) /\ Len(t) = n + 1 /\ t[n + 1] = rq /\ \A k \in 1..n : t[k] = rqs[k]
  BY AppendAny DEF Sends, IsSeq
<1>2. \A k \in 1..n : Match(rqs[k], sub)
  BY DEF Sends
<1> HIDE DEF n, t
<1>3. (n + 1) - 1 = n /\ n + 1 > 0
  BY <1>1
<1>4. \A k \in 1..((n + 1) - 1) : Match(t[k], sub)
  BY <1>1, <1>2, <1>3
<1>5. Asking(t, sub, id, name, v)
  BY <1>1, <1>3, <1>4, Zenon DEF Asking
<1> QED BY <1>5 DEF t

\* The server takes a message, or the request.
LEMMA AskingTaken ==
    ASSUME NEW rqs, NEW sub, NEW id, NEW name, NEW v, Asking(rqs, sub, id, name, v)
    PROVE  /\ rqs # <<>>
           /\ \/ Match(Head(rqs), sub) /\ Asking(Tail(rqs), sub, id, name, v)
              \/ /\ Tail(rqs) = <<>> /\ Head(rqs).call = id /\ Asks(name, Head(rqs).cmd)
                 /\ name = "subscribe" => Head(rqs).v = v
<1> DEFINE n == Len(rqs)
           t == Tail(rqs)
<1>0. n \in Nat /\ n > 0 /\ IsSeq(rqs) /\ rqs # <<>>
  BY EmptySeq DEF Asking
<1>1. n \in Nat /\ n > 0 /\ IsSeq(t) /\ Len(t) = n - 1 /\ Head(rqs) = rqs[1] /\ \A k \in 1..(n - 1) : t[k] = rqs[k + 1]
  BY <1>0, TailAny
<1>2. /\ \A k \in 1..(n - 1) : Match(rqs[k], sub)
      /\ rqs[n].call = id /\ Asks(name, rqs[n].cmd) /\ (name = "subscribe" => rqs[n].v = v)
  BY DEF Asking
<1>3. Len(t) = 0 => t = <<>>
  BY <1>1, EmptySeq
<1> HIDE DEF n, t
<1>4. CASE n = 1
  <2>1. Head(rqs) = rqs[n] /\ Len(t) = 0
    BY <1>1, <1>4
  <2> QED BY <1>0, <1>2, <1>3, <2>1 DEF t
<1>5. CASE n # 1
  <2>1. 1 \in 1..(n - 1) /\ n - 1 \in 1..(n - 1) /\ (n - 1) + 1 = n /\ n - 1 > 0
    BY <1>1, <1>5
  <2>2. \A k \in 1..((n - 1) - 1) : k + 1 \in 1..(n - 1) /\ k \in 1..(n - 1)
    BY <1>1, <1>5
  <2>3. Match(Head(rqs), sub) /\ t[n - 1] = rqs[n]
    BY <1>1, <1>2, <2>1
  <2>4. \A k \in 1..((n - 1) - 1) : Match(t[k], sub)
    BY <1>1, <1>2, <2>2
  <2>5. Asking(t, sub, id, name, v)
    BY <1>1, <1>2, <2>1, <2>3, <2>4, Zenon DEF Asking
  <2> QED BY <1>0, <2>3, <2>5 DEF t
<1> QED BY <1>4, <1>5

LEMMA MessagesNone == Messages(<<>>)
BY EmptyInterval, ShortSeq DEF Messages

LEMMA MessagesTold ==
    ASSUME NEW rsps, Messages(rsps), NEW p, Msg(p)
    PROVE  Messages(Append(rsps, p)) /\ Append(rsps, p) # <<>>
<1> DEFINE n == Len(rsps)
           t == Append(rsps, p)
<1>1. n \in Nat /\ IsSeq(t) /\ Len(t) = n + 1 /\ t[n + 1] = p /\ \A k \in 1..n : t[k] = rsps[k]
  BY AppendAny DEF Messages, IsSeq
<1>2. \A k \in 1..n : Msg(rsps[k])
  BY DEF Messages
<1>6. t = <<>> => Len(t) = 0
  BY ShortSeq
<1> HIDE DEF n, t
<1>3. n + 1 # 0 /\ \A k \in 1..(n + 1) : k \in 1..n \/ k = n + 1
  BY <1>1
<1>4. \A k \in 1..(n + 1) : Msg(t[k])
  BY <1>1, <1>2, <1>3
<1>5. Messages(t) /\ t # <<>>
  BY <1>1, <1>3, <1>4, <1>6 DEF Messages
<1> QED BY <1>5 DEF t

LEMMA MessagesTaken ==
    ASSUME NEW rsps, Messages(rsps), rsps # <<>>
    PROVE  Msg(Head(rsps)) /\ Messages(Tail(rsps))
<1> DEFINE n == Len(rsps)
           t == Tail(rsps)
<1>1. n \in Nat /\ n > 0 /\ IsSeq(t) /\ Len(t) = n - 1 /\ Head(rsps) = rsps[1] /\ \A k \in 1..(n - 1) : t[k] = rsps[k + 1]
  BY TailAny DEF Messages, IsSeq
<1>2. \A k \in 1..n : Msg(rsps[k])
  BY DEF Messages
<1> HIDE DEF n, t
<1>3. 1 \in 1..n /\ \A k \in 1..(n - 1) : k + 1 \in 1..n
  BY <1>1
<1>4. \A k \in 1..(n - 1) : Msg(t[k])
  BY <1>1, <1>2, <1>3
<1>5. Messages(t) /\ Msg(Head(rsps))
  BY <1>1, <1>2, <1>3, <1>4 DEF Messages
<1> QED BY <1>5 DEF t

\* The server answers.
LEMMA AnsweringOf ==
    ASSUME NEW rsps, Messages(rsps), NEW p, NEW id, NEW name, rsps # <<>> => name = "unsubscribe",
           p.call = id, Asks(name, p.cmd), Paged(p)
    PROVE  LET j == Len(rsps) + 1
               t == Append(rsps, p)
           IN  /\ Answering(t, j, id, name)
               /\ t[j] = p /\ Len(t) = j /\ j \in 1..Len(t)
<1> DEFINE n == Len(rsps)
           t == Append(rsps, p)
<1>1. n \in Nat /\ IsSeq(t) /\ Len(t) = n + 1 /\ t[n + 1] = p /\ \A k \in 1..n : t[k] = rsps[k]
  BY AppendAny DEF Messages, IsSeq
<1>2. \A k \in 1..n : Msg(rsps[k])
  BY DEF Messages
<1>3. n > 0 => name = "unsubscribe"
  BY EmptySeq DEF Messages
<1> HIDE DEF n, t
<1>4. n + 1 \in 1..(n + 1) /\ (n + 1 > 1 => n > 0) /\ \A k \in 1..(n + 1) : k \in 1..n \/ k = n + 1
  BY <1>1
<1>5. \A k \in 1..(n + 1) : k # n + 1 => Msg(t[k])
  BY <1>1, <1>2, <1>4
<1>6. Answering(t, n + 1, id, name)
  BY <1>1, <1>3, <1>4, <1>5, Zenon DEF Answering
<1> QED BY <1>1, <1>4, <1>6 DEF t, n

\* The device sends a message after the answer.
LEMMA AnsweringTold ==
    ASSUME NEW rsps, NEW j, NEW id, NEW name, Answering(rsps, j, id, name), NEW p, Msg(p)
    PROVE  LET t == Append(rsps, p)
           IN  /\ Answering(t, j, id, name)
               /\ t[j] = rsps[j] /\ j \in 1..Len(t)
<1> DEFINE n == Len(rsps)
           t == Append(rsps, p)
<1>1. n \in Nat /\ IsSeq(t) /\ Len(t) = n + 1 /\ t[n + 1] = p /\ \A k \in 1..n : t[k] = rsps[k]
  BY AppendAny DEF Answering, IsSeq
<1>2. /\ j \in 1..n /\ \A k \in 1..n : k # j => Msg(rsps[k])
      /\ rsps[j].call = id /\ Asks(name, rsps[j].cmd) /\ Paged(rsps[j])
      /\ j > 1 => name = "unsubscribe"
  BY DEF Answering
<1> HIDE DEF n, t
<1>3. j \in 1..(n + 1) /\ \A k \in 1..(n + 1) : k \in 1..n \/ k = n + 1
  BY <1>1, <1>2
<1>4. \A k \in 1..(n + 1) : k # j => Msg(t[k])
  BY <1>1, <1>2, <1>3
<1>5. t[j] = rsps[j]
  BY <1>1, <1>2
<1>6. Answering(t, j, id, name)
  BY <1>1, <1>2, <1>3, <1>4, <1>5, Zenon DEF Answering
<1> QED BY <1>1, <1>3, <1>5, <1>6 DEF t

\* The call takes its answer, or unsubscribe() a message before it.
LEMMA AnsweringTaken ==
    ASSUME NEW rsps, NEW j, NEW id, NEW name, Answering(rsps, j, id, name)
    PROVE  /\ rsps # <<>>
           /\ \/ /\ j = 1 /\ Head(rsps) = rsps[j] /\ Messages(Tail(rsps))
                 /\ j = Len(rsps) => Tail(rsps) = <<>>
              \/ /\ j # 1 /\ name = "unsubscribe" /\ Msg(Head(rsps))
                 /\ Answering(Tail(rsps), j - 1, id, name) /\ Tail(rsps)[j - 1] = rsps[j]
                 /\ Len(Tail(rsps)) = Len(rsps) - 1 /\ j - 1 \in 1..Len(Tail(rsps))
<1> DEFINE n == Len(rsps)
           t == Tail(rsps)
<1>0. IsSeq(rsps) /\ j \in 1..n /\ n \in Nat
  BY DEF Answering, IsSeq
<1>1. n > 0 /\ rsps # <<>>
  <2>1. n # 0
    BY <1>0
  <2> QED BY <1>0, <2>1, EmptySeq
<1>2. IsSeq(t) /\ Len(t) = n - 1 /\ Head(rsps) = rsps[1] /\ \A k \in 1..(n - 1) : t[k] = rsps[k + 1]
  BY <1>0, <1>1, TailAny
<1>3. Len(t) = 0 => t = <<>>
  BY <1>2, EmptySeq
<1>4. /\ \A k \in 1..n : k # j => Msg(rsps[k])
      /\ rsps[j].call = id /\ Asks(name, rsps[j].cmd) /\ Paged(rsps[j])
      /\ j > 1 => name = "unsubscribe"
  BY DEF Answering
<1> HIDE DEF n, t
<1>5. CASE j = 1
  <2>1. \A k \in 1..(n - 1) : k + 1 \in 1..n /\ k + 1 # j
    BY <1>0, <1>5
  <2>2. \A k \in 1..(n - 1) : Msg(t[k])
    BY <1>2, <1>4, <2>1
  <2>3. Messages(t)
    BY <1>2, <2>2 DEF Messages
  <2>4. j = n => Len(t) = 0
    BY <1>0, <1>2, <1>5
  <2> QED BY <1>1, <1>2, <1>3, <1>5, <2>3, <2>4 DEF t, n
<1>6. CASE j # 1
  <2>1. j > 1 /\ j - 1 \in 1..(n - 1) /\ (j - 1) + 1 = j /\ 1 \in 1..n /\ 1 # j
    BY <1>0, <1>6
  <2>2. \A k \in 1..(n - 1) : k + 1 \in 1..n /\ (k # j - 1 => k + 1 # j)
    BY <1>0
  <2>3. \A k \in 1..(n - 1) : k # j - 1 => Msg(t[k])
    BY <1>2, <1>4, <2>2
  <2>4. t[j - 1] = rsps[j] /\ Msg(Head(rsps)) /\ name = "unsubscribe"
    BY <1>2, <1>4, <2>1
  <2>5. Answering(t, j - 1, id, name)
    BY <1>2, <1>4, <2>1, <2>3, <2>4, Zenon DEF Answering
  <2> QED BY <1>1, <1>2, <1>6, <2>1, <2>4, <2>5 DEF t, n
<1> QED BY <1>5, <1>6

--------------------------------------------------------------------------------
(* Outside, for any step but those of server_connect().                       *)

OutsideMoves ==
    /\ mServerIpAddr' = mServerIpAddr
    /\ mSessionStarted' => mSessionStarted \/ mServerIpAddr
    /\ mServerIpAddr \/ (subscribed' \in {subscribed, NoChl} /\ mChlCht' \in {mChlCht, "NONE"} /\ stray' = stray)
    /\ \/ fromServer' = fromServer \/ fromServer' = <<>>
       \/ fromServer # <<>> /\ fromServer' = Tail(fromServer)
       \/ \E p : fromServer' = Append(fromServer, p)
    /\ \/ toServer' = toServer \/ toServer' = <<>>
       \/ toServer # <<>> /\ toServer' = Tail(toServer)
       \/ \E rq : link = "up" /\ toServer' = Append(toServer, rq) /\ (mServerIpAddr \/ rq.cmd = "PING")
    /\ link' = link \/ toServer' = <<>>
    /\ pc' = "wait" =>
        \/ pc = "wait" /\ op' = op /\ arg' = arg /\ mChl' = mChl /\ mChlCht' = mChlCht
        \/ /\ op' # "server_connect" /\ (mServerIpAddr \/ op' = "target_ping")
           /\ op' = "target_ping" => arg'.chl
           /\ op' = "unsubscribe" => mChlCht' = "NONE"
           /\ op' = "subscribe" => mChlCht' = "NONE" /\ mChl' = arg'.chl /\ arg' = [chl |-> arg'.chl, cht |-> arg'.cht]

LEMMA OutsideKept ==
    ASSUME Outside, OutsideMoves
    PROVE  Outside'
<1>0. IsSeq(toServer) /\ IsSeq(fromServer)
  BY DEF Outside
<1>1. IsSeq(fromServer')
  <2>1. CASE fromServer' = fromServer
    BY <1>0, <2>1
  <2>2. CASE fromServer' = <<>>
    BY <2>2, ShortSeq
  <2>3. CASE fromServer # <<>> /\ fromServer' = Tail(fromServer)
    BY <1>0, <2>3, TailAny
  <2>4. CASE \E p : fromServer' = Append(fromServer, p)
    BY <1>0, <2>4, AppendAny
  <2> QED BY <2>1, <2>2, <2>3, <2>4 DEF OutsideMoves
<1>2. IsSeq(toServer') /\ (link' # "up" => toServer' = <<>>)
  <2>1. CASE toServer' = toServer
    BY <1>0, <2>1 DEF Outside, OutsideMoves
  <2>2. CASE toServer' = <<>>
    BY <2>2, ShortSeq
  <2>3. CASE toServer # <<>> /\ toServer' = Tail(toServer)
    <3>1. link = "up"
      BY <2>3 DEF Outside
    <3>2. link' # "up" => toServer' = <<>>
      BY <3>1 DEF OutsideMoves
    <3> QED BY <1>0, <2>3, <3>2, TailAny
  <2>4. CASE link = "up" /\ \E rq : toServer' = Append(toServer, rq)
    <3>1. link' # "up" => toServer' = <<>>
      BY <2>4 DEF OutsideMoves
    <3> QED BY <1>0, <2>4, <3>1, AppendAny
  <2> QED BY <2>1, <2>2, <2>3, <2>4 DEF OutsideMoves
<1>3. ~mServerIpAddr => \A k \in 1..Len(toServer') : toServer'[k].cmd \in {"SERVER_CONNECT", "PING"}
  <2> SUFFICES ASSUME ~mServerIpAddr PROVE \A k \in 1..Len(toServer') : toServer'[k].cmd \in {"SERVER_CONNECT", "PING"}
    OBVIOUS
  <2>1. IsSeq(toServer) /\ Len(toServer) \in Nat
        /\ \A k \in 1..Len(toServer) : toServer[k].cmd \in {"SERVER_CONNECT", "PING"}
    BY DEF Outside, IsSeq
  <2>2. CASE toServer' = toServer
    BY <2>1, <2>2
  <2>3. CASE toServer' = <<>>
    BY <2>3, ShortSeq, SMT
  <2>4. CASE toServer # <<>> /\ toServer' = Tail(toServer)
    <3>1. Len(toServer') = Len(toServer) - 1 /\ \A k \in 1..Len(toServer') : toServer'[k] = toServer[k + 1]
      BY <2>1, <2>4, TailAny
    <3>2. \A k \in 1..Len(toServer') : k + 1 \in 1..Len(toServer)
      BY <2>1, <3>1, SMT
    <3> QED BY <2>1, <3>1, <3>2
  <2>5. CASE \E rq : toServer' = Append(toServer, rq) /\ rq.cmd = "PING"
    <3>1. PICK rq : toServer' = Append(toServer, rq) /\ rq.cmd = "PING"
      BY <2>5
    <3>2. /\ Len(toServer') = Len(toServer) + 1 /\ toServer'[Len(toServer) + 1] = rq
          /\ \A k \in 1..Len(toServer) : toServer'[k] = toServer[k]
      BY <2>1, <3>1, AppendAny
    <3>3. \A k \in 1..Len(toServer') : k \in 1..Len(toServer) \/ k = Len(toServer) + 1
      BY <2>1, <3>2, SMT
    <3> QED BY <2>1, <3>1, <3>2, <3>3
  <2> QED BY <2>2, <2>3, <2>4, <2>5 DEF OutsideMoves
<1>4. /\ mSessionStarted' => mServerIpAddr'
      /\ ~mServerIpAddr' => subscribed' = NoChl /\ mChlCht' = "NONE" /\ ~stray'
  BY DEF Outside, OutsideMoves
<1>5. pc' = "wait" =>
        /\ op' = "server_connect" => ~mServerIpAddr'
        /\ ~mServerIpAddr' => op' \in {"server_connect", "target_ping"}
        /\ op' = "subscribe" => mChlCht' = "NONE" /\ mChl' = arg'.chl /\ arg' = [chl |-> arg'.chl, cht |-> arg'.cht]
        /\ op' = "unsubscribe" => mChlCht' = "NONE"
        /\ op' = "target_ping" => arg'.chl
  <2>1. CASE pc = "wait" /\ op' = op /\ arg' = arg /\ mChl' = mChl /\ mChlCht' = mChlCht
    BY <2>1 DEF Outside, OutsideMoves
  <2> QED BY <2>1 DEF OutsideMoves
<1> QED BY <1>1, <1>2, <1>3, <1>4, <1>5, Zenon DEF Outside, OutsideMoves

\* A request is sent, if the connection is there.
LEMMA SentOne ==
    ASSUME NEW cmd, NEW v, NEW id
    PROVE  \/ Sent(id, Request(cmd, v)) = toServer
           \/ \E rq : link = "up" /\ Sent(id, Request(cmd, v)) = Append(toServer, rq) /\ rq.cmd = cmd
<1>1. [cmd |-> cmd, call |-> id, v |-> v].cmd = cmd
  OBVIOUS
<1> QED BY <1>1, SentRequest

LEMMA OutsideConnect ==
    ASSUME Outside, ChannelTypes, server_connect, UNCHANGED chlVars
    PROVE  Outside'
<1> USE DEF Refuse, Called, Return, stateVars
<1>1. CASE mServerIpAddr
  <2>1. OutsideMoves
    BY <1>1 DEF server_connect, OutsideMoves, chlVars
  <2> QED BY <2>1, OutsideKept
<1>2. CASE ~mServerIpAddr
  <2>1. /\ mServerIpAddr' = mServerIpAddr /\ mSessionStarted' = mSessionStarted /\ op' = "server_connect"
        /\ subscribed' = subscribed /\ mChlCht' = mChlCht /\ stray' = stray /\ fromServer' = <<>>
        /\ \/ link' = "up" /\ toServer' = <<[get_pkt_rq_server_connect EXCEPT !.call = call + 1]>>
           \/ link' = "bad" /\ toServer' = <<>>
    BY <1>2 DEF server_connect, chlVars, mHandleErrorServerConnect
  <2>2. [get_pkt_rq_server_connect EXCEPT !.call = call + 1].cmd = "SERVER_CONNECT"
    BY DEF get_pkt_rq_server_connect, Request
  <2>3. IsSeq(toServer') /\ \A k \in 1..Len(toServer') : toServer'[k].cmd = "SERVER_CONNECT"
    <3>1. CASE toServer' = <<>>
      BY <3>1, ShortSeq, SMT
    <3>2. CASE toServer' = <<[get_pkt_rq_server_connect EXCEPT !.call = call + 1]>>
      <4>1. IsSeq(toServer') /\ Len(toServer') = 1 /\ toServer'[1] = [get_pkt_rq_server_connect EXCEPT !.call = call + 1]
        BY <3>2, ShortSeq
      <4>2. \A k \in 1..Len(toServer') : k = 1
        BY <4>1, SMT
      <4> QED BY <2>2, <4>1, <4>2
    <3> QED BY <2>1, <3>1, <3>2
  <2>4. IsSeq(fromServer')
    BY <2>1, ShortSeq
  <2>5. "server_connect" \notin {"subscribe", "unsubscribe"} /\ "server_connect" # "target_ping"
    OBVIOUS
  <2> QED BY <1>2, <2>1, <2>3, <2>4, <2>5, Zenon DEF Outside
<1> QED BY <1>1, <1>2

LEMMA OutsideCall ==
    ASSUME Outside, ChannelTypes, Call
    PROVE  Outside'
<1> USE DEF Refuse, Execute, Called, Send, Return, stateVars, OutsideMoves
<1>1. CASE BaseCall /\ UNCHANGED chlVars
  <2>1. CASE server_connect
    BY <1>1, <2>1, OutsideConnect
  <2>2. CASE ~server_connect
    <3>1. mServerIpAddr /\ UNCHANGED <<mServerIpAddr, mSessionStarted, fromServer, link>>
          /\ op' \notin {"server_connect", "target_ping", "unsubscribe", "subscribe"}
      BY <1>1, <2>2 DEF BaseCall, server_unlock, device_unlock_get_challenge, WithoutPacket, get_targets, get_target_clients,
                device_unlock_set_key, BeginQuery
    <3>2. toServer' = toServer \/ \E cmd, v : toServer' = Sent(call + 1, Request(cmd, v))
      BY <1>1, <2>2 DEF BaseCall, server_unlock, device_unlock_get_challenge, WithoutPacket, get_targets, get_target_clients,
                device_unlock_set_key, BeginQuery, get_pkt_rq_get_targets, get_pkt_rq_get_target_clients,
                get_pkt_rq_device_unlock_set_key
    <3>3. \/ toServer' = toServer
          \/ \E rq : link = "up" /\ toServer' = Append(toServer, rq)
      BY <3>2, SentOne
    <3>4. OutsideMoves
      BY <1>1, <3>1, <3>3 DEF chlVars
    <3> QED BY <3>4, OutsideKept
  <2> QED BY <2>1, <2>2
<1>2. CASE session_start \/ device_connect \/ target_ping
  <2>1. UNCHANGED <<mServerIpAddr, mSessionStarted, fromServer, link>> /\ UNCHANGED chlVars
    BY <1>2 DEF session_start, device_connect, target_ping, WithoutChannel, mSessionStart, mDeviceConnect, BeginQuery, PingBegun
  <2>2. /\ pc' = "wait" => \/ mServerIpAddr /\ op' \in {"session_start", "device_connect"}
                           \/ op' = "target_ping" /\ arg'.chl
        /\ \/ toServer' = toServer
           \/ mServerIpAddr /\ \E cmd, v : toServer' = Sent(call + 1, Request(cmd, v))
           \/ toServer' = Sent(call + 1, Request("PING", NoArg))
    BY <1>2 DEF session_start, device_connect, target_ping, WithoutChannel, mSessionStart, mDeviceConnect, BeginQuery, PingBegun,
         get_pkt_rq_session_start, get_pkt_rq_device_connect, get_pkt_rq_ping
  <2>3. \/ toServer' = toServer
        \/ \E rq : link = "up" /\ toServer' = Append(toServer, rq) /\ (mServerIpAddr \/ rq.cmd = "PING")
    BY <2>2, SentOne
  <2>4. OutsideMoves
    BY <2>1, <2>2, <2>3 DEF chlVars
  <2> QED BY <2>4, OutsideKept
<1>3. CASE device_reset_occurred
  <2>1. OutsideMoves
    BY <1>3 DEF device_reset_occurred, Channel, Device
  <2> QED BY <2>1, OutsideKept
<1>4. CASE subscribe
  <2>1. PICK chl, cht :
            \/ Refuse("subscribe", NoArg, "FN_USAGE")
            \/ Refuse("subscribe", NoArg, "FN_PARAM")
            \/ /\ mSessionStarted /\ mChlCht = "NONE" /\ mChl' = chl
               /\ Execute("subscribe", [chl |-> chl, cht |-> cht], get_pkt_rq_subscribe([chl |-> chl, cht |-> cht]))
    BY <1>4 DEF subscribe
  <2>2. [chl |-> chl, cht |-> cht] = [chl |-> [chl |-> chl, cht |-> cht].chl, cht |-> [chl |-> chl, cht |-> cht].cht]
        /\ [chl |-> chl, cht |-> cht].chl = chl
    OBVIOUS
  <2>3. UNCHANGED <<mServerIpAddr, mSessionStarted, fromServer, link, subscribed, mChlCht, stray>>
    BY <1>4, <2>1 DEF subscribe, Channel, Device
  <2>4. \/ toServer' = toServer
        \/ mServerIpAddr /\ \E rq : link = "up" /\ toServer' = Append(toServer, rq)
    BY <2>1, SentOne DEF get_pkt_rq_subscribe, Outside
  <2>5. pc' = "wait" => /\ mServerIpAddr /\ op' = "subscribe"
                        /\ mChlCht' = "NONE" /\ mChl' = arg'.chl /\ arg' = [chl |-> arg'.chl, cht |-> arg'.cht]
    BY <2>1, <2>2, <2>3 DEF Outside
  <2>6. OutsideMoves
    BY <2>3, <2>4, <2>5
  <2> QED BY <2>6, OutsideKept
<1>5. CASE unsubscribe
  <2>1. /\ UNCHANGED <<mServerIpAddr, mSessionStarted, fromServer, link, subscribed, stray>>
        /\ mChlCht' = "NONE" /\ op' = "unsubscribe" /\ (pc' = "wait" => mChlCht # "NONE")
        /\ \/ toServer' = toServer
           \/ mChlCht # "NONE" /\ toServer' = Sent(call + 1, Request("CHL_UNSUBSCRIBE", [chl |-> mChlNum]))
    BY <1>5 DEF unsubscribe, Device, get_pkt_rq_unsubscribe
  <2>2. mChlCht # "NONE" => mServerIpAddr
    BY DEF Outside
  <2>3. \/ toServer' = toServer
        \/ mServerIpAddr /\ \E rq : link = "up" /\ toServer' = Append(toServer, rq)
    BY <2>1, <2>2, SentOne
  <2>4. OutsideMoves
    BY <2>1, <2>2, <2>3
  <2> QED BY <2>4, OutsideKept
<1>6. CASE send_msg
  <2>1. /\ UNCHANGED <<mServerIpAddr, mSessionStarted, subscribed, stray, mChlCht>> /\ pc' \in {"idle", "smashed"}
        /\ \/ UNCHANGED <<toServer, fromServer, link>>
           \/ MaySend /\ UNCHANGED <<fromServer, link>> /\ \E v : toServer' = Sent(call + 1, Request("CHL_MSG_C2D", v))
           \/ toServer' = <<>> /\ fromServer' = <<>>
    BY <1>6 DEF send_msg, Channel, Device, Disconnect, get_pkt_send_msg
  <2>2. MaySend => mServerIpAddr
    BY DEF MaySend, Sending, Outside
  <2>3. \/ toServer' = toServer /\ link' = link
        \/ mServerIpAddr /\ link' = link /\ \E rq : link = "up" /\ toServer' = Append(toServer, rq)
        \/ toServer' = <<>>
    BY <2>1, <2>2, SentOne
  <2>4. OutsideMoves
    BY <2>1, <2>3
  <2> QED BY <2>4, OutsideKept
<1>7. CASE rcv_msg
  <2>1. mChlCht \in Receiving => mServerIpAddr
    BY DEF Receiving, Outside
  <2>2. OutsideMoves
    BY <1>7, <2>1 DEF rcv_msg, Channel, Device
  <2> QED BY <2>2, OutsideKept
<1> QED BY <1>1, <1>2, <1>3, <1>4, <1>5, <1>6, <1>7 DEF Call

LEMMA OutsideStep ==
    ASSUME Outside, Step \/ TimePasses
    PROVE  Outside'
<1> USE DEF Received, Take, Return, stateVars, OutsideMoves
<1> DEFINE p == Head(fromServer)
<1>1. CASE BaseStep /\ UNCHANGED chlVars
  <2>1. CASE ServerConnected
    <3>1. /\ pc' = "idle" /\ fromServer # <<>> /\ fromServer' = Tail(fromServer) /\ ~mServerIpAddr
          /\ UNCHANGED <<toServer, link, mSessionStarted, subscribed, mChlCht, stray>>
      BY <1>1, <2>1 DEF ServerConnected, chlVars, Outside
    <3>2. IsSeq(fromServer')
      BY <3>1, TailAny DEF Outside
    <3> QED BY <3>1, <3>2, Zenon DEF Outside
  <2>2. CASE KeySet \/ set_pkt_rsp_get_target_clients
    <3>1. OutsideMoves
      BY <1>1, <2>2 DEF KeySet, set_pkt_rsp_get_target_clients, chlVars
    <3> QED BY <3>1, OutsideKept
  <2>3. CASE set_pkt_rsp_get_targets
    <3>1. /\ fromServer # <<>> /\ fromServer' = Tail(fromServer) /\ op = "get_targets" /\ pc = "wait"
          /\ UNCHANGED <<mServerIpAddr, mSessionStarted, link, op, arg>> /\ UNCHANGED chlVars
          /\ toServer' = toServer \/ \E n : toServer' = Sent(call, Request("GET_TARGETS", n))
      BY <1>1, <2>3 DEF set_pkt_rsp_get_targets, get_pkt_rq_get_targets
    <3>2. mServerIpAddr
      BY <3>1 DEF Outside
    <3>3. toServer' = toServer \/ \E rq : link = "up" /\ toServer' = Append(toServer, rq)
      BY <3>1, SentOne
    <3>4. OutsideMoves
      BY <3>1, <3>2, <3>3 DEF chlVars
    <3> QED BY <3>4, OutsideKept
  <2> QED BY <1>1, <2>1, <2>2, <2>3 DEF BaseStep
<1>2. CASE ChlSessionStarted
  <2>1. pc = "wait" /\ op = "session_start"
    BY <1>2 DEF ChlSessionStarted, SessionStarted
  <2>2. mServerIpAddr
    BY <2>1 DEF Outside
  <2>3. OutsideMoves
    BY <1>2, <2>2 DEF ChlSessionStarted, SessionStarted, Channel, Device
  <2> QED BY <2>3, OutsideKept
<1>3. CASE ChlDeviceConnected
  <2>1. OutsideMoves
    BY <1>3 DEF ChlDeviceConnected, DeviceConnected, Channel, Device
  <2> QED BY <2>1, OutsideKept
<1>9. CASE Pinged
  <2>1. OutsideMoves
    BY <1>9 DEF Pinged, Channel, Device
  <2> QED BY <2>1, OutsideKept
<1>4. CASE GivenUp
  <2>1. OutsideMoves
    BY <1>4 DEF GivenUp, Timeout, Lost, Overrun, Failed, Disconnect, Channel, Device
  <2> QED BY <2>1, OutsideKept
<1>5. CASE Subscribed
  <2>1. pc = "wait" /\ op = "subscribe"
    BY <1>5 DEF Subscribed
  <2>2. mServerIpAddr
    BY <2>1 DEF Outside
  <2>3. OutsideMoves
    BY <1>5, <2>2 DEF Subscribed, Device
  <2> QED BY <2>3, OutsideKept
<1>6. CASE Unsubscribed \/ Discarded
  <2>1. OutsideMoves
    BY <1>6 DEF Unsubscribed, Discarded, Channel, Device, chlVars
  <2> QED BY <2>1, OutsideKept
<1>7. CASE MsgReceived
  <2>1. OutsideMoves
    BY <1>7 DEF MsgReceived, Channel, Device
  <2> QED BY <2>1, OutsideKept
<1>8. CASE TimePasses
  <2>1. OutsideMoves
    BY <1>8 DEF TimePasses, baseVars, Channel, Device, Expected
  <2> QED BY <2>1, OutsideKept
<1> QED BY <1>1, <1>2, <1>3, <1>4, <1>5, <1>6, <1>7, <1>8, <1>9 DEF Step

LEMMA OutsideEnvironment ==
    ASSUME Outside, Environment
    PROVE  Outside'
<1> USE DEF Answered, stateVars, OutsideMoves
<1>1. CASE Server /\ UNCHANGED chlVars
  <2>1. toServer # <<>> /\ toServer' = Tail(toServer) /\ (\E p : fromServer' = Append(fromServer, p))
        /\ UNCHANGED <<mServerIpAddr, mSessionStarted, link, pc, op, arg>>
    <3> USE DEF Pending, Push
    <3>1. CASE ServerSendsTargets
      BY <3>1 DEF ServerSendsTargets
    <3>2. CASE ServerSendsClients
      BY <3>2 DEF ServerSendsClients
    <3>3. CASE ServerSendsConInfo
      BY <3>3 DEF ServerSendsConInfo
    <3>4. CASE ServerSendsOk
      BY <3>4 DEF ServerSendsOk
    <3>5. CASE ServerSendsError
      BY <3>5 DEF ServerSendsError
    <3> QED BY <1>1, <3>1, <3>2, <3>3, <3>4, <3>5 DEF Server
  <2>2. OutsideMoves
    BY <1>1, <2>1 DEF chlVars
  <2> QED BY <2>2, OutsideKept
<1>2. toServer # <<>> /\ Head(toServer).cmd \notin {"SERVER_CONNECT", "PING"} => mServerIpAddr
  <2> SUFFICES ASSUME toServer # <<>>, ~mServerIpAddr PROVE Head(toServer).cmd \in {"SERVER_CONNECT", "PING"}
    OBVIOUS
  <2>1. IsSeq(toServer)
    BY DEF Outside
  <2>2. Head(toServer) = toServer[1] /\ Len(toServer) \in Nat /\ Len(toServer) > 0
    BY <2>1, TailAny DEF IsSeq
  <2>3. 1 \in 1..Len(toServer)
    BY <2>2, SMT
  <2> QED BY <2>2, <2>3 DEF Outside
<1>3. CASE ServerSubscribes
  <2>1. mServerIpAddr
    BY <1>2, <1>3 DEF ServerSubscribes, Pending
  <2>2. \E p : fromServer' = Append(fromServer, p)
    BY <1>3 DEF ServerSubscribes, Push
  <2>3. OutsideMoves
    BY <1>3, <2>1, <2>2 DEF ServerSubscribes, Pending, Channel, Expected
  <2> QED BY <2>3, OutsideKept
<1>4. CASE ServerUnsubscribes
  <2>1. OutsideMoves
    BY <1>4 DEF ServerUnsubscribes, Pending, Channel, Expected, Push
  <2> QED BY <2>1, OutsideKept
<1>5. CASE ServerTakesMsg
  <2>1. mServerIpAddr
    BY <1>2, <1>5 DEF ServerTakesMsg, Pending
  <2>2. OutsideMoves
    BY <1>5, <2>1 DEF ServerTakesMsg, Pending, Channel, Expected
  <2> QED BY <2>2, OutsideKept
<1>6. CASE DeviceSends \/ ServerTellsReset
  <2>1. \E p : fromServer' = Append(fromServer, p)
    BY <1>6 DEF DeviceSends, ServerTellsReset, Push
  <2>2. OutsideMoves
    BY <1>6, <2>1 DEF DeviceSends, ServerTellsReset, Channel, Expected
  <2> QED BY <2>2, OutsideKept
<1>7. CASE ChlServerCloses
  <2>1. OutsideMoves
    BY <1>7 DEF ChlServerCloses, ServerCloses, Channel, Expected
  <2> QED BY <2>1, OutsideKept
<1> QED BY <1>1, <1>3, <1>4, <1>5, <1>6, <1>7 DEF Environment

--------------------------------------------------------------------------------
(* In step, for each kind of step.                                            *)

\* What a step leaves alone that changes no channel.
ChannelSame == UNCHANGED <<mChlCht, mChlNum, mRcvChlActive, subscribed, stray>>

\* Between calls nothing is underway but messages.
LEMMA QuietIdle ==
    ASSUME InStep, pc # "wait"
    PROVE  Quiet
BY DEF InStep, Asked, Told

\* A call that returns without a packet, or waits for a message.
LEMMA WithoutRequest ==
    ASSUME InStep, pc = "idle", ChannelSame, UNCHANGED <<toServer, fromServer, link>>,
           taken' = call', pc' # "overrun", pc' # "wait" \/ op' = "rcv_msg"
    PROVE  InStep'
<1>1. Quiet
  BY QuietIdle
<1>2. pc # "wait" /\ (fromServer # <<>> => mRcvChlActive) /\ Agreed
  BY <1>1 DEF Quiet
<1>3. fromServer' # <<>> => mRcvChlActive'
  BY <1>2, Zenon DEF ChannelSame
<1>4. Agreed'
  BY <1>2 DEF Agreed, ChannelSame
<1>5. Sends(toServer', subscribed') /\ Messages(fromServer')
  BY <1>1, Zenon DEF Quiet, ChannelSame
<1>6. Quiet'
  BY <1>3, <1>4, <1>5, Zenon DEF Quiet
<1>7. ~stray'
  BY Zenon DEF InStep, ChannelSame
<1> QED BY <1>6, <1>7, Zenon DEF InStep

\* A call that sends a request.
LEMMA WithRequest ==
    ASSUME InStep, pc = "idle", UNCHANGED <<fromServer, link, subscribed, stray>>,
           NEW cmd, NEW v, toServer' = Sent(call + 1, Request(cmd, v)), call' = call + 1, taken' = call + 1,
           pc' = "wait", Asks(op', cmd), op' = "subscribe" => v = arg', ~mRcvChlActive',
           op' # "unsubscribe" => UNCHANGED <<mChlCht, mChlNum, mRcvChlActive>>
    PROVE  InStep'
<1>1. Quiet
  BY QuietIdle
<1>2. pc # "wait" /\ (fromServer # <<>> => mRcvChlActive) /\ Agreed /\ Sends(toServer, subscribed) /\ Messages(fromServer)
  BY <1>1 DEF Quiet
<1>3. op' # "rcv_msg"
  BY DEF Asks
<1>4. op' # "unsubscribe" => fromServer' = <<>> /\ Agreed'
  <2> SUFFICES ASSUME op' # "unsubscribe" PROVE fromServer' = <<>> /\ Agreed'
    OBVIOUS
  <2>1. ~mRcvChlActive
    BY Zenon
  <2>2. fromServer = <<>>
    BY <1>2, <2>1
  <2> QED BY <1>2, <2>2 DEF Agreed
<1>5. Messages(fromServer')
  BY <1>2
<1>6. ~stray'
  BY Zenon DEF InStep
<1>7. CASE link = "up"
  <2> DEFINE rq == [cmd |-> cmd, call |-> call + 1, v |-> v]
  <2>1. toServer' = Append(toServer, rq)
    BY <1>7 DEF Sent, Request
  <2>2. rq.call = call + 1 /\ rq.cmd = cmd /\ rq.v = v
    OBVIOUS
  <2> HIDE DEF rq
  <2>3. Asking(Append(toServer, rq), subscribed, call + 1, op', arg')
    BY <1>2, <2>2, AskingOf
  <2>4. Asking(toServer', subscribed', call', op', arg')
    BY <2>1, <2>3
  <2>5. Asked'
    BY <1>3, <1>4, <1>5, <1>7, <2>4, Zenon DEF Asked
  <2> QED BY <1>6, <2>5, Zenon DEF InStep
<1>8. CASE link # "up"
  <2>1. toServer' = toServer /\ link' # "up"
    BY <1>8 DEF Sent
  <2>2. fromServer' # <<>> => op' = "unsubscribe"
    BY <1>4
  <2>3. Agreed'
    BY <2>1 DEF Agreed
  <2>4. Sends(toServer', subscribed')
    BY <1>2, <2>1
  <2>5. Quiet'
    BY <1>3, <1>5, <2>1, <2>2, <2>3, <2>4, Zenon DEF Quiet
  <2> QED BY <1>6, <2>5, Zenon DEF InStep
<1> QED BY <1>7, <1>8

\* A call that waits for an answer finds it, and takes it.
LEMMA TakesAnswer ==
    ASSUME InStep, pc = "wait", op \notin {"rcv_msg", "unsubscribe"}, fromServer # <<>>
    PROVE  /\ toServer = <<>> /\ ~mRcvChlActive /\ Head(fromServer).call = call /\ Messages(Tail(fromServer))
           /\ Asks(op, Head(fromServer).cmd) /\ Paged(Head(fromServer))
           /\ IF op = "subscribe" /\ Head(fromServer).err = "NO_ERROR"
              THEN /\ Head(fromServer).full /\ Head(fromServer).v = arg
                   /\ link = "up" => subscribed = arg
                   /\ Tail(fromServer) # <<>> => arg.cht \in Receiving
              ELSE Tail(fromServer) = <<>> /\ Agreed
<1>1. Told
  BY DEF InStep, Quiet, Asked
<1>2. PICK j \in 1..Len(fromServer) :
        /\ Answering(fromServer, j, call, op)
        /\ IF op = "subscribe" /\ fromServer[j].err = "NO_ERROR"
           THEN /\ fromServer[j].full /\ fromServer[j].v = arg
                /\ link = "up" => subscribed = arg
                /\ j < Len(fromServer) => arg.cht \in Receiving
           ELSE j = Len(fromServer) /\ Agreed
  BY <1>1, Zenon DEF Told
<1>3. /\ j = 1 /\ Head(fromServer) = fromServer[j] /\ Messages(Tail(fromServer))
      /\ j = Len(fromServer) => Tail(fromServer) = <<>>
  BY <1>2, AnsweringTaken
<1>4. fromServer[j].call = call /\ Asks(op, fromServer[j].cmd) /\ Paged(fromServer[j]) /\ Len(fromServer) \in Nat
  BY <1>2 DEF Answering, IsSeq
<1>5. Tail(fromServer) # <<>> => j < Len(fromServer)
  BY <1>3, <1>4
<1> QED BY <1>1, <1>2, <1>3, <1>4, <1>5, Zenon DEF Told

\* A call other than subscribe() returns with its answer.
LEMMA AnswerTaken ==
    ASSUME InStep, pc = "wait", op \notin {"rcv_msg", "unsubscribe", "subscribe"}, fromServer # <<>>,
           ChannelSame, fromServer' = Tail(fromServer), taken' = Head(fromServer).call, pc' = "idle",
           UNCHANGED <<toServer, link, call>>
    PROVE  InStep'
<1>1. toServer = <<>> /\ Head(fromServer).call = call /\ Tail(fromServer) = <<>> /\ Agreed
  BY TakesAnswer
<1>2. Agreed'
  BY <1>1 DEF Agreed, ChannelSame
<1>3. Sends(toServer', subscribed') /\ Messages(fromServer')
  BY <1>1, SendsNone, MessagesNone
<1>4. Quiet'
  BY <1>1, <1>2, <1>3 DEF Quiet
<1>5. ~stray'
  BY Zenon DEF InStep, ChannelSame
<1> QED BY <1>1, <1>4, <1>5, Zenon DEF InStep

\* The next page of targets is asked for.
LEMMA AsksAgain ==
    ASSUME InStep, pc = "wait", op = "get_targets", fromServer # <<>>,
           ChannelSame, fromServer' = Tail(fromServer), taken' = Head(fromServer).call,
           NEW v, toServer' = Sent(call, Request("GET_TARGETS", v)),
           UNCHANGED <<pc, op, arg, link, call>>
    PROVE  InStep'
<1>1. toServer = <<>> /\ Head(fromServer).call = call /\ Tail(fromServer) = <<>> /\ Agreed /\ ~mRcvChlActive
  BY TakesAnswer
<1>2. Agreed' /\ ~mRcvChlActive'
  BY <1>1 DEF Agreed, ChannelSame
<1>3. Messages(fromServer')
  BY <1>1, MessagesNone
<1>4. ~stray' /\ taken' = call'
  BY <1>1, Zenon DEF InStep, ChannelSame
<1>5. CASE link = "up"
  <2> DEFINE rq == [cmd |-> "GET_TARGETS", call |-> call, v |-> v]
  <2>1. toServer' = Append(<<>>, rq)
    BY <1>1, <1>5 DEF Sent, Request
  <2>2. rq.call = call /\ rq.cmd = "GET_TARGETS"
    OBVIOUS
  <2>3. Asks(op, "GET_TARGETS") /\ op # "subscribe"
    BY DEF Asks
  <2> HIDE DEF rq
  <2>4. Asking(Append(<<>>, rq), subscribed', call, op, arg)
    BY <2>2, <2>3, SendsNone, AskingOf
  <2>5. Asking(toServer', subscribed', call', op', arg')
    BY <2>1, <2>4
  <2>6. Asked'
    BY <1>1, <1>2, <1>3, <1>5, <2>5, Zenon DEF Asked
  <2> QED BY <1>4, <2>6, Zenon DEF InStep
<1>6. CASE link # "up"
  <2>1. toServer' = <<>>
    BY <1>1, <1>6 DEF Sent
  <2>2. Sends(toServer', subscribed')
    BY <2>1, SendsNone
  <2>3. Quiet'
    BY <1>1, <1>2, <1>3, <1>6, <2>2 DEF Quiet
  <2> QED BY <1>4, <2>3, Zenon DEF InStep
<1> QED BY <1>5, <1>6

\* The server takes the request of the call, which nothing but the answer answers.
LEMMA AnswerTold ==
    ASSUME InStep, Outside, ChannelTypes, toServer # <<>>, link = "up",
           Head(toServer).cmd # "CHL_MSG_C2D", toServer' = Tail(toServer),
           NEW p, fromServer' = Append(fromServer, p), p.cmd = Head(toServer).cmd, p.call = Head(toServer).call, Paged(p),
           UNCHANGED <<pc, op, arg, call, taken, link, mChlCht, mChlNum, mRcvChlActive, stray>>,
           IF p.cmd = "CHL_SUBSCRIBE" /\ p.err = "NO_ERROR" THEN p.full /\ p.v = Head(toServer).v /\ subscribed' = p.v
           ELSE subscribed' = IF p.cmd = "CHL_UNSUBSCRIBE" THEN NoChl ELSE subscribed
    PROVE  InStep'
<1>1. Asked
  <2>1. ~Told
    BY DEF Told
  <2>2. ~Quiet
    <3>1. Quiet => Match(Head(toServer), subscribed)
      BY SendsTaken DEF Quiet
    <3> QED BY <3>1 DEF Match
  <2> QED BY <2>1, <2>2 DEF InStep
<1>2. Asking(toServer, subscribed, call, op, arg) /\ Messages(fromServer) /\ pc = "wait" /\ op # "rcv_msg" /\ ~mRcvChlActive
      /\ (op # "unsubscribe" => fromServer = <<>> /\ Agreed)
  BY <1>1 DEF Asked
<1>3. /\ Tail(toServer) = <<>> /\ Head(toServer).call = call /\ Asks(op, Head(toServer).cmd)
      /\ op = "subscribe" => Head(toServer).v = arg
  <2>1. ~Match(Head(toServer), subscribed)
    BY Zenon DEF Match
  <2>2. Asking(toServer, subscribed, call, op, arg)
    BY <1>2
  <2>3. \/ Match(Head(toServer), subscribed) /\ Asking(Tail(toServer), subscribed, call, op, arg)
        \/ /\ Tail(toServer) = <<>> /\ Head(toServer).call = call /\ Asks(op, Head(toServer).cmd)
           /\ op = "subscribe" => Head(toServer).v = arg
    BY <2>2, AskingTaken
  <2> QED BY <2>1, <2>3
<1>4. Asks(op, p.cmd) /\ p.call = call
  BY <1>3
<1> DEFINE j == Len(fromServer) + 1
<1>5. /\ Answering(fromServer', j, call, op)
      /\ fromServer'[j] = p /\ Len(fromServer') = j /\ j \in 1..Len(fromServer')
  BY <1>2, <1>4, AnsweringOf
<1> HIDE DEF j
<1>6. CASE op = "subscribe" /\ p.err = "NO_ERROR"
  <2>1. p.cmd = "CHL_SUBSCRIBE"
    BY <1>4, <1>6 DEF Asks
  <2>2. p.full /\ p.v = arg /\ subscribed' = arg
    BY <1>3, <1>6, <2>1
  <2>3. ~(j < Len(fromServer'))
    BY <1>5
  <2>4. Told'
    BY <1>2, <1>3, <1>5, <1>6, <2>2, <2>3, Zenon DEF Told
  <2> QED BY <2>4, Zenon DEF InStep
<1>7. CASE ~(op = "subscribe" /\ p.err = "NO_ERROR")
  <2>1. Agreed'
    <3>1. CASE op = "unsubscribe"
      <4>1. p.cmd = "CHL_UNSUBSCRIBE" /\ mChlCht = "NONE"
        BY <1>2, <1>4, <3>1 DEF Asks, Outside
      <4>2. subscribed' = NoChl /\ mChlNum = TAS_CHL_NUM_MAX
        BY <4>1 DEF ChannelTypes
      <4> QED BY <4>1, <4>2 DEF Agreed, NoChl
    <3>2. CASE op # "unsubscribe"
      <4>1. p.cmd # "CHL_UNSUBSCRIBE" /\ ~(p.cmd = "CHL_SUBSCRIBE" /\ p.err = "NO_ERROR")
        BY <1>4, <1>7, <3>2 DEF Asks
      <4>2. subscribed' = subscribed
        BY <4>1
      <4> QED BY <1>2, <3>2, <4>2 DEF Agreed
    <3> QED BY <3>1, <3>2
  <2>2. Told'
    BY <1>2, <1>3, <1>5, <1>7, <2>1, Zenon DEF Told
  <2> QED BY <2>2, Zenon DEF InStep
<1> QED BY <1>6, <1>7

\* A message comes that the client has subscribed to.
LEMMA MessageTold ==
    ASSUME InStep, ChannelTypes, link = "up", subscribed.cht \in Receiving,
           NEW p, Msg(p), fromServer' = Append(fromServer, p),
           UNCHANGED <<pc, op, arg, call, taken, link, toServer>>, ChannelSame
    PROVE  InStep'
<1>0. ~stray' /\ taken' = call' /\ pc' # "overrun"
  BY Zenon DEF InStep, ChannelSame
<1>1. Agreed => mRcvChlActive
  <2>1. Agreed => mChlCht \in Receiving
    BY DEF Agreed
  <2> QED BY <2>1, Zenon DEF ChannelTypes
<1>2. CASE Quiet
  <2>1. Messages(fromServer') /\ Sends(toServer', subscribed')
    BY <1>2, MessagesTold, Zenon DEF Quiet, ChannelSame
  <2>2. mRcvChlActive' /\ Agreed'
    BY <1>1, <1>2, Zenon DEF Quiet, Agreed, ChannelSame
  <2>3. Quiet'
    BY <1>2, <2>1, <2>2 DEF Quiet
  <2> QED BY <1>0, <2>3, Zenon DEF InStep
<1>3. CASE Asked
  <2>1. op = "unsubscribe"
    BY <1>1, <1>3 DEF Asked
  <2>2. Messages(fromServer') /\ Asking(toServer', subscribed', call', op', arg')
    BY <1>3, MessagesTold, Zenon DEF Asked, ChannelSame
  <2>3. Asked'
    BY <1>3, <2>1, <2>2, Zenon DEF Asked, ChannelSame
  <2> QED BY <1>0, <2>3, Zenon DEF InStep
<1>4. CASE Told
  <2>1. PICK j \in 1..Len(fromServer) :
        /\ Answering(fromServer, j, call, op)
        /\ IF op = "subscribe" /\ fromServer[j].err = "NO_ERROR"
           THEN /\ fromServer[j].full /\ fromServer[j].v = arg
                /\ link = "up" => subscribed = arg
                /\ j < Len(fromServer) => arg.cht \in Receiving
           ELSE j = Len(fromServer) /\ Agreed
    BY <1>4, Zenon DEF Told
  <2>2. op = "subscribe" /\ fromServer[j].err = "NO_ERROR" /\ fromServer[j].full /\ fromServer[j].v = arg /\ subscribed = arg
    BY <1>1, <1>4, <2>1 DEF Told
  <2>3. Answering(fromServer', j, call, op) /\ fromServer'[j] = fromServer[j] /\ j \in 1..Len(fromServer')
    BY <2>1, AnsweringTold
  <2>4. arg.cht \in Receiving
    BY <2>2
  <2>5. Told'
    BY <1>4, <2>2, <2>3, <2>4, Zenon DEF Told, ChannelSame
  <2> QED BY <1>0, <2>5, Zenon DEF InStep
<1> QED BY <1>2, <1>3, <1>4 DEF InStep

--------------------------------------------------------------------------------
(* No packet that is known is longer than the buffer of the call.             *)

LEMMA MessageSize ==
    ASSUME NEW p, Msg(p)
    PROVE  SizeOf(p) <= 1036
<1>1. p.v.words \in Nat /\ 4 * p.v.words <= 1024
  BY DEF Msg, TAS_PL1_CHL_MAX_MSG_SIZE
<1>2. SizeOf(p) = 4 + (8 + 4 * p.v.words)
  BY DEF Msg, SizeOf, PL2, PL1, tas_pl1rsp_chl_msg_d2c_st
<1> QED BY <1>1, <1>2

LEMMA AnswerSize ==
    ASSUME NEW p, Asks(op, p.cmd), Paged(p), op = "target_ping" => arg.chl
    PROVE  SizeOf(p) \in Int /\ Buffer \in Int /\ SizeOf(p) <= Buffer
<1> USE DEF PL1, PL2
<1>1. p.full \in BOOLEAN
  BY DEF Paged
<1>2. CASE op = "server_connect"
  <2>1. p.cmd = "SERVER_CONNECT"
    BY <1>2 DEF Asks
  <2>2. SizeOf(p) = 8 \/ SizeOf(p) = 4 + tas_pl1rsp_server_connect_st
    BY <1>1, <2>1 DEF SizeOf
  <2>3. Buffer = 4 + tas_pl1rsp_server_connect_st
    BY <1>2 DEF Buffer, BufSize
  <2> QED BY <2>2, <2>3 DEF tas_pl1rsp_server_connect_st, tas_server_info_st, Name64
<1>3. CASE op = "get_targets"
  <2>1. p.cmd = "GET_TARGETS"
    BY <1>3 DEF Asks
  <2>2. SizeOf(p) = 8 \/ (p.full /\ SizeOf(p) = 4 + (tas_pl1rsp_get_targets_st + Len(p.v.items) * tas_target_info_st))
    <3>1. CASE ~p.full
      BY <3>1 DEF SizeOf
    <3>2. CASE p.full
      BY <2>1, <3>2, Zenon DEF SizeOf
    <3> QED BY <3>1, <3>2
  <2>3. Buffer = 1024
    BY <1>3 DEF Buffer, TAS_MAX_PKT_SIZE_1KB
  <2>4. p.full => Len(p.v.items) \in 0..TargetPage
    BY <2>1 DEF Paged
  <2>5. TargetPage \in Nat /\ 4 + tas_pl1rsp_get_targets_st + TargetPage * tas_target_info_st <= 1024
    BY PageAssumption DEF TAS_MAX_PKT_SIZE_1KB
  <2>6. tas_pl1rsp_get_targets_st = 8 /\ tas_target_info_st = 88
    BY DEF tas_pl1rsp_get_targets_st, tas_target_info_st, Name64
  <2> QED BY <2>2, <2>3, <2>4, <2>5, <2>6
<1>4. CASE op = "get_target_clients"
  <2>1. p.cmd = "GET_CLIENTS"
    BY <1>4 DEF Asks
  <2>2. SizeOf(p) = 8 \/ (p.full /\ SizeOf(p) = 4 + (tas_pl1rsp_get_clients_st + Len(p.v.items) * tas_target_client_info_st))
    <3>1. CASE ~p.full
      BY <3>1 DEF SizeOf
    <3>2. CASE p.full
      BY <2>1, <3>2, Zenon DEF SizeOf
    <3> QED BY <3>1, <3>2
  <2>3. Buffer = 1024
    BY <1>4 DEF Buffer, TAS_MAX_PKT_SIZE_1KB
  <2>4. p.full => Len(p.v.items) \in 0..ClientPage
    BY <2>1 DEF Paged
  <2>5. ClientPage \in Nat /\ 4 + tas_pl1rsp_get_clients_st + ClientPage * tas_target_client_info_st <= 1024
    BY PageAssumption DEF TAS_MAX_PKT_SIZE_1KB
  <2>6. tas_pl1rsp_get_clients_st = 32 /\ tas_target_client_info_st = 80
    BY DEF tas_pl1rsp_get_clients_st, tas_target_client_info_st, Name16, Name32
  <2> QED BY <2>2, <2>3, <2>4, <2>5, <2>6
<1>5. CASE op = "session_start" \/ op = "target_ping"
  <2>1. p.cmd \in {"SESSION_START", "PING"}
    BY <1>5 DEF Asks
  <2>2. SizeOf(p) = 8 \/ SizeOf(p) = 4 + tas_pl1rsp_ping_st
    BY <1>1, <2>1 DEF SizeOf
  <2>3. Buffer = 4 + tas_pl1rsp_ping_st
    BY <1>5 DEF Buffer, BufSize
  <2> QED BY <2>2, <2>3 DEF tas_pl1rsp_ping_st, tas_con_info_st, tas_con_info_d2s_st, Name64, Name8
<1>6. CASE op = "device_unlock_set_key"
  <2>1. p.cmd = "SET_DEVICE_KEY"
    BY <1>6 DEF Asks
  <2>2. SizeOf(p) = 8 \/ SizeOf(p) = 4 + tas_pl1rsp_set_device_key_st
    BY <1>1, <2>1 DEF SizeOf
  <2>3. Buffer = 4 + tas_pl1rsp_set_device_key_st
    BY <1>6 DEF Buffer, BufSize
  <2> QED BY <2>2, <2>3 DEF tas_pl1rsp_set_device_key_st
<1>7. CASE op = "device_connect"
  <2>1. p.cmd = "DEVICE_CONNECT"
    BY <1>7 DEF Asks
  <2>2. SizeOf(p) = 8 \/ SizeOf(p) = 4 + tas_pl1rsp_device_connect_st
    BY <1>1, <2>1 DEF SizeOf
  <2>3. Buffer = 4 + tas_pl1rsp_device_connect_st
    BY <1>7 DEF Buffer, BufSize
  <2> QED BY <2>2, <2>3 DEF tas_pl1rsp_device_connect_st
<1>8. CASE op = "subscribe"
  <2>1. p.cmd = "CHL_SUBSCRIBE"
    BY <1>8 DEF Asks
  <2>2. SizeOf(p) = 8 \/ SizeOf(p) = 4 + tas_pl1rsp_chl_subscribe_st
    BY <1>1, <2>1 DEF SizeOf
  <2>3. Buffer = 4 + tas_pl1rsp_chl_subscribe_st
    BY <1>8 DEF Buffer, BufSize
  <2> QED BY <2>2, <2>3 DEF tas_pl1rsp_chl_subscribe_st
<1>9. CASE op = "unsubscribe"
  <2>1. p.cmd = "CHL_UNSUBSCRIBE"
    BY <1>9 DEF Asks
  <2>2. SizeOf(p) = 8 \/ SizeOf(p) = 4 + tas_pl1rsp_chl_unsubscribe_st
    BY <1>1, <2>1 DEF SizeOf
  <2>3. Buffer = 1056
    BY <1>9 DEF Buffer, TAS_PL1_CHL_MAX_MSG_SIZE
  <2> QED BY <2>2, <2>3 DEF tas_pl1rsp_chl_unsubscribe_st
<1> QED BY <1>2, <1>3, <1>4, <1>5, <1>6, <1>7, <1>8, <1>9 DEF Asks

LEMMA NoOverrun ==
    ASSUME InStep, Outside, pc = "wait", fromServer # <<>>
    PROVE  SizeOf(Head(fromServer)) \in Int /\ Buffer \in Int /\ SizeOf(Head(fromServer)) <= Buffer
<1> DEFINE p == Head(fromServer)
<1>1. ASSUME Msg(p), op = "rcv_msg" \/ op = "unsubscribe" PROVE SizeOf(p) \in Int /\ Buffer \in Int /\ SizeOf(p) <= Buffer
  <2>1. Buffer = 4096 \/ Buffer = 1056
    <3>1. CASE op = "rcv_msg"
      BY <3>1 DEF Buffer, TAS_PL1_CHL_MAX_MSG_SIZE
    <3>2. CASE op = "unsubscribe"
      BY <3>2 DEF Buffer, TAS_PL1_CHL_MAX_MSG_SIZE
    <3> QED BY <1>1, <3>1, <3>2
  <2>2. SizeOf(p) <= 1036
    BY <1>1, MessageSize
  <2>3. SizeOf(p) \in Int
    <3>1. p.v.words \in Nat
      BY <1>1 DEF Msg
    <3> QED BY <1>1, <3>1 DEF Msg, SizeOf, PL2, PL1, tas_pl1rsp_chl_msg_d2c_st
  <2> QED BY <2>1, <2>2, <2>3
<1>2. ASSUME Asks(op, p.cmd), Paged(p) PROVE SizeOf(p) \in Int /\ Buffer \in Int /\ SizeOf(p) <= Buffer
  <2>1. op = "target_ping" => arg.chl
    BY DEF Outside
  <2> QED BY <1>2, <2>1, AnswerSize
<1>3. CASE op \notin {"rcv_msg", "unsubscribe"}
  BY <1>2, <1>3, TakesAnswer
<1>4. CASE op = "rcv_msg" \/ op = "unsubscribe"
  <2>1. CASE Quiet \/ Asked
    <3>1. Messages(fromServer)
      BY <2>1 DEF Quiet, Asked
    <3> QED BY <1>1, <1>4, <3>1, MessagesTaken
  <2>2. CASE Told
    <3>1. PICK j \in 1..Len(fromServer) : Answering(fromServer, j, call, op)
      BY <2>2 DEF Told
    <3>2. \/ Head(fromServer) = fromServer[j]
          \/ op = "unsubscribe" /\ Msg(Head(fromServer))
      BY <3>1, AnsweringTaken
    <3>3. Asks(op, fromServer[j].cmd) /\ Paged(fromServer[j])
      BY <3>1 DEF Answering
    <3> QED BY <1>1, <1>2, <3>2, <3>3
  <2> QED BY <2>1, <2>2 DEF InStep
<1> QED BY <1>3, <1>4

--------------------------------------------------------------------------------
(* In step, for every step.                                                   *)

\* send_msg() is refused, or sends for the channel of the client, or finds the
\* connection lost, or has written behind its buffer.
LEMMA MessageSent ==
    ASSUME send_msg
    PROVE  /\ pc = "idle" /\ UNCHANGED <<mChlCht, mChlNum, mRcvChlActive, subscribed, stray, inStep>>
           /\ call' = call + 1 /\ taken' = call + 1 /\ pc' \in {"idle", "smashed"}
           /\ \/ UNCHANGED <<toServer, fromServer, link>>
              \/ /\ MaySend /\ UNCHANGED <<fromServer, link>>
                 /\ \E v : v.chl = mChlNum /\ toServer' = Sent(call + 1, Request("CHL_MSG_C2D", v))
              \/ toServer' = <<>> /\ fromServer' = <<>> /\ link' = "none"
<1> USE DEF Refuse, Called, Return
<1>1. pc = "idle" /\ UNCHANGED <<mChlCht, mChlNum, mRcvChlActive, subscribed, stray>>
  BY DEF send_msg, May, Channel, Device, stateVars
<1>2. call' = call + 1 /\ taken' = call + 1 /\ pc' \in {"idle", "smashed"} /\ inStep' = inStep
  BY DEF send_msg
<1>3. \/ UNCHANGED <<toServer, fromServer, link>>
      \/ /\ MaySend /\ UNCHANGED <<fromServer, link>>
         /\ \E v : v.chl = mChlNum /\ toServer' = Sent(call + 1, Request("CHL_MSG_C2D", v))
      \/ toServer' = <<>> /\ fromServer' = <<>> /\ link' = "none"
  BY DEF send_msg, Disconnect, get_pkt_send_msg
<1> QED BY <1>1, <1>2, <1>3

LEMMA InStepCall ==
    ASSUME TypeInv, StepInv, Call, inStep'
    PROVE  InStep'
<1> USE DEF Refuse, Execute, Called, Send, Return, stateVars, ChannelSame
<1>0. Outside /\ ChannelTypes /\ (inStep => InStep)
  BY DEF StepInv, TypeInv
<1>1. CASE BaseCall /\ UNCHANGED chlVars
  <2>1. CASE server_connect /\ ~mServerIpAddr
    <3>1. subscribed = NoChl /\ mChlCht = "NONE" /\ mChlNum = TAS_CHL_NUM_MAX /\ ~stray /\ mRcvChlActive = FALSE
      <4>1. subscribed = NoChl /\ mChlCht = "NONE" /\ ~stray
        BY <1>0, <2>1 DEF Outside
      <4>2. (mChlCht \in Receiving) = FALSE
        BY <4>1 DEF Receiving
      <4> QED BY <1>0, <4>1, <4>2, Zenon DEF ChannelTypes
    <3>2. /\ call' = call + 1 /\ op' = "server_connect" /\ taken' = call + 1 /\ fromServer' = <<>>
          /\ \/ link' = "up" /\ pc' = "wait" /\ toServer' = <<[get_pkt_rq_server_connect EXCEPT !.call = call + 1]>>
             \/ link' = "bad" /\ pc' = "idle" /\ toServer' = <<>>
          /\ UNCHANGED <<mChlCht, mChlNum, mRcvChlActive, subscribed, stray>>
      BY <1>1, <2>1 DEF server_connect, chlVars, mHandleErrorServerConnect
    <3>3. ~stray' /\ ~mRcvChlActive' /\ Agreed' /\ Messages(fromServer')
      BY <3>1, <3>2, MessagesNone DEF Agreed, NoChl
    <3>4. CASE link' = "up" /\ pc' = "wait" /\ toServer' = <<[get_pkt_rq_server_connect EXCEPT !.call = call + 1]>>
      <4> DEFINE rq == [get_pkt_rq_server_connect EXCEPT !.call = call + 1]
      <4>1. rq.cmd = "SERVER_CONNECT" /\ rq.call = call + 1
        BY DEF get_pkt_rq_server_connect, Request
      <4> HIDE DEF rq
      <4>2. toServer' = Append(<<>>, rq)
        BY <3>4 DEF rq
      <4>3. Asks("server_connect", "SERVER_CONNECT")
        BY DEF Asks
      <4>4. "server_connect" # "subscribe" /\ "server_connect" # "rcv_msg"
        OBVIOUS
      <4>5. Asking(Append(<<>>, rq), subscribed', call + 1, "server_connect", arg')
        BY <4>1, <4>3, <4>4, SendsNone, AskingOf
      <4>6. Asking(toServer', subscribed', call', op', arg')
        BY <3>2, <4>2, <4>5
      <4>7. Asked'
        BY <3>2, <3>3, <3>4, <4>4, <4>6, Zenon DEF Asked
      <4> QED BY <3>2, <3>3, <3>4, <4>7 DEF InStep
    <3>5. CASE pc' = "idle" /\ toServer' = <<>>
      <4>1. Sends(toServer', subscribed')
        BY <3>5, SendsNone
      <4>2. Quiet'
        BY <3>2, <3>3, <3>5, <4>1 DEF Quiet
      <4> QED BY <3>2, <3>3, <3>5, <4>2 DEF InStep
    <3> QED BY <3>2, <3>4, <3>5
  <2>2. CASE ~(server_connect /\ ~mServerIpAddr)
    <3>1. /\ pc = "idle" /\ UNCHANGED <<fromServer, link, inStep, mRcvChlActive>> /\ call' = call + 1 /\ taken' = call + 1
          /\ \/ toServer' = toServer /\ pc' # "overrun" /\ pc' # "wait"
             \/ /\ ~mRcvChlActive /\ pc' = "wait"
                /\ \E cmd, v : /\ toServer' = Sent(call + 1, Request(cmd, v))
                               /\ \/ op' = "get_targets" /\ cmd = "GET_TARGETS"
                                  \/ op' = "get_target_clients" /\ cmd = "GET_CLIENTS"
                                  \/ op' = "device_unlock_set_key" /\ cmd = "SET_DEVICE_KEY"
      <4> USE DEF BeginQuery, May, WithoutPacket
      <4>1. CASE server_connect
        BY <2>2, <4>1 DEF server_connect
      <4>2. CASE server_unlock \/ device_unlock_get_challenge
        BY <4>2 DEF server_unlock, device_unlock_get_challenge
      <4>3. CASE get_targets
        BY <4>3 DEF get_targets, get_pkt_rq_get_targets
      <4>4. CASE get_target_clients
        BY <4>4 DEF get_target_clients, get_pkt_rq_get_target_clients
      <4>5. CASE device_unlock_set_key
        BY <4>5 DEF device_unlock_set_key, get_pkt_rq_device_unlock_set_key
      <4> QED BY <1>1, <4>1, <4>2, <4>3, <4>4, <4>5 DEF BaseCall
    <3>2. InStep /\ UNCHANGED <<mChlCht, mChlNum, mRcvChlActive, subscribed, stray>>
      BY <1>0, <1>1, <3>1 DEF chlVars
    <3>3. CASE toServer' = toServer /\ pc' # "overrun" /\ pc' # "wait"
      BY <3>1, <3>2, <3>3, WithoutRequest
    <3>4. CASE ~mRcvChlActive /\ pc' = "wait" /\ \E cmd, v :
            /\ toServer' = Sent(call + 1, Request(cmd, v))
            /\ \/ op' = "get_targets" /\ cmd = "GET_TARGETS"
               \/ op' = "get_target_clients" /\ cmd = "GET_CLIENTS"
               \/ op' = "device_unlock_set_key" /\ cmd = "SET_DEVICE_KEY"
      <4>1. PICK cmd, v :
            /\ toServer' = Sent(call + 1, Request(cmd, v))
            /\ \/ op' = "get_targets" /\ cmd = "GET_TARGETS"
               \/ op' = "get_target_clients" /\ cmd = "GET_CLIENTS"
               \/ op' = "device_unlock_set_key" /\ cmd = "SET_DEVICE_KEY"
        BY <3>4
      <4>2. Asks(op', cmd) /\ op' # "subscribe"
        BY <4>1 DEF Asks
      <4>3. ~mRcvChlActive'
        BY <3>1, <3>4, Zenon
      <4> QED BY <3>1, <3>2, <3>4, <4>1, <4>2, <4>3, WithRequest
    <3> QED BY <3>1, <3>3, <3>4
  <2> QED BY <2>1, <2>2
<1>2. CASE session_start \/ device_connect \/ target_ping
  <2>1. /\ pc = "idle" /\ UNCHANGED <<fromServer, link, inStep, mRcvChlActive>> /\ call' = call + 1 /\ taken' = call + 1
        /\ UNCHANGED chlVars
        /\ \/ toServer' = toServer /\ pc' # "overrun" /\ pc' # "wait"
           \/ /\ mChlCht = "NONE" /\ pc' = "wait"
              /\ \E cmd : /\ toServer' = Sent(call + 1, Request(cmd, NoArg))
                          /\ \/ op' = "session_start" /\ cmd = "SESSION_START"
                             \/ op' = "device_connect" /\ cmd = "DEVICE_CONNECT"
                             \/ op' = "target_ping" /\ cmd = "PING"
    <3> USE DEF May, WithoutChannel
    <3>1. CASE session_start
      BY <3>1 DEF session_start, mSessionStart, get_pkt_rq_session_start
    <3>2. CASE device_connect
      BY <3>2 DEF device_connect, mDeviceConnect, BeginQuery, get_pkt_rq_device_connect
    <3>3. CASE target_ping
      BY <3>3 DEF target_ping, PingBegun, get_pkt_rq_ping
    <3> QED BY <1>2, <3>1, <3>2, <3>3
  <2>2. InStep /\ UNCHANGED <<mChlCht, mChlNum, mRcvChlActive, subscribed, stray>>
    BY <1>0, <2>1 DEF chlVars
  <2>3. CASE toServer' = toServer /\ pc' # "overrun" /\ pc' # "wait"
    BY <2>1, <2>2, <2>3, WithoutRequest
  <2>4. CASE mChlCht = "NONE" /\ pc' = "wait" /\ \E cmd :
            /\ toServer' = Sent(call + 1, Request(cmd, NoArg))
            /\ \/ op' = "session_start" /\ cmd = "SESSION_START"
               \/ op' = "device_connect" /\ cmd = "DEVICE_CONNECT"
               \/ op' = "target_ping" /\ cmd = "PING"
    <3>1. PICK cmd :
            /\ toServer' = Sent(call + 1, Request(cmd, NoArg))
            /\ \/ op' = "session_start" /\ cmd = "SESSION_START"
               \/ op' = "device_connect" /\ cmd = "DEVICE_CONNECT"
               \/ op' = "target_ping" /\ cmd = "PING"
      BY <2>4
    <3>2. Asks(op', cmd) /\ op' # "subscribe"
      BY <3>1 DEF Asks
    <3>3. mChlCht \notin Receiving
      BY <2>4 DEF Receiving
    <3>4. ~mRcvChlActive'
      BY <1>0, <2>2, <3>3, Zenon DEF ChannelTypes
    <3> QED BY <2>1, <2>2, <2>4, <3>1, <3>2, <3>4, WithRequest
  <2> QED BY <2>1, <2>3, <2>4
<1>3. CASE device_reset_occurred
  <2>1. /\ pc = "idle" /\ UNCHANGED <<fromServer, toServer, link, inStep>> /\ call' = call + 1 /\ taken' = call + 1
        /\ ChannelSame /\ pc' = "idle"
    BY <1>3 DEF device_reset_occurred, May, Channel, Device
  <2>2. InStep
    BY <1>0, <2>1
  <2> QED BY <2>1, <2>2, WithoutRequest
<1>4. CASE subscribe
  <2>1. PICK chl, cht :
            \/ Refuse("subscribe", NoArg, "FN_USAGE")
            \/ Refuse("subscribe", NoArg, "FN_PARAM")
            \/ /\ mChlCht = "NONE"
               /\ Execute("subscribe", [chl |-> chl, cht |-> cht], get_pkt_rq_subscribe([chl |-> chl, cht |-> cht]))
    BY <1>4 DEF subscribe
  <2>2. pc = "idle" /\ ChannelSame /\ UNCHANGED <<fromServer, link, inStep>> /\ call' = call + 1 /\ taken' = call + 1
    BY <1>4, <2>1 DEF subscribe, May, Channel, Device
  <2>3. InStep
    BY <1>0, <2>2
  <2>4. CASE pc' = "idle" /\ toServer' = toServer
    BY <2>2, <2>3, <2>4, WithoutRequest
  <2>5. CASE /\ mChlCht = "NONE"
             /\ Execute("subscribe", [chl |-> chl, cht |-> cht], get_pkt_rq_subscribe([chl |-> chl, cht |-> cht]))
    <3>1. mChlCht \notin Receiving
      BY <2>5 DEF Receiving
    <3>2. ~mRcvChlActive'
      BY <1>0, <2>2, <3>1, Zenon DEF ChannelTypes
    <3>3. /\ toServer' = Sent(call + 1, Request("CHL_SUBSCRIBE", [chl |-> chl, cht |-> cht])) /\ pc' = "wait"
          /\ op' = "subscribe" /\ arg' = [chl |-> chl, cht |-> cht]
      BY <2>5 DEF get_pkt_rq_subscribe
    <3>4. Asks(op', "CHL_SUBSCRIBE")
      BY <3>3 DEF Asks
    <3> QED BY <2>2, <2>3, <3>2, <3>3, <3>4, WithRequest
  <2> QED BY <2>1, <2>4, <2>5
<1>5. CASE unsubscribe
  <2>1. /\ pc = "idle" /\ UNCHANGED <<fromServer, link, inStep, subscribed, stray>> /\ call' = call + 1 /\ taken' = call + 1
        /\ mChlCht' = "NONE" /\ mChlNum' = TAS_CHL_NUM_MAX /\ mRcvChlActive' = FALSE
        /\ \/ mChlCht = "NONE" /\ pc' = "idle" /\ toServer' = toServer
           \/ /\ toServer' = Sent(call + 1, Request("CHL_UNSUBSCRIBE", [chl |-> mChlNum])) /\ pc' = "wait" /\ op' = "unsubscribe"
    BY <1>5 DEF unsubscribe, May, Device, get_pkt_rq_unsubscribe
  <2>2. InStep
    BY <1>0, <2>1
  <2>3. CASE mChlCht = "NONE" /\ pc' = "idle" /\ toServer' = toServer
    <3>1. (mChlCht \in Receiving) = FALSE
      BY <2>3 DEF Receiving
    <3>2. mRcvChlActive = FALSE
      BY <1>0, <3>1, Zenon DEF ChannelTypes
    <3>3. mChlNum = TAS_CHL_NUM_MAX
      BY <1>0, <2>3 DEF ChannelTypes
    <3>4. ChannelSame
      BY <2>1, <2>3, <3>2, <3>3
    <3> QED BY <2>1, <2>2, <2>3, <3>4, WithoutRequest
  <2>4. CASE toServer' = Sent(call + 1, Request("CHL_UNSUBSCRIBE", [chl |-> mChlNum])) /\ pc' = "wait" /\ op' = "unsubscribe"
    <3>1. Asks(op', "CHL_UNSUBSCRIBE") /\ op' # "subscribe"
      BY <2>4 DEF Asks
    <3> QED BY <2>1, <2>2, <2>4, <3>1, WithRequest
  <2> QED BY <2>1, <2>3, <2>4
<1>6. CASE send_msg
  <2>1. /\ pc = "idle" /\ UNCHANGED <<mChlCht, mChlNum, mRcvChlActive, subscribed, stray, inStep>>
        /\ call' = call + 1 /\ taken' = call + 1 /\ pc' \in {"idle", "smashed"}
        /\ \/ UNCHANGED <<toServer, fromServer, link>>
           \/ /\ MaySend /\ UNCHANGED <<fromServer, link>>
              /\ \E v : v.chl = mChlNum /\ toServer' = Sent(call + 1, Request("CHL_MSG_C2D", v))
           \/ toServer' = <<>> /\ fromServer' = <<>> /\ link' = "none"
    BY <1>6, MessageSent
  <2>2. InStep
    BY <1>0, <2>1
  <2>3. CASE UNCHANGED <<toServer, fromServer, link>>
    BY <2>1, <2>2, <2>3, WithoutRequest
  <2>4. Quiet
    BY <2>1, <2>2, QuietIdle
  <2>5. ~stray'
    BY <2>1, <2>2, Zenon DEF InStep
  <2>6. CASE /\ MaySend /\ UNCHANGED <<fromServer, link>>
             /\ \E v : v.chl = mChlNum /\ toServer' = Sent(call + 1, Request("CHL_MSG_C2D", v))
    <3>1. PICK v : v.chl = mChlNum /\ toServer' = Sent(call + 1, Request("CHL_MSG_C2D", v))
      BY <2>6
    <3> DEFINE rq == [cmd |-> "CHL_MSG_C2D", call |-> call + 1, v |-> v]
    <3>2. CASE link = "up"
      <4>1. toServer' = Append(toServer, rq)
        BY <3>1, <3>2 DEF Sent, Request
      <4>2. subscribed = [chl |-> mChlNum, cht |-> mChlCht]
        BY <2>4, <3>2 DEF Quiet, Agreed
      <4>3. Match(rq, subscribed)
        BY <2>6, <3>1, <4>2 DEF Match, MaySend
      <4> HIDE DEF rq
      <4>4. Sends(toServer', subscribed')
        BY <2>1, <2>4, <4>1, <4>3, SendsMore DEF Quiet
      <4>5. Quiet'
        BY <2>1, <2>4, <2>6, <4>4 DEF Quiet, Agreed
      <4> QED BY <2>1, <2>5, <4>5 DEF InStep
    <3>3. CASE link # "up"
      <4>1. toServer' = toServer
        BY <3>1, <3>3 DEF Sent
      <4> QED BY <2>1, <2>2, <2>6, <4>1, WithoutRequest
    <3> QED BY <3>2, <3>3
  <2>7. CASE toServer' = <<>> /\ fromServer' = <<>> /\ link' = "none"
    <3>1. Sends(toServer', subscribed') /\ Messages(fromServer')
      BY <2>7, SendsNone, MessagesNone
    <3>2. Quiet'
      BY <2>1, <2>7, <3>1 DEF Quiet, Agreed
    <3> QED BY <2>1, <2>5, <3>2 DEF InStep
  <2> QED BY <2>1, <2>3, <2>6, <2>7
<1>7. CASE rcv_msg
  <2>1. /\ pc = "idle" /\ UNCHANGED <<fromServer, toServer, link, inStep>> /\ call' = call + 1 /\ taken' = call + 1
        /\ ChannelSame /\ pc' \in {"idle", "wait"} /\ op' = "rcv_msg"
    BY <1>7 DEF rcv_msg, May, Channel, Device
  <2>2. InStep
    BY <1>0, <2>1
  <2> QED BY <2>1, <2>2, WithoutRequest
<1> QED BY <1>1, <1>2, <1>3, <1>4, <1>5, <1>6, <1>7 DEF Call

\* A call that is given up is in step only if it was rcv_msg(), or if there is no
\* connection any more.
LEMMA InStepGivenUp ==
    ASSUME Outside, inStep => InStep, GivenUp, inStep'
    PROVE  InStep'
<1>1. ChannelSame /\ UNCHANGED <<op, call, taken>> /\ pc = "wait"
  BY DEF GivenUp, Timeout, Lost, Overrun, Failed, Channel, Device, ChannelSame
<1>2. inStep
  BY DEF GivenUp, Timeout, Lost, Overrun
<1>3. InStep
  BY <1>2
<1>4. taken' = call' /\ ~stray'
  BY <1>1, <1>3, Zenon DEF InStep, ChannelSame
<1>5. CASE Timeout
  <2>1. op = "rcv_msg" /\ pc' = "idle" /\ fromServer = <<>> /\ UNCHANGED <<link, toServer, fromServer>>
    BY <1>5 DEF Timeout, Return
  <2>2. Quiet
    BY <1>3, <2>1 DEF InStep, Asked, Told
  <2>3. Agreed'
    BY <1>1, <2>1, <2>2 DEF Quiet, Agreed, ChannelSame
  <2>4. Sends(toServer', subscribed') /\ Messages(fromServer')
    BY <1>1, <2>1, <2>2, Zenon DEF Quiet, ChannelSame
  <2>5. Quiet'
    BY <2>1, <2>3, <2>4 DEF Quiet
  <2> QED BY <1>4, <2>1, <2>5 DEF InStep
<1>6. CASE Lost
  <2>1. pc' = "idle" /\ link' = "none" /\ toServer' = <<>> /\ fromServer' = <<>>
    BY <1>6 DEF Lost, Return, Disconnect
  <2>2. Sends(toServer', subscribed') /\ Messages(fromServer')
    BY <2>1, SendsNone, MessagesNone
  <2>3. Quiet'
    BY <2>1, <2>2 DEF Quiet, Agreed
  <2> QED BY <1>4, <2>1, <2>3 DEF InStep
<1>7. CASE Overrun
  <2>1. fromServer # <<>> /\ SizeOf(Head(fromServer)) > Buffer
    BY <1>7 DEF Overrun
  <2>2. SizeOf(Head(fromServer)) \in Int /\ Buffer \in Int /\ SizeOf(Head(fromServer)) <= Buffer
    BY <1>1, <1>3, <2>1, NoOverrun
  <2> QED BY <2>1, <2>2
<1> QED BY <1>5, <1>6, <1>7 DEF GivenUp

LEMMA InStepSubscribed ==
    ASSUME Outside, ChannelTypes, InStep, Subscribed
    PROVE  InStep'
<1> DEFINE p == Head(fromServer)
<1>1. /\ pc = "wait" /\ op = "subscribe" /\ fromServer # <<>> /\ fromServer' = Tail(fromServer) /\ taken' = p.call
      /\ pc' = "idle" /\ ret' = set_pkt_rsp_subscribe(p) /\ UNCHANGED <<call, link, toServer, subscribed, stray>>
      /\ IF set_pkt_rsp_subscribe(p) = "NONE"
         THEN mChlCht' = arg.cht /\ mChlNum' = arg.chl /\ mRcvChlActive' = (arg.cht \in Receiving)
         ELSE UNCHANGED <<mChlCht, mChlNum, mRcvChlActive>>
  BY DEF Subscribed, Received, Return, Take, Device, Channel
<1>2. toServer = <<>> /\ p.call = call /\ Messages(Tail(fromServer)) /\ Asks(op, p.cmd)
      /\ IF p.err = "NO_ERROR"
         THEN /\ p.full /\ p.v = arg
              /\ link = "up" => subscribed = arg
              /\ Tail(fromServer) # <<>> => arg.cht \in Receiving
         ELSE Tail(fromServer) = <<>> /\ Agreed
  BY <1>1, TakesAnswer
<1>3. p.cmd = "CHL_SUBSCRIBE"
  BY <1>1, <1>2 DEF Asks
<1>4. arg = [chl |-> arg.chl, cht |-> arg.cht] /\ mChl = arg.chl /\ arg.cht \in Types
  BY <1>1 DEF Outside, ChannelTypes
<1>5. ~stray' /\ taken' = call' /\ Sends(toServer', subscribed') /\ Messages(fromServer')
  <2>1. ~stray
    BY DEF InStep
  <2> QED BY <1>1, <1>2, <2>1, SendsNone
<1>6. CASE p.err = "NO_ERROR"
  <2>1. set_pkt_rsp_subscribe(p) = "NONE"
    BY <1>2, <1>3, <1>4, <1>6 DEF set_pkt_rsp_subscribe
  <2>2. mChlCht' = arg.cht /\ mChlNum' = arg.chl /\ mRcvChlActive' = (arg.cht \in Receiving)
    BY <1>1, <2>1
  <2>3. Agreed'
    BY <1>1, <1>2, <1>4, <1>6, <2>2 DEF Agreed
  <2>4. fromServer' # <<>> => mRcvChlActive'
    <3>1. fromServer' # <<>> => arg.cht \in Receiving
      BY <1>1, <1>2, <1>6
    <3> QED BY <2>2, <3>1, Zenon
  <2>5. Quiet'
    BY <1>1, <1>5, <2>3, <2>4 DEF Quiet
  <2> QED BY <1>1, <1>5, <2>5 DEF InStep
<1>7. CASE p.err # "NO_ERROR"
  <2>1. set_pkt_rsp_subscribe(p) # "NONE"
    BY <1>7 DEF set_pkt_rsp_subscribe
  <2>2. UNCHANGED <<mChlCht, mChlNum>>
    BY <1>1, <2>1
  <2>3. Agreed' /\ fromServer' = <<>>
    BY <1>1, <1>2, <1>7, <2>2 DEF Agreed
  <2>4. Quiet'
    BY <1>1, <1>5, <2>3 DEF Quiet
  <2> QED BY <1>1, <1>5, <2>4 DEF InStep
<1> QED BY <1>6, <1>7

\* unsubscribe() takes its answer.
LEMMA InStepUnsubscribed ==
    ASSUME InStep, pc = "wait", op = "unsubscribe", fromServer # <<>>, ChannelSame,
           Head(fromServer).cmd = "CHL_UNSUBSCRIBE", fromServer' = Tail(fromServer), taken' = Head(fromServer).call,
           pc' = "idle", UNCHANGED <<call, link, toServer>>
    PROVE  InStep'
<1>1. ~Msg(Head(fromServer))
  BY DEF Msg
<1>2. Told
  <2>1. Quiet \/ Asked => Msg(Head(fromServer))
    BY MessagesTaken DEF Quiet, Asked
  <2> QED BY <1>1, <2>1 DEF InStep
<1>3. PICK j \in 1..Len(fromServer) : Answering(fromServer, j, call, op) /\ j = Len(fromServer) /\ Agreed
  BY <1>2 DEF Told
<1>4. Head(fromServer) = fromServer[j] /\ Tail(fromServer) = <<>>
  BY <1>1, <1>3, AnsweringTaken
<1>5. fromServer[j].call = call /\ toServer = <<>>
  BY <1>2, <1>3 DEF Answering, Told
<1>6. Sends(toServer', subscribed') /\ Messages(fromServer')
  BY <1>4, <1>5, SendsNone, MessagesNone
<1>7. Agreed'
  BY <1>3 DEF Agreed, ChannelSame
<1>8. Quiet'
  BY <1>4, <1>6, <1>7 DEF Quiet
<1>9. ~stray'
  BY Zenon DEF InStep, ChannelSame
<1> QED BY <1>4, <1>5, <1>8, <1>9, Zenon DEF InStep

\* unsubscribe() throws away what is no answer.
LEMMA InStepDiscarded ==
    ASSUME InStep, pc = "wait", op = "unsubscribe", fromServer # <<>>, ChannelSame,
           Head(fromServer).cmd # "CHL_UNSUBSCRIBE", fromServer' = Tail(fromServer),
           UNCHANGED <<pc, op, arg, call, taken, link, toServer>>
    PROVE  InStep'
<1>1. ~stray' /\ taken' = call'
  BY Zenon DEF InStep, ChannelSame
<1>2. CASE Quiet
  <2>1. Messages(fromServer') /\ Sends(toServer', subscribed') /\ link # "up"
    BY <1>2, MessagesTaken DEF Quiet, ChannelSame
  <2>2. Quiet'
    BY <2>1 DEF Quiet, Agreed
  <2> QED BY <1>1, <2>2 DEF InStep
<1>3. CASE Asked
  <2>1. Messages(fromServer') /\ Asking(toServer', subscribed', call', op', arg') /\ ~mRcvChlActive' /\ link = "up"
    BY <1>3, MessagesTaken, Zenon DEF Asked, ChannelSame
  <2>2. Asked'
    BY <2>1, Zenon DEF Asked
  <2> QED BY <1>1, <2>2 DEF InStep
<1>4. CASE Told
  <2>1. PICK j \in 1..Len(fromServer) : Answering(fromServer, j, call, op) /\ j = Len(fromServer) /\ Agreed
    BY <1>4 DEF Told
  <2>2. Head(fromServer) # fromServer[j]
    <3>1. Asks(op, fromServer[j].cmd)
      BY <2>1 DEF Answering
    <3> QED BY <3>1 DEF Asks
  <2>3. /\ Answering(fromServer', j - 1, call, op)
        /\ Len(fromServer') = Len(fromServer) - 1 /\ j - 1 \in 1..Len(fromServer')
    BY <2>1, <2>2, AnsweringTaken
  <2>4. j - 1 = Len(fromServer') /\ Agreed' /\ op # "subscribe"
    BY <2>1, <2>3 DEF Agreed, ChannelSame
  <2>5. toServer' = <<>> /\ ~mRcvChlActive'
    BY <1>4, Zenon DEF Told, ChannelSame
  <2>6. Told'
    <3>1. op' # "rcv_msg" /\ Answering(fromServer', j - 1, call', op') /\ op' # "subscribe" /\ pc' = "wait"
      BY <2>3, <2>4
    <3> QED BY <2>3, <2>4, <2>5, <3>1, Zenon DEF Told
  <2> QED BY <1>1, <2>6 DEF InStep
<1> QED BY <1>2, <1>3, <1>4 DEF InStep

LEMMA InStepReceived ==
    ASSUME InStep, MsgReceived
    PROVE  InStep'
<1> DEFINE p == Head(fromServer)
<1>1. /\ pc = "wait" /\ op = "rcv_msg" /\ fromServer # <<>> /\ fromServer' = Tail(fromServer) /\ pc' = "idle"
      /\ taken' = (IF p.cmd = "CHL_MSG_D2C" THEN call ELSE p.call)
      /\ UNCHANGED <<toServer, link, call>> /\ ChannelSame
  BY DEF MsgReceived, Received, Return, Channel, Device, stateVars, ChannelSame
<1>2. Quiet
  BY <1>1 DEF InStep, Asked, Told
<1>3. Msg(p) /\ Messages(fromServer') /\ Sends(toServer', subscribed')
  BY <1>1, <1>2, MessagesTaken DEF Quiet, ChannelSame
<1>4. taken' = call'
  BY <1>1, <1>3 DEF Msg
<1>5. mRcvChlActive'
  BY <1>1, <1>2, Zenon DEF Quiet, ChannelSame
<1>6. Agreed'
  BY <1>1, <1>2 DEF Quiet, Agreed, ChannelSame
<1>7. Quiet'
  BY <1>1, <1>3, <1>5, <1>6 DEF Quiet
<1>8. ~stray'
  BY <1>1, Zenon DEF InStep, ChannelSame
<1> QED BY <1>1, <1>4, <1>7, <1>8 DEF InStep

\* What the other methods do with the packet they take.
TookAnswer ==
    /\ pc = "wait" /\ op \notin {"rcv_msg", "unsubscribe", "subscribe"} /\ fromServer # <<>>
    /\ fromServer' = Tail(fromServer) /\ taken' = Head(fromServer).call
    /\ UNCHANGED <<op, arg, link, call, inStep>> /\ ChannelSame
    /\ \/ pc' = "idle" /\ toServer' = toServer
       \/ /\ op = "get_targets" /\ pc' = pc
          /\ \E v : toServer' = Sent(call, Request("GET_TARGETS", v))

LEMMA TookAnswers ==
    ASSUME \/ BaseStep /\ UNCHANGED chlVars
           \/ ChlSessionStarted \/ ChlDeviceConnected \/ Pinged
    PROVE  TookAnswer
<1> USE DEF Received, Return, Take, stateVars, chlVars, ChannelSame, Channel, Device, TookAnswer
<1>1. CASE (ServerConnected \/ KeySet \/ set_pkt_rsp_get_target_clients) /\ UNCHANGED chlVars
  BY <1>1 DEF ServerConnected, KeySet, set_pkt_rsp_get_target_clients
<1>2. CASE set_pkt_rsp_get_targets /\ UNCHANGED chlVars
  BY <1>2 DEF set_pkt_rsp_get_targets, get_pkt_rq_get_targets
<1>3. CASE ChlSessionStarted
  BY <1>3 DEF ChlSessionStarted, SessionStarted
<1>4. CASE ChlDeviceConnected
  BY <1>4 DEF ChlDeviceConnected, DeviceConnected
<1>5. CASE Pinged
  BY <1>5 DEF Pinged
<1> QED BY <1>1, <1>2, <1>3, <1>4, <1>5 DEF BaseStep

LEMMA InStepTook ==
    ASSUME InStep, TookAnswer
    PROVE  InStep'
<1>1. CASE pc' = "idle" /\ toServer' = toServer
  BY <1>1, AnswerTaken DEF TookAnswer
<1>2. CASE op = "get_targets" /\ pc' = pc /\ \E v : toServer' = Sent(call, Request("GET_TARGETS", v))
  BY <1>2, AsksAgain DEF TookAnswer
<1> QED BY <1>1, <1>2 DEF TookAnswer

LEMMA InStepStep ==
    ASSUME TypeInv, StepInv, Step \/ TimePasses, inStep'
    PROVE  InStep'
<1>0. Outside /\ ChannelTypes /\ (inStep => InStep)
  BY DEF StepInv, TypeInv
<1>1. CASE (BaseStep /\ UNCHANGED chlVars) \/ ChlSessionStarted \/ ChlDeviceConnected \/ Pinged
  <2>1. TookAnswer
    BY <1>1, TookAnswers
  <2>2. InStep
    BY <1>0, <2>1 DEF TookAnswer
  <2> QED BY <2>1, <2>2, InStepTook
<1>2. CASE GivenUp
  BY <1>0, <1>2, InStepGivenUp
<1>3. CASE Subscribed
  <2>1. inStep
    BY <1>3 DEF Subscribed, Take
  <2> QED BY <1>0, <1>3, <2>1, InStepSubscribed
<1>4. CASE Unsubscribed
  <2>1. inStep /\ Head(fromServer).cmd = "CHL_UNSUBSCRIBE"
    BY <1>4 DEF Unsubscribed, EndsUnsubscribe
  <2>2. /\ pc = "wait" /\ op = "unsubscribe" /\ fromServer # <<>> /\ fromServer' = Tail(fromServer)
        /\ taken' = Head(fromServer).call /\ pc' = "idle" /\ UNCHANGED <<call, link, toServer>> /\ ChannelSame
    BY <1>4 DEF Unsubscribed, Received, Return, Channel, Device, stateVars, ChannelSame
  <2> QED BY <1>0, <2>1, <2>2, InStepUnsubscribed
<1>5. CASE Discarded
  <2>1. inStep
    BY <1>5 DEF Discarded
  <2>2. /\ pc = "wait" /\ op = "unsubscribe" /\ fromServer # <<>> /\ fromServer' = Tail(fromServer)
        /\ Head(fromServer).cmd # "CHL_UNSUBSCRIBE"
        /\ UNCHANGED <<pc, op, arg, call, taken, link, toServer>> /\ ChannelSame
    BY <1>5 DEF Discarded, Received, EndsUnsubscribe, stateVars, chlVars, ChannelSame
  <2> QED BY <1>0, <2>1, <2>2, InStepDiscarded
<1>6. CASE MsgReceived
  <2>1. inStep
    BY <1>6 DEF MsgReceived
  <2> QED BY <1>0, <1>6, <2>1, InStepReceived
<1>7. CASE TimePasses
  <2>1. UNCHANGED baseVars /\ UNCHANGED <<mChlCht, mChlNum, subscribed, stray>>
    BY <1>7 DEF TimePasses, Channel, Device
  <2>2. inStep
    BY <2>1 DEF baseVars
  <2>3. InStep
    BY <1>0, <2>2
  <2> QED BY <2>1, <2>3, Zenon DEF InStep, Quiet, Asked, Told, Agreed, baseVars, stateVars
<1> QED BY <1>1, <1>2, <1>3, <1>4, <1>5, <1>6, <1>7 DEF Step

--------------------------------------------------------------------------------
(* Pages have no more entries than a packet has room for.                     *)

LEMMA LeastIn ==
    ASSUME NEW page \in Nat, NEW n \in Nat
    PROVE  least(page, n) \in 0..page
BY SMT DEF least

\* The server does not answer messages.
LEMMA ServerAnswers ==
    ASSUME ListInv, Server
    PROVE  /\ toServer # <<>> /\ link = "up" /\ toServer' = Tail(toServer) /\ Head(toServer).cmd # "CHL_MSG_C2D"
           /\ UNCHANGED <<pc, op, arg, call, taken, link, mRcvChlActive, inStep>>
           /\ \E p : /\ fromServer' = Append(fromServer, p) /\ p.cmd = Head(toServer).cmd
                     /\ p.call = Head(toServer).call /\ Paged(p)
                     /\ p.cmd # "CHL_UNSUBSCRIBE" /\ ~(p.cmd = "CHL_SUBSCRIBE" /\ p.err = "NO_ERROR")
<1> USE DEF Pending, Push, Answered, stateVars, Answer, HeaderOnly
<1> DEFINE rq == Head(toServer)
<1>0. /\ Counts(sampled) /\ targetSample \in 0..Len(sampled) /\ Len(sampled) \in Nat
      /\ TargetPage \in Nat /\ ClientPage \in Nat
      /\ toServer # <<>> /\ rq.cmd = "GET_TARGETS" => rq.v.start \in Nat /\ (rq.v.start # 0 => targetSample > 0)
  <2>1. toServer # <<>> => Head(toServer) = toServer[1] /\ Len(toServer) \in Nat /\ Len(toServer) > 0
    BY TailAny DEF ListInv, Packets, IsSeq
  <2>2. toServer # <<>> => 1 \in 1..Len(toServer)
    BY <2>1
  <2> QED BY <2>1, <2>2, PageAssumption DEF ListInv, Packets, Counts, IsSeq
<1>1. CASE ServerSendsTargets
  <2>1. /\ toServer # <<>> /\ link = "up" /\ toServer' = Tail(toServer) /\ rq.cmd = "GET_TARGETS"
        /\ UNCHANGED <<pc, op, arg, call, taken, link, mRcvChlActive, inStep>>
    BY <1>1 DEF ServerSendsTargets
  <2>2. PICK v : fromServer' = Append(fromServer, Answer(rq.cmd, rq.call, "NO_ERROR", v)) /\ Len(v.items) \in 0..TargetPage
    <3>1. CASE rq.v.start = 0
      <4>1. PICK n \in TargetLens : fromServer' = Append(fromServer, Answer(rq.cmd, rq.call, "NO_ERROR",
                [num |-> n, start |-> 0, items |-> [k \in 1..least(TargetPage, n) |-> <<Len(sampled) + 1, k>>]]))
        BY <1>1, <3>1 DEF ServerSendsTargets
      <4>2. n \in Nat
        BY LensAssumption
      <4> DEFINE items == [k \in 1..least(TargetPage, n) |-> <<Len(sampled) + 1, k>>]
                 v == [num |-> n, start |-> 0, items |-> items]
      <4>3. Len(items) \in 0..TargetPage
        <5> DEFINE m == least(TargetPage, n)
        <5>1. m \in 0..TargetPage
          BY <1>0, <4>2, LeastIn
        <5> HIDE DEF m
        <5>2. items = [k \in 1..m |-> <<Len(sampled) + 1, k>>]
          BY DEF m
        <5> HIDE DEF items
        <5>3. Len(items) = m
          BY <1>0, <5>1, <5>2, SMT
        <5> QED BY <5>1, <5>3
      <4> HIDE DEF items
      <4>4. v.items = items
        OBVIOUS
      <4> HIDE DEF v
      <4>5. fromServer' = Append(fromServer, Answer(rq.cmd, rq.call, "NO_ERROR", v))
        BY <4>1 DEF v, items
      <4> QED BY <4>3, <4>4, <4>5
    <3>2. CASE rq.v.start # 0
      <4> DEFINE s == targetSample
                 items == Entries(s, rq.v.start, TargetPage)
                 v == PageOf(s, rq.v.start, TargetPage)
      <4>1. fromServer' = Append(fromServer, Answer(rq.cmd, rq.call, "NO_ERROR", v))
        BY <1>1, <3>2 DEF ServerSendsTargets
      <4>2. sampled[s] \in Nat
        <5>1. s \in 1..Len(sampled)
          BY <1>0, <2>1, <3>2
        <5> QED BY <1>0, <5>1 DEF Counts
      <4>3. Len(items) \in 0..TargetPage
        <5>1. CASE rq.v.start < sampled[s]
          <6>1. sampled[s] - rq.v.start \in Nat
            BY <1>0, <2>1, <4>2, <5>1
          <6>2. items = [k \in 1..least(TargetPage, sampled[s] - rq.v.start) |-> <<s, rq.v.start + k>>]
            BY <5>1 DEF Entries
          <6> DEFINE m == least(TargetPage, sampled[s] - rq.v.start)
          <6>3. m \in 0..TargetPage
            BY <1>0, <6>1, LeastIn
          <6>4. items = [k \in 1..m |-> <<s, rq.v.start + k>>]
            BY <6>2
          <6> HIDE DEF items, m
          <6>5. Len(items) = m
            BY <1>0, <6>3, <6>4, SMT
          <6> QED BY <6>3, <6>5
        <5>2. CASE ~(rq.v.start < sampled[s])
          <6>1. items = [k \in 1..0 |-> <<s, rq.v.start + k>>]
            BY <5>2 DEF Entries
          <6> HIDE DEF items
          <6>2. Len(items) = 0
            BY <6>1, SMT
          <6> QED BY <1>0, <6>2
        <5> QED BY <5>1, <5>2
      <4>4. v.items = items
        BY DEF PageOf
      <4> HIDE DEF v, items
      <4> QED BY <4>1, <4>3, <4>4
    <3> QED BY <3>1, <3>2
  <2> DEFINE p == Answer(rq.cmd, rq.call, "NO_ERROR", v)
  <2>3. p.cmd = "GET_TARGETS" /\ p.call = rq.call /\ p.full = TRUE /\ p.v = v
    BY <2>1
  <2> HIDE DEF p
  <2>4. Paged(p)
    BY <2>2, <2>3 DEF Paged
  <2>5. fromServer' = Append(fromServer, p)
    BY <2>2 DEF p
  <2> QED BY <2>1, <2>3, <2>4, <2>5
<1>2. CASE ServerSendsClients
  <2>1. /\ toServer # <<>> /\ link = "up" /\ toServer' = Tail(toServer) /\ rq.cmd = "GET_CLIENTS"
        /\ UNCHANGED <<pc, op, arg, call, taken, link, mRcvChlActive, inStep>>
    BY <1>2 DEF ServerSendsClients
  <2>2. PICK n \in ClientLens : fromServer' = Append(fromServer, Answer(rq.cmd, rq.call, "NO_ERROR",
            [num |-> n, start |-> 0,
             items |-> Reversed([k \in 1..least(ClientPage, n) |-> <<Len(sampled) + 1, k>>])]))
    BY <1>2 DEF ServerSendsClients
  <2>3. n \in Nat
    BY LensAssumption
  <2> DEFINE entries == [k \in 1..least(ClientPage, n) |-> <<Len(sampled) + 1, k>>]
             items == Reversed(entries)
             v == [num |-> n, start |-> 0, items |-> items]
             p == Answer(rq.cmd, rq.call, "NO_ERROR", v)
  <2>4. Len(items) \in 0..ClientPage
    <3>1. least(ClientPage, n) \in 0..ClientPage
      BY <1>0, <2>3 DEF least
    <3>2. DOMAIN entries = 1..least(ClientPage, n)
      OBVIOUS
    <3> DEFINE m == least(ClientPage, n)
    <3> HIDE DEF entries
    <3>3. items = [k \in 1..m |-> entries[Len(entries) + 1 - k]]
      BY <3>2, Zenon DEF Reversed
    <3> HIDE DEF m, items
    <3>4. m \in 0..ClientPage
      BY <3>1 DEF m
    <3>5. Len(items) = m
      BY <1>0, <3>3, <3>4, SMT
    <3> QED BY <3>4, <3>5
  <2> HIDE DEF items
  <2>5. p.cmd = "GET_CLIENTS" /\ p.call = rq.call /\ p.full = TRUE /\ p.v.items = items
    BY <2>1
  <2>6. fromServer' = Append(fromServer, p)
    BY <2>2 DEF items
  <2> HIDE DEF p
  <2>7. Paged(p)
    BY <2>4, <2>5 DEF Paged
  <2> QED BY <2>1, <2>5, <2>6, <2>7
<1>3. CASE ServerSendsConInfo
  <2>1. /\ toServer # <<>> /\ link = "up" /\ toServer' = Tail(toServer) /\ rq.cmd \in {"SESSION_START", "PING"}
        /\ UNCHANGED <<pc, op, arg, call, taken, link, mRcvChlActive, inStep>>
        /\ \E v : fromServer' = Append(fromServer, Answer(rq.cmd, rq.call, "NO_ERROR", v))
    BY <1>3 DEF ServerSendsConInfo
  <2>2. PICK v : fromServer' = Append(fromServer, Answer(rq.cmd, rq.call, "NO_ERROR", v))
    BY <2>1
  <2> DEFINE p == Answer(rq.cmd, rq.call, "NO_ERROR", v)
  <2>3. p.cmd = rq.cmd /\ p.call = rq.call /\ p.full = TRUE
    OBVIOUS
  <2> HIDE DEF p
  <2>4. Paged(p) /\ fromServer' = Append(fromServer, p)
    BY <2>1, <2>2, <2>3 DEF Paged, p
  <2> QED BY <2>1, <2>3, <2>4
<1>4. CASE ServerSendsOk
  <2>1. /\ toServer # <<>> /\ link = "up" /\ toServer' = Tail(toServer)
        /\ rq.cmd \in {"SERVER_CONNECT", "SET_DEVICE_KEY", "DEVICE_CONNECT"}
        /\ UNCHANGED <<pc, op, arg, call, taken, link, mRcvChlActive, inStep>>
        /\ fromServer' = Append(fromServer, Answer(rq.cmd, rq.call, "NO_ERROR", [device |-> TRUE]))
    BY <1>4 DEF ServerSendsOk, serverVars
  <2> DEFINE p == Answer(rq.cmd, rq.call, "NO_ERROR", [device |-> TRUE])
  <2>2. p.cmd = rq.cmd /\ p.call = rq.call /\ p.full = TRUE
    OBVIOUS
  <2> HIDE DEF p
  <2>3. Paged(p) /\ fromServer' = Append(fromServer, p)
    BY <2>1, <2>2 DEF Paged, p
  <2> QED BY <2>1, <2>2, <2>3
<1>5. CASE ServerSendsError
  <2>1. /\ toServer # <<>> /\ link = "up" /\ toServer' = Tail(toServer)
        /\ UNCHANGED <<pc, op, arg, call, taken, link, mRcvChlActive, inStep>>
    BY <1>5 DEF ServerSendsError
  <2>2. PICK e \in Errs(rq) : fromServer' = Append(fromServer,
            IF e.full THEN Answer(rq.cmd, rq.call, e.err, e.v) ELSE HeaderOnly(rq.cmd, rq.call, e.err))
    BY <1>5 DEF ServerSendsError
  <2>3. /\ e.cmd = rq.cmd /\ e.err # "NO_ERROR" /\ e.full \in BOOLEAN
        /\ e.cmd \notin {"CHL_UNSUBSCRIBE", "CHL_MSG_C2D"}
        /\ e.cmd \in {"GET_TARGETS", "GET_CLIENTS"} /\ e.full => e.v.items = <<>>
    BY ErrorAssumption, ChlAssumption DEF Errs
  <2> DEFINE p == IF e.full THEN Answer(rq.cmd, rq.call, e.err, e.v) ELSE HeaderOnly(rq.cmd, rq.call, e.err)
  <2>4. p.cmd = rq.cmd /\ p.call = rq.call /\ p.err = e.err /\ p.full \in BOOLEAN
        /\ (p.full => e.full /\ p.v = e.v)
    BY <2>3
  <2> HIDE DEF p
  <2>5. Len(<<>>) \in 0..TargetPage /\ Len(<<>>) \in 0..ClientPage
    BY <1>0, ShortSeq
  <2>6. Paged(p)
    BY <2>3, <2>4, <2>5 DEF Paged
  <2>7. fromServer' = Append(fromServer, p)
    BY <2>2 DEF p
  <2> QED BY <2>1, <2>3, <2>4, <2>6, <2>7
<1> QED BY <1>1, <1>2, <1>3, <1>4, <1>5 DEF Server

\* The server takes a message.
LEMMA InStepMessage ==
    ASSUME InStep, ServerTakesMsg
    PROVE  InStep'
<1>1. /\ link = "up" /\ toServer # <<>> /\ Head(toServer).cmd = "CHL_MSG_C2D" /\ toServer' = Tail(toServer)
      /\ stray' = (stray \/ subscribed.cht \notin Sending \/ subscribed.chl # Head(toServer).v.chl)
      /\ UNCHANGED <<pc, op, arg, call, taken, link, fromServer, mChlCht, mChlNum, mRcvChlActive, subscribed>>
  BY DEF ServerTakesMsg, Pending, Answered, Channel, stateVars
<1>2. Match(Head(toServer), subscribed) => ~stray'
  BY <1>1, Zenon DEF Match, InStep
<1>3. CASE Quiet
  <2>1. Match(Head(toServer), subscribed) /\ Sends(toServer', subscribed')
    BY <1>1, <1>3, SendsTaken DEF Quiet
  <2>2. Quiet'
    BY <1>1, <1>3, <2>1, Zenon DEF Quiet, Agreed
  <2> QED BY <1>1, <1>2, <2>1, <2>2, Zenon DEF InStep
<1>4. CASE Asked
  <2>1. ~Asks(op, Head(toServer).cmd)
    BY <1>1 DEF Asks
  <2>2. Asking(toServer, subscribed, call, op, arg)
    BY <1>4 DEF Asked
  <2>3. Match(Head(toServer), subscribed) /\ Asking(Tail(toServer), subscribed, call, op, arg)
    BY <2>1, <2>2, AskingTaken
  <2>4. Asked'
    BY <1>1, <1>4, <2>3, Zenon DEF Asked, Agreed
  <2> QED BY <1>1, <1>2, <2>3, <2>4, Zenon DEF InStep
<1>5. ~Told
  BY <1>1 DEF Told
<1> QED BY <1>3, <1>4, <1>5 DEF InStep

LEMMA InStepCloses ==
    ASSUME InStep, ChlServerCloses
    PROVE  InStep'
<1>1. /\ link' = "closed" /\ toServer' = <<>> /\ subscribed' = NoChl
      /\ UNCHANGED <<pc, op, arg, call, taken, fromServer, mChlCht, mChlNum, mRcvChlActive, stray>>
  BY DEF ChlServerCloses, ServerCloses, Channel, stateVars
<1>2. Sends(toServer', subscribed') /\ Agreed' /\ link' # "up" /\ ~stray'
  BY <1>1, SendsNone, Zenon DEF Agreed, InStep
<1>3. CASE Quiet
  <2>1. Quiet'
    BY <1>1, <1>2, <1>3, Zenon DEF Quiet
  <2> QED BY <1>1, <1>2, <2>1, Zenon DEF InStep
<1>4. CASE Asked
  <2>1. pc = "wait" /\ op # "rcv_msg" /\ Messages(fromServer) /\ (fromServer # <<>> => op = "unsubscribe")
    BY <1>4 DEF Asked
  <2>2. Quiet'
    BY <1>1, <1>2, <2>1, Zenon DEF Quiet
  <2> QED BY <1>1, <1>2, <2>2, Zenon DEF InStep
<1>5. CASE Told
  <2>1. Told'
    BY <1>1, <1>2, <1>5, Zenon DEF Told
  <2> QED BY <1>1, <1>2, <2>1, Zenon DEF InStep
<1> QED BY <1>3, <1>4, <1>5 DEF InStep

LEMMA InStepEnvironment ==
    ASSUME TypeInv, ListInv, StepInv, Environment, inStep'
    PROVE  InStep'
<1>0. Outside /\ ChannelTypes /\ (inStep => InStep)
  BY DEF StepInv, TypeInv
<1>1. CASE Server /\ UNCHANGED chlVars
  <2>1. UNCHANGED <<mChlCht, mChlNum, subscribed, stray>>
    BY <1>1 DEF chlVars
  <2>2. PICK p : /\ fromServer' = Append(fromServer, p) /\ p.cmd = Head(toServer).cmd
                 /\ p.call = Head(toServer).call /\ Paged(p)
                 /\ p.cmd # "CHL_UNSUBSCRIBE" /\ ~(p.cmd = "CHL_SUBSCRIBE" /\ p.err = "NO_ERROR")
    BY <1>1, ServerAnswers
  <2>3. /\ toServer # <<>> /\ link = "up" /\ toServer' = Tail(toServer) /\ Head(toServer).cmd # "CHL_MSG_C2D"
        /\ UNCHANGED <<pc, op, arg, call, taken, link, mRcvChlActive, inStep>>
    BY <1>1, ServerAnswers
  <2>4. InStep
    BY <1>0, <2>3
  <2> QED BY <1>0, <2>1, <2>2, <2>3, <2>4, AnswerTold
<1>2. CASE ServerSubscribes
  <2> DEFINE rq == Head(toServer)
  <2>1. /\ toServer # <<>> /\ link = "up" /\ toServer' = Tail(toServer) /\ rq.cmd = "CHL_SUBSCRIBE"
        /\ UNCHANGED <<pc, op, arg, call, taken, link, mRcvChlActive, inStep, mChlCht, mChlNum, stray>>
        /\ \/ subscribed' = rq.v /\ fromServer' = Append(fromServer, Answer(rq.cmd, rq.call, "NO_ERROR", rq.v))
           \/ /\ subscribed' = subscribed
              /\ \E v : fromServer' = Append(fromServer, Answer(rq.cmd, rq.call, "CMD_FAILED", v))
    BY <1>2 DEF ServerSubscribes, Pending, Answered, Push, Channel, stateVars
  <2>2. PICK p : /\ fromServer' = Append(fromServer, p) /\ p.cmd = rq.cmd /\ p.call = rq.call /\ p.full = TRUE
                 /\ \/ subscribed' = rq.v /\ p.v = rq.v /\ p.err = "NO_ERROR"
                    \/ subscribed' = subscribed /\ p.err = "CMD_FAILED"
    <3>1. \A err, v : /\ Answer(rq.cmd, rq.call, err, v).cmd = rq.cmd /\ Answer(rq.cmd, rq.call, err, v).call = rq.call
                      /\ Answer(rq.cmd, rq.call, err, v).full = TRUE
                      /\ Answer(rq.cmd, rq.call, err, v).v = v /\ Answer(rq.cmd, rq.call, err, v).err = err
      BY DEF Answer
    <3> QED BY <2>1, <3>1
  <2>3. Paged(p)
    BY <2>1, <2>2 DEF Paged
  <2>4. InStep
    BY <1>0, <2>1
  <2> QED BY <1>0, <2>1, <2>2, <2>3, <2>4, AnswerTold
<1>3. CASE ServerUnsubscribes
  <2> DEFINE rq == Head(toServer)
  <2>1. /\ toServer # <<>> /\ link = "up" /\ toServer' = Tail(toServer) /\ rq.cmd = "CHL_UNSUBSCRIBE"
        /\ UNCHANGED <<pc, op, arg, call, taken, link, mRcvChlActive, inStep, mChlCht, mChlNum, stray>>
        /\ subscribed' = NoChl /\ fromServer' = Append(fromServer, Answer("CHL_UNSUBSCRIBE", rq.call, "NO_ERROR", rq.v))
    BY <1>3 DEF ServerUnsubscribes, Pending, Answered, Push, Channel, stateVars, serverVars
  <2>2. PICK p : fromServer' = Append(fromServer, p) /\ p.cmd = rq.cmd /\ p.call = rq.call /\ p.full = TRUE
    BY <2>1 DEF Answer
  <2>3. Paged(p)
    BY <2>1, <2>2 DEF Paged
  <2>4. InStep
    BY <1>0, <2>1
  <2> QED BY <1>0, <2>1, <2>2, <2>3, <2>4, AnswerTold
<1>4. CASE ServerTakesMsg
  <2>1. inStep
    BY <1>4 DEF ServerTakesMsg, Answered
  <2> QED BY <1>0, <1>4, <2>1, InStepMessage
<1>5. CASE DeviceSends
  <2>1. PICK words \in MsgWords, reset \in BOOLEAN :
            fromServer' = Append(fromServer, Answer("CHL_MSG_D2C", 0, IF reset THEN "DEV_RESET" ELSE "NO_ERROR",
                       [chl |-> subscribed.chl, words |-> words]))
    BY <1>5 DEF DeviceSends, Push
  <2> DEFINE p == Answer("CHL_MSG_D2C", 0, IF reset THEN "DEV_RESET" ELSE "NO_ERROR", [chl |-> subscribed.chl, words |-> words])
  <2>2. p.cmd = "CHL_MSG_D2C" /\ p.full /\ p.v.words = words
    BY DEF Answer
  <2> HIDE DEF p
  <2>3. Msg(p)
    BY <2>2, ChlAssumption DEF Msg
  <2>4. /\ link = "up" /\ subscribed.cht \in Receiving /\ UNCHANGED <<pc, op, arg, call, taken, link, toServer, inStep>>
        /\ ChannelSame
    BY <1>5 DEF DeviceSends, Channel, stateVars, ChannelSame
  <2>5. InStep
    BY <1>0, <2>4
  <2> QED BY <1>0, <2>1, <2>3, <2>4, <2>5, MessageTold DEF p
<1>6. CASE ServerTellsReset
  <2> DEFINE p == Answer("CHL_MSG_D2C", 0, "DEV_RESET", [chl |-> 0, words |-> 0])
  <2>1. Msg(p)
    BY DEF Answer, Msg, TAS_PL1_CHL_MAX_MSG_SIZE
  <2>2. /\ link = "up" /\ UNCHANGED <<pc, op, arg, call, taken, link, toServer>>
        /\ ChannelSame /\ fromServer' = Append(fromServer, p)
    BY <1>6 DEF ServerTellsReset, Channel, stateVars, ChannelSame, Push
  <2>3. inStep' = (inStep /\ subscribed.cht \in Receiving)
    BY <1>6 DEF ServerTellsReset
  <2> HIDE DEF p
  <2>4. InStep /\ subscribed.cht \in Receiving
    BY <1>0, <2>3, Zenon
  <2> QED BY <1>0, <2>1, <2>2, <2>4, MessageTold
<1>7. CASE ChlServerCloses
  <2>1. inStep
    BY <1>7 DEF ChlServerCloses, ServerCloses
  <2> QED BY <1>0, <1>7, <2>1, InStepCloses
<1> QED BY <1>1, <1>2, <1>3, <1>4, <1>5, <1>6, <1>7 DEF Environment

--------------------------------------------------------------------------------

LEMMA Stepping == Spec => []StepInv
<1>1. Init => StepInv
  <2> SUFFICES ASSUME Init PROVE StepInv
    OBVIOUS
  <2> USE DEF Init, BaseInit
  <2>1. Sends(toServer, subscribed) /\ Messages(fromServer)
    BY SendsNone, MessagesNone
  <2>2. Quiet
    BY <2>1 DEF Quiet, Agreed
  <2>3. InStep
    BY <2>2 DEF InStep
  <2>4. IsSeq(toServer) /\ IsSeq(fromServer)
    BY ShortSeq
  <2>5. \A k \in 1..Len(toServer) : toServer[k].cmd \in {"SERVER_CONNECT", "PING"}
    <3>1. \A k \in 1..0 : FALSE
      BY EmptyInterval
    <3>2. Len(toServer) = 0
      <4>1. toServer = <<>>
        OBVIOUS
      <4> QED BY <4>1, ShortSeq
    <3> QED BY <3>1, <3>2
  <2>6. Outside
    BY <2>4, <2>5 DEF Outside
  <2> QED BY <2>3, <2>6 DEF StepInv
<1>2. TypeInv /\ ListInv /\ StepInv /\ [Next]_vars => StepInv'
  <2> SUFFICES ASSUME TypeInv, ListInv, StepInv, [Next]_vars PROVE StepInv'
    OBVIOUS
  <2>1. CASE UNCHANGED vars
    BY <2>1, Zenon DEF StepInv, Outside, InStep, Quiet, Asked, Told, Agreed, vars, baseVars, serverVars, stateVars, chlVars
  <2>2. CASE Call
    <3>1. Outside'
      BY <2>2, OutsideCall DEF StepInv, TypeInv
    <3> QED BY <2>2, <3>1, InStepCall DEF StepInv
  <2>3. CASE Step \/ TimePasses
    <3>1. Outside'
      BY <2>3, OutsideStep DEF StepInv
    <3> QED BY <2>3, <3>1, InStepStep DEF StepInv
  <2>4. CASE Environment
    <3>1. Outside'
      BY <2>4, OutsideEnvironment DEF StepInv
    <3> QED BY <2>4, <3>1, InStepEnvironment DEF StepInv
  <2> QED BY <2>1, <2>2, <2>3, <2>4 DEF Next
<1> QED BY <1>1, <1>2, Typing, ChlLists, PTL DEF Spec

\* As long as no call has timed out, and no packet came that none asked for, every
\* call takes the answer to its own request, whatever a device sends in between.
THEOREM AnswersCorrect == Spec => []OwnResponse
<1>1. StepInv => OwnResponse
  BY DEF StepInv, InStep, OwnResponse
<1> QED BY <1>1, Stepping, PTL

\* Under the same condition no packet is longer than the buffer into which the mailbox
\* writes it, although most buffers have the size of the answer that is expected.
THEOREM BuffersCorrect == Spec => []BuffersHold
<1>1. StepInv => BuffersHold
  BY DEF StepInv, InStep, BuffersHold
<1> QED BY <1>1, Stepping, PTL

\* Under the same condition the client and the server agree on the channel and its
\* type whenever no call runs, also after errors and refusals of subscribe().
THEOREM ChannelCorrect == Spec => []SubscriptionAgreed
<1>1. StepInv => SubscriptionAgreed
  BY DEF StepInv, InStep, Quiet, Asked, Told, Agreed, SubscriptionAgreed
<1> QED BY <1>1, Stepping, PTL

\* Under the same condition the server receives messages only for a channel that the
\* client has subscribed for sending, also those that wait behind each other.
THEOREM MessagesCorrect == Spec => []NoStrayMsg
<1>1. StepInv => NoStrayMsg
  BY DEF StepInv, InStep, NoStrayMsg
<1> QED BY <1>1, Stepping, PTL
================================================================================
