------------------------ MODULE TasClientServerConProofs ------------------------
(******************************************************************************)
(* What the proofs about the clients have in common.                          *)
(* - Sequences of packets.                                                    *)
(* - SessionInv: the client and the server agree on the session. The server   *)
(*   forgets a session when the connection is made anew or closed; the client *)
(*   never does. They agree because server_connect() is refused once it has   *)
(*   succeeded, and no session is started before.                             *)
(* - ListInv: every page of a list that is underway belongs to one call, and  *)
(*   the pages of a call are of one list, so that what has been put together  *)
(*   is the beginning of that list.                                           *)
(* - Simple: the types of what the clients share.                             *)
(* - Counting: no more notifications of resets are underway or taken than     *)
(*   there were resets, so that counts stay within their bounds.              *)
(******************************************************************************)
EXTENDS TasClientServerCon, Induction, TLAPS

--------------------------------------------------------------------------------
(* Sequences of packets of any kind.                                          *)

LEMMA SeqOfElements ==
    ASSUME NEW s, IsSeq(s)
    PROVE  s \in Seq({s[k] : k \in 1..Len(s)})
<1> DEFINE S == {s[k] : k \in 1..Len(s)}
<1>1. Len(s) \in Nat /\ s = [k \in 1..Len(s) |-> s[k]]
  BY DEF IsSeq
<1>2. s \in [1..Len(s) -> S]
  BY <1>1
<1> QED BY <1>1, <1>2, SMT

LEMMA SeqOf ==
    ASSUME NEW S, NEW s \in Seq(S)
    PROVE  IsSeq(s)
BY SMT DEF IsSeq

LEMMA AppendAny ==
    ASSUME NEW s, IsSeq(s), NEW e
    PROVE  /\ IsSeq(Append(s, e))
           /\ Len(Append(s, e)) = Len(s) + 1
           /\ \A k \in 1..Len(s) : Append(s, e)[k] = s[k]
           /\ Append(s, e)[Len(s) + 1] = e
<1> DEFINE S == {s[k] : k \in 1..Len(s)} \cup {e}
<1>1. s \in Seq(S)
  <2>1. s \in Seq({s[k] : k \in 1..Len(s)})
    BY SeqOfElements
  <2> QED BY <2>1, SMT
<1>2. e \in S
  OBVIOUS
<1> HIDE DEF S
<1>3. Append(s, e) \in Seq(S) /\ Len(Append(s, e)) = Len(s) + 1
  BY <1>1, <1>2, SMT
<1>4. IsSeq(Append(s, e))
  BY <1>3, SeqOf
<1> QED BY <1>1, <1>2, <1>3, <1>4, SMT

LEMMA TailAny ==
    ASSUME NEW s, IsSeq(s), s # <<>>
    PROVE  /\ IsSeq(Tail(s))
           /\ Len(s) > 0 /\ Len(Tail(s)) = Len(s) - 1
           /\ \A k \in 1..Len(Tail(s)) : Tail(s)[k] = s[k + 1]
           /\ Head(s) = s[1]
<1> DEFINE S == {s[k] : k \in 1..Len(s)}
<1>1. s \in Seq(S)
  BY SeqOfElements
<1> HIDE DEF S
<1>2. Tail(s) \in Seq(S) /\ Len(s) > 0 /\ Len(Tail(s)) = Len(s) - 1
  BY <1>1, SMT
<1>3. IsSeq(Tail(s))
  BY <1>2, SeqOf
<1>4. \A k \in 1..Len(Tail(s)) : Tail(s)[k] = s[k + 1]
  BY <1>1, <1>2, SMT
<1> QED BY <1>1, <1>2, <1>3, <1>4, SMT

LEMMA ShortSeq ==
    /\ IsSeq(<<>>) /\ Len(<<>>) = 0
    /\ \A e : IsSeq(<<e>>) /\ Len(<<e>>) = 1 /\ <<e>>[1] = e
BY SMT DEF IsSeq

--------------------------------------------------------------------------------
(* The session. Each lemma is about one kind of step of either client.        *)

\* A packet that says that a session was started, also one that comes late.
StartsSession(p) == p.cmd = "SESSION_START" /\ p.full /\ p.err = "NO_ERROR"

\* A connection that is up has the session that any packet in it says was started;
\* a session, and the wait for one, need a server_connect() that has succeeded.
SessionInv ==
    /\ IsSeq(fromServer)
    /\ link = "up" => \A k \in 1..Len(fromServer) : StartsSession(fromServer[k]) => session
    /\ mSessionStarted => mServerIpAddr
    /\ pc = "wait" /\ op = "session_start" => mServerIpAddr
    /\ pc = "wait" /\ op = "server_connect" => ~mServerIpAddr
    /\ SessionAgreed

\* A call begins or ends without a packet, or the server closes the connection.
LEMMA SessionKept ==
    ASSUME SessionInv,
           UNCHANGED <<mSessionStarted, mServerIpAddr>>,
           \/ fromServer' = fromServer /\ link' = link /\ session' = session
           \/ fromServer' = fromServer /\ link' # "up"
           \/ fromServer' = <<>> /\ link' # "up",
           pc' = "wait" => (pc = "wait" /\ op' = op)
                           \/ (op' = "session_start" /\ mServerIpAddr)
                           \/ op' \notin {"session_start", "server_connect"}
    PROVE  SessionInv'
<1>1. IsSeq(fromServer')
  BY ShortSeq DEF SessionInv
<1> QED BY <1>1 DEF SessionInv, SessionAgreed

\* A packet is taken.
LEMMA SessionTaken ==
    ASSUME SessionInv, fromServer # <<>>, fromServer' = Tail(fromServer),
           UNCHANGED <<mSessionStarted, mServerIpAddr, link, session, op>>,
           pc' = pc \/ pc' # "wait"
    PROVE  SessionInv'
<1>1. /\ IsSeq(fromServer') /\ Len(fromServer) \in Nat /\ Len(fromServer') = Len(fromServer) - 1
      /\ \A k \in 1..Len(fromServer') : fromServer'[k] = fromServer[k + 1]
  BY TailAny DEF SessionInv, IsSeq
<1>2. \A k \in 1..Len(fromServer') : k + 1 \in 1..Len(fromServer)
  BY <1>1, SMT
<1>3. link' = "up" => \A k \in 1..Len(fromServer') : StartsSession(fromServer'[k]) => session'
  BY <1>1, <1>2 DEF SessionInv
<1> QED BY <1>1, <1>3 DEF SessionInv, SessionAgreed

\* A packet is sent to the client.
LEMMA SessionTold ==
    ASSUME SessionInv, NEW p, fromServer' = Append(fromServer, p),
           UNCHANGED <<mSessionStarted, mServerIpAddr, link, pc, op>>,
           session => session', StartsSession(p) => session'
    PROVE  SessionInv'
<1>1. /\ IsSeq(fromServer') /\ Len(fromServer) \in Nat /\ Len(fromServer') = Len(fromServer) + 1
      /\ \A k \in 1..Len(fromServer) : fromServer'[k] = fromServer[k]
      /\ fromServer'[Len(fromServer) + 1] = p
  BY AppendAny DEF SessionInv, IsSeq
<1>2. \A k \in 1..Len(fromServer') : k \in 1..Len(fromServer) \/ k = Len(fromServer) + 1
  BY <1>1, SMT
<1>3. link' = "up" => \A k \in 1..Len(fromServer') : StartsSession(fromServer'[k]) => session'
  BY <1>1, <1>2 DEF SessionInv
<1> QED BY <1>1, <1>3 DEF SessionInv, SessionAgreed

LEMMA SessionBaseCall ==
    ASSUME SessionInv, BaseCall
    PROVE  SessionInv'
<1> USE DEF Refuse, Execute, Called, Send, Return, serverVars, samples, stateVars
<1>1. CASE server_connect
  <2>1. CASE mServerIpAddr
    BY <1>1, <2>1, SessionKept DEF server_connect
  <2>2. CASE ~mServerIpAddr
    <3>1. fromServer' = <<>> /\ UNCHANGED <<mSessionStarted, mServerIpAddr>>
      BY <1>1, <2>2 DEF server_connect
    <3>2. ~mSessionStarted
      BY <2>2 DEF SessionInv
    <3>3. op' = "server_connect"
      BY <1>1, <2>2 DEF server_connect
    <3> QED BY <2>2, <3>1, <3>2, <3>3, ShortSeq DEF SessionInv, SessionAgreed
  <2> QED BY <2>1, <2>2
<1>2. CASE server_unlock \/ device_unlock_get_challenge
  BY <1>2, SessionKept DEF server_unlock, device_unlock_get_challenge, WithoutPacket
<1>3. CASE get_targets \/ get_target_clients
  BY <1>3, SessionKept DEF get_targets, get_target_clients, BeginQuery
<1>4. CASE device_unlock_set_key
  BY <1>4, SessionKept DEF device_unlock_set_key, BeginQuery
<1> QED BY <1>1, <1>2, <1>3, <1>4 DEF BaseCall

LEMMA SessionBaseStep ==
    ASSUME SessionInv, BaseStep
    PROVE  SessionInv'
<1> USE DEF Received, Take, serverVars, stateVars
<1>1. CASE ServerConnected
  <2>1. /\ fromServer # <<>> /\ fromServer' = Tail(fromServer) /\ pc' # "wait"
        /\ UNCHANGED <<mSessionStarted, link, session, op>>
    BY <1>1 DEF ServerConnected, Return
  <2>2. ~mServerIpAddr /\ ~mSessionStarted
    BY <1>1 DEF ServerConnected, SessionInv
  <2>3. IsSeq(fromServer') /\ (\A k \in 1..Len(fromServer') :
            k + 1 \in 1..Len(fromServer) /\ fromServer'[k] = fromServer[k + 1])
    <3>1. /\ IsSeq(fromServer') /\ Len(fromServer) \in Nat /\ Len(fromServer') = Len(fromServer) - 1
          /\ \A k \in 1..Len(fromServer') : fromServer'[k] = fromServer[k + 1]
      BY <2>1, TailAny DEF SessionInv, IsSeq
    <3> QED BY <3>1, SMT
  <2> QED BY <2>1, <2>2, <2>3 DEF SessionInv, SessionAgreed
<1>2. CASE KeySet
  BY <1>2, SessionTaken DEF KeySet, Return
<1>3. CASE set_pkt_rsp_get_targets
  <2>1. pc' = pc \/ pc' # "wait"
    BY <1>3 DEF set_pkt_rsp_get_targets, Return
  <2> QED BY <1>3, <2>1, SessionTaken DEF set_pkt_rsp_get_targets
<1>4. CASE set_pkt_rsp_get_target_clients
  BY <1>4, SessionTaken DEF set_pkt_rsp_get_target_clients, Return
<1> QED BY <1>1, <1>2, <1>3, <1>4 DEF BaseStep

LEMMA SessionBegins ==
    ASSUME SessionInv, NEW v, mSessionStart(v) \/ mDeviceConnect
    PROVE  SessionInv'
<1> USE DEF Refuse, Execute, Called, Send, Return, serverVars, stateVars
<1>1. CASE mSessionStart(v)
  BY <1>1, SessionKept DEF mSessionStart
<1>2. CASE mDeviceConnect
  BY <1>2, SessionKept DEF mDeviceConnect, BeginQuery
<1> QED BY <1>1, <1>2

LEMMA SessionStarts ==
    ASSUME SessionInv, NEW err, NEW chl, SessionStarted(err, chl)
    PROVE  SessionInv'
<1> USE DEF Received, Take, serverVars, SessionStarted
<1>1. /\ fromServer # <<>> /\ fromServer' = Tail(fromServer) /\ pc' # "wait"
      /\ UNCHANGED <<mServerIpAddr, link, session, op>>
      /\ mServerIpAddr
  BY DEF Return, SessionInv
<1>2. /\ IsSeq(fromServer') /\ Len(fromServer) \in Nat /\ Len(fromServer') = Len(fromServer) - 1
      /\ Len(fromServer) > 0 /\ Head(fromServer) = fromServer[1]
      /\ \A k \in 1..Len(fromServer') : fromServer'[k] = fromServer[k + 1]
  BY <1>1, TailAny DEF SessionInv, IsSeq
<1>3. 1 \in 1..Len(fromServer) /\ \A k \in 1..Len(fromServer') : k + 1 \in 1..Len(fromServer)
  BY <1>2, SMT
<1>4. mSessionStarted' => StartsSession(Head(fromServer))
  BY DEF Started, set_pkt_rsp_ping, mHandlePktError, StartsSession
<1>5. SessionAgreed'
  BY <1>1, <1>2, <1>3, <1>4 DEF SessionInv, SessionAgreed
<1> QED BY <1>1, <1>2, <1>3, <1>5 DEF SessionInv

LEMMA SessionGivenUp ==
    ASSUME SessionInv, Timeout \/ Lost \/ Overrun
    PROVE  SessionInv'
BY SessionKept DEF Timeout, Lost, Overrun, Failed, Return, Disconnect

LEMMA SessionConnected ==
    ASSUME SessionInv, DeviceConnected
    PROVE  SessionInv'
BY SessionTaken DEF DeviceConnected, Received, Take, Return, serverVars

LEMMA SessionServer ==
    ASSUME SessionInv, Server \/ ServerCloses
    PROVE  SessionInv'
<1> DEFINE rq == Head(toServer)
<1> USE DEF Answered, stateVars
<1>1. CASE ServerSendsTargets
  <2>1. \E v : fromServer' = Append(fromServer, Answer(rq.cmd, rq.call, "NO_ERROR", v))
    BY <1>1 DEF ServerSendsTargets, Push
  <2> QED BY <1>1, <2>1, SessionTold DEF ServerSendsTargets, Pending, Answer, StartsSession
<1>2. CASE ServerSendsClients
  <2>1. \E v : fromServer' = Append(fromServer, Answer(rq.cmd, rq.call, "NO_ERROR", v))
    BY <1>2 DEF ServerSendsClients, Push
  <2> QED BY <1>2, <2>1, SessionTold DEF ServerSendsClients, Pending, Answer, StartsSession
<1>3. CASE ServerSendsConInfo
  <2>1. \E v : fromServer' = Append(fromServer, Answer(rq.cmd, rq.call, "NO_ERROR", v))
    BY <1>3 DEF ServerSendsConInfo, Push
  <2> QED BY <1>3, <2>1, SessionTold DEF ServerSendsConInfo, Answer, StartsSession
<1>4. CASE ServerSendsOk
  <2>1. \E v : fromServer' = Append(fromServer, Answer(rq.cmd, rq.call, "NO_ERROR", v))
    BY <1>4 DEF ServerSendsOk, Push
  <2> QED BY <1>4, <2>1, SessionTold DEF ServerSendsOk, Pending, Answer, StartsSession, serverVars
<1>5. CASE ServerSendsError
  <2>1. PICK e \in Errs(rq) : fromServer' = Append(fromServer,
            IF e.full THEN Answer(rq.cmd, rq.call, e.err, e.v) ELSE HeaderOnly(rq.cmd, rq.call, e.err))
    BY <1>5 DEF ServerSendsError, Push
  <2>2. e.err # "NO_ERROR"
    BY ErrorAssumption DEF Errs
  <2> QED BY <1>5, <2>1, <2>2, SessionTold DEF ServerSendsError, Answer, HeaderOnly, StartsSession
<1>6. CASE ServerCloses
  BY <1>6, SessionKept DEF ServerCloses
<1> QED BY <1>1, <1>2, <1>3, <1>4, <1>5, <1>6 DEF Server

--------------------------------------------------------------------------------
(* The lists of targets and clients. Every packet of the connection is labelled *)
(* with the sample of targets that the server had taken when it was sent: a    *)
(* page of targets that does not begin a list continues the list of the label  *)
(* before it. The client is at the label of the last packet it took.          *)

IsTargetPage(p) == p.cmd = "GET_TARGETS" /\ p.full /\ p.err = "NO_ERROR"
IsClientPage(p) == p.cmd = "GET_CLIENTS" /\ p.full /\ p.err = "NO_ERROR"

Counts(lens) == IsSeq(lens) /\ \A s \in 1..Len(lens) : lens[s] \in Nat

\* A page of the list of sample s.
PageOfTargets(v, s, lens) ==
    /\ v.num = lens[s] /\ v.start \in Nat /\ IsSeq(v.items)
    /\ v.start = 0 => Len(v.items) = least(TargetPage, lens[s])
    /\ \A k \in 1..Len(v.items) : v.items[k] = <<s, v.start + k>>

PageOfClients(v, s, lens) ==
    /\ v.num = lens[s] /\ v.start = 0 /\ IsSeq(v.items) /\ Len(v.items) = least(ClientPage, lens[s])
    /\ \A k \in 1..Len(v.items) : v.items[k] = <<s, Len(v.items) + 1 - k>>

\* The labels L of the packets rsps, when the last sample of targets is last.
Labels(L, rsps, lens, last) ==
    /\ L \in [0..Len(rsps) -> 0..Len(lens)] /\ L[Len(rsps)] = last
    /\ \A k \in 1..Len(rsps) :
        /\ L[k] <= last
        /\ IsTargetPage(rsps[k]) =>
            /\ L[k] > 0 /\ PageOfTargets(rsps[k].v, L[k], lens)
            /\ rsps[k].v.start # 0 => L[k] = L[k - 1]

\* The client has a list of sample s, up to its length and the entry upto.
Holds(s, num, info, upto, lens) ==
    s > 0 /\ num = least(lens[s], NumTargetMax) /\ \A k \in 1..num : k <= upto => info[k] = <<s, k>>

Packets(rqs, rsps, lens, last) ==
    /\ IsSeq(rqs) /\ IsSeq(rsps) /\ Counts(lens) /\ last \in 0..Len(lens)
    /\ \A k \in 1..Len(rqs) : rqs[k].cmd = "GET_TARGETS" =>
        rqs[k].v.start \in Nat /\ (rqs[k].v.start # 0 => last > 0)
    /\ \A k \in 1..Len(rsps) : IsClientPage(rsps[k]) =>
        \E s \in 1..Len(lens) : PageOfClients(rsps[k].v, s, lens)

ListTypes ==
    /\ mStartIndex \in 0..255
    /\ mNumTarget \in 0..NumTargetMax /\ IsSeq(mTargetInfo) /\ Len(mTargetInfo) = NumTargetMax
    /\ mNumTargetClient \in 0..NumTargetClientMax
    /\ IsSeq(mTargetClientInfo) /\ Len(mTargetClientInfo) = NumTargetClientMax

Listing == pc = "wait" /\ op = "get_targets" /\ mStartIndex > 0

ListInv ==
    /\ ListTypes
    /\ Packets(toServer, fromServer, sampled, targetSample)
    /\ \E L : /\ Labels(L, fromServer, sampled, targetSample)
              /\ Listing => Holds(L[0], mNumTarget, mTargetInfo, mStartIndex, sampled)
    /\ TargetsOfOneSample /\ ClientsOfOnePage

\* What most steps do with packets and lists.
ListMoves ==
    /\ UNCHANGED <<mNumTarget, mTargetInfo, mNumTargetClient, mTargetClientInfo, sampled, targetSample>>
    /\ mStartIndex' = mStartIndex \/ mStartIndex' = 0
    /\ Listing' => Listing /\ mStartIndex' = mStartIndex
    /\ pc' = "idle" /\ op' \in {"get_targets", "get_target_clients"} /\ ret' = "NONE" =>
        pc = "idle" /\ op = op' /\ ret = "NONE"
    /\ \/ fromServer' = fromServer
       \/ fromServer' = <<>> /\ ~Listing'
       \/ fromServer # <<>> /\ fromServer' = Tail(fromServer) /\ ~Listing'
       \/ \E p : fromServer' = Append(fromServer, p) /\ ~IsTargetPage(p) /\ ~IsClientPage(p)
    /\ \/ toServer' = toServer \/ toServer' = <<>>
       \/ toServer # <<>> /\ toServer' = Tail(toServer)
       \/ \E rq : toServer' = Append(toServer, rq) /\ (rq.cmd = "GET_TARGETS" => rq.v.start = 0)
       \/ \E rq : toServer' = <<rq>> /\ (rq.cmd = "GET_TARGETS" => rq.v.start = 0)

LEMMA LabelsTaken ==
    ASSUME NEW L, NEW rsps, NEW lens, NEW last, IsSeq(rsps), rsps # <<>>, Labels(L, rsps, lens, last)
    PROVE  \E M : Labels(M, Tail(rsps), lens, last) /\ M[0] = L[1]
<1> DEFINE n == Len(rsps)
           t == Tail(rsps)
           M == [k \in 0..(n - 1) |-> L[k + 1]]
<1>1. n \in Nat /\ n > 0 /\ Len(t) = n - 1 /\ \A k \in 1..(n - 1) : t[k] = rsps[k + 1]
  BY TailAny DEF IsSeq
<1>2. L \in [0..n -> 0..Len(lens)] /\ L[n] = last
  BY DEF Labels
<1> HIDE DEF n, t
<1>3. \A k \in 0..(n - 1) : k + 1 \in 0..n /\ M[k] = L[k + 1]
  BY <1>1
<1>4. M \in [0..(n - 1) -> 0..Len(lens)]
  BY <1>2, <1>3
<1>5. M[n - 1] = last /\ M[0] = L[1]
  BY <1>1, <1>2, <1>3
<1>6. ASSUME NEW k \in 1..(n - 1)
      PROVE  /\ M[k] <= last
             /\ IsTargetPage(t[k]) =>
                /\ M[k] > 0 /\ PageOfTargets(t[k].v, M[k], lens)
                /\ t[k].v.start # 0 => M[k] = M[k - 1]
  <2>1. k + 1 \in 1..n /\ k \in 0..(n - 1) /\ k - 1 \in 0..(n - 1) /\ (k + 1) - 1 = (k - 1) + 1
    BY <1>1
  <2>2. M[k] = L[k + 1] /\ M[k - 1] = L[(k + 1) - 1] /\ t[k] = rsps[k + 1]
    BY <1>1, <1>3, <2>1
  <2>3. \A j \in 1..n :
            /\ L[j] <= last
            /\ IsTargetPage(rsps[j]) =>
                /\ L[j] > 0 /\ PageOfTargets(rsps[j].v, L[j], lens)
                /\ rsps[j].v.start # 0 => L[j] = L[j - 1]
    BY DEF Labels, n
  <2> QED BY <2>1, <2>2, <2>3, Zenon
<1>7. Labels(M, t, lens, last)
  BY <1>1, <1>4, <1>5, <1>6 DEF Labels
<1> QED BY <1>5, <1>7 DEF t

Grows(lens, lens2) ==
    /\ Len(lens) \in Nat /\ Len(lens2) \in Nat /\ Len(lens) <= Len(lens2)
    /\ \A k \in 1..Len(lens) : lens2[k] = lens[k]

NewLabel(p, s, lens, last) ==
    IsTargetPage(p) => s > 0 /\ PageOfTargets(p.v, s, lens) /\ (p.v.start # 0 => s = last)

\* A packet is sent, of a sample of targets that is the last or a new one.
LEMMA LabelsTold ==
    ASSUME NEW L, NEW rsps, NEW lens, NEW last, IsSeq(rsps), Labels(L, rsps, lens, last),
           NEW p, NEW s, NEW lens2, Grows(lens, lens2), s \in 0..Len(lens2), last \in Nat, last <= s,
           NewLabel(p, s, lens2, last)
    PROVE  \E M : Labels(M, Append(rsps, p), lens2, s) /\ M[0] = L[0]
<1>0. /\ Len(lens) \in Nat /\ Len(lens2) \in Nat /\ Len(lens) <= Len(lens2)
      /\ \A k \in 1..Len(lens) : lens2[k] = lens[k]
      /\ IsTargetPage(p) => s > 0 /\ PageOfTargets(p.v, s, lens2) /\ (p.v.start # 0 => s = last)
  BY Zenon DEF Grows, NewLabel
<1> DEFINE n == Len(rsps)
           t == Append(rsps, p)
           M == [k \in 0..(n + 1) |-> IF k = n + 1 THEN s ELSE L[k]]
<1>1. n \in Nat /\ Len(t) = n + 1 /\ t[n + 1] = p /\ \A k \in 1..n : t[k] = rsps[k]
  BY AppendAny DEF IsSeq
<1>2. L \in [0..n -> 0..Len(lens)] /\ L[n] = last
  BY DEF Labels
<1>3. \A j \in 1..n :
          /\ L[j] <= last
          /\ IsTargetPage(rsps[j]) =>
              /\ L[j] > 0 /\ PageOfTargets(rsps[j].v, L[j], lens)
              /\ rsps[j].v.start # 0 => L[j] = L[j - 1]
  BY DEF Labels, n
<1> HIDE DEF n, t
<1>4. M[n + 1] = s /\ \A k \in 0..n : M[k] = L[k] /\ k # n + 1
  BY <1>1
<1>5. M \in [0..(n + 1) -> 0..Len(lens2)]
  <2>1. \A k \in 0..(n + 1) : k = n + 1 \/ k \in 0..n
    BY <1>1
  <2>2. \A k \in 0..n : L[k] \in 0..Len(lens2)
    BY <1>0, <1>2
  <2> QED BY <1>4, <2>1, <2>2
<1>6. ASSUME NEW k \in 1..(n + 1)
      PROVE  /\ M[k] <= s
             /\ IsTargetPage(t[k]) =>
                /\ M[k] > 0 /\ PageOfTargets(t[k].v, M[k], lens2)
                /\ t[k].v.start # 0 => M[k] = M[k - 1]
  <2>1. CASE k = n + 1
    <3>1. M[k] = s /\ M[k - 1] = last /\ t[k] = p
      BY <1>1, <1>2, <1>4, <2>1
    <3>2. s <= s
      BY SMT
    <3> QED BY <1>0, <3>1, <3>2, Zenon
  <2>2. CASE k # n + 1
    <3>1. k \in 1..n /\ k \in 0..n /\ k - 1 \in 0..n
      BY <1>1, <2>2
    <3>2. M[k] = L[k] /\ M[k - 1] = L[k - 1] /\ t[k] = rsps[k]
      BY <1>1, <1>4, <3>1
    <3>3. L[k] > 0 => lens2[L[k]] = lens[L[k]]
      BY <1>0, <1>2, <3>1
    <3>4. L[k] > 0 /\ PageOfTargets(rsps[k].v, L[k], lens) => PageOfTargets(rsps[k].v, L[k], lens2)
      BY <3>3, Zenon DEF PageOfTargets
    <3>5. L[k] <= s
      <4>1. L[k] <= last /\ L[k] \in Nat
        BY <1>2, <1>3, <3>1
      <4> QED BY <4>1
    <3> QED BY <1>3, <3>1, <3>2, <3>4, <3>5, Zenon
  <2> QED BY <2>1, <2>2
<1>7. M[Len(t)] = s /\ M[0] = L[0]
  BY <1>1, <1>4
<1>8. Labels(M, t, lens2, s)
  BY <1>1, <1>5, <1>6, <1>7 DEF Labels
<1> QED BY <1>7, <1>8 DEF t

LEMMA LabelsNone ==
    ASSUME NEW lens, Len(lens) \in Nat, NEW last \in 0..Len(lens)
    PROVE  \E M : Labels(M, <<>>, lens, last)
<1> DEFINE M == [k \in 0..0 |-> last]
<1>1. Len(<<>>) = 0
  BY ShortSeq
<1>2. M \in [0..0 -> 0..Len(lens)] /\ M[0] = last
  OBVIOUS
<1>3. \A k \in 1..0 : FALSE
  BY SMT
<1> HIDE DEF M
<1>4. Labels(M, <<>>, lens, last)
  BY <1>1, <1>2, <1>3 DEF Labels
<1> QED BY <1>4

\* No list is touched.
LEMMA ListKept ==
    ASSUME ListInv, ListMoves
    PROVE  ListInv'
<1> DEFINE Rq(r) == r.cmd = "GET_TARGETS" => r.v.start \in Nat /\ (r.v.start # 0 => targetSample > 0)
           Rsp(p) == IsClientPage(p) => \E s \in 1..Len(sampled) : PageOfClients(p.v, s, sampled)
<1>1. /\ UNCHANGED <<mNumTarget, mTargetInfo, mNumTargetClient, mTargetClientInfo, sampled, targetSample>>
      /\ mStartIndex' = mStartIndex \/ mStartIndex' = 0
      /\ Listing' => Listing /\ mStartIndex' = mStartIndex
  BY DEF ListMoves
<1>2. ListTypes'
  <2>1. mStartIndex' \in 0..255
    BY <1>1, 0 \in 0..255, Zenon DEF ListInv, ListTypes
  <2> QED BY <1>1, <2>1, Zenon DEF ListInv, ListTypes
<1>3. /\ IsSeq(toServer) /\ IsSeq(fromServer) /\ Counts(sampled) /\ targetSample \in 0..Len(sampled)
      /\ (\A k \in 1..Len(toServer) : Rq(toServer[k]))
      /\ (\A k \in 1..Len(fromServer) : Rsp(fromServer[k]))
  BY DEF ListInv, Packets
<1>4. IsSeq(toServer') /\ \A k \in 1..Len(toServer') : Rq(toServer'[k])
  <2>1. CASE toServer' = toServer
    BY <1>3, <2>1
  <2>2. CASE toServer' = <<>>
    <3>1. \A k \in 1..0 : FALSE
      BY SMT
    <3> QED BY <2>2, <3>1, ShortSeq
  <2>3. CASE toServer # <<>> /\ toServer' = Tail(toServer)
    <3> HIDE DEF Rq
    <3>1. IsSeq(toServer') /\ \A k \in 1..Len(toServer') : k + 1 \in 1..Len(toServer) /\ toServer'[k] = toServer[k + 1]
      <4>1. /\ IsSeq(toServer') /\ Len(toServer) \in Nat /\ Len(toServer') = Len(toServer) - 1
            /\ \A k \in 1..Len(toServer') : toServer'[k] = toServer[k + 1]
        BY <1>3, <2>3, TailAny DEF IsSeq
      <4> QED BY <4>1, SMT
    <3> QED BY <1>3, <3>1
  <2>4. ASSUME NEW rq, toServer' = Append(toServer, rq), rq.cmd = "GET_TARGETS" => rq.v.start = 0
        PROVE  IsSeq(toServer') /\ \A k \in 1..Len(toServer') : Rq(toServer'[k])
    <3>1. Rq(rq)
      BY <2>4
    <3> HIDE DEF Rq
    <3>2. /\ IsSeq(toServer') /\ Len(toServer) \in Nat /\ Len(toServer') = Len(toServer) + 1
          /\ \A k \in 1..Len(toServer) : toServer'[k] = toServer[k]
          /\ toServer'[Len(toServer) + 1] = rq
      BY <1>3, <2>4, AppendAny DEF IsSeq
    <3>3. \A k \in 1..Len(toServer') : k \in 1..Len(toServer) \/ k = Len(toServer) + 1
      BY <3>2, SMT
    <3> QED BY <1>3, <3>1, <3>2, <3>3
  <2>5. ASSUME NEW rq, toServer' = <<rq>>, rq.cmd = "GET_TARGETS" => rq.v.start = 0
        PROVE  IsSeq(toServer') /\ \A k \in 1..Len(toServer') : Rq(toServer'[k])
    <3>1. Rq(rq)
      BY <2>5
    <3>2. \A k \in 1..1 : k = 1
      BY SMT
    <3> QED BY <2>5, <3>1, <3>2, ShortSeq
  <2> QED BY <2>1, <2>2, <2>3, <2>4, <2>5 DEF ListMoves
<1>5. PICK L : /\ Labels(L, fromServer, sampled, targetSample)
               /\ Listing => Holds(L[0], mNumTarget, mTargetInfo, mStartIndex, sampled)
  BY DEF ListInv
<1>6. /\ IsSeq(fromServer') /\ \A k \in 1..Len(fromServer') : Rsp(fromServer'[k])
      /\ \E M : /\ Labels(M, fromServer', sampled, targetSample)
                /\ Listing' => M[0] = L[0]
  <2> HIDE DEF Rsp
  <2>1. CASE fromServer' = fromServer
    BY <1>3, <1>5, <2>1
  <2>2. CASE fromServer' = <<>> /\ ~Listing'
    <3>1. \A k \in 1..0 : FALSE
      BY SMT
    <3>2. Len(sampled) \in Nat
      BY <1>3 DEF Counts, IsSeq
    <3> QED BY <1>3, <2>2, <3>1, <3>2, ShortSeq, LabelsNone
  <2>3. CASE fromServer # <<>> /\ fromServer' = Tail(fromServer) /\ ~Listing'
    <3>1. IsSeq(fromServer') /\ \A k \in 1..Len(fromServer') : k + 1 \in 1..Len(fromServer) /\ fromServer'[k] = fromServer[k + 1]
      <4>1. /\ IsSeq(fromServer') /\ Len(fromServer) \in Nat /\ Len(fromServer') = Len(fromServer) - 1
            /\ \A k \in 1..Len(fromServer') : fromServer'[k] = fromServer[k + 1]
        BY <1>3, <2>3, TailAny DEF IsSeq
      <4> QED BY <4>1, SMT
    <3>2. \E M : Labels(M, fromServer', sampled, targetSample)
      BY <1>3, <1>5, <2>3, LabelsTaken
    <3> QED BY <1>3, <2>3, <3>1, <3>2
  <2>4. ASSUME NEW p, fromServer' = Append(fromServer, p), ~IsTargetPage(p), ~IsClientPage(p)
        PROVE  /\ IsSeq(fromServer') /\ \A k \in 1..Len(fromServer') : Rsp(fromServer'[k])
               /\ \E M : Labels(M, fromServer', sampled, targetSample) /\ M[0] = L[0]
    <3>1. Rsp(p)
      BY <2>4 DEF Rsp
    <3>2. /\ IsSeq(fromServer') /\ Len(fromServer) \in Nat /\ Len(fromServer') = Len(fromServer) + 1
          /\ \A k \in 1..Len(fromServer) : fromServer'[k] = fromServer[k]
          /\ fromServer'[Len(fromServer) + 1] = p
      BY <1>3, <2>4, AppendAny DEF IsSeq
    <3>3. \A k \in 1..Len(fromServer') : k \in 1..Len(fromServer) \/ k = Len(fromServer) + 1
      BY <3>2, SMT
    <3>4. Len(sampled) \in Nat /\ Len(sampled) <= Len(sampled) /\ targetSample \in Nat /\ targetSample <= targetSample
      <4>1. Len(sampled) \in Nat
        BY <1>3 DEF Counts, IsSeq
      <4> QED BY <1>3, <4>1
    <3>5. \E M : Labels(M, fromServer', sampled, targetSample) /\ M[0] = L[0]
      <4>1. Grows(sampled, sampled) /\ NewLabel(p, targetSample, sampled, targetSample)
        BY <2>4, <3>4, Zenon DEF Grows, NewLabel
      <4> QED BY <1>3, <1>5, <2>4, <3>4, <4>1, LabelsTold
    <3> QED BY <1>3, <3>1, <3>2, <3>3, <3>5
  <2> QED BY <2>1, <2>2, <2>3, <2>4 DEF ListMoves
<1>7. Packets(toServer', fromServer', sampled', targetSample')
  BY <1>1, <1>3, <1>4, <1>6 DEF Packets
<1>8. \E M : /\ Labels(M, fromServer', sampled', targetSample')
             /\ Listing' => Holds(M[0], mNumTarget', mTargetInfo', mStartIndex', sampled')
  BY <1>1, <1>5, <1>6
<1>9. TargetsOfOneSample' /\ ClientsOfOnePage'
  BY <1>1, Zenon DEF ListInv, ListMoves, TargetsOfOneSample, ClientsOfOnePage, Done
<1> QED BY <1>2, <1>7, <1>8, <1>9 DEF ListInv

\* What is sent is the request, of the call that sends it.
LEMMA SentRequest ==
    ASSUME NEW cmd, NEW v, NEW id
    PROVE  \/ Sent(id, Request(cmd, v)) = toServer
           \/ link = "up" /\ Sent(id, Request(cmd, v)) = Append(toServer, [cmd |-> cmd, call |-> id, v |-> v])
<1>1. [Request(cmd, v) EXCEPT !.call = id] = [cmd |-> cmd, call |-> id, v |-> v]
  BY DEF Request
<1> QED BY <1>1 DEF Sent

\* A call that begins with a request, or without any.
LEMMA ListBegins ==
    ASSUME ListInv, UNCHANGED <<listVars, sampled, targetSample, fromServer>>,
           NEW name, NEW cmd, NEW v, name # "get_targets", cmd # "GET_TARGETS",
           \/ pc' # "wait" /\ toServer' = toServer /\ (name = "get_target_clients" => ret' # "NONE")
           \/ toServer' = Sent(call + 1, Request(cmd, v)) /\ pc' = "wait",
           op' = name
    PROVE  ListInv'
<1>1. \/ toServer' = toServer
      \/ \E rq : toServer' = Append(toServer, rq) /\ rq.cmd = cmd
  <2>1. [cmd |-> cmd, call |-> call + 1, v |-> v].cmd = cmd
    OBVIOUS
  <2> QED BY <2>1, SentRequest
<1>2. ListMoves
  BY <1>1 DEF ListMoves, Listing, listVars
<1> QED BY <1>2, ListKept

LEMMA ListBaseCall ==
    ASSUME ListInv, BaseCall
    PROVE  ListInv'
<1> USE DEF Refuse, Execute, Called, Send, Return, serverVars, samples
<1>1. CASE server_connect
  <2>1. CASE mServerIpAddr
    <3>1. ListMoves
      BY <1>1, <2>1 DEF server_connect, ListMoves, listVars, Listing
    <3> QED BY <3>1, ListKept
  <2>2. CASE ~mServerIpAddr
    <3>1. /\ UNCHANGED <<listVars, sampled, targetSample>> /\ op' = "server_connect" /\ fromServer' = <<>>
          /\ \/ toServer' = <<>>
             \/ toServer' = <<[get_pkt_rq_server_connect EXCEPT !.call = call + 1]>>
      BY <1>1, <2>2 DEF server_connect
    <3>2. [get_pkt_rq_server_connect EXCEPT !.call = call + 1].cmd # "GET_TARGETS"
      BY DEF get_pkt_rq_server_connect, Request
    <3>3. ListMoves
      BY <3>1, <3>2 DEF ListMoves, listVars, Listing
    <3> QED BY <3>3, ListKept
  <2> QED BY <2>1, <2>2
<1>2. CASE server_unlock \/ device_unlock_get_challenge
  <2>1. ListMoves
    BY <1>2 DEF server_unlock, device_unlock_get_challenge, WithoutPacket, ListMoves, listVars, Listing
  <2> QED BY <2>1, ListKept
<1>3. CASE get_targets
  <2>1. CASE mRcvChlActive
    <3>1. ListMoves
      BY <1>3, <2>1 DEF get_targets, BeginQuery, ListMoves, Listing
    <3> QED BY <3>1, ListKept
  <2>2. CASE ~mRcvChlActive
    <3>1. /\ mStartIndex' = 0
          /\ UNCHANGED <<mNumTarget, mTargetInfo, mNumTargetClient, mTargetClientInfo, sampled, targetSample, fromServer>>
          /\ toServer' = Sent(call + 1, Request("GET_TARGETS", [start |-> 0])) /\ pc' = "wait"
      BY <1>3, <2>2 DEF get_targets, BeginQuery, get_pkt_rq_get_targets
    <3>2. \/ toServer' = toServer
          \/ \E rq : toServer' = Append(toServer, rq) /\ rq.v.start = 0
      <4> DEFINE r == [cmd |-> "GET_TARGETS", call |-> call + 1, v |-> [start |-> 0]]
      <4>1. r.v.start = 0
        OBVIOUS
      <4>2. toServer' = toServer \/ toServer' = Append(toServer, r)
        BY <3>1, SentRequest
      <4> QED BY <4>1, <4>2
    <3>3. ~Listing'
      BY <3>1, SMT DEF Listing
    <3>4. ListMoves
      BY <3>1, <3>2, <3>3 DEF ListMoves
    <3> QED BY <3>4, ListKept
  <2> QED BY <2>1, <2>2
<1>4. CASE get_target_clients
  <2>1. /\ UNCHANGED <<mNumTarget, mTargetInfo, mNumTargetClient, mTargetClientInfo, sampled, targetSample, fromServer>>
        /\ mStartIndex' = mStartIndex \/ mStartIndex' = 0
        /\ op' = "get_target_clients"
        /\ \/ pc' = "idle" /\ toServer' = toServer /\ ret' = "FN_USAGE"
           \/ toServer' = Sent(call + 1, Request("GET_CLIENTS", [start |-> 0])) /\ pc' = "wait"
    BY <1>4 DEF get_target_clients, BeginQuery, get_pkt_rq_get_target_clients
  <2>2. \/ toServer' = toServer
        \/ \E rq : toServer' = Append(toServer, rq) /\ rq.cmd = "GET_CLIENTS"
    <3> DEFINE r == [cmd |-> "GET_CLIENTS", call |-> call + 1, v |-> [start |-> 0]]
    <3>1. r.cmd = "GET_CLIENTS"
      OBVIOUS
    <3>2. toServer' = toServer \/ toServer' = Append(toServer, r)
      BY <2>1, SentRequest
    <3> QED BY <3>1, <3>2
  <2>3. ListMoves
    BY <2>1, <2>2 DEF ListMoves, Listing
  <2> QED BY <2>3, ListKept
<1>5. CASE device_unlock_set_key
  <2>1. /\ UNCHANGED <<listVars, sampled, targetSample, fromServer>> /\ op' = "device_unlock_set_key"
        /\ \/ pc' = "idle" /\ toServer' = toServer
           \/ /\ toServer' = Sent(call + 1, Request("SET_DEVICE_KEY", [length |-> TAS_UNLOCK_MAX_KEY_LEN]))
              /\ pc' = "wait"
    BY <1>5 DEF device_unlock_set_key, BeginQuery, get_pkt_rq_device_unlock_set_key
  <2> QED BY <2>1, ListBegins
<1> QED BY <1>1, <1>2, <1>3, <1>4, <1>5 DEF BaseCall

LEMMA ListSession ==
    ASSUME ListInv, NEW v, mSessionStart(v) \/ mDeviceConnect
    PROVE  ListInv'
<1> USE DEF Refuse, Execute, Called, Send, Return, serverVars, samples, stateVars
<1>1. CASE mSessionStart(v)
  <2>1. /\ UNCHANGED <<listVars, sampled, targetSample, fromServer>> /\ op' = "session_start"
        /\ \/ pc' = "idle" /\ toServer' = toServer
           \/ toServer' = Sent(call + 1, Request("SESSION_START", NoArg)) /\ pc' = "wait"
    BY <1>1 DEF mSessionStart, get_pkt_rq_session_start
  <2> QED BY <2>1, ListBegins
<1>2. CASE mDeviceConnect
  <2>1. /\ UNCHANGED <<listVars, sampled, targetSample, fromServer>> /\ op' = "device_connect"
        /\ \/ pc' = "idle" /\ toServer' = toServer
           \/ toServer' = Sent(call + 1, Request("DEVICE_CONNECT", NoArg)) /\ pc' = "wait"
    BY <1>2 DEF mDeviceConnect, BeginQuery, get_pkt_rq_device_connect
  <2> QED BY <2>1, ListBegins
<1> QED BY <1>1, <1>2

\* A packet is taken by a call that is not about a list.
LEMMA ListTaken ==
    ASSUME ListInv, UNCHANGED <<listVars, sampled, targetSample, op, toServer>>, fromServer # <<>>,
           fromServer' = Tail(fromServer), op \notin {"get_targets", "get_target_clients"}
    PROVE  ListInv'
<1>1. ListMoves
  BY DEF ListMoves, listVars, Listing
<1> QED BY <1>1, ListKept

LEMMA ListGivenUp ==
    ASSUME ListInv, Timeout \/ Lost \/ Overrun
    PROVE  ListInv'
<1>1. /\ UNCHANGED <<listVars, sampled, targetSample, op>> /\ pc' # "wait" /\ (pc' = "idle" => ret' # "NONE")
      /\ fromServer' \in {fromServer, <<>>} /\ toServer' \in {toServer, <<>>}
  BY DEF Timeout, Lost, Overrun, Failed, Return, Disconnect, samples
<1>2. ListMoves
  BY <1>1 DEF ListMoves, listVars, Listing
<1> QED BY <1>2, ListKept

\* The server or the device sends a packet that is no page.
LEMMA ListTold ==
    ASSUME ListInv, UNCHANGED <<listVars, sampled, targetSample, pc, op, ret>>,
           toServer' = toServer \/ (toServer # <<>> /\ toServer' = Tail(toServer)) \/ toServer' = <<>>,
           fromServer' = fromServer \/ \E p : fromServer' = Append(fromServer, p) /\ ~IsTargetPage(p) /\ ~IsClientPage(p)
    PROVE  ListInv'
<1>1. ListMoves
  BY DEF ListMoves, listVars, Listing
<1> QED BY <1>1, ListKept

LEMMA ListStays ==
    ASSUME ListInv, UNCHANGED <<listVars, sampled, targetSample, pc, op, ret, toServer, fromServer>>
    PROVE  ListInv'
BY ListTold

--------------------------------------------------------------------------------
(* What the pages of a list do.                                               *)

LEMMA LeastOf ==
    ASSUME NEW a \in Nat, NEW b \in Nat
    PROVE  least(a, b) \in Nat /\ least(a, b) <= a /\ least(a, b) <= b /\ (least(a, b) = a \/ least(a, b) = b)
BY DEF least

LEMMA CopyOf ==
    ASSUME NEW info, IsSeq(info), NEW items, IsSeq(items), NEW index \in Nat
    PROVE  /\ IsSeq(Copy(info, index, items))
           /\ index + Len(items) <= Len(info) => Len(Copy(info, index, items)) = Len(info)
           /\ \A k \in 1..(index + Len(items)) :
                Copy(info, index, items)[k] = IF k > index THEN items[k - index] ELSE info[k]
<1> DEFINE m == IF index + Len(items) > Len(info) THEN index + Len(items) ELSE Len(info)
           c == Copy(info, index, items)
<1>1. Len(info) \in Nat /\ Len(items) \in Nat
  BY DEF IsSeq
<1>2. m \in Nat /\ m >= index + Len(items) /\ (index + Len(items) <= Len(info) => m = Len(info))
  BY <1>1
<1>3. c = [k \in 1..m |-> IF k > index /\ k <= index + Len(items) THEN items[k - index] ELSE info[k]]
  BY DEF Copy
<1> HIDE DEF c, m
<1>4. Len(c) = m /\ c = [k \in 1..m |-> c[k]]
  BY <1>2, <1>3, SMT
<1>5. \A k \in 1..(index + Len(items)) : c[k] = IF k > index THEN items[k - index] ELSE info[k]
  <2>1. \A k \in 1..(index + Len(items)) : k \in 1..m /\ k <= index + Len(items)
    BY <1>1, <1>2
  <2> QED BY <1>3, <2>1
<1> QED BY <1>2, <1>4, <1>5 DEF c, IsSeq

\* The list that the client has when it has copied the page of sample s.
LEMMA PageCopied ==
    ASSUME NEW info, IsSeq(info), Len(info) = NumTargetMax, NEW v, NEW s, NEW num, NEW lens,
           PageOfTargets(v, s, lens), lens[s] \in Nat, s > 0,
           v.start > 0 => Holds(s, num, info, v.start, lens) /\ v.start + Len(v.items) <= num,
           num \in 0..NumTargetMax
    PROVE  /\ IsSeq(Copy(info, v.start, v.items)) /\ Len(Copy(info, v.start, v.items)) = NumTargetMax
           /\ Holds(s, least(lens[s], NumTargetMax), Copy(info, v.start, v.items), v.start + Len(v.items), lens)
           /\ Len(v.items) \in Nat
<1> DEFINE c == Copy(info, v.start, v.items)
           m == Len(v.items)
           len == least(lens[s], NumTargetMax)
<1>1. v.start \in Nat /\ m \in Nat /\ NumTargetMax \in Nat /\ len \in Nat
  BY PageAssumption, LeastOf DEF PageOfTargets, IsSeq
<1>2. v.start + m <= NumTargetMax
  <2>1. CASE v.start = 0
    <3>1. m = least(TargetPage, lens[s])
      BY <2>1 DEF PageOfTargets
    <3>2. m <= TargetPage /\ TargetPage <= NumTargetMax /\ TargetPage \in Nat
      BY <3>1, PageAssumption, LeastOf
    <3> HIDE DEF m
    <3> QED BY <1>1, <2>1, <3>2
  <2>2. CASE v.start # 0
    <3>1. v.start + m <= num
      BY <1>1, <2>2
    <3> HIDE DEF m
    <3> QED BY <1>1, <3>1
  <2> QED BY <2>1, <2>2
<1>3. /\ IsSeq(c) /\ Len(c) = NumTargetMax
      /\ \A k \in 1..(v.start + m) : c[k] = IF k > v.start THEN v.items[k - v.start] ELSE info[k]
  BY <1>1, <1>2, CopyOf DEF PageOfTargets
<1>4. ASSUME NEW k \in 1..len, k <= v.start + m PROVE c[k] = <<s, k>>
  <2>1. k \in 1..(v.start + m)
    BY <1>1, <1>4
  <2>2. CASE k > v.start
    <3>1. k - v.start \in 1..m /\ v.start + (k - v.start) = k
      BY <1>1, <2>1, <2>2
    <3>2. v.items[k - v.start] = <<s, v.start + (k - v.start)>>
      BY <3>1 DEF PageOfTargets
    <3> HIDE DEF c, m, len
    <3> QED BY <1>3, <2>1, <2>2, <3>1, <3>2
  <2>3. CASE ~(k > v.start)
    <3>1. v.start > 0 /\ k <= v.start
      BY <1>1, <2>1, <2>3
    <3>2. info[k] = <<s, k>>
      BY <3>1 DEF Holds
    <3> HIDE DEF c, m, len
    <3> QED BY <1>3, <2>1, <2>3, <3>2
  <2> QED BY <2>2, <2>3
<1> HIDE DEF c, m
<1>5. Holds(s, len, c, v.start + m, lens)
  BY <1>4 DEF Holds
<1> HIDE DEF len
<1> QED BY <1>1, <1>3, <1>5 DEF c, m, len

\* Nothing but the lists, and what the call is about, is different.
LEMMA ListTargets ==
    ASSUME ListInv, set_pkt_rsp_get_targets
    PROVE  ListInv'
<1> DEFINE p    == Head(fromServer)
           num  == IF mStartIndex = 0 THEN 0 ELSE mNumTarget
           len  == IF mStartIndex = 0 THEN least(p.v.num, NumTargetMax) ELSE num
           next == (mStartIndex + Len(p.v.items)) % 256
           err  == PageError(p, "GET_TARGETS", {}, num, NumTargetMax)
<1>1. /\ pc = "wait" /\ op = "get_targets" /\ op' = op /\ fromServer # <<>> /\ fromServer' = Tail(fromServer)
      /\ UNCHANGED <<sampled, targetSample, mNumTargetClient, mTargetClientInfo>>
  BY DEF set_pkt_rsp_get_targets, Received, Take, serverVars, samples
<1>2. \/ /\ err # "NONE" /\ pc' = "idle" /\ ret' = err /\ mNumTarget' = num
         /\ UNCHANGED <<mTargetInfo, mStartIndex, toServer>>
      \/ /\ err = "NONE"
         /\ mNumTarget' = len
         /\ mTargetInfo' = Copy(mTargetInfo, mStartIndex, p.v.items)
         /\ IF next < len
            THEN mStartIndex' = next /\ toServer' = Sent(call, get_pkt_rq_get_targets(next)) /\ UNCHANGED <<pc, ret>>
            ELSE pc' = "idle" /\ ret' = "NONE" /\ UNCHANGED <<mStartIndex, toServer>>
  BY DEF set_pkt_rsp_get_targets, Return
<1>3. /\ IsSeq(toServer) /\ IsSeq(fromServer) /\ Counts(sampled) /\ targetSample \in 0..Len(sampled)
      /\ Len(sampled) \in Nat /\ ListTypes /\ NumTargetMax \in Nat
      /\ Packets(toServer, fromServer, sampled, targetSample)
  BY PageAssumption DEF ListInv, Packets, Counts, IsSeq
<1>4. PICK L : /\ Labels(L, fromServer, sampled, targetSample)
               /\ Listing => Holds(L[0], mNumTarget, mTargetInfo, mStartIndex, sampled)
  BY DEF ListInv
<1>5. PICK M : Labels(M, fromServer', sampled, targetSample) /\ M[0] = L[1]
  BY <1>1, <1>3, <1>4, LabelsTaken
<1>6. /\ IsSeq(fromServer') /\ p = fromServer[1] /\ 1 \in 1..Len(fromServer) /\ L[1] \in 0..Len(sampled)
      /\ \A k \in 1..Len(fromServer') : k + 1 \in 1..Len(fromServer) /\ fromServer'[k] = fromServer[k + 1]
  <2>1. /\ IsSeq(fromServer') /\ Len(fromServer) \in Nat /\ Len(fromServer) > 0 /\ p = fromServer[1]
        /\ Len(fromServer') = Len(fromServer) - 1
        /\ \A k \in 1..Len(fromServer') : fromServer'[k] = fromServer[k + 1]
    BY <1>1, <1>3, TailAny DEF IsSeq
  <2> HIDE DEF p
  <2>2. 1 \in 1..Len(fromServer) /\ 1 \in 0..Len(fromServer)
    BY <2>1
  <2>3. \A k \in 1..Len(fromServer') : k + 1 \in 1..Len(fromServer)
    BY <2>1
  <2>4. L[1] \in 0..Len(sampled)
    BY <1>4, <2>2 DEF Labels
  <2> QED BY <2>1, <2>2, <2>3, <2>4
<1> HIDE DEF p, num, len, next, err
<1>7. \A k \in 1..Len(fromServer') : IsClientPage(fromServer'[k]) =>
        \E s \in 1..Len(sampled) : PageOfClients(fromServer'[k].v, s, sampled)
  BY <1>3, <1>6, Zenon DEF Packets
<1>8. ClientsOfOnePage'
  BY <1>1 DEF ClientsOfOnePage, Done
<1>9. CASE err # "NONE"
  <2>1. /\ pc' = "idle" /\ ret' # "NONE" /\ mNumTarget' = num /\ UNCHANGED <<mTargetInfo, mStartIndex, toServer>>
    BY <1>2, <1>9
  <2>2. num \in 0..NumTargetMax
    <3>1. 0 \in 0..NumTargetMax
      BY <1>3
    <3> QED BY <1>3, <3>1 DEF ListTypes, num
  <2>3. ListTypes'
    BY <1>1, <1>3, <2>1, <2>2, Zenon DEF ListTypes
  <2>4. ~Listing' /\ TargetsOfOneSample'
    BY <2>1 DEF Listing, TargetsOfOneSample, Done
  <2>5. Packets(toServer', fromServer', sampled', targetSample')
    BY <1>1, <1>3, <1>6, <1>7, <2>1, Zenon DEF Packets
  <2> QED BY <1>1, <1>5, <1>8, <2>3, <2>4, <2>5 DEF ListInv
<1>10. CASE err = "NONE"
  <2> DEFINE s == L[1]
  <2>1. /\ IsTargetPage(p) /\ p.v.start = mStartIndex
        /\ mStartIndex # 0 => ~(p.v.start + Len(p.v.items) > num)
    BY <1>10 DEF err, PageError, BadPage, Foreign, IsTargetPage
  <2>2. s > 0 /\ PageOfTargets(p.v, s, sampled) /\ (p.v.start # 0 => s = L[0]) /\ s <= targetSample
    <3>1. \A k \in 1..Len(fromServer) :
            /\ L[k] <= targetSample
            /\ IsTargetPage(fromServer[k]) =>
                /\ L[k] > 0 /\ PageOfTargets(fromServer[k].v, L[k], sampled)
                /\ fromServer[k].v.start # 0 => L[k] = L[k - 1]
      BY <1>4 DEF Labels
    <3>2. 1 - 1 = 0
      OBVIOUS
    <3> QED BY <1>6, <2>1, <3>1, <3>2
  <2>3. s \in 1..Len(sampled) /\ sampled[s] \in Nat /\ s \in Nat
    <3> HIDE DEF s
    <3>1. s \in 0..Len(sampled)
      BY <1>6 DEF s
    <3>2. s \in 1..Len(sampled) /\ s \in Nat
      BY <1>3, <2>2, <3>1
    <3> QED BY <1>3, <3>2 DEF Counts
  <2>4. mStartIndex \in 0..255 /\ mNumTarget \in 0..NumTargetMax /\ IsSeq(mTargetInfo) /\ Len(mTargetInfo) = NumTargetMax
    BY <1>3 DEF ListTypes
  <2> HIDE DEF s
  <2>5. mStartIndex > 0 => Holds(s, mNumTarget, mTargetInfo, mStartIndex, sampled) /\ num = mNumTarget
                           /\ mNumTarget = least(sampled[s], NumTargetMax)
    <3>1. SUFFICES ASSUME mStartIndex > 0
                   PROVE  Holds(s, mNumTarget, mTargetInfo, mStartIndex, sampled) /\ num = mNumTarget
                          /\ mNumTarget = least(sampled[s], NumTargetMax)
      OBVIOUS
    <3>2. mStartIndex # 0 /\ Listing
      BY <1>1, <2>4, <3>1 DEF Listing
    <3>3. s = L[0]
      BY <2>1, <2>2, <3>2
    <3>4. Holds(s, mNumTarget, mTargetInfo, mStartIndex, sampled)
      BY <1>4, <3>2, <3>3
    <3> QED BY <3>2, <3>4 DEF Holds, num
  <2>6. len = least(sampled[s], NumTargetMax)
    <3>1. p.v.num = sampled[s]
      BY <2>2 DEF PageOfTargets
    <3>2. mStartIndex = 0 \/ mStartIndex > 0
      BY <2>4
    <3> QED BY <2>5, <3>1, <3>2 DEF len
  <2>7. p.v.start > 0 => Holds(s, mNumTarget, mTargetInfo, p.v.start, sampled) /\ p.v.start + Len(p.v.items) <= mNumTarget
    <3>1. Len(p.v.items) \in Nat
      BY <2>2 DEF PageOfTargets, IsSeq
    <3>2. mStartIndex > 0 => mStartIndex + Len(p.v.items) <= mNumTarget
      <4> DEFINE m == Len(p.v.items)
      <4>1. m \in Nat /\ (mStartIndex # 0 => ~(mStartIndex + m > num))
        BY <2>1, <3>1
      <4>2. mStartIndex > 0 => num = mNumTarget
        BY <2>5
      <4> HIDE DEF m
      <4>3. mStartIndex > 0 => mStartIndex + m <= mNumTarget
        BY <1>3, <2>4, <4>1, <4>2
      <4> QED BY <4>3 DEF m
    <3> QED BY <2>1, <2>5, <3>2
  <2>8. /\ IsSeq(mTargetInfo') /\ Len(mTargetInfo') = NumTargetMax
        /\ Holds(s, len, mTargetInfo', mStartIndex + Len(p.v.items), sampled)
        /\ Len(p.v.items) \in Nat
    <3>1. mTargetInfo' = Copy(mTargetInfo, p.v.start, p.v.items)
      BY <1>2, <1>10, <2>1
    <3> HIDE DEF p
    <3> QED BY <2>1, <2>2, <2>3, <2>4, <2>6, <2>7, <3>1, PageCopied
  <2>9. len \in 0..NumTargetMax /\ len \in Nat
    <3>1. len \in Nat /\ len <= NumTargetMax
      BY <1>3, <2>3, <2>6, LeastOf
    <3> QED BY <1>3, <3>1
  <2>10. next \in 0..255 /\ next <= mStartIndex + Len(p.v.items)
    <3> DEFINE a == mStartIndex + Len(p.v.items)
    <3>1. a \in Nat
      BY <2>4, <2>8
    <3> HIDE DEF a
    <3>2. a % 256 \in 0..255 /\ a % 256 <= a
      BY <3>1
    <3> QED BY <3>2 DEF next, a
  <2>11. mNumTarget' = len
    BY <1>2, <1>10
  <2>12. targetSample > 0
    BY <1>3, <2>2, <2>3
  <2>13. CASE next < len
    <3>1. mStartIndex' = next /\ toServer' = Sent(call, get_pkt_rq_get_targets(next)) /\ pc' = "wait"
      BY <1>1, <1>2, <1>10, <2>13
    <3>2. ListTypes'
      BY <1>1, <1>3, <2>8, <2>9, <2>10, <2>11, <3>1 DEF ListTypes
    <3>3. Holds(s, mNumTarget', mTargetInfo', mStartIndex', sampled)
      <4> DEFINE up == mStartIndex + Len(p.v.items)
      <4>1. up \in Nat /\ next <= up
        BY <2>4, <2>8, <2>10
      <4>2. Holds(s, len, mTargetInfo', up, sampled)
        BY <2>8
      <4> HIDE DEF up
      <4>3. \A k \in 1..len : k <= next => k <= up
        BY <2>9, <2>10, <4>1
      <4>4. Holds(s, len, mTargetInfo', next, sampled)
        BY <4>2, <4>3, Zenon DEF Holds
      <4> QED BY <2>11, <3>1, <4>4
    <3>4. IsSeq(toServer') /\ \A k \in 1..Len(toServer') : toServer'[k].cmd = "GET_TARGETS" =>
            toServer'[k].v.start \in Nat /\ (toServer'[k].v.start # 0 => targetSample > 0)
      <4> DEFINE rq == [cmd |-> "GET_TARGETS", call |-> call, v |-> [start |-> next]]
      <4>1. toServer' = toServer \/ toServer' = Append(toServer, rq)
        BY <3>1, SentRequest DEF get_pkt_rq_get_targets
      <4>2. rq.v.start \in Nat
        BY <2>10
      <4> HIDE DEF rq
      <4>3. \A k \in 1..Len(toServer) : toServer[k].cmd = "GET_TARGETS" =>
              toServer[k].v.start \in Nat /\ (toServer[k].v.start # 0 => targetSample > 0)
        BY <1>3 DEF Packets
      <4>4. CASE toServer' = Append(toServer, rq)
        <5>1. /\ IsSeq(toServer') /\ Len(toServer) \in Nat /\ Len(toServer') = Len(toServer) + 1
              /\ \A k \in 1..Len(toServer) : toServer'[k] = toServer[k]
              /\ toServer'[Len(toServer) + 1] = rq
          BY <1>3, <4>4, AppendAny DEF IsSeq
        <5>2. \A k \in 1..Len(toServer') : k \in 1..Len(toServer) \/ k = Len(toServer) + 1
          BY <5>1, SMT
        <5> QED BY <2>12, <4>2, <4>3, <5>1, <5>2, Zenon
      <4> QED BY <1>3, <4>1, <4>3, <4>4
    <3>5. Packets(toServer', fromServer', sampled', targetSample')
      BY <1>1, <1>3, <1>6, <1>7, <3>4, Zenon DEF Packets
    <3>6. TargetsOfOneSample'
      BY <3>1 DEF TargetsOfOneSample, Done
    <3> QED BY <1>1, <1>5, <1>8, <3>2, <3>3, <3>5, <3>6 DEF ListInv, s
  <2>14. CASE ~(next < len)
    <3>1. pc' = "idle" /\ ret' = "NONE" /\ UNCHANGED <<mStartIndex, toServer>>
      BY <1>2, <1>10, <2>14
    <3>2. ListTypes'
      BY <1>1, <1>3, <2>8, <2>9, <2>11, <3>1, Zenon DEF ListTypes
    <3>3. Packets(toServer', fromServer', sampled', targetSample')
      BY <1>1, <1>3, <1>6, <1>7, <3>1, Zenon DEF Packets
    <3>4. \A k \in 1..len : mTargetInfo'[k] = <<s, k>>
      <4> DEFINE up == mStartIndex + Len(p.v.items)
      <4>1. up \in Nat /\ next <= up
        BY <2>4, <2>8, <2>10
      <4>2. Holds(s, len, mTargetInfo', up, sampled)
        BY <2>8
      <4> HIDE DEF up
      <4>3. \A k \in 1..len : k <= up
        BY <2>9, <2>10, <2>14, <4>1
      <4> QED BY <4>2, <4>3, Zenon DEF Holds
    <3>5. s \in DOMAIN sampled'
      BY <1>1, <1>3, <2>3 DEF Counts, IsSeq
    <3>6. TargetsOfOneSample'
      BY <1>1, <2>6, <2>11, <3>4, <3>5, Zenon DEF TargetsOfOneSample
    <3>7. ~Listing'
      BY <3>1 DEF Listing
    <3> QED BY <1>1, <1>5, <1>8, <3>2, <3>3, <3>6, <3>7 DEF ListInv
  <2> QED BY <2>13, <2>14
<1> QED BY <1>9, <1>10

\* The server sends a page of a new list, or continues the last one.
LEMMA ListSent ==
    ASSUME ListInv, NEW p, fromServer' = Append(fromServer, p),
           UNCHANGED <<listVars, pc, op, ret>>, toServer # <<>>, toServer' = Tail(toServer),
           sampled' = sampled \/ \E n \in Nat : sampled' = Append(sampled, n),
           targetSample' \in 0..Len(sampled'), targetSample <= targetSample',
           IsTargetPage(p) => /\ targetSample' > 0 /\ PageOfTargets(p.v, targetSample', sampled')
                              /\ p.v.start # 0 => targetSample' = targetSample,
           IsClientPage(p) => \E s \in 1..Len(sampled') : PageOfClients(p.v, s, sampled')
    PROVE  ListInv'
<1>1. /\ IsSeq(toServer) /\ IsSeq(fromServer) /\ Counts(sampled) /\ targetSample \in 0..Len(sampled)
      /\ Len(sampled) \in Nat
      /\ Packets(toServer, fromServer, sampled, targetSample)
  BY DEF ListInv, Packets, Counts, IsSeq
<1>2. /\ Counts(sampled') /\ Len(sampled') \in Nat /\ Len(sampled) <= Len(sampled')
      /\ \A s \in 1..Len(sampled) : s \in 1..Len(sampled') /\ sampled'[s] = sampled[s]
  <2>1. CASE sampled' = sampled
    BY <1>1, <2>1
  <2>2. ASSUME NEW n \in Nat, sampled' = Append(sampled, n)
        PROVE  /\ Counts(sampled') /\ Len(sampled') \in Nat /\ Len(sampled) <= Len(sampled')
               /\ \A s \in 1..Len(sampled) : s \in 1..Len(sampled') /\ sampled'[s] = sampled[s]
    <3>1. /\ IsSeq(sampled') /\ Len(sampled') = Len(sampled) + 1
          /\ \A k \in 1..Len(sampled) : sampled'[k] = sampled[k]
          /\ sampled'[Len(sampled) + 1] = n
      BY <1>1, <2>2, AppendAny DEF Counts
    <3>2. \A k \in 1..Len(sampled') : k \in 1..Len(sampled) \/ k = Len(sampled) + 1
      BY <1>1, <3>1
    <3>3. Counts(sampled')
      BY <1>1, <3>1, <3>2 DEF Counts
    <3> QED BY <1>1, <3>1, <3>3
  <2> QED BY <2>1, <2>2
<1>3. PICK L : /\ Labels(L, fromServer, sampled, targetSample)
               /\ Listing => Holds(L[0], mNumTarget, mTargetInfo, mStartIndex, sampled)
  BY DEF ListInv
<1>4. PICK M : Labels(M, fromServer', sampled', targetSample') /\ M[0] = L[0]
  <2>1. targetSample \in Nat
    BY <1>1
  <2>2. \A k \in 1..Len(sampled) : sampled'[k] = sampled[k]
    BY <1>2
  <2>3. \E M : Labels(M, Append(fromServer, p), sampled', targetSample') /\ M[0] = L[0]
    <3>1. Grows(sampled, sampled')
      BY <1>1, <1>2, <2>2, Zenon DEF Grows
    <3>2. NewLabel(p, targetSample', sampled', targetSample)
      BY Zenon DEF NewLabel
    <3> QED BY <1>1, <1>3, <2>1, <3>1, <3>2, LabelsTold
  <2> QED BY <2>3
<1>5. Listing' => Holds(M[0], mNumTarget', mTargetInfo', mStartIndex', sampled')
  <2>1. Listing' = Listing /\ UNCHANGED listVars
    BY DEF Listing, listVars
  <2>2. Listing => L[0] \in 1..Len(sampled)
    <3>1. L[0] \in 0..Len(sampled)
      <4>1. 0 \in 0..Len(fromServer)
        BY <1>1 DEF IsSeq
      <4> QED BY <1>3, <4>1 DEF Labels
    <3>2. Listing => L[0] > 0
      BY <1>3 DEF Holds
    <3> QED BY <1>1, <3>1, <3>2
  <2>3. Listing => sampled'[L[0]] = sampled[L[0]]
    BY <1>2, <2>2
  <2> QED BY <1>3, <1>4, <2>1, <2>3 DEF Holds, listVars
<1>6. IsSeq(toServer') /\ \A k \in 1..Len(toServer') : k + 1 \in 1..Len(toServer) /\ toServer'[k] = toServer[k + 1]
  <2>1. /\ IsSeq(toServer') /\ Len(toServer) \in Nat /\ Len(toServer') = Len(toServer) - 1
        /\ \A k \in 1..Len(toServer') : toServer'[k] = toServer[k + 1]
    BY <1>1, TailAny DEF IsSeq
  <2> QED BY <2>1, SMT
<1>7. \A k \in 1..Len(toServer') : toServer'[k].cmd = "GET_TARGETS" =>
        toServer'[k].v.start \in Nat /\ (toServer'[k].v.start # 0 => targetSample' > 0)
  <2>1. targetSample > 0 => targetSample' > 0
    BY <1>1, <1>2
  <2>2. \A k \in 1..Len(toServer) : toServer[k].cmd = "GET_TARGETS" =>
          toServer[k].v.start \in Nat /\ (toServer[k].v.start # 0 => targetSample > 0)
    BY <1>1 DEF Packets
  <2> QED BY <1>6, <2>1, <2>2, Zenon
<1>8. IsSeq(fromServer') /\ \A k \in 1..Len(fromServer') : IsClientPage(fromServer'[k]) =>
        \E s \in 1..Len(sampled') : PageOfClients(fromServer'[k].v, s, sampled')
  <2>1. /\ IsSeq(fromServer') /\ Len(fromServer) \in Nat /\ Len(fromServer') = Len(fromServer) + 1
        /\ \A k \in 1..Len(fromServer) : fromServer'[k] = fromServer[k]
        /\ fromServer'[Len(fromServer) + 1] = p
    <3>1. Len(fromServer) \in Nat
      BY <1>1, Zenon DEF IsSeq
    <3> QED BY <1>1, <3>1, AppendAny, Zenon
  <2>2. \A k \in 1..Len(fromServer') : k \in 1..Len(fromServer) \/ k = Len(fromServer) + 1
    BY <2>1, SMT
  <2>3. \A k \in 1..Len(fromServer) : IsClientPage(fromServer[k]) =>
          \E s \in 1..Len(sampled) : PageOfClients(fromServer[k].v, s, sampled)
    BY <1>1 DEF Packets
  <2>4. \A v : \A s \in 1..Len(sampled) : PageOfClients(v, s, sampled) => PageOfClients(v, s, sampled')
    BY <1>2, Zenon DEF PageOfClients
  <2>5. \A k \in 1..Len(fromServer) : IsClientPage(fromServer[k]) =>
          \E s \in 1..Len(sampled') : PageOfClients(fromServer[k].v, s, sampled')
    BY <1>2, <2>3, <2>4, Zenon
  <2> QED BY <2>1, <2>2, <2>5, Zenon
<1>9. Packets(toServer', fromServer', sampled', targetSample')
  BY <1>2, <1>6, <1>7, <1>8 DEF Packets
<1>10. ListTypes'
  BY Zenon DEF ListInv, ListTypes, listVars
<1>11. TargetsOfOneSample' /\ ClientsOfOnePage'
  <2>1. \A s \in DOMAIN sampled : s \in DOMAIN sampled' /\ sampled'[s] = sampled[s]
    <3>1. DOMAIN sampled = 1..Len(sampled) /\ DOMAIN sampled' = 1..Len(sampled')
      BY <1>1, <1>2 DEF Counts, IsSeq
    <3> QED BY <1>2, <3>1
  <2> QED BY <2>1, Zenon DEF ListInv, TargetsOfOneSample, ClientsOfOnePage, Done, listVars
<1> QED BY <1>4, <1>5, <1>9, <1>10, <1>11 DEF ListInv

LEMMA ServerTargets ==
    ASSUME ListInv, ServerSendsTargets
    PROVE  ListInv'
<1> DEFINE rq == Head(toServer)
<1>1. /\ UNCHANGED <<listVars, pc, op, ret>> /\ toServer # <<>> /\ toServer' = Tail(toServer)
      /\ rq.cmd = "GET_TARGETS"
  BY DEF ServerSendsTargets, Pending, Answered
<1>2. /\ Counts(sampled) /\ targetSample \in 0..Len(sampled) /\ Len(sampled) \in Nat
      /\ TargetPage \in Nat
      /\ rq.v.start \in Nat /\ (rq.v.start # 0 => targetSample > 0)
  <2>1. Head(toServer) = toServer[1] /\ Len(toServer) \in Nat /\ Len(toServer) > 0
    BY <1>1, TailAny DEF ListInv, Packets, IsSeq
  <2>2. 1 \in 1..Len(toServer)
    BY <2>1
  <2> QED BY <1>1, <2>1, <2>2, PageAssumption DEF ListInv, Packets, Counts, IsSeq
<1>3. CASE rq.v.start = 0
  <2> DEFINE s == Len(sampled) + 1
  <2>1. PICK n \in TargetLens :
            /\ sampled' = Append(sampled, n) /\ targetSample' = s
            /\ fromServer' = Append(fromServer, Answer(rq.cmd, rq.call, "NO_ERROR",
                [num |-> n, start |-> 0, items |-> [k \in 1..least(TargetPage, n) |-> <<Len(sampled) + 1, k>>]]))
    BY <1>3 DEF ServerSendsTargets, Push
  <2>2. n \in Nat
    BY LensAssumption
  <2> DEFINE m == least(TargetPage, n)
             items == [k \in 1..m |-> <<s, k>>]
             v == [num |-> n, start |-> 0, items |-> items]
             p == Answer(rq.cmd, rq.call, "NO_ERROR", v)
  <2>3. m \in Nat
    BY <1>2, <2>2, LeastOf
  <2>4. sampled'[s] = n /\ Len(sampled') = s
    BY <1>2, <2>1, AppendAny DEF Counts
  <2>5. IsSeq(items) /\ Len(items) = m /\ \A k \in 1..m : items[k] = <<s, k>>
    <3> HIDE DEF m, s
    <3>1. Len(items) = m
      BY <2>3, SMT
    <3> QED BY <2>3, <3>1 DEF IsSeq
  <2> HIDE DEF items
  <2>6. PageOfTargets(v, s, sampled')
    <3>1. v.num = n /\ v.start = 0 /\ v.items = items
      OBVIOUS
    <3>2. \A k \in 1..m : v.start + k = k
      BY <3>1, SMT
    <3> HIDE DEF v, m, s
    <3>3. v.start \in Nat /\ m = least(TargetPage, sampled'[s])
      BY <2>4, <3>1, 0 \in Nat DEF m
    <3> QED BY <2>4, <2>5, <3>1, <3>2, <3>3, Zenon DEF PageOfTargets
  <2>7. v.start = 0 /\ p.v = v /\ p.cmd = "GET_TARGETS" /\ fromServer' = Append(fromServer, p)
    BY <1>1, <2>1 DEF Answer, items
  <2>8. s > 0 /\ s \in 0..Len(sampled') /\ targetSample <= s
    BY <1>2, <2>4
  <2> HIDE DEF v, p
  <2>9. ~IsClientPage(p)
    BY <2>7 DEF IsClientPage
  <2> HIDE DEF s
  <2> QED BY <1>1, <2>1, <2>2, <2>6, <2>7, <2>8, <2>9, ListSent
<1>4. CASE rq.v.start # 0
  <2> DEFINE s == targetSample
             items == Entries(s, rq.v.start, TargetPage)
             v == [num |-> sampled[s], start |-> rq.v.start, items |-> items]
             p == Answer(rq.cmd, rq.call, "NO_ERROR", v)
  <2>1. UNCHANGED <<sampled, targetSample>> /\ fromServer' = Append(fromServer, p)
    BY <1>4 DEF ServerSendsTargets, Push, PageOf
  <2>2. s > 0 /\ s \in 1..Len(sampled) /\ sampled[s] \in Nat
    <3>1. s > 0 /\ s \in 1..Len(sampled)
      BY <1>2, <1>4
    <3> QED BY <1>2, <3>1 DEF Counts
  <2>3. IsSeq(items) /\ \A k \in 1..Len(items) : items[k] = <<s, rq.v.start + k>>
    <3> DEFINE m == IF rq.v.start < sampled[s] THEN least(TargetPage, sampled[s] - rq.v.start) ELSE 0
    <3>1. m \in Nat
      <4>1. rq.v.start < sampled[s] => sampled[s] - rq.v.start \in Nat
        BY <1>2, <2>2
      <4> QED BY <1>2, <4>1, LeastOf
    <3>2. items = [k \in 1..m |-> <<s, rq.v.start + k>>]
      BY DEF Entries
    <3> HIDE DEF items, m
    <3>3. Len(items) = m
      BY <3>1, <3>2, SMT
    <3> QED BY <3>1, <3>2, <3>3 DEF IsSeq
  <2> HIDE DEF items
  <2>4. PageOfTargets(v, s, sampled')
    <3>1. v.num = sampled[s] /\ v.start = rq.v.start /\ v.items = items
      OBVIOUS
    <3> HIDE DEF v, s
    <3> QED BY <1>2, <1>4, <2>1, <2>3, <3>1, Zenon DEF PageOfTargets
  <2>5. p.v = v /\ p.cmd = "GET_TARGETS"
    BY <1>1 DEF Answer
  <2> HIDE DEF v, p
  <2>6. ~IsClientPage(p)
    BY <2>5 DEF IsClientPage
  <2>7. targetSample' \in 0..Len(sampled') /\ targetSample <= targetSample' /\ targetSample' > 0
    BY <1>2, <2>1, <2>2
  <2> QED BY <1>1, <2>1, <2>4, <2>5, <2>6, <2>7, ListSent
<1> QED BY <1>3, <1>4

\* Where the latest come first, there is one order of entries by time: from the last
\* to the first.
LEMMA SortsReversed ==
    ASSUME NEW n \in Nat, NEW s \in Nat, NEW info, \A k \in 1..n : info[k] = <<s, n + 1 - k>>
    PROVE  \A k \in 1..n : ByTime(info, n)[k] = n + 1 - k
<1> DEFINE order == ByTime(info, n)
           back == [k \in 1..n |-> n + 1 - k]
<1>1. \A k \in 1..n : ConnectTime(info[k]) = 100 * (n + 1 - k) + s
  BY DEF ConnectTime
<1>2. back \in [1..n -> 1..n] /\ Sorts(back, info, n)
  <2>1. \A k \in 1..n : back[k] = n + 1 - k /\ back[k] \in 1..n
    OBVIOUS
  <2>2. back \in [1..n -> 1..n]
    BY <2>1
  <2> HIDE DEF back
  <2>3. ASSUME NEW i \in 1..n, NEW j \in 1..n
        PROVE  /\ back[i] = back[j] => i = j
               /\ i < j => ConnectTime(info[back[i]]) <= ConnectTime(info[back[j]])
    <3>1. back[i] = back[j] => i = j
      BY <2>1
    <3>2. /\ ConnectTime(info[back[i]]) = 100 * (n + 1 - (n + 1 - i)) + s
          /\ ConnectTime(info[back[j]]) = 100 * (n + 1 - (n + 1 - j)) + s
      BY <1>1, <2>1
    <3>3. n + 1 - (n + 1 - i) = i /\ n + 1 - (n + 1 - j) = j
      OBVIOUS
    <3>4. i < j => ConnectTime(info[back[i]]) <= ConnectTime(info[back[j]])
      BY <3>2, <3>3, 100 * i + s <= 100 * j + s \/ ~(i < j)
    <3> QED BY <3>1, <3>4
  <2> QED BY <2>2, <2>3 DEF Sorts
<1>3. order \in [1..n -> 1..n] /\ Sorts(order, info, n)
  <2> HIDE DEF back
  <2> QED BY <1>2, Zenon DEF ByTime
<1> HIDE DEF order, back
\* It falls.
<1>4. ASSUME NEW i \in 1..n, NEW j \in 1..n, i < j PROVE order[j] < order[i]
  <2>1. order[i] \in 1..n /\ order[j] \in 1..n
    BY <1>3
  <2>2. order[i] # order[j] /\ ConnectTime(info[order[i]]) <= ConnectTime(info[order[j]])
    <3>1. i # j
      BY <1>4
    <3> QED BY <1>3, <1>4, <3>1 DEF Sorts
  <2>3. 100 * (n + 1 - order[i]) + s <= 100 * (n + 1 - order[j]) + s
    BY <1>1, <2>1, <2>2
  <2> DEFINE a == order[i]
             b == order[j]
  <2>4. a \in 1..n /\ b \in 1..n /\ a # b /\ 100 * (n + 1 - a) + s <= 100 * (n + 1 - b) + s
    BY <2>1, <2>2, <2>3
  <2> HIDE DEF a, b
  <2>5. b < a
    BY <2>4
  <2> QED BY <2>5 DEF a, b
\* It falls by one at least, from n at most, and to one at least.
<1>5. \A k \in 1..n : order[k] <= n + 1 - k
  <2> DEFINE P == {k \in Nat : k + 1 <= n => order[k + 1] <= n - k}
  <2>1. 0 \in P
    <3>1. 1 <= n => order[1] \in 1..n
      BY <1>3
    <3> QED BY <3>1
  <2>2. ASSUME NEW k \in P PROVE k + 1 \in P
    <3>1. k \in Nat /\ k + 1 \in Nat
      OBVIOUS
    <3> SUFFICES ASSUME (k + 1) + 1 <= n PROVE order[(k + 1) + 1] <= n - (k + 1)
      BY <3>1, Zenon
    <3>2. k + 1 \in 1..n /\ (k + 1) + 1 \in 1..n /\ k + 1 <= n /\ k + 1 < (k + 1) + 1
      BY <3>1
    <3>3. order[k + 1] <= n - k
      BY <3>2
    <3>4. order[(k + 1) + 1] < order[k + 1] /\ order[(k + 1) + 1] \in 1..n /\ order[k + 1] \in 1..n
      <4>1. \A i, j \in 1..n : i < j => order[j] < order[i]
        BY <1>4
      <4>2. order[(k + 1) + 1] < order[k + 1]
        BY <3>2, <4>1, Zenon
      <4>3. order[(k + 1) + 1] \in 1..n /\ order[k + 1] \in 1..n
        BY <1>3, <3>2, Zenon
      <4> QED BY <4>2, <4>3
    <3> DEFINE a == order[(k + 1) + 1]
               b == order[k + 1]
    <3>5. a < b /\ b <= n - k /\ a \in Nat /\ b \in Nat
      BY <3>3, <3>4
    <3> HIDE DEF a, b, P
    <3>6. a <= n - (k + 1)
      BY <3>1, <3>5
    <3> QED BY <3>6 DEF a
  <2>3. \A k \in Nat : k \in P
    <3>1. P \in SUBSET Nat
      OBVIOUS
    <3> HIDE DEF P
    <3> QED BY <2>1, <2>2, <3>1, SetInduction
  <2>4. ASSUME NEW k \in 1..n PROVE order[k] <= n + 1 - k
    <3>1. k - 1 \in Nat /\ (k - 1) + 1 = k /\ k <= n /\ n - (k - 1) = n + 1 - k
      OBVIOUS
    <3>2. k - 1 \in P
      BY <2>3, <3>1
    <3> QED BY <3>1, <3>2
  <2> QED BY <2>4
<1>6. \A k \in 1..n : order[k] >= n + 1 - k
  <2> DEFINE P == {k \in Nat : k + 1 <= n => order[n - k] >= k + 1}
  <2>1. 0 \in P
    <3>1. 1 <= n => order[n - 0] \in 1..n
      BY <1>3
    <3> QED BY <3>1
  <2>2. ASSUME NEW k \in P PROVE k + 1 \in P
    <3>1. k \in Nat /\ k + 1 \in Nat
      OBVIOUS
    <3> SUFFICES ASSUME (k + 1) + 1 <= n PROVE order[n - (k + 1)] >= (k + 1) + 1
      BY <3>1, Zenon
    <3>2. n - k \in 1..n /\ n - (k + 1) \in 1..n /\ k + 1 <= n /\ n - (k + 1) < n - k
      BY <3>1
    <3>3. order[n - k] >= k + 1
      BY <3>2
    <3>4. order[n - k] < order[n - (k + 1)] /\ order[n - (k + 1)] \in 1..n /\ order[n - k] \in 1..n
      <4>1. \A i, j \in 1..n : i < j => order[j] < order[i]
        BY <1>4
      <4>2. order[n - k] < order[n - (k + 1)]
        BY <3>2, <4>1, Zenon
      <4>3. order[n - (k + 1)] \in 1..n /\ order[n - k] \in 1..n
        BY <1>3, <3>2, Zenon
      <4> QED BY <4>2, <4>3
    <3> DEFINE a == order[n - (k + 1)]
               b == order[n - k]
    <3>5. b < a /\ b >= k + 1 /\ a \in Nat /\ b \in Nat
      BY <3>3, <3>4
    <3> HIDE DEF a, b, P
    <3>6. a >= (k + 1) + 1
      BY <3>1, <3>5
    <3> QED BY <3>6 DEF a
  <2>3. \A k \in Nat : k \in P
    <3>1. P \in SUBSET Nat
      OBVIOUS
    <3> HIDE DEF P
    <3> QED BY <2>1, <2>2, <3>1, SetInduction
  <2>4. ASSUME NEW k \in 1..n PROVE order[k] >= n + 1 - k
    <3>1. n - k \in Nat /\ n - (n - k) = k /\ (n - k) + 1 <= n /\ (n - k) + 1 = n + 1 - k
      OBVIOUS
    <3>2. n - k \in P
      BY <2>3, <3>1
    <3> QED BY <3>1, <3>2
  <2> QED BY <2>4
<1>7. ASSUME NEW k \in 1..n PROVE order[k] = n + 1 - k
  <2>1. order[k] <= n + 1 - k /\ order[k] >= n + 1 - k /\ order[k] \in Nat
    BY <1>3, <1>5, <1>6
  <2> QED BY <2>1
<1> QED BY <1>7 DEF order

LEMMA ServerClients ==
    ASSUME ListInv, ServerSendsClients
    PROVE  ListInv'
<1> DEFINE rq == Head(toServer)
           s == Len(sampled) + 1
<1>1. /\ UNCHANGED <<listVars, pc, op, ret, targetSample>> /\ toServer # <<>> /\ toServer' = Tail(toServer)
      /\ rq.cmd = "GET_CLIENTS"
  BY DEF ServerSendsClients, Pending, Answered
<1>2. /\ Counts(sampled) /\ targetSample \in 0..Len(sampled) /\ Len(sampled) \in Nat
      /\ ClientPage \in Nat
  BY PageAssumption DEF ListInv, Packets, Counts, IsSeq
<1>3. PICK n \in ClientLens :
        /\ sampled' = Append(sampled, n)
        /\ fromServer' = Append(fromServer, Answer(rq.cmd, rq.call, "NO_ERROR",
            [num |-> n, start |-> 0,
             items |-> Reversed([k \in 1..least(ClientPage, n) |-> <<Len(sampled) + 1, k>>])]))
  BY DEF ServerSendsClients, Push
<1>4. n \in Nat
  BY LensAssumption
<1> DEFINE m == least(ClientPage, n)
           entries == [k \in 1..m |-> <<s, k>>]
           items == Reversed(entries)
           v == [num |-> n, start |-> 0, items |-> items]
           p == Answer(rq.cmd, rq.call, "NO_ERROR", v)
<1>5. m \in Nat
  BY <1>2, <1>4, LeastOf
<1>6. sampled'[s] = n /\ Len(sampled') = s
  BY <1>2, <1>3, AppendAny DEF Counts
<1>7. IsSeq(items) /\ Len(items) = m /\ \A k \in 1..m : items[k] = <<s, m + 1 - k>>
  <2> HIDE DEF m, s
  <2>1. Len(entries) = m /\ DOMAIN entries = 1..m
    BY <1>5, SMT
  <2>2. items = [k \in 1..m |-> entries[m + 1 - k]]
    <3> HIDE DEF entries
    <3> QED BY <2>1, Zenon DEF Reversed
  <2>3. \A k \in 1..m : m + 1 - k \in 1..m
    BY <1>5
  <2>4. \A k \in 1..m : entries[m + 1 - k] = <<s, m + 1 - k>>
    BY <2>3
  <2> HIDE DEF items, entries
  <2>5. Len(items) = m
    BY <1>5, <2>2, SMT
  <2> QED BY <1>5, <2>2, <2>4, <2>5 DEF IsSeq
<1> HIDE DEF items
<1>8. PageOfClients(v, s, sampled')
  <2>1. v.num = n /\ v.start = 0 /\ v.items = items
    OBVIOUS
  <2> HIDE DEF v, s, m
  <2> QED BY <1>6, <1>7, <2>1, Zenon DEF PageOfClients, m
<1>9. p.v = v /\ p.cmd = "GET_CLIENTS" /\ fromServer' = Append(fromServer, p)
  BY <1>1, <1>3 DEF Answer, items
<1> HIDE DEF v, p
<1>10. ~IsTargetPage(p)
  BY <1>9 DEF IsTargetPage
<1>11. s \in 1..Len(sampled') /\ targetSample' \in 0..Len(sampled') /\ targetSample <= targetSample'
  BY <1>1, <1>2, <1>6
<1> HIDE DEF s
<1>12. \E t \in 1..Len(sampled') : PageOfClients(p.v, t, sampled')
  BY <1>8, <1>9, <1>11
<1> QED BY <1>1, <1>3, <1>4, <1>9, <1>10, <1>11, <1>12, ListSent

\* A first page, sorted.
LEMMA ListClients ==
    ASSUME ListInv, set_pkt_rsp_get_target_clients
    PROVE  ListInv'
<1> DEFINE p   == Head(fromServer)
           num == least(p.v.num, NumTargetClientMax)
           err == PageError(p, "GET_CLIENTS", {"PARAM"}, 0, NumTargetClientMax)
           c   == Copy(mTargetClientInfo, 0, p.v.items)
<1>1. /\ pc = "wait" /\ op = "get_target_clients" /\ op' = op /\ fromServer # <<>> /\ fromServer' = Tail(fromServer)
      /\ UNCHANGED <<sampled, targetSample, toServer, mStartIndex, mNumTarget, mTargetInfo>>
      /\ pc' = "idle" /\ ret' = err
      /\ mNumTargetClient' = IF err = "NONE" THEN num ELSE 0
      /\ mTargetClientInfo' = IF err = "NONE" THEN get_target_clients_info(c, num) ELSE mTargetClientInfo
  BY DEF set_pkt_rsp_get_target_clients, Received, Take, serverVars, samples, Return
<1>2. /\ IsSeq(toServer) /\ IsSeq(fromServer) /\ Counts(sampled) /\ targetSample \in 0..Len(sampled)
      /\ Len(sampled) \in Nat /\ ListTypes /\ NumTargetClientMax \in Nat /\ ClientPage \in Nat
      /\ ClientPage < NumTargetClientMax
      /\ Packets(toServer, fromServer, sampled, targetSample)
  BY PageAssumption DEF ListInv, Packets, Counts, IsSeq
<1>3. PICK L : Labels(L, fromServer, sampled, targetSample)
  BY DEF ListInv
<1>4. \E M : Labels(M, fromServer', sampled, targetSample)
  BY <1>1, <1>2, <1>3, LabelsTaken
<1>5. /\ IsSeq(fromServer') /\ p = fromServer[1] /\ 1 \in 1..Len(fromServer)
      /\ \A k \in 1..Len(fromServer') : k + 1 \in 1..Len(fromServer) /\ fromServer'[k] = fromServer[k + 1]
  <2>1. /\ IsSeq(fromServer') /\ Len(fromServer) \in Nat /\ Len(fromServer) > 0 /\ p = fromServer[1]
        /\ Len(fromServer') = Len(fromServer) - 1
        /\ \A k \in 1..Len(fromServer') : fromServer'[k] = fromServer[k + 1]
    BY <1>1, <1>2, TailAny DEF IsSeq
  <2> HIDE DEF p
  <2>2. 1 \in 1..Len(fromServer) /\ \A k \in 1..Len(fromServer') : k + 1 \in 1..Len(fromServer)
    BY <2>1
  <2> QED BY <2>1, <2>2
<1> HIDE DEF p, num, err, c
<1>6. \A k \in 1..Len(fromServer') : IsClientPage(fromServer'[k]) =>
        \E s \in 1..Len(sampled) : PageOfClients(fromServer'[k].v, s, sampled)
  BY <1>2, <1>5, Zenon DEF Packets
<1>7. Packets(toServer', fromServer', sampled', targetSample')
  BY <1>1, <1>2, <1>5, <1>6, Zenon DEF Packets
<1>8. TargetsOfOneSample' /\ ~Listing'
  BY <1>1 DEF TargetsOfOneSample, Done, Listing
<1>9. CASE err # "NONE"
  <2>1. 0 \in 0..NumTargetClientMax
    BY <1>2
  <2>2. ListTypes'
    BY <1>1, <1>2, <1>9, <2>1, Zenon DEF ListTypes
  <2>3. ClientsOfOnePage'
    BY <1>1, <1>9 DEF ClientsOfOnePage
  <2> QED BY <1>1, <1>4, <1>7, <1>8, <2>2, <2>3 DEF ListInv
<1>10. CASE err = "NONE"
  <2>1. IsClientPage(p)
    BY <1>10 DEF err, PageError, Foreign, IsClientPage
  <2>2. PICK s \in 1..Len(sampled) : PageOfClients(p.v, s, sampled)
    BY <1>2, <1>5, <2>1 DEF Packets
  <2> DEFINE m == Len(p.v.items)
  <2>3. sampled[s] \in Nat /\ s \in Nat /\ p.v.num = sampled[s] /\ m = least(ClientPage, sampled[s]) /\ IsSeq(p.v.items)
    BY <1>2, <2>2 DEF Counts, PageOfClients
  <2>4. m \in Nat /\ m <= ClientPage /\ (m = ClientPage \/ m = sampled[s]) /\ m <= sampled[s]
    BY <1>2, <2>3, LeastOf
  <2>5. num \in 0..NumTargetClientMax /\ (num = sampled[s] \/ num = NumTargetClientMax) /\ num \in Nat
    <3>1. num \in Nat /\ num <= NumTargetClientMax /\ (num = sampled[s] \/ num = NumTargetClientMax)
      BY <1>2, <2>3, LeastOf DEF num
    <3> QED BY <1>2, <3>1
  <2>6. IsSeq(mTargetClientInfo) /\ Len(mTargetClientInfo) = NumTargetClientMax
    BY <1>2 DEF ListTypes
  <2>7. /\ IsSeq(c) /\ Len(c) = NumTargetClientMax
        /\ \A k \in 1..m : c[k] = p.v.items[k]
    <3>1. 0 \in Nat /\ 0 + m = m /\ 0 + m <= NumTargetClientMax /\ \A k \in 1..m : k > 0 /\ k - 0 = k
      <4> HIDE DEF m
      <4> QED BY <1>2, <2>4
    <3> QED BY <2>3, <2>6, <3>1, CopyOf DEF c
  <2> DEFINE order == ByTime(c, num)
  <2>8. mTargetClientInfo' = [k \in 1..NumTargetClientMax |-> IF k <= num THEN c[order[k]] ELSE c[k]]
    BY <1>1, <1>10, <2>7 DEF get_target_clients_info
  <2>9. IsSeq(mTargetClientInfo') /\ Len(mTargetClientInfo') = NumTargetClientMax
    <3> HIDE DEF order
    <3>1. Len(mTargetClientInfo') = NumTargetClientMax
      BY <1>2, <2>8, SMT
    <3> QED BY <1>2, <2>8, <3>1 DEF IsSeq
  <2>10. ListTypes'
    BY <1>1, <1>2, <1>10, <2>5, <2>9, Zenon DEF ListTypes
  <2>11. ClientsOfOnePage'
    <3> SUFFICES ASSUME num <= ClientPage
                 PROVE  \E t \in DOMAIN sampled : num = sampled[t] /\ \A k \in 1..num : mTargetClientInfo'[k] = <<t, k>>
      BY <1>1, <1>10, Zenon DEF ClientsOfOnePage
    <3>1. num = sampled[s] /\ m = num
      <4> HIDE DEF m
      <4>1. num = sampled[s]
        BY <1>2, <2>5
      <4>2. m = sampled[s]
        BY <1>2, <2>3, <2>4, <4>1
      <4> QED BY <4>1, <4>2
    <3>2. \A k \in 1..num : c[k] = <<s, num + 1 - k>>
      BY <2>2, <2>7, <3>1 DEF PageOfClients
    <3>3. \A k \in 1..num : order[k] = num + 1 - k
      BY <2>3, <2>5, <3>2, SortsReversed
    <3> HIDE DEF order
    <3>4. ASSUME NEW k \in 1..num PROVE mTargetClientInfo'[k] = <<s, k>>
      <4>1. k \in 1..NumTargetClientMax /\ k <= num /\ num + 1 - k \in 1..num /\ num + 1 - (num + 1 - k) = k
        BY <1>2, <2>5
      <4>2. mTargetClientInfo'[k] = c[num + 1 - k]
        BY <2>8, <3>3, <4>1
      <4>3. c[num + 1 - k] = <<s, num + 1 - (num + 1 - k)>>
        BY <3>2, <4>1, Zenon
      <4> QED BY <4>1, <4>2, <4>3
    <3>5. s \in DOMAIN sampled
      BY <1>2 DEF Counts, IsSeq
    <3> QED BY <3>1, <3>4, <3>5
  <2> QED BY <1>1, <1>4, <1>7, <1>8, <2>10, <2>11 DEF ListInv
<1> QED BY <1>9, <1>10

LEMMA ListBaseStep ==
    ASSUME ListInv, BaseStep
    PROVE  ListInv'
<1>1. CASE ServerConnected \/ KeySet
  <2>1. /\ UNCHANGED <<listVars, sampled, targetSample, op, toServer>> /\ fromServer # <<>>
        /\ fromServer' = Tail(fromServer) /\ op \notin {"get_targets", "get_target_clients"}
    BY <1>1 DEF ServerConnected, KeySet, Received, Take, serverVars, samples
  <2> QED BY <2>1, ListTaken
<1> QED BY <1>1, ListTargets, ListClients DEF BaseStep

LEMMA ListSessionStep ==
    ASSUME ListInv, NEW err, NEW chl, SessionStarted(err, chl) \/ DeviceConnected
    PROVE  ListInv'
<1>1. /\ UNCHANGED <<listVars, sampled, targetSample, op, toServer>> /\ fromServer # <<>>
      /\ fromServer' = Tail(fromServer) /\ op \notin {"get_targets", "get_target_clients"}
  BY DEF SessionStarted, DeviceConnected, Received, Take, serverVars, samples
<1> QED BY <1>1, ListTaken

LEMMA ListServer ==
    ASSUME ListInv, Server \/ ServerCloses
    PROVE  ListInv'
<1> DEFINE rq == Head(toServer)
<1> USE DEF Answered, serverVars, samples
<1>1. CASE ServerSendsConInfo
  <2>1. \E v : fromServer' = Append(fromServer, Answer(rq.cmd, rq.call, "NO_ERROR", v))
    BY <1>1 DEF ServerSendsConInfo, Push
  <2>2. rq.cmd \in {"SESSION_START", "PING"} /\ toServer # <<>>
    BY <1>1 DEF ServerSendsConInfo, Pending
  <2>3. \A v : LET p == Answer(rq.cmd, rq.call, "NO_ERROR", v) IN ~IsTargetPage(p) /\ ~IsClientPage(p)
    BY <2>2 DEF Answer, IsTargetPage, IsClientPage
  <2> QED BY <1>1, <2>1, <2>2, <2>3, ListTold DEF ServerSendsConInfo
<1>2. CASE ServerSendsOk
  <2>1. \E v : fromServer' = Append(fromServer, Answer(rq.cmd, rq.call, "NO_ERROR", v))
    BY <1>2 DEF ServerSendsOk, Push
  <2>2. rq.cmd \in {"SERVER_CONNECT", "SET_DEVICE_KEY", "DEVICE_CONNECT"} /\ toServer # <<>>
    BY <1>2 DEF ServerSendsOk, Pending
  <2>3. \A v : LET p == Answer(rq.cmd, rq.call, "NO_ERROR", v) IN ~IsTargetPage(p) /\ ~IsClientPage(p)
    BY <2>2 DEF Answer, IsTargetPage, IsClientPage
  <2> QED BY <1>2, <2>1, <2>2, <2>3, ListTold DEF ServerSendsOk
<1>3. CASE ServerSendsError
  <2>1. PICK e \in Errs(rq) : fromServer' = Append(fromServer,
            IF e.full THEN Answer(rq.cmd, rq.call, e.err, e.v) ELSE HeaderOnly(rq.cmd, rq.call, e.err))
    BY <1>3 DEF ServerSendsError, Push
  <2>2. e.err # "NO_ERROR"
    BY ErrorAssumption DEF Errs
  <2>3. LET p == IF e.full THEN Answer(rq.cmd, rq.call, e.err, e.v) ELSE HeaderOnly(rq.cmd, rq.call, e.err)
        IN  ~IsTargetPage(p) /\ ~IsClientPage(p)
    BY <2>2 DEF Answer, HeaderOnly, IsTargetPage, IsClientPage
  <2> QED BY <1>3, <2>1, <2>3, ListTold DEF ServerSendsError
<1>4. CASE ServerCloses
  BY <1>4, ListTold DEF ServerCloses
<1> QED BY <1>1, <1>2, <1>3, <1>4, ServerTargets, ServerClients DEF Server

LEMMA ListInit ==
    ASSUME BaseInit
    PROVE  ListInv
<1>1. /\ mStartIndex = 0 /\ mNumTarget = 0 /\ mNumTargetClient = 0
      /\ mTargetInfo = [k \in 1..NumTargetMax |-> NoEntry]
      /\ mTargetClientInfo = [k \in 1..NumTargetClientMax |-> NoEntry]
      /\ pc = "idle" /\ op = "" /\ toServer = <<>> /\ fromServer = <<>> /\ sampled = <<>> /\ targetSample = 0
  BY DEF BaseInit
<1>2. \A k \in 1..0 : FALSE
  BY SMT
<1>3. ListTypes
  <2>1. NumTargetMax \in Nat /\ NumTargetClientMax \in Nat
    BY PageAssumption
  <2>2. \A n \in Nat : \A f : f = [k \in 1..n |-> NoEntry] => Len(f) = n /\ IsSeq(f)
    <3> SUFFICES ASSUME NEW n \in Nat, NEW f, f = [k \in 1..n |-> NoEntry] PROVE Len(f) = n /\ IsSeq(f)
      OBVIOUS
    <3>1. Len(f) = n
      BY SMT
    <3> QED BY <3>1 DEF IsSeq
  <2>3. 0 \in 0..255 /\ 0 \in 0..NumTargetMax /\ 0 \in 0..NumTargetClientMax
    BY <2>1
  <2> QED BY <1>1, <2>1, <2>2, <2>3 DEF ListTypes
<1>4. Counts(sampled) /\ Len(sampled) = 0 /\ 0 \in 0..0 /\ 0 \in Nat
  <2>1. IsSeq(sampled) /\ Len(sampled) = 0
    BY <1>1, ShortSeq
  <2>2. \A s \in 1..Len(sampled) : sampled[s] \in Nat
    BY <1>2, <2>1, Zenon
  <2>3. 0 \in 0..0 /\ 0 \in Nat
    BY SMT
  <2> QED BY <2>1, <2>2, <2>3 DEF Counts
<1>5. Packets(toServer, fromServer, sampled, targetSample)
  BY <1>1, <1>2, <1>4, ShortSeq DEF Packets
<1>6. \E L : Labels(L, fromServer, sampled, targetSample)
  BY <1>1, <1>4, LabelsNone
<1> QED BY <1>1, <1>3, <1>5, <1>6 DEF ListInv, Listing, TargetsOfOneSample, ClientsOfOnePage, Done

--------------------------------------------------------------------------------
(* Types.                                                                     *)

Simple ==
    /\ mServerIpAddr \in BOOLEAN /\ mSessionStarted \in BOOLEAN /\ mRcvChlActive \in BOOLEAN
    /\ session \in BOOLEAN /\ inStep \in BOOLEAN
    /\ pc \in {"idle", "wait", "null", "overrun", "smashed", "runaway"} /\ ret \in Returns
    /\ link \in {"none", "bad", "up", "closed"}

LEMMA TypesAre == Simple /\ ListInv => BaseTypeOK
BY DEF Simple, ListInv, ListTypes, BaseTypeOK

LEMMA SimpleInit ==
    ASSUME BaseInit
    PROVE  Simple
BY DEF BaseInit, Simple, Returns

\* What calls return.
LEMMA ReturnsOf ==
    ASSUME NEW p, NEW cmd, NEW chl
    PROVE  /\ set_pkt_rsp_ping(p, cmd, chl) \in Returns
           /\ set_pkt_rsp_server_connect(p) \in Returns
           /\ set_pkt_rsp_device_connect(p) \in Returns
           /\ \A num, max : /\ PageError(p, cmd, {}, num, max) \in Returns
                            /\ PageError(p, cmd, {"PARAM"}, num, max) \in Returns
<1> USE DEF Returns
<1>1. \A c : mHandlePktError(p, c) \in Returns
  BY DEF mHandlePktError
<1>2. set_pkt_rsp_ping(p, cmd, chl) \in Returns
  BY <1>1 DEF set_pkt_rsp_ping
<1>3. set_pkt_rsp_server_connect(p) \in Returns
  BY DEF set_pkt_rsp_server_connect, Foreign
<1>4. set_pkt_rsp_device_connect(p) \in Returns
  BY <1>1 DEF set_pkt_rsp_device_connect
<1>5. ASSUME NEW num, NEW max
      PROVE  /\ PageError(p, cmd, {}, num, max) \in Returns
             /\ PageError(p, cmd, {"PARAM"}, num, max) \in Returns
  BY DEF PageError, Foreign
<1> QED BY <1>2, <1>3, <1>4, <1>5

LEMMA SimpleKept ==
    ASSUME Simple, UNCHANGED <<mServerIpAddr, mSessionStarted, mRcvChlActive, session, inStep>>,
           pc' \in {pc, "idle", "wait", "null", "overrun", "smashed", "runaway"}, ret' = ret \/ ret' \in Returns,
           link' \in {link, "none", "bad", "up", "closed"}
    PROVE  Simple'
BY Zenon DEF Simple

LEMMA SimpleCall ==
    ASSUME Simple, BaseCall \/ mDeviceConnect \/ \E v : mSessionStart(v)
    PROVE  Simple'
<1> USE DEF Refuse, Execute, Called, Send, Return, serverVars, stateVars
<1>1. CASE server_connect
  <2>1. session' \in BOOLEAN /\ inStep' \in BOOLEAN
    BY <1>1, Zenon DEF server_connect, Simple
  <2>2. /\ UNCHANGED <<mServerIpAddr, mSessionStarted, mRcvChlActive>>
        /\ pc' \in {pc, "idle", "wait"} /\ ret' \in {ret, "FN_USAGE", "SERVER_CON"} /\ link' \in {link, "up", "bad"}
    BY <1>1 DEF server_connect, mHandleErrorServerConnect
  <2>3. "FN_USAGE" \in Returns /\ "SERVER_CON" \in Returns
    BY DEF Returns
  <2> QED BY <2>1, <2>2, <2>3, Zenon DEF Simple
<1>2. CASE ~server_connect
  <2>1. /\ UNCHANGED <<mServerIpAddr, mSessionStarted, mRcvChlActive, session, inStep, link>>
        /\ pc' \in {"idle", "wait", "null"} /\ ret' \in {ret, "FN_USAGE"}
    BY <1>2 DEF BaseCall, server_unlock, device_unlock_get_challenge, WithoutPacket, get_targets, get_target_clients,
                device_unlock_set_key, BeginQuery, mDeviceConnect, mSessionStart
  <2> QED BY <2>1, SimpleKept DEF Returns
<1> QED BY <1>1, <1>2

LEMMA SimpleGivenUp ==
    ASSUME Simple, Timeout \/ Lost \/ Overrun
    PROVE  Simple'
<1>1. /\ UNCHANGED <<mServerIpAddr, mSessionStarted, mRcvChlActive, session>>
      /\ pc' \in {"idle", "overrun"} /\ ret' \in {ret, "CHL_RCV", "SERVER_CON"} /\ link' \in {link, "none"}
  BY DEF Timeout, Lost, Overrun, Failed, Return, Disconnect
<1>2. inStep' \in BOOLEAN
  BY Zenon DEF Timeout, Lost, Overrun, Simple
<1> QED BY <1>1, <1>2 DEF Simple, Returns

LEMMA SimpleStep ==
    ASSUME Simple, BaseStep \/ DeviceConnected
    PROVE  Simple'
<1> USE DEF Received, Take, Return, serverVars, stateVars
<1> DEFINE p == Head(fromServer)
<1>1. CASE ServerConnected
  <2>1. /\ UNCHANGED <<mSessionStarted, mRcvChlActive, session, inStep, link>>
        /\ pc' = "idle" /\ ret' \in Returns
    BY <1>1, ReturnsOf DEF ServerConnected
  <2>2. mServerIpAddr' \in BOOLEAN
    BY <1>1, Zenon DEF ServerConnected
  <2> QED BY <2>1, <2>2 DEF Simple
<1>2. CASE KeySet
  BY <1>2, SimpleKept DEF KeySet, Returns
<1>3. CASE DeviceConnected
  BY <1>3, ReturnsOf, SimpleKept DEF DeviceConnected
<1>4. CASE set_pkt_rsp_get_targets
  <2>1. "NONE" \in Returns
    BY DEF Returns
  <2> QED BY <1>4, <2>1, ReturnsOf, SimpleKept DEF set_pkt_rsp_get_targets
<1>5. CASE set_pkt_rsp_get_target_clients
  <2>1. /\ UNCHANGED <<mServerIpAddr, mSessionStarted, mRcvChlActive, session, inStep, link>> /\ pc' = "idle"
        /\ \E max : ret' = PageError(p, "GET_CLIENTS", {"PARAM"}, 0, max)
    BY <1>5 DEF set_pkt_rsp_get_target_clients
  <2> QED BY <2>1, ReturnsOf, SimpleKept
<1> QED BY <1>1, <1>2, <1>3, <1>4, <1>5 DEF BaseStep

LEMMA SimpleStarts ==
    ASSUME Simple, NEW err, NEW chl, SessionStarted(err, chl)
    PROVE  Simple'
<1> USE DEF Received, Take, Return, serverVars, stateVars
<1>1. UNCHANGED <<mServerIpAddr, mRcvChlActive, session, inStep, link>> /\ pc' = "idle" /\ ret' \in Returns
  BY ReturnsOf DEF SessionStarted
<1>2. mSessionStarted' \in BOOLEAN
  BY Zenon DEF SessionStarted, Started
<1> QED BY <1>1, <1>2 DEF Simple

LEMMA SimpleServer ==
    ASSUME Simple, Server \/ ServerCloses
    PROVE  Simple'
<1>1. /\ UNCHANGED <<mServerIpAddr, mSessionStarted, mRcvChlActive, inStep, pc, ret>> /\ link' \in {link, "closed"}
  BY DEF Server, ServerCloses, ServerSendsTargets, ServerSendsClients, ServerSendsConInfo, ServerSendsOk,
         ServerSendsError, Answered, stateVars
<1>2. session' \in BOOLEAN
  BY Zenon DEF Server, ServerCloses, ServerSendsTargets, ServerSendsClients, ServerSendsConInfo, ServerSendsOk,
         ServerSendsError, serverVars, Simple
<1> QED BY <1>1, <1>2 DEF Simple

--------------------------------------------------------------------------------
(* Notifications of resets: N counts, for each packet underway, those told of so *)
(* far. The commands cmds are those in which a client takes notice of them.    *)

TellsReset(p, cmds) ==
    p.cmd \in cmds /\ (p.cmd = "PL0_START" \/ (p.cmd = "RW" /\ p.v.reset) \/ p.err = "DEV_RESET")

Counting(N, rsps, cmds, count, told) ==
    /\ told \in Nat /\ count \in Nat /\ IsSeq(rsps)
    /\ N \in [0..Len(rsps) -> 0..told] /\ count <= N[0]
    /\ \A k \in 1..Len(rsps) : N[k - 1] <= N[k] /\ (TellsReset(rsps[k], cmds) => N[k - 1] < N[k])

CountOK(rsps, cmds, count, told) == \E N : Counting(N, rsps, cmds, count, told)

LEMMA CountBounds ==
    ASSUME NEW rsps, NEW cmds, NEW count, NEW told, CountOK(rsps, cmds, count, told)
    PROVE  count \in Nat /\ told \in Nat /\ count <= told /\ IsSeq(rsps)
<1>1. PICK N : Counting(N, rsps, cmds, count, told)
  BY DEF CountOK
<1>2. N[0] \in 0..told /\ count <= N[0] /\ count \in Nat /\ told \in Nat /\ IsSeq(rsps)
  <2>1. Len(rsps) \in Nat
    BY <1>1 DEF Counting, IsSeq
  <2>2. 0 \in 0..Len(rsps)
    BY <2>1
  <2> QED BY <1>1, <2>2 DEF Counting
<1> QED BY <1>2

LEMMA CountDropped ==
    ASSUME NEW rsps, NEW cmds, NEW count, NEW told, CountOK(rsps, cmds, count, told)
    PROVE  CountOK(<<>>, cmds, count, told)
<1>1. count \in Nat /\ told \in Nat /\ count <= told
  BY CountBounds
<1> DEFINE N == [k \in 0..0 |-> told]
<1>2. IsSeq(<<>>) /\ Len(<<>>) = 0
  BY ShortSeq
<1>3. N \in [0..0 -> 0..told] /\ N[0] = told
  BY <1>1
<1> HIDE DEF N
<1>4. \A k \in 1..0 : FALSE
  BY SMT
<1>5. Counting(N, <<>>, cmds, count, told)
  BY <1>1, <1>2, <1>3, <1>4 DEF Counting
<1> QED BY <1>5 DEF CountOK

LEMMA CountStart ==
    ASSUME NEW cmds
    PROVE  CountOK(<<>>, cmds, 0, 0)
<1> DEFINE N == [k \in 0..0 |-> 0]
<1>1. IsSeq(<<>>) /\ Len(<<>>) = 0
  BY ShortSeq
<1>2. N \in [0..0 -> 0..0] /\ N[0] = 0
  BY SMT
<1> HIDE DEF N
<1>3. \A k \in 1..0 : FALSE
  BY SMT
<1>4. 0 \in Nat /\ 0 <= 0
  BY SMT
<1>5. Counting(N, <<>>, cmds, 0, 0)
  BY <1>1, <1>2, <1>3, <1>4 DEF Counting
<1> QED BY <1>5 DEF CountOK

\* A packet is taken, and what it tells of is counted, or is not.
LEMMA CountTaken ==
    ASSUME NEW rsps, NEW cmds, NEW count, NEW told, CountOK(rsps, cmds, count, told), rsps # <<>>,
           NEW n, n = count \/ (n = count + 1 /\ TellsReset(Head(rsps), cmds))
    PROVE  CountOK(Tail(rsps), cmds, n, told)
<1>1. PICK N : Counting(N, rsps, cmds, count, told)
  BY DEF CountOK
<1> DEFINE m == Len(rsps)
           t == Tail(rsps)
           M == [k \in 0..(m - 1) |-> N[k + 1]]
<1>2. m \in Nat /\ m > 0 /\ Len(t) = m - 1 /\ IsSeq(t) /\ Head(rsps) = rsps[1] /\ \A k \in 1..(m - 1) : t[k] = rsps[k + 1]
  BY <1>1, TailAny DEF IsSeq, Counting
<1>3. told \in Nat /\ count \in Nat /\ N \in [0..m -> 0..told] /\ count <= N[0]
  BY <1>1 DEF Counting
<1>4. \A k \in 1..m : N[k - 1] <= N[k] /\ (TellsReset(rsps[k], cmds) => N[k - 1] < N[k])
  BY <1>1 DEF Counting
<1> HIDE DEF m, t
<1>5. \A k \in 0..(m - 1) : k + 1 \in 0..m /\ M[k] = N[k + 1]
  BY <1>2
<1>6. M \in [0..(m - 1) -> 0..told]
  BY <1>3, <1>5
<1>7. n \in Nat /\ n <= M[0]
  <2>1. 0 \in 0..m /\ 1 \in 0..m /\ 1 \in 1..m /\ 0 \in 0..(m - 1) /\ 1 - 1 = 0 /\ 0 + 1 = 1
    BY <1>2
  <2>2. N[0] \in 0..told /\ N[1] \in 0..told /\ M[0] = N[1] /\ N[0] <= N[1]
    BY <1>3, <1>4, <1>5, <2>1
  <2>3. TellsReset(Head(rsps), cmds) => N[0] < N[1]
    BY <1>2, <1>4, <2>1
  <2> QED BY <1>3, <2>2, <2>3
<1>8. ASSUME NEW k \in 1..(m - 1)
      PROVE  M[k - 1] <= M[k] /\ (TellsReset(t[k], cmds) => M[k - 1] < M[k])
  <2>1. k + 1 \in 1..m /\ k \in 0..(m - 1) /\ k - 1 \in 0..(m - 1) /\ (k + 1) - 1 = (k - 1) + 1
    BY <1>2
  <2>2. M[k] = N[k + 1] /\ M[k - 1] = N[(k + 1) - 1] /\ t[k] = rsps[k + 1]
    BY <1>2, <1>5, <2>1
  <2> QED BY <1>4, <2>1, <2>2, Zenon
<1> HIDE DEF M
<1>9. Counting(M, t, cmds, n, told)
  BY <1>2, <1>3, <1>6, <1>7, <1>8 DEF Counting
<1> QED BY <1>9 DEF CountOK, t

\* A packet is sent; if it tells of a reset that is one more.
LEMMA CountTold ==
    ASSUME NEW rsps, NEW cmds, NEW count, NEW told, CountOK(rsps, cmds, count, told),
           NEW p, NEW n, n = told + 1 \/ (n = told /\ ~TellsReset(p, cmds))
    PROVE  CountOK(Append(rsps, p), cmds, count, n)
<1>1. PICK N : Counting(N, rsps, cmds, count, told)
  BY DEF CountOK
<1> DEFINE m == Len(rsps)
           t == Append(rsps, p)
           M == [k \in 0..(m + 1) |-> IF k = m + 1 THEN n ELSE N[k]]
<1>2. m \in Nat /\ Len(t) = m + 1 /\ IsSeq(t) /\ t[m + 1] = p /\ \A k \in 1..m : t[k] = rsps[k]
  BY <1>1, AppendAny DEF IsSeq, Counting
<1>3. told \in Nat /\ count \in Nat /\ N \in [0..m -> 0..told] /\ count <= N[0]
  BY <1>1 DEF Counting
<1>4. \A k \in 1..m : N[k - 1] <= N[k] /\ (TellsReset(rsps[k], cmds) => N[k - 1] < N[k])
  BY <1>1 DEF Counting
<1> HIDE DEF m, t
<1>5. M[m + 1] = n /\ n \in Nat /\ told <= n /\ \A k \in 0..m : M[k] = N[k] /\ k # m + 1
  BY <1>2, <1>3
<1>6. M \in [0..(m + 1) -> 0..n]
  <2>1. \A k \in 0..(m + 1) : k = m + 1 \/ k \in 0..m
    BY <1>2
  <2>2. \A k \in 0..m : N[k] \in 0..n
    BY <1>3, <1>5
  <2>3. n \in 0..n
    BY <1>5
  <2> QED BY <1>5, <2>1, <2>2, <2>3
<1>7. count <= M[0]
  BY <1>2, <1>3, <1>5
<1>8. ASSUME NEW k \in 1..(m + 1)
      PROVE  M[k - 1] <= M[k] /\ (TellsReset(t[k], cmds) => M[k - 1] < M[k])
  <2>1. CASE k = m + 1
    <3>1. k - 1 = m /\ m \in 0..m
      BY <1>2, <2>1
    <3>2. M[k] = n /\ M[k - 1] = N[m] /\ N[m] \in 0..told /\ t[k] = p
      BY <1>2, <1>3, <1>5, <2>1, <3>1
    <3>3. N[m] <= n /\ (TellsReset(p, cmds) => N[m] < n)
      BY <1>3, <3>2
    <3> QED BY <3>2, <3>3
  <2>2. CASE k # m + 1
    <3>1. k \in 1..m /\ k \in 0..m /\ k - 1 \in 0..m
      BY <1>2, <2>2
    <3>2. M[k] = N[k] /\ M[k - 1] = N[k - 1] /\ t[k] = rsps[k]
      BY <1>2, <1>5, <3>1
    <3> QED BY <1>4, <3>1, <3>2
  <2> QED BY <2>1, <2>2
<1> HIDE DEF M
<1>9. Counting(M, t, cmds, count, n)
  BY <1>2, <1>3, <1>5, <1>6, <1>7, <1>8 DEF Counting
<1> QED BY <1>9 DEF CountOK, t

\* What the clients have in common does not count, and the server's answers that it
\* models do not tell of resets.
LEMMA CountKept ==
    ASSUME NEW cmds, NEW count, NEW told, CountOK(fromServer, cmds, count, told),
           \/ fromServer' = fromServer \/ fromServer' = <<>>
           \/ fromServer # <<>> /\ fromServer' = Tail(fromServer)
           \/ \E p : fromServer' = Append(fromServer, p) /\ ~TellsReset(p, cmds)
    PROVE  CountOK(fromServer', cmds, count, told)
BY CountDropped, CountTaken, CountTold

\* The commands of both clients, and what the errors of a server are then not.
Notified(cmds) ==
    /\ cmds \subseteq {"PL0_START", "RW", "CHL_MSG_D2C"}
    /\ \A e \in ErrorAnswers : e.cmd \in cmds => e.err # "DEV_RESET" /\ cmds = {"CHL_MSG_D2C"}

LEMMA CountServer ==
    ASSUME NEW cmds, Notified(cmds), NEW count, NEW told, CountOK(fromServer, cmds, count, told),
           Server \/ ServerCloses
    PROVE  CountOK(fromServer', cmds, count, told)
<1> DEFINE rq == Head(toServer)
<1>1. CASE ServerCloses
  BY <1>1, CountKept DEF ServerCloses
<1>2. \A cmd \in {"GET_TARGETS", "GET_CLIENTS", "SESSION_START", "PING", "SERVER_CONNECT", "SET_DEVICE_KEY",
                  "DEVICE_CONNECT"} : \A c, v : ~TellsReset(Answer(cmd, c, "NO_ERROR", v), cmds)
  BY DEF TellsReset, Answer, Notified
<1>3. CASE Server /\ ~ServerSendsError
  <2>1. \E cmd \in {"GET_TARGETS", "GET_CLIENTS", "SESSION_START", "PING", "SERVER_CONNECT", "SET_DEVICE_KEY",
                  "DEVICE_CONNECT"} : \E c, v : fromServer' = Append(fromServer, Answer(cmd, c, "NO_ERROR", v))
    <3>1. CASE ServerSendsTargets
      BY <3>1 DEF ServerSendsTargets, Pending, Push
    <3>2. CASE ServerSendsClients
      BY <3>2 DEF ServerSendsClients, Pending, Push
    <3>3. CASE ServerSendsConInfo
      BY <3>3 DEF ServerSendsConInfo, Pending, Push
    <3>4. CASE ServerSendsOk
      BY <3>4 DEF ServerSendsOk, Pending, Push
    <3> QED BY <1>3, <3>1, <3>2, <3>3, <3>4 DEF Server
  <2> QED BY <1>2, <2>1, CountKept
<1>4. CASE ServerSendsError
  <2>1. PICK e \in Errs(rq) : fromServer' = Append(fromServer,
            IF e.full THEN Answer(rq.cmd, rq.call, e.err, e.v) ELSE HeaderOnly(rq.cmd, rq.call, e.err))
    BY <1>4 DEF ServerSendsError, Push
  <2>2. e \in ErrorAnswers /\ e.cmd = rq.cmd
    BY DEF Errs
  <2>3. ~TellsReset(Answer(rq.cmd, rq.call, e.err, e.v), cmds) /\ ~TellsReset(HeaderOnly(rq.cmd, rq.call, e.err), cmds)
    BY <2>2 DEF TellsReset, Answer, HeaderOnly, Notified
  <2> QED BY <2>1, <2>3, CountKept
<1> QED BY <1>1, <1>3, <1>4

\* Whatever else the clients have in common leaves packets alone, takes one or drops all.
LEMMA CountOther ==
    ASSUME NEW cmds, NEW count, NEW told, CountOK(fromServer, cmds, count, told),
           \/ BaseCall \/ mDeviceConnect \/ (\E v : mSessionStart(v))
           \/ BaseStep \/ DeviceConnected \/ (\E err, chl : SessionStarted(err, chl))
           \/ Timeout \/ Lost \/ Overrun
    PROVE  CountOK(fromServer', cmds, count, told)
<1>1. \/ fromServer' = fromServer \/ fromServer' = <<>>
      \/ fromServer # <<>> /\ fromServer' = Tail(fromServer)
  <2> USE DEF Received, Take
  <2>1. CASE BaseCall \/ mDeviceConnect \/ \E v : mSessionStart(v)
    BY <2>1 DEF BaseCall, server_connect, server_unlock, device_unlock_get_challenge, WithoutPacket, get_targets,
         get_target_clients, device_unlock_set_key, BeginQuery, mDeviceConnect, mSessionStart, Refuse, Execute, Send
  <2>2. CASE BaseStep \/ DeviceConnected \/ \E err, chl : SessionStarted(err, chl)
    BY <2>2 DEF BaseStep, ServerConnected, KeySet, set_pkt_rsp_get_targets, set_pkt_rsp_get_target_clients,
         DeviceConnected, SessionStarted
  <2>3. CASE Timeout \/ Lost \/ Overrun
    BY <2>3 DEF Timeout, Lost, Overrun, Disconnect
  <2> QED BY <2>1, <2>2, <2>3
<1> QED BY <1>1, CountKept
================================================================================
