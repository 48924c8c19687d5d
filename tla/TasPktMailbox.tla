------------------------------ MODULE TasPktMailbox ------------------------------
(***************************************************************************)
(* CTasPktMailboxSocket (tas_pkt_mailbox_socket.cpp): packets over a TCP    *)
(* connection. execute() sends the packets of a request and then receives   *)
(* as many; each is read in two steps, its size and the rest. Between any   *)
(* two steps words may arrive or the server may close the connection; a     *)
(* step that finds nothing to read has waited for the timeout.              *)
(*                                                                          *)
(* The stream of the connection is a sequence of words; a word knows its    *)
(* packet (pkt), its position in it (i, 0 is the header) and the size of    *)
(* the packet (len), and the call that the packet answers (rq, 0 for a      *)
(* packet that the server sent on its own). net holds the words on the way, *)
(* sock those that recv() would return at once. All sizes are words.        *)
(*                                                                          *)
(* A definition with a suffix after its name is a faulty version of the     *)
(* definition below it, see TasPktHandlerRw.                                *)
(***************************************************************************)
EXTENDS Integers, Sequences

CONSTANTS
    RspSizes,       \* sizes of packets of the server
    UnaskedSizes,   \* and of those it sends on its own
    MaxRsp,         \* mMaxNumBytesRsp
    BodyValues,     \* values of a word that is not a header, read as a size
    MaxPkts,        \* bound of the model: packets of a request
    MaxCalls,       \* bound of the model
    MaxEvents       \* bound of the model: connects, and packets the server sends on its own

ASSUME SizeAssumption ==
    /\ RspSizes \subseteq Nat \ {0, 1} /\ MaxRsp \in Nat /\ BodyValues \subseteq Nat
    /\ MaxPkts \in Nat \ {0}

VARIABLES
    mSocket,        \* "none", "bad" (exists, but was not connected), "up"
    mRspBuf,        \* words written to the buffer of the caller
    mNumBytesRsp,
    pc,             \* "idle", "send", "header", "body"
    kind,           \* the last call: "connect", "send", "receive" or "execute"
    num_pl2_pkt, left,   \* packets of the call, and those not yet received
    ok,             \* what the last call returned
    \* the environment
    peer,           \* "open", "closed"
    toServer,       \* requests the server has to answer
    net, sock,
    call, pkts, pushed, connects,   \* numbers of calls, packets, ...
    established,    \* CTasClientServerCon::server_connect() has succeeded
    outOfStep,      \* a timeout, a send() or a packet the server sent on its own may
                    \* have left a packet in the stream for which no call waits
    short           \* on this connection a recv() has returned less than it was asked
                    \* for, and that was taken for the rest of a packet

callVars == <<kind, num_pl2_pkt, call>>
envVars  == <<toServer, net, sock, peer>>
history  == <<pkts, pushed, connects>>
vars == <<mSocket, mRspBuf, mNumBytesRsp, pc, left, ok, callVars, envVars, history,
          established, outOfStep, short>>

--------------------------------------------------------------------------------

\* CTasClientServerCon::server_connect() connects and executes one request; until
\* that has succeeded it may be called again.
server_connect ==
    /\ pc = "idle" /\ ~established /\ connects + pushed < MaxEvents
    /\ mSocket = "up" => kind = "execute" /\ ~ok
    /\ kind' = "connect"
    /\ mSocket' \in {"up", "bad"}
    /\ peer' = "open" /\ toServer' = <<>> /\ net' = <<>> /\ sock' = <<>>
    /\ connects' = connects + 1
    /\ outOfStep' = FALSE /\ short' = FALSE
    /\ UNCHANGED <<mRspBuf, mNumBytesRsp, pc, left, ok, num_pl2_pkt, call, pkts, pushed, established>>

mSocketDisconnect ==
    /\ mSocket' = "none"
    /\ toServer' = <<>> /\ net' = <<>> /\ sock' = <<>>
    /\ UNCHANGED peer

Returns(val) == pc' = "idle" /\ ok' = val

Begin(k, n) ==
    /\ pc = "idle" /\ call < MaxCalls
    /\ call' = call + 1
    /\ kind' = k /\ num_pl2_pkt' = n
    /\ left' = IF k = "send" THEN 0 ELSE n
    /\ mRspBuf' = <<>>
    /\ established \/ (k = "execute" /\ n = 1 /\ kind = "connect")
    /\ outOfStep' = (outOfStep \/ k = "send")
    /\ UNCHANGED <<mSocket, ok, envVars, history, established, short>>

send(n)    == Begin("send", n)    /\ pc' = "send" /\ UNCHANGED mNumBytesRsp
execute(n) == Begin("execute", n) /\ pc' = "send" /\ UNCHANGED mNumBytesRsp
receive    == Begin("receive", 1) /\ pc' = "header" /\ mNumBytesRsp' = 0

\* All packets of the request are sent, or one of them is not: the server has
\* closed the connection, or there never was one. What is sent to a server that
\* has closed may also vanish.
Send ==
    /\ pc = "send"
    /\ \/ /\ mSocket = "up"
          /\ toServer' = IF peer = "open" THEN toServer \o [k \in 1..num_pl2_pkt |-> call] ELSE toServer
          /\ pc' = "header" /\ mNumBytesRsp' = 0
          /\ UNCHANGED <<mSocket, ok, net, sock, peer>>
       \/ /\ mSocket # "up" \/ peer = "closed"
          /\ mSocketDisconnect
          /\ Returns(FALSE)
          /\ UNCHANGED mNumBytesRsp
    /\ UNCHANGED <<mRspBuf, left, callVars, history, established, outOfStep, short>>

\* recv(): words that can be read at once, as far as they are asked for.
recv(n) == SubSeq(sock, 1, IF n < Len(sock) THEN n ELSE Len(sock))
Unread(n) == sock' = SubSeq(sock, n + 1, Len(sock))

Nothing == sock = <<>>

\* recv() fails or says that the connection was closed.
Closed == mSocket # "up" \/ peer = "closed"

Receiving(where) == pc = where /\ left > 0

\* What the word that is read as the header of a packet says of its size.
SizesOf(word) == IF word.i = 0 THEN {word.len} ELSE BodyValues

\* The room left in the buffer is not looked at.
BadSize_NoMax(size) == size < 2

\* A packet has at least a header and a word, and fits into the buffer.
BadSize(size) == size < 2 \/ size + mNumBytesRsp > MaxRsp

\* No disconnect after a header that cannot be.
BadHeader_Stays ==
    Returns(FALSE) /\ Unread(1) /\ UNCHANGED <<mSocket, toServer, net, peer>>

BadHeader == Returns(FALSE) /\ mSocketDisconnect

\* mReceivePl2Pkt(), first part: the size. A size of 0 is taken for a timeout.
RecvHeader ==
    /\ Receiving("header") /\ mSocket = "up" /\ ~Nothing
    /\ mRspBuf' = SubSeq(mRspBuf, 1, mNumBytesRsp) \o recv(1)
    /\ \E size \in SizesOf(Head(sock)) :
        \/ /\ size = 0
           /\ Returns(FALSE) /\ outOfStep' = TRUE
           /\ Unread(1) /\ UNCHANGED <<mSocket, toServer, net, peer>>
        \/ /\ size # 0 /\ BadSize(size)
           /\ BadHeader
           /\ UNCHANGED outOfStep
        \/ /\ ~BadSize(size)
           /\ pc' = "body"
           /\ Unread(1) /\ UNCHANGED <<mSocket, ok, toServer, net, peer, outOfStep>>
    /\ UNCHANGED <<mNumBytesRsp, left, callVars, history, established, short>>

\* recv() blocks.
HeaderTimeout_Never == FALSE /\ UNCHANGED vars

\* recv() returns 1 after its timeout, and mSocketReceive() sees that the word
\* it had set to 0 still is: the connection stays.
HeaderTimeout ==
    /\ Receiving("header") /\ mSocket = "up" /\ Nothing
    /\ Returns(FALSE)
    /\ outOfStep' = TRUE
    /\ mRspBuf' = SubSeq(mRspBuf, 1, mNumBytesRsp)
    /\ UNCHANGED <<mSocket, mNumBytesRsp, left, callVars, envVars, history, established, short>>

HeaderClosed ==
    /\ Receiving("header") /\ Closed
    /\ mSocketDisconnect
    /\ Returns(FALSE)
    /\ UNCHANGED <<mRspBuf, mNumBytesRsp, left, callVars, history, established, outOfStep, short>>

\* A word of the buffer that was not written.
Garbage == [pkt |-> 0, i |-> 1, len |-> 1, rq |-> 0]

\* The size the header in the buffer was read as.
PktSizes == {size \in SizesOf(mRspBuf[mNumBytesRsp + 1]) : ~BadSize(size)}

\* Second part: whatever recv() returns is taken for the rest of the packet.
RecvBody ==
    /\ Receiving("body") /\ mSocket = "up" /\ ~Nothing
    /\ \E size \in PktSizes :
        /\ mRspBuf' = mRspBuf \o recv(size - 1)
                        \o [k \in 1..(size - 1 - Len(recv(size - 1))) |-> Garbage]
        /\ mNumBytesRsp' = mNumBytesRsp + size
        /\ Unread(size - 1)
        /\ short' = (short \/ Len(recv(size - 1)) < size - 1)
    /\ left' = left - 1
    /\ pc' = "header"
    /\ UNCHANGED <<mSocket, ok, toServer, net, peer, callVars, history, established, outOfStep>>

\* The connection stays.
BodyLost_Stays ==
    /\ Receiving("body") /\ (Nothing \/ Closed)
    /\ Returns(FALSE)
    /\ UNCHANGED <<mSocket, mRspBuf, mNumBytesRsp, left, callVars, envVars, history, established,
                   outOfStep, short>>

\* A timeout in the middle of a packet ends the connection.
BodyLost ==
    /\ Receiving("body")
    /\ IF Nothing THEN TRUE ELSE Closed \/ Head(sock).i # 1
    /\ mSocketDisconnect
    /\ Returns(FALSE)
    /\ UNCHANGED <<mRspBuf, mNumBytesRsp, left, callVars, history, established, outOfStep, short>>

\* One packet is taken for all.
Done_First ==
    /\ pc = "header" /\ (left = 0 \/ left < num_pl2_pkt)
    /\ Returns(TRUE)
    /\ established' = (established \/ kind = "execute")
    /\ UNCHANGED <<mSocket, mRspBuf, mNumBytesRsp, left, callVars, envVars, history, outOfStep, short>>

\* All packets were sent and received.
Done ==
    /\ pc = "header" /\ left = 0
    /\ Returns(TRUE)
    /\ established' = (established \/ kind = "execute")
    /\ UNCHANGED <<mSocket, mRspBuf, mNumBytesRsp, left, callVars, envVars, history, outOfStep, short>>

--------------------------------------------------------------------------------
(* The server and the network.                                                *)

Packet(size, rq) == [i \in 1..size |-> [pkt |-> pkts + 1, i |-> i - 1, len |-> size, rq |-> rq]]

Serves(size, rq) ==
    /\ mSocket = "up" /\ peer = "open"
    /\ net' = net \o Packet(size, rq)
    /\ pkts' = pkts + 1
    /\ UNCHANGED <<mSocket, mRspBuf, mNumBytesRsp, pc, left, ok, callVars, sock, peer,
                   connects, established, short>>

\* What was only sent need not have an answer.
Ignore ==
    /\ kind = "send" /\ toServer # <<>> /\ peer = "open"
    /\ toServer' = Tail(toServer)
    /\ UNCHANGED <<mSocket, mRspBuf, mNumBytesRsp, pc, left, ok, callVars, net, sock, peer,
                   history, established, outOfStep, short>>

Answer(size) ==
    /\ toServer # <<>>
    /\ Serves(size, Head(toServer))
    /\ toServer' = Tail(toServer)
    /\ UNCHANGED <<pushed, outOfStep>>

Push(size) ==
    /\ size \in UnaskedSizes /\ connects + pushed < MaxEvents
    /\ Serves(size, 0)
    /\ pushed' = pushed + 1
    /\ outOfStep' = TRUE
    /\ UNCHANGED toServer

\* Word by word.
Arrive ==
    /\ net # <<>>
    /\ sock' = Append(sock, Head(net)) /\ net' = Tail(net)
    /\ UNCHANGED <<mSocket, mRspBuf, mNumBytesRsp, pc, left, ok, callVars, toServer, peer,
                   history, established, outOfStep, short>>

ServerCloses ==
    /\ mSocket = "up" /\ peer = "open"
    /\ peer' = "closed"
    /\ UNCHANGED <<mSocket, mRspBuf, mNumBytesRsp, pc, left, ok, callVars, toServer, net,
                   sock, history, established, outOfStep, short>>

--------------------------------------------------------------------------------

Init ==
    /\ mSocket = "none" /\ mRspBuf = <<>> /\ mNumBytesRsp = 0
    /\ pc = "idle" /\ kind = "connect" /\ num_pl2_pkt = 0 /\ left = 0 /\ ok = FALSE
    /\ peer = "closed" /\ toServer = <<>> /\ net = <<>> /\ sock = <<>>
    /\ call = 0 /\ pkts = 0 /\ pushed = 0 /\ connects = 0
    /\ established = FALSE /\ outOfStep = FALSE /\ short = FALSE

ReceiveStep == RecvHeader \/ HeaderTimeout \/ HeaderClosed \/ RecvBody \/ BodyLost \/ Done

Next ==
    \/ server_connect
    \/ \E n \in 1..MaxPkts : send(n) \/ execute(n)
    \/ receive
    \/ Send
    \/ ReceiveStep
    \/ \E size \in RspSizes : Answer(size) \/ Push(size)
    \/ Arrive
    \/ Ignore
    \/ ServerCloses

Spec == Init /\ [][Next]_vars

\* recv() returns after its timeout at the latest. Nothing makes send() return when
\* the server does not read.
FairSpec == Spec /\ WF_vars(ReceiveStep)

--------------------------------------------------------------------------------
(* Properties.                                                                *)

Words == [pkt : 0..pkts, i : Nat, len : Nat, rq : 0..call]

\* Types. The buffer has MaxRsp words; a header, with which mReceivePl2Pkt()
\* finds out that they do not suffice, may be written behind them.
TypeOK ==
    /\ mSocket \in {"none", "bad", "up"} /\ pc \in {"idle", "send", "header", "body"}
    /\ kind \in {"connect", "send", "receive", "execute"} /\ peer \in {"open", "closed"}
    /\ mRspBuf \in Seq(Words) /\ net \in Seq(Words) /\ sock \in Seq(Words)
    /\ toServer \in Seq(0..call)
    /\ left \in 0..num_pl2_pkt /\ num_pl2_pkt \in Nat
    /\ ok \in BOOLEAN /\ established \in BOOLEAN /\ outOfStep \in BOOLEAN /\ short \in BOOLEAN
    /\ mNumBytesRsp \in 0..MaxRsp /\ Len(mRspBuf) <= MaxRsp + 1
    /\ pc \in {"header", "body"} =>
            Len(mRspBuf) = mNumBytesRsp + (IF pc = "body" THEN 1 ELSE 0)
    /\ pc = "send" => mRspBuf = <<>>
    /\ call \in Nat /\ pkts \in Nat /\ pushed \in Nat /\ connects \in Nat
    /\ mSocket = "up" \/ (net = <<>> /\ sock = <<>> /\ toServer = <<>>)

\* The words of the packets the call has received, without a header that is followed
\* by nothing yet.
Received == SubSeq(mRspBuf, 1, IF mNumBytesRsp < Len(mRspBuf) THEN mNumBytesRsp ELSE Len(mRspBuf))

\* Those the server has sent and no call has received: such a header comes first.
Unreceived == (IF pc = "body" THEN <<mRspBuf[mNumBytesRsp + 1]>> ELSE <<>>) \o sock \o net

Wanted == IF kind = "send" THEN 0 ELSE num_pl2_pkt

\* The mailbox hands over packets whole, once, and in their order, and whatever
\* happens in the middle of a packet ends the connection; from a short read on, that
\* is all lost.
Channel == INSTANCE TasPktChannel WITH
    MaxWant <- MaxPkts,
    up      <- mSocket = "up",
    unread  <- Unreceived,
    want    <- Wanted,
    taken   <- Wanted - left,
    got     <- Received,
    running <- pc # "idle",
    cut     <- short

ChannelSpec == Channel!Spec

\* Between calls the next word of a connection is the header of a packet, whatever
\* has failed on it before, unless a read was short.
AtBoundary ==
    mSocket = "up" /\ pc = "idle" /\ ~short /\ sock \o net # <<>> => Head(sock \o net).i = 0

\* As long as no call has timed out, no read was short and nothing but execute() has
\* made the server send, the packets execute() received are the answers to the
\* packets it has sent, also after calls that failed for other reasons.
OwnAnswers ==
    pc = "idle" /\ ok /\ kind = "execute" /\ ~outOfStep /\ ~short =>
        \A k \in DOMAIN mRspBuf : mRspBuf[k].rq = call

\* What a call that succeeded has put into the buffer was received ("blocking until
\* all PL2 packets have been sent and received or a timeout occurred",
\* tas_pkt_mailbox_if.h). A short read is taken for a whole one.
ReceivedWhole ==
    pc = "idle" /\ ok => \A k \in DOMAIN mRspBuf : mRspBuf[k] # Garbage

\* Every call whose request was sent returns, also when the server does not answer,
\* answers in part, or closes the connection.
CallReturns == pc \in {"header", "body"} ~> pc = "idle"
================================================================================
