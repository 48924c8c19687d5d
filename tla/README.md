# Verification of the TAS client API

The TAS client library (`src/src/tas_client`) lets a program read and write the
memory of a device, exchange messages with it and trace it, through a TAS server
it talks to over TCP. This directory holds TLA+ models of the library's own
logic, TLC configurations that check them on small instances, and proofs that
TLAPS checks for all instances.

## The system

```
  CTasClientRw          CTasClientChl         CTasClientTrc      what a program uses
       |  \                  |   \                 |
       |   CTasClientServerCon (connect, targets, session)       base of all clients
       |                     |
  CTasPktHandlerRw   CTasPktHandlerChl ...ServerCon ...Trc       build and parse packets
       |                     |
       +---- CTasPktMailboxIf / CTasPktMailboxSocket             send and receive packets
                     |
                CTasTcpSocket                                     system calls
                     |
                TAS server, device                                not in the repository
```

All of it is called by one thread of the program at a time; the concurrency is
with the server: its responses may be late, missing, or not all there.

| component | state | operations | what makes it correct |
|---|---|---|---|
| RW packet handler, requests (`tas_pkt_handler_rw.cpp` 46-963) | packets in `mRqBuf`, the open packet with its settings in force, `mPl0Trans[]`, `mRwTrans[]`, packet counts | `rw_start`, `rw_add_rd/wr/fill`, `rw_set_trans`, `rw_get_rq` | accesses tile the transactions; the server decodes what was asked; packets keep the server's limits; buffers are not overrun; loops end |
| RW packet handler, responses (994-1268) | results per PL0 access and per transaction, first error, reset count | `rw_set_rsp`, `rw_get_trans_rsp` | a result belongs to its access; no success without an answer; the first error wins |
| Socket mailbox (`tas_pkt_mailbox_socket.cpp`) | the socket, timeout, response buffer | `server_connect`, `config`, `send`, `receive`, `execute` | a response is the answer to the request; an error leaves a usable or a closed connection |
| RW client (`tas_client_rw_base.cpp`, `tas_client_rw.h`) | packet handler, timeout, reset count seen | `execute_trans` and its short forms, `fill32/64`, `target_ping`, `session_start`, `device_connect`, `device_reset_occurred` | success means executed; a reset is reported exactly once; the handler's limits are the server's |
| Server connection (`tas_client_server_con.cpp`, `tas_pkt_handler_server_con.cpp`) | server address, session flag, lists of targets and clients | `server_connect`, `server_unlock`, `get_targets`, `get_target_clients`, `mSessionStart`, `mDeviceConnect` | operations only in their order; paged lists complete |
| Channel client (`tas_client_chl.cpp`, `tas_pkt_handler_chl.cpp`) | channel and type subscribed, limits of messages, reset count | `subscribe`, `unsubscribe`, `send_msg`, `rcv_msg`, and session, ping and reset calls like the RW client's | client and server agree on the channel; no message is taken for an answer; requests fit their buffer; the wait in `unsubscribe()` ends |
| Trace client | none that can be reached | `subscribe`, `unsubscribe`, `rcv_trace` | its handler is never created, see "Not modelled" |
| Sockets, utilities, device tables, Python bindings, demos | none of the protocol | | |

What is hard to test here: settings left out because they did not change,
alignments and sizes at their limits, 8 and 16 bit fields that wrap, many
transactions meeting the limits of packets and buffers, late or missing
responses, packets nobody asked for, and calls in an unusual order. `PROJECT.json` lists these hazards
with their lines and the properties aimed at them.

## Modules

| module | what it is |
|---|---|
| `TasPktHandlerRw` | the request side of `CTasPktHandlerRw`, its properties and its inductive invariant |
| `MCTasPktHandlerRw` | extends it for the TLC configurations |
| `TasPktHandlerRwProofs` | types of all operators, type correctness, the inductive invariant and the theorems that follow from it |
| `TasPktHandlerRwRsp` | the response side of `CTasPktHandlerRw`, with the server that answers |
| `TasPktHandlerRwRspProofs` | what `rw_set_rsp()` assigns, returns and refuses, and what `rw_get_trans_rsp()` merges: sums and offsets, the server's answers, the inductive invariant, a lemma for each action |
| `MCTasPktHandlerRwRsp` | requests for it, as `TasPktHandlerRw` makes them |
| `TasPktMailbox` | `CTasPktMailboxSocket` over a TCP connection |
| `TasPktChannel` | what the mailbox promises: a queue of packets; `TasPktMailbox` implements it |
| `MCTasPktMailbox` | extends it for the TLC configurations |
| `TasPktMailboxProofs` | types, the stream and its packets, and that the mailbox implements `TasPktChannel` |
| `TasPkt` | sizes and limits of `tas_pkt.h` that the clients use |
| `TasClientServerCon` | what all clients share: `CTasClientServerCon`, its packet handler, `CTasPktHandlerBase`, the mailbox seen from above, and the server; it has no specification of its own |
| `TasClientRw` | `CTasClientRw` and `CTasClientRwBase`, extends `TasClientServerCon` |
| `TasClientChl` | `CTasClientChl` and `CTasPktHandlerChl`, extends `TasClientServerCon` |
| `MCTasClientRw`, `MCTasClientChl` | what devices announce and servers answer, for the TLC configurations |
| `Induction` | lemmas by which the proofs do induction over the naturals and reason about folds |
| `TasClientServerConProofs` | invariants of what the clients share, with a lemma for each of its actions: sequences, the session, the lists, types, counts of resets |
| `TasClientRwProofs`, `TasClientChlProofs` | theorems about the two clients |
| `TasClientChlStepProofs` | what holds of the channel client while it is in step with the server |

### TasPktHandlerRw

The caller's transactions (RW level) are cut into naturally aligned accesses (PL0
level: 1, 2, 4 or 8 bytes, or a block of up to 1 KB), and these are put in packets
(one PL1 frame in one PL2 packet). A packet is delimited by `PL0_START` and
`PL0_END`; commands `ADDR_MAP`, `ACCESS_MODE` and `BASE_ADDR` precede an access if
it needs another setting than the one in force.

| model | code |
|---|---|
| `b.mRqBuf`, `b.rqDone`, `b.rspDone` | finished packets in `mRqBuf`, `4 * mPl2HdrWi`, `mPl2RspPktStart` |
| `b.cur` | open packet: `mRqBufWi` and `mRspSize` relative to its start, its commands, `mPl2NumTrans`, `mPl0AddrMap`, `mPl0AccMode`, `mPl0BaseAddr`, `mPl0AddrMapMask` |
| `b.mPl0NumTrans`, `b.mPl1CntOutstandingLast` | members of these names |
| `mPl0Trans`, `mRwTrans` | the arrays, as sequences |
| `op` | the arguments of the running `rw_add_*()` and its locals `a` and `nb` |
| `mode = "set"` | `rw_set_trans()` is running |
| actions `rw_start`, `rw_add_rd`, `rw_add_wr`, `rw_add_fill`, `rw_set_trans`, `rw_set_trans_done`, `rw_get_rq` | the methods |
| actions `AddPiece`, `AddFill` | one PL0 access of a running call: a step of head or tail, or one turn of the block or fill loop |

The private methods are operators with their names, from a request to a request.
Sizes are in bytes. Payload is left out: no decision depends on it. The build
modelled is the one without assertions (`NDEBUG`); where an assertion states what
the rest of the code relies on, a property takes its place. The assertion on 32
bit addresses for exclusive address maps concerns the caller and guards the
calls in `Next`.

Writes beyond `mPl0Trans[]`, `mRwTrans[]` or `mRqBuf[]` are undefined behaviour. The
model does the step that gets there, so that a property can see it, and has no
steps after it (`Defined`). That is why the runs do not check deadlock; the model
also ends at its bounds.

`rw_get_rq_size()`, `rw_get_rsp_size()`, `rw_get_num_pl2_pkt()` and
`rw_get_pl0_trans()` change nothing and are not actions; the first two are
`RqSize` and `RspSize`, without the end they add for a packet not yet finished.

### TasPktHandlerRwRsp

`rw_set_rsp()` walks through the response of all packets of a request and assigns
each answer to the next PL0 access; `rw_get_trans_rsp()` then merges the accesses'
results to results of the caller's transactions. The module takes requests as a
constant: lists of transactions with the accesses and packets `TasPktHandlerRw`
makes of them. `RequestAssumption` is what `AccessesTile` says there.

| model | code |
|---|---|
| `mPl0Trans`, `mPl0TransRsp`, `mRwTrans`, `mRwTransRsp`, counts, `mRspSize` | members of these names; a new request overwrites the beginning of the arrays, the rest stays |
| `rsp`, `p` | the response from `wi` on; `wi`, `wiPktStartNext`, `iTrans` |
| `Request` | `rw_set_trans()` and `rw_get_rq()`, and sending |
| `Receive`, `Timeout` | the two outcomes of `execute()`: as many packets as were sent, whichever they answer, or fewer and an error |
| `ParseStart`, `ParseEnd`, `ParseWr`, `ParseRd`, `ParseOut` | one turn of the loop of `rw_set_rsp()`, or its end |
| `rw_get_trans_rsp` | the method |

A part of a response is a record with the fields the code looks at, and its size
in words. The server (external) decides when its packet is taken what it answers:
device not accessible, every access executed, a device reset noticed, or the
first `k - 1` executed, access `k` failed, a block also in part, and the rest failed as a
consequence. `DeviceReset` puts the packet of a reset anywhere in the stream.
Packets that were not waited for stay in the stream and meet the next request.

### TasPktMailbox and TasPktChannel

| model | code |
|---|---|
| `mSocket`, `mRspBuf`, `mNumBytesRsp` | members of these names; `mSocket` is `"bad"` when the object exists but `connect()` failed |
| `pc`, `num_pl2_pkt`, `left` | where a call is, its argument, its loop |
| `net`, `sock` | the TCP stream: words on the way, words `recv()` can return |
| `server_connect`, `send`, `receive`, `execute` | the methods, up to the first system call |
| `Send`, `ReceiveStep`: `RecvHeader`, `RecvBody`, `HeaderTimeout`, `HeaderClosed`, `BodyLost`, `Done` | `mSocketSend()`, the two calls of `mSocketReceive()` in `mReceivePl2Pkt()` with each of their outcomes, and the return |
| `Answer`, `Push`, `Ignore`, `Arrive`, `ServerCloses` | the server and the network (external) |

Sizes are in words, so `recv()` never ends within a word. A word knows its packet,
which the code cannot see, and the mailbox reads a word that is not a header as
any of `BodyValues`. Words arrive one by one, and `recv()` returns those that are there, up to
what it was asked for: so it may return less than the rest of a packet, which the
code takes for all of it. `short` remembers, for a property to speak of it, that this has
happened on the connection. The timeout value is left out: any wait may end, before or after
the packet comes. `config()` is left out: `MaxRsp` stands for `mMaxNumBytesRsp`. A `send()` that
takes only a part of a packet, which the code does not look at either
(`tas_pkt_mailbox_socket.cpp:144`), is not modelled.

`TasPktChannel` says what the classes above rely on: a call takes packets from the
head of a queue, each whole and once, succeeds only if it got as many as it wanted,
and otherwise leaves the rest in the queue or loses the connection. What the code does with a
packet that is not all there needs two actions more: `TakeCut` takes some words in place of a
packet, leaves those taken before as they were, and sets `cut`; after that a call may
fail over a word that is no header and lose no more than the word (`Waste`). A
new connection begins without `cut`. The refinement mapping takes
the words on the way and in the socket, with a header that is read and not yet followed by its
rest, for the queue, the words in `mRspBuf` for those taken, and `short` for `cut`. A step that
reads a header is a stutter, unless the call ends with it.

### TasClientServerCon, TasClientRw and TasClientChl

A client is one object with everything it inherits, so the base module declares the
shared state, and each client's module extends it with its own. A call of the
program is an action with the method's name, up to the point where the mailbox
waits; a second action takes the packet that comes (`ServerConnected`, `KeySet`,
`set_pkt_rsp_get_targets`, `set_pkt_rsp_get_target_clients`, `SessionStarted`,
`DeviceConnected`, `Pinged`, `Responded`, `Subscribed`, `Unsubscribed`,
`Discarded`, `MsgReceived`), and `Timeout`, `Lost` and `Overrun` are the other ways
a wait can end.

| model | code |
|---|---|
| `mServerIpAddr`, `mSessionStarted`, `mRcvChlActive`, `mDeviceResetCount` | members of these names; of the address, whether it is set |
| `mConInfo`, `rwConInfo`, `chlConInfo` | `mConInfo` of the handlers `mTphsc`, `mTphRw`, `mTphChl` |
| `mStartIndex`, `mNumTarget`, `mTargetInfo`, `mNumTargetClient`, `mTargetClientInfo` | the paging state and the lists |
| `mChlCht`, `mChlNum`, `mChl`, `mCht` | the channel, as the client and as its handler know it |
| `resetCount`, `num_bytes_ok` | the handler's count, and the result parameter |
| `pc`, `op`, `arg`, `ret` | where the program is: idle, waiting in `execute()` or `receive()`, or in undefined behaviour (`null`, `overrun`, `smashed`, `runaway`); the method, its argument, its result |
| `link`, `toServer`, `fromServer` | the connection: `TasPktChannel`'s queues, seen from above |
| `timeout`, `late` | what the mailbox was configured with; whether the time `unsubscribe()` allows itself, `TAS_DEFAULT_TIMEOUT_MS`, is over |
| `samples`, `session`, `executed`, `subscribed`, `resets` | the server and the device (external) |
| `call`, `taken`, `inStep`, `untold`, `pingFailed`, `stray`, `faults` | history, used by properties and bounds only |

A packet is a record of its command, the call it answers (the code cannot see
that; only `rw_set_rsp()` compares it, as the count), its error and what of its content
is looked at. Sizes are kept, because the mailbox writes packets into buffers on the
stack whose size is that of the expected response. The server answers every
request with any content and error of its command that the run lists, may close
the connection, and sends messages and notifications of resets on its own.

`rw_set_rsp()` in `TasClientRw` is what `TasPktHandlerRwRsp` says of it, for one packet:
results, and the reset count, in the order in which the handler reads them. It
compares the call where the code compares a 16 bit count; `TasPktHandlerRwRsp`
models the wrap. The queues of the clients are `TasPktChannel` with `cut` false: that they get
whole packets is assumed here, `mb_short` shows that the mailbox does not guarantee it.
A request of `send_msg()` has the `length` that 16 bits hold, which is compared and sent, and the
`bytes` that are copied; beyond the buffer the model ends in `smashed`. `Endless` is the condition under which the request side,
with limits of zero, puts empty packets into the request without end.

`get_pkt_rq_server_unlock()` and `get_pkt_rq_device_unlock_get_challenge()` return no
packet, and `execute()` reads through that pointer: the model ends in `null`.
`inStep` says that no packet is in the connection that nobody waits for: it is lost
with a timeout (except that of `rcv_msg()`) or a notification that meets a
client without a channel, and regained by a new `server_connect()` only.

## Runs

| run | question |
|---|---|
| `rw_build` | do all kinds of transactions, in pairs, become the right accesses and packets, several in one or one over many? |
| `rw_restart` | do packet counts stay consecutive when requests are dropped, refused or sent, over the 16 bit wrap? is `IInv` an invariant? does every add call return? |
| `rsp_late` | are results assigned and merged right, and is no late response taken for success? |
| `mb_calls` | does the mailbox implement the queue, and does every call return? |
| `client_rw` | the RW client through its whole life: are successes executed, fills exact, resets told of once, limits usable? |
| `client_chl` | the channel client through its whole life: does it agree with the server on the channel, are messages never taken for answers, does every call return? |
| `rw_num_trans`, `rsp_reset`, `mb_short`, `rw_ping`, `chl_msg_wrap`, `chl_unsub_timeout` | what comments and assertions say and the code does not keep |

Properties of the passing runs:

- `AccessesTile`: the accesses of a transaction tile it from its first to its last
  byte, each naturally aligned (`AccessesContinue` and `AccessesComplete`).
- `ServerSeesTransactions`: decoding each packet alone, with the settings a server
  has at its start, gives exactly the accesses in `mPl0Trans`. It fails as soon
  as a setting leaks from one packet to the next.
- `AddrMapsExclusive`, `AddrMapsAnnounced`: rules on address maps, and the mask in
  `PL0_START` by which the server routes the packet.
- `PktLimits`: number of accesses and response size of every packet (what the
  server sends and what `rw_set_rsp()` accepts), and its request size. With a block write or a
  fill the code can exceed the latter (see below): by 12 bytes at most (`BlockExcess`).
- `CountsConsecutive`: what `rw_set_rsp()` relies on to recognise its responses.
- `BlockLoopProgress`, `AddReturns`: the loop over blocks ends.
- `SuccessIsOwn`: `TAS_ERR_NONE` is never the result of a response to an earlier
  request. `SuccessIsComplete`: nor of an incomplete one, unless the server sends
  packets of its own (see `rsp_reset`).
- `OwnNotRefused`: the checks of `rw_set_rsp()` let every answer to its own request pass.
- `FirstErrorWins`, `MergedRight`: the error of the call and the results per transaction.
- `NoStrayCopy`: data of a late response is copied before its count is compared; still,
  with at most two packets it never reaches a buffer of an earlier call.
- `AtBoundary`, `ChannelSpec`: a connection that survives a call stands between two
  packets, until a packet was taken that was not all there. `OwnAnswers`: what `execute()`
  returns are the answers to its request as long as nothing was left in the stream or cut; that
  a timeout leaves a late answer to the next call is what the code does, and what this means for
  the callers is `SuccessIsOwn` and `SuccessIsExecuted`. `CallReturns`: a call that has sent
  its request returns.
- `SessionAgreed`: a client that believes to have a session has one, or its
  connection is lost.
- `SuccessIsExecuted`: an access that succeeds was executed by the device, for this
  call, unless a notification of a reset was taken for the answer; and `read()` tells of
  transferred bytes only then.
- `FillsExactly`: head, block and tail of `fill32()` and `fill64()` write all words of the
  range, none more.
- `LimitsUsable`: the RW handler's limits let a transaction into every packet,
  unless a ping has failed. `RequestsFit`: no request overruns the buffer it is made
  in, unless 16 bits do not hold the length of a message with its init word (`chl_msg_wrap`).
- `ResetsTold`: `device_reset_occurred()` is true exactly if the handler was told of a
  reset since it was last asked.
- `TargetsOfOneSample`: the pages `get_targets()` puts together are of one list,
  also when pages of an earlier call come late. `ClientsOfOnePage`: what
  `get_target_clients()` sorts is the list, if it fits one page.
- `OwnResponse`, `BuffersHold`: while `inStep`, every packet taken is the answer to the
  running call and fits the buffer on its stack. This is what refusing the server calls
  while a receiving channel is subscribed is for.
- `SubscriptionAgreed`, `NoStrayMsg`: between calls the client and the server have the
  same channel and type, and no message reaches the server for a channel that may not send.
- `CallReturns` of the channel client: `unsubscribe()` ends although messages may come
  for ever.

Bounds of the request side. `MaxRwTrans` and `MaxStarts` bound the calls: two
transactions are enough for every way in which an access meets settings and
remaining space left by an earlier one; restarts need three. `Addrs` has an odd
address, one just below the end of a 64 KB window and one that needs a 64 bit
base; `Sizes` have an empty, a small odd and a multi packet transfer. `Addr4G` is
0x20000 rather than 2^32 and `TwoTo32` is 2^31 - 1 since TLC's integers have 32 bits;
both only matter by comparison with addresses and sizes of the run. Requests are
cut into packets of the smallest size a server may announce, 128; responses of `rw_build` have 1060
bytes, the smallest in which a block of 1 KB fits, so that a read is encoded with a count of 0 and
several transactions share a packet. `rw_build` has more entries in `mPl0Trans[]`
(`NumTransMax`, 16) than accesses allowed per packet (`Pl0MaxNumRw`, 4): the estimates of
`mNumTransManageableRd/Wr()` compare with the former and `mPktAdd_*()` with the latter, so packets also
close on their count in the middle of an access.

Bounds of the response side. The requests have single accesses, blocks whose word
count is encoded as 0, two transactions of the same address, a first packet
without accesses, and a block over two packets whose second part begins where a
later transaction does. Three calls (`MaxCalls`) let a response be late by one and
by two requests, so that results of either are still in the arrays; `FirstCnt`
makes the count wrap among them. One reset packet at any place (`MaxResets`).

Bounds of the mailbox. Packets of 2 and 3 words with a buffer of 5 let a request
of two packets (`MaxPkts`) meet the limit of the buffer. The first call is that of
`CTasClientServerCon::server_connect()`, and two more follow (`MaxCalls`); one packet the
server sends on its own, of 2 words, and one repeated connect, or two of one of them (`MaxEvents`).
A word that is no header is read as a size of 0 (taken for a timeout), 1 (too small)
or 3 (`BodyValues`).

Bounds of the clients. Six calls (`MaxCalls`) of any methods in any order: connecting,
starting a session and connecting the device take three, and three more let an
answer be late by one and by two calls. One fault (`MaxFaults`: an error, a late
answer, a device whose announcement is refused, a connection that is closed)
happens before further calls are made, but more may happen during the call that meets
the first. One reset (`MaxResets`); one packet
ahead of the client that it did not ask for (`MaxQueue`). Pages have two entries;
lists of targets have five for an array of four, so that they take two pages and are cut
off. `device_unlock_set_key()` is called in `client_chl` because its buffer is shorter
than a message. Messages of the device are one word, or too long for the mailbox; `send_msg()` is
called with what one device admits, with what no limit admits, and with what 16 bits do not
hold together with an init word, each with and without one. The RW client is
called with a small access, a block that has to be divided, and a list that
`rw_set_trans()` refuses, and fills ranges that are aligned to 2, 4 and 8 bytes.

`CHECK_DEADLOCK FALSE` everywhere: the models end at their bounds, and where the
code's behaviour is undefined.

Fairness. `TasPktHandlerRw!FairSpec` has weak fairness of `AddPiece` and `AddFill` only:
a call that is running is one thread of straight line code. `TasPktMailbox!FairSpec`
has weak fairness of `ReceiveStep` only, the steps of a call that has sent its request: each `recv()`
ends with data, with its timeout or because the connection was closed. `Send` is not fair:
`mSocketSend()` calls `send()` without a timeout, which may block for ever when the server does not
read (`tas_conn_socket.h:45`); `CallReturns` therefore begins behind it. (That holds for every
timeout below 2^31 ms, the 20 s of `TAS_DEFAULT_TIMEOUT_MS` included; larger ones are passed to
`recv()` as negative, without a limit, and so is the default of a debug build, which
is not the one modelled.) `TasClientChl!FairSpec` has weak fairness of `Step`, the end of a wait for a
packet, which is what `mb_calls` shows of the mailbox, and of `TimePasses`: `unsubscribe()` looks at the clock each time a packet has come.
No call is assumed to be made, the server need not answer, and the network
need not deliver.

### What the violations show

- `rw_num_trans`: the number of PL0 accesses is limited per packet, not in total,
  whereas the arrays have that many entries in total.
- `rsp_reset`: the packet a server sends on its own after a device reset is taken for
  the response by the call that reads it, and that call succeeds although nothing
  was executed.
- `mb_short`: `recv()` returns what has arrived of a packet, and `receive()` or `execute()` hands it
  over as complete, with words in the buffer that were never received.
- `rw_ping`: a ping that fails leaves limits of zero, and the next block access never
  returns.
- `chl_msg_wrap`: `send_msg()` adds the 4 bytes of the init word in 16 bits: a length of 65532 to 65535
  becomes 0 to 3, which passes the check, and the whole message is copied into a buffer of 1 KB. (The
  assertions in `get_pkt_send_msg()` would stop it, but not in the build modelled.)
- `chl_unsub_timeout`: `unsubscribe()` waits with the timeout the last `rcv_msg()` was
  called with, and gives up at once if that was zero.

### Divergences met without a run

Request side: a block write or a fill can make a packet longer than the server accepts, since the
setting commands before a block (`tas_pkt_handler_rw.cpp:611`) and half of a fill are not counted;
`PktLimits` says by how much;
`mCheckLimits()` counts payload but not the overhead of packets (436), and wraps for sizes
near 2^32; a request that would fit one packet may be cut in two, so atomicity cannot be read
off the sizes as the header says (667); transfers in exclusive address maps are
split when they are longer than a packet, whereas `tas_am15_am14.h:37` says they
never are; the bytes transferred are summed in 16 bits (1192).

Response side and mailbox: a late response leaves its results in `mPl0TransRsp[]`, so
`rw_get_trans_rsp()` after the error reports them, and a late error in a block may then
count more bytes than the transaction has (`TypeOK` says so). The data of a late response
can reach a buffer of an earlier call if the request has three packets, of which the
last ones begin without an access (1152; `NoStrayCopy` is therefore about two packets). After a timeout the stream is one packet behind
for good, and since `server_connect()` is refused once it has succeeded
(`tas_client_server_con.cpp:63`) the connection cannot be made anew. `send()` may take
fewer bytes than it was given, which is taken for all (`tas_pkt_mailbox_socket.cpp:144`). `recvAll()` passes the whole length again instead of the bytes left
(`tas_conn_socket.cpp:164`). A second try of `server_connect()` leaks the socket of the
first and meets the assertion in `tas_pkt_mailbox_socket.cpp:29`.

Server connection: `get_target_clients()` returns after the first page with
`TAS_ERR_NONE`, since `set_pkt_rsp_get_target_clients()` never sets the number of clients it is asked for
(`tas_pkt_handler_server_con.cpp:206`), whereas `tas_client_server_con.h:91` says that the array lists all
of them; with more clients than a page has entries the sorting also mixes in entries that were
never received (`ClientsOfOnePage` is therefore about lists that fit a page); the server's challenge is always taken as 0
(`tas_pkt_handler_server_con.cpp:71`); a server with more than 64 targets can make
`get_targets()` fail with a connection error, when its last page ends behind what is
kept (158); a page without entries would be asked for again without end; late
answers of another kind are longer than the buffer on the stack of some calls (`Overrun`
happens in both clients, only while not `inStep`).

RW client: `read8()` passes `TAS_RW_TT_RD` as the access mode
(`tas_client_rw_base.cpp:69`); `mExecuteSingleTrans()` reports 0 bytes on every error,
whereas the header says the number transferred; `rw_set_timeout()` writes a member
nothing reads (264), and the default is 20 s where the header says 10 s
(`tas_client_rw_base.h:177`); a `device_connect()` that fails takes the count
of resets all the same (`tas_client_rw.h:82`), so the resets before it are never told of.

Channel client: notifications of resets that come while `unsubscribe()` waits are thrown
away (`tas_client_chl.cpp:197`), and one that `get_targets()` or a ping takes for its answer
makes that call fail without being counted, and leaves the client a packet behind; the assertions of
`get_pkt_send_msg()` allow 252 or 256 bytes where a device may announce 1024; a message of the largest length that a device may
announce is longer than the mailbox was told to accept, and ends the connection
(36, 253); a timeout and a lost connection are both `TAS_ERR_CHL_RCV` (255), so a
program that polls cannot tell them apart; the pointer to the message
that `rcv_msg()` returns is into a buffer on its own stack.

## Proofs

All theorems hold for every value of the constants that the modules' `ASSUME`s admit,
and for any number of calls, packets and faults (none of the bounds of the runs is
used). What is assumed is named where the constant is declared.

### Requests

`TasPktHandlerRwProofs` proves

- `TypeCorrect`: `Spec => []TypeOK`. The type invariant is inductive by itself;
  lemmas give the type of every operator on requests,
- `Invariance`: `Spec => []IInv`,
- `PktLimitsCorrect`, `CountsCorrect`, `AddrMapsExclusiveCorrect`,
- `AccessesTileCorrect`: `AccessesTile`, on which the response side rests, too,
- `ServerSeesCorrect` and `AddrMapsAnnouncedCorrect`: `ServerSeesTransactions` and
  `AddrMapsAnnounced`,
- `BlockLoopProgressCorrect`: `Spec => BlockLoopProgress`.

The assumptions are those of `TasPktHandlerRw`: limits of at least 128 bytes and
multiples of 4 (checked by `set_pkt_rsp_ping()`), at least one access per packet,
buffers of at least 256 bytes (asserted by `mInit()`), and arguments of the types
of the methods.

Why `IInv` is needed: `PktLimits` speaks of finished packets, but a packet is
finished by whatever method finds it full, with no look at the limits. So `IInv`
says of the open packet that it can be closed within the limits (`Room`), that its
address maps obey the rules, and, while a call is running, that the call's address
map may enter the open packet (`mCheckAddrMapRulesInPkt`), which is only checked at the
beginning of the call but must survive every closing of a packet in between.
`Room` also says that a packet without accesses is as it was initialised: then
the limits of at least 128 bytes leave room for any access, which is what makes
the check before an access sufficient, up to the `BlockExcess` of block writes and fills, and the block loop
progress. These parts are
`PktInv`.

`Follows` is for what a server decodes. It relates each packet's commands to the accesses
recorded for it: every command that transfers data stands for one of them, in order, with the
settings in force there (`Decodes`), and the packet announces their address maps. What keeps
it is that the members `mPl0AddrMap`, `mPl0AccMode` and `mPl0BaseAddr`, by which the code decides
to leave a setting out, are at any time the settings a server has at the end of
the open packet, also right after a packet was closed and both start anew, and
that a base address is a multiple of the window. A new access then has its own
settings, and those of the accesses before it do not change, since a server reads
commands from the front (`Setting` looks at no later one).

`Tiles` says where a running call is. Transactions are finished one after the other,
so that the last access is of the running call or of the transaction before it. In the
first case the call goes on where that access has ended, otherwise at its own first
byte; what is left is the distance to its last one. Head, block loop and tail
keep it: each piece ends where the next begins, and a piece of 1 to 8 bytes is aligned since
the head stops at a multiple of 8. With nothing left, the transaction is complete.

### Responses

`TasPktHandlerRwRspProofs` proves, each under `[]FewUnderway`,

- `Invariance`: `[]IInv`,
- `OwnCorrect`, `CompleteCorrect` and `FirstErrorCorrect`: `SuccessIsOwn`,
  `SuccessIsComplete` and `FirstErrorWins` are invariants,
- `RefusalCorrect` and `StrayCorrect`: `OwnNotRefused` and `NoStrayCopy`,
- `BytesInvariance`: `[]MInv`, and `TypeCorrect`: `[]TypeOK`,
- `MergedCorrect`: `[]MergedRight`, if `FewBytes` (below).

`FewUnderway` says that fewer than 2^16 packets are underway. It is needed: the count
is all that tells a late response from an own one, and has 16 bits. It excludes
no history as such: any number of requests may be made, the count may wrap any
number of times, and every state of the runs keeps it.

The properties speak of the end of `rw_set_rsp()`, but what it may do at the end of a
packet depends on which packets came before, and these may answer earlier requests. The
invariant therefore names what the code cannot see. `StreamInv` numbers
all packets underway without wrapping (`U`); the counts in the packets are these
numbers modulo 2^16, those of the running request come last, and packets of a reset
have no number. `At` describes a turn of the loop as a position in the response:
`k - 1` answers are parsed, and `j` parts of the next one; what is left in `rsp`, the
word indices, `iTrans` and the count that is expected follow from it.
It also says that no answer parsed so far was late (`Stale`): a late one is
parsed, and may write results, but it ends with a count that is not the expected one, since
two numbers that are less than 2^16 apart have different counts (`CntsDiffer`), and
then the response is refused. While the answer is an own one, the first `iTrans` accesses
have results of this call, the others none, and the error is that of the first that
failed (`Entries`). `OwnNotRefused` needs the sizes, too: what is expected
(`mRspSize`) is exactly the words of the answers when all accesses succeed, and no other answer
is longer (`SizeAdmitted`).

`NoStrayCopy` rests on the sizes alone (`Within`): the response is not longer than `mRspSize`,
and answers that were accepted without an error are as long as those expected in
their place, even when they answer something else (`PassesWords`). A late answer with data for an access
beyond those of the request has had all of these before it, without an error, so it is
longer than all that is expected by its own words and those of its end (`LongAnswer`). With the
headers of one more packet this is more than `mRspSize`; those of two more would make up for it
(`ShortRequest`), which is why the property is about two packets.

The model has sums and concatenations as folds, which a prover cannot unfold. A
fold over a sequence is defined by recursion on the set of its positions; `RecursionStep` in
`Induction` gives its value for `1..k` from that for `1..(k - 1)`, and from it
come the functions the proofs work with: the words up to a part (`Sums`), the position at
which the accesses of a packet begin (`Offsets`), the rest of a response behind
a packet (`Behind`).

`rw_get_trans_rsp()` is told nothing of which access belongs to which transaction: it
takes an access for the first one of its transaction by its address, and for the last one by
the end it has computed then. That this finds the right transaction, also for two of the same
address, follows from how the accesses lie in the transactions (`Tiled`, which
`RequestTiled` gets from `RequestAssumption`, that is from `AccessesTile` of the request side).
`TransRspTurns` turns its fold into a function of the access (`Turns`); `TurnsAre` says for each turn
which transaction it adds to and which ones it begins; `AllShown` carries on what each has so far:
the sum of all its accesses (`SumOk`) as long as none has failed, and of those up to the first
failure after that.

How many bytes that may be is a second inductive invariant, `MInv`. An own answer gives an
access no more than its bytes, but an answer to an earlier request may give
it up to three more, by `4 * n` of a block transferred in part (`Rounded`). Between such an answer and the
end of its packet, which refuses the response, results are too large (`InLate`); in all
other turns, and whenever `rw_set_rsp()` has returned without `SERVER_CON`, they are not (`Tight`).
`TypeOK` needs this: without `SERVER_CON` no transaction has more bytes than it asked for.
`MergedRight` holds after any return, so it allows for the three bytes: `FewBytes` says that the bytes of a transaction,
and three for each access of its request, are less than 2^16, the width of the count
(`tas_pkt_handler_rw.cpp:1192`). The requests of the runs keep this, as do all that fit into
buffers of the default size; beyond it the sum wraps and the property is false.

The assumptions: requests are what `TasPktHandlerRw` makes (`RequestTypes`,
`RequestAssumption`), no packet's response is longer than the limit the request side was
given (`RspSizeAssumption`, which is `PktLimits` there), and the error of a failed access is not
"no error".

### Mailbox

`TasPktMailboxProofs` proves for all sizes of packets and buffers

- `Typing`: `Spec => []TypeOK`,
- `Boundary`: `Spec => []AtBoundary`, `Own`: `Spec => []OwnAnswers`,
- `Implements`: `Spec => ChannelSpec`,

whatever `recv()` returns. Why more
than the properties is needed: `AtBoundary` speaks of a mailbox between two calls,
but where packets begin depends on every word before. `FrameInv` says that, until a
read was short, the words not yet read are the rest of the packet being read,
followed by whole packets (`Framed`), and that the mailbox knows the length of that rest. A body
step is then shown to take a whole packet, or to set `short` (`RecvBodyStream`, `CutBodyStream`).
`AnswerInv` adds, as long as nothing was left over or cut, that the packets underway and
those in `mRspBuf` are the answers to the request of the running call, in their
order, and that there are no more than it asked for. For `Implements` the
refinement mapping is the one `TasPktMailbox` declares; each step is shown to take a
whole packet or to cut one, to end a call, to be one of the environment's, or to stutter.

### Clients

`TasClientServerConProofs` holds what both clients need.

- `SessionInv` adds to `SessionAgreed` that every packet underway which says that
  a session was started is true, that the session, and the wait for it, need a
  `server_connect()` that has succeeded, and that only a client without one waits
  for its answer: so no step that makes the server forget a session meets a
  client that has one.
- `ListInv` says which list the pages underway belong to. Packets do not carry it,
  and a page may be asked for by one call and arrive in another; so the
  invariant labels every packet underway with the sample of the list that was
  the last one when it was sent (`Labels`). A page that is not a first one has the
  label of the packet before it, and what the client has collected belongs to the
  label of what it took last (`Holds`): therefore a page that continues what the
  client has is of the same list. That the pages are put together right is an
  induction over the entries. `get_target_clients()` sorts whatever it has, also
  entries no page brought; it returns the list of the server if that fits a
  page, because a page that fits is the whole list.
- `CountOK` labels every packet with the number of resets told of up to it, so
  that what the handler counts is never more than the resets there were.

The library's induction theorems cannot be used, since they are about an operator.
`Induction` proves the principle for sets of naturals instead (`SetInduction`), from
the fact that inclusion is well-founded on finite sets.

`TasClientRwProofs` proves for all lists, limits, errors, faults and calls:

- `SuccessCorrect`: `Spec => []SuccessIsExecuted`. The invariant `ExecInv` says
  that requests underway are in the order of their calls (`InOrder`); therefore, once the
  server has executed an access of the running call, it will not execute an earlier one after
  it, and a packet that answers the running call without an error reports the last execution.
- `LimitsCorrect`, `SessionCorrect`.
- `ResetsCorrect`: `Spec => ResetsTold`, since comparing two counts
  (`Compared`) is the same as remembering whether a reset is untold.
- `ClientsCorrect`: `Spec => []ClientsOfOnePage`, and `TypeCorrect`: `Spec => []TypeOK`.
- `FillsCorrect`: `Spec => []FillsExactly`. That head, blocks and tail of a fill write the words
  of the range (`Covers`) is arithmetic on its two ends; what is left is that what the
  device executes for the running call is what that call was called with (`FillInv`).

`TasClientChlProofs` proves

- `RequestsCorrect`: `Spec => []RequestsFit`, for all message lengths and all that devices
  announce. `send_msg()` compares a length with what the device announced, not with the
  buffer; `FitInv` says why that suffices: only announcements that
  `set_pkt_rsp_ping()` let through become limits. What is copied is what was compared,
  unless it needs 2^16 bytes or more (`SmashedLong`): the only way in which a message overruns the
  buffer is that of `chl_msg_wrap`.
- `ResetsCorrect` and `SessionCorrect`, as for the RW client. The first needs that
  notifications of resets come in messages only (`PacketInv`).
- `TargetsCorrect`: `Spec => []TargetsOfOneSample`, and `TypeCorrect`: `Spec => []TypeOK`.

`TasClientChlStepProofs` proves `AnswersCorrect`, `BuffersCorrect`, `ChannelCorrect` and
`MessagesCorrect`: `OwnResponse`, `BuffersHold`, `SubscriptionAgreed` and `NoStrayMsg` are
invariants. They speak of clients that are in step (`inStep`), but being in step says only
what has not happened. `StepInv` says what is underway instead. No call is
waiting (`Quiet`), and there are only messages for the channel that both have; or
the request has not reached the server (`Asked`), and before it are only
messages that the channel admits; or it has been answered (`Told`), and beside the answer
are only messages of the device: behind it if the call is `subscribe()` and
succeeded, before it if the call is `unsubscribe()`, none otherwise, since every other
call that waits refuses to begin while a receiving channel is subscribed. The sizes of
packets are then those of the commands that may be there, and each fits the buffer of
the call that may meet it. A part of the invariant (`Outside`) also holds of a client
that is not in step, because `server_connect()` brings a client back in step. That
pages have no more entries than a packet has room for needs `ListInv`.

The assumptions are on the constants: a server answers errors with an error code and
without entries of lists (`ErrorAssumption`), accesses only with the errors of accesses
(`AnswerAssumption`); it tells of resets in messages only, does not answer messages, does not
refuse to unsubscribe, and sends no message longer than `TAS_PL1_CHL_MAX_MSG_SIZE`
(`ChlAssumption`); lengths, addresses and ranges are
natural numbers (`LensAssumption`, `RangesAssumption`), pages fit into 1 KB and are shorter
than the arrays the lists are collected in (`PageAssumption`).

### Only model-checked

- The liveness properties `AddReturns` and `CallReturns`, which the
  prover does not do. All other properties of the passing runs are proved.

## Not modelled

- The trace client. No constructor sets `mTphTrc`, which every method reads first, the
  one a program may use does not set `mMbIfTrc` either, and `rcv_trace()` stops at an assertion ("Need to
  implement this"): no behaviour to model. (`unsubscribe()` there takes success for
  failure, `tas_client_trc.cpp:58`.)
- Contents of messages, read and written data, names and identifiers, the text of error
  messages: no decision depends on them.
- `config()` of the mailbox and `rw_set_timeout()`, apart from what `timeout` and the response
  limit say of them.
- The Windows branch of `server_connect()`, which starts a server on the local machine.
- Sockets beyond what the mailbox sees of them; utilities, tables of devices, Python
  bindings and demos: no state that the protocol depends on. Most lines the
  map does not cover are these, and declarations and texts.

## Plan

Done: the four layers (RW handler, mailbox, server connection, clients), and the proofs of all
invariants and action properties of the passing runs. What could follow:

1. `RequestAssumption` and `RspSizeAssumption` as a theorem about `TasPktHandlerRw` that
   instantiates the response side; today each side states its own half.
2. Hazards without a property, in the order of `PROJECT.json`.
