----------------------------- MODULE MCTasClientRw -----------------------------
EXTENDS TasClientRw

Info(ver, rq, rsp) == [ver |-> ver, rq |-> rq, rsp |-> rsp, c2d |-> 0, d2c |-> 0]

\* A target with small packets, and what a client has to refuse.
Infos == {Info(1, 128, 1024), Info(1, 0, 1024)}
GoodInfos == {Info(1, 128, 1024)}

\* Aligned to nothing, to four and to eight bytes.
SomeRanges == {<<2, 8>>, <<4, 16>>, <<8, 8>>}

Error(cmd, err, v) == [cmd |-> cmd, err |-> err, full |-> TRUE, v |-> v]
NoPage == [num |-> 0, start |-> 0, items |-> <<>>]

Errors == {Error("SERVER_CONNECT", "SERVER_LOCKED", NoArg), Error("GET_TARGETS", "SERVER_LOCKED", NoPage),
           Error("GET_CLIENTS", "PARAM", NoPage), Error("SESSION_START", "SESSION", Info(1, 0, 0)),
           Error("PING", "CMD_FAILED", Info(1, 0, 0)), Error("DEVICE_CONNECT", "DEV_ACCESS", [device |-> FALSE]),
           [cmd |-> "PING", err |-> "USAGE", full |-> FALSE, v |-> NoArg]}
PingErrors == {Error("PING", "CMD_FAILED", Info(1, 0, 0))}
================================================================================
