---------------------------- MODULE MCTasClientChl ----------------------------
EXTENDS TasClientChl

Info(c2d, d2c) == [ver |-> 1, rq |-> 128, rsp |-> 128, c2d |-> c2d, d2c |-> d2c]
\* A device with short messages, and one that a client has to refuse.
Infos == {Info(8, 1024), Info(2048, 1024)}

Error(cmd, err, v) == [cmd |-> cmd, err |-> err, full |-> TRUE, v |-> v]
NoPage == [num |-> 0, start |-> 0, items |-> <<>>]

Errors == {Error("SERVER_CONNECT", "CMD_FAILED", NoArg), Error("SERVER_CONNECT", "SERVER_LOCKED", NoArg),
           Error("GET_TARGETS", "SERVER_LOCKED", NoPage),
           Error("GET_CLIENTS", "PARAM", NoPage), Error("SESSION_START", "NOT_SUPPORTED", Info(0, 0)),
           Error("PING", "CMD_FAILED", Info(0, 0)), Error("DEVICE_CONNECT", "CMD_FAILED", [device |-> FALSE])}
===============================================================================
