------------------------- MODULE MCTasPktHandlerRwRsp -------------------------
EXTENDS TasPktHandlerRwRsp

RwT(type, addr, n) == [type |-> type, addr |-> addr, num_bytes |-> n]
Pl0(type, addr, n, rw) == [type |-> type, addr |-> addr, num_bytes |-> n, rw |-> rw]

One(type, n) == [rw |-> <<RwT(type, 0, n)>>, pkts |-> <<<<Pl0(type, 0, n, 1)>>>>]

\* Two transactions of the same address in one packet.
Twice(type, n) ==
    [rw   |-> <<RwT(type, 0, n), RwT(type, 0, n)>>,
     pkts |-> <<<<Pl0(type, 0, n, 1), Pl0(type, 0, n, 2)>>>>]

\* A block over two packets with a tail, then a write to where its second part began.
SplitRd == [rw   |-> <<RwT("RD", 0, 36), RwT("WR", 16, 4)>>,
            pkts |-> <<<<Pl0("RD", 0, 16, 1)>>,
                       <<Pl0("RD", 16, 16, 1), Pl0("RD", 32, 4, 1), Pl0("WR", 16, 4, 2)>>>>]

\* An unaligned write; the handler began with a packet without accesses.
EmptyPkt == [rw   |-> <<RwT("WR", 1, 7)>>,
             pkts |-> <<<<>>, <<Pl0("WR", 1, 1, 1), Pl0("WR", 2, 2, 1), Pl0("WR", 4, 4, 1)>>>>]

SomeRequests == {One("RD", 1), One("RD", 16), One("RD", 1024), One("FILL", 1024),
                 Twice("RD", 4), Twice("WR", 16), EmptyPkt, SplitRd}
ShortRequests == {One("RD", 4), SplitRd}
===============================================================================
