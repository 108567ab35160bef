--------------------------- MODULE MCTCPIPMaster ---------------------------
(* Instantiation of TCPIPMaster for TLC: one unit with two one-bit         *)
(* registers, two reads of different lengths and a write of each kind.     *)
EXTENDS TCPIPMaster

(* The reads share unit and function code and differ in PointCount, so a   *)
(* reply to one has the header the other expects.                          *)
MCRequests ==
    { ReadReq(ReadHoldingRegisters, 1, 0, 2),
      ReadReq(ReadHoldingRegisters, 1, 0, 1),
      PSRReq(1, 0, 0),
      PSRReq(1, 0, 1),
      PMRReq(1, 0, <<1, 1>>),
      MWReq(1, 1, 0, 1) }

(* Two writes of different values to one register.                        *)
MCWriteRequests == { PSRReq(1, 0, 0), PSRReq(1, 0, 1) }

MCAddrs == 0..1

(* TCPIPContext( SlaveAddr ): the transaction id defaults to 0.            *)
MCTidDefault(n) == 0
(* A caller that numbers its transactions.                                 *)
MCTidFresh(n) == n
====
