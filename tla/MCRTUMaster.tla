---------------------------- MODULE MCRTUMaster ----------------------------
(* Instantiation of RTUMaster for TLC: two slaves with two one-bit          *)
(* registers each, and a caller that issues each kind of operation.        *)
EXTENDS RTUMaster

(* Slave 1 gets every kind of request; slave 2 gets the same read as slave *)
(* 1, so a reply from the wrong slave can line up with the expected one.   *)
MCRequests ==
    { ReadReq(ReadHoldingRegisters, 1, 0, 2),
      ReadReq(ReadHoldingRegisters, 2, 0, 2),
      ReadReq(ReadInputRegisters, 1, 1, 1),
      PSRReq(1, 0, 1),
      PMRReq(1, 0, <<0, 0>>),
      PMRReq(1, 0, <<1, 1>>),
      PMRReq(1, 0, <<1, 0, 1>>),
      MWReq(1, 1, 0, 1) }

MCSlaves == {1, 2}
MCAddrs == 0..1
(* DoPresetMultipleRegisters' limit of 123 points, scaled to the model's   *)
(* two registers; the 3-point request above exceeds it.                    *)
MCMaxPoints == 2
====
