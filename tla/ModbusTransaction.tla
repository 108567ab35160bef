------------------------- MODULE ModbusTransaction -------------------------
(***************************************************************************)
(* What a Modbus master operation promises its caller, whatever the       *)
(* framing and the transport (spec.md, the request/reply engine): an       *)
(* operation that returns normally returns what one execution of its own  *)
(* request produced at the slave.  Requests may be lost, refused or        *)
(* executed late, after their operation has already given up, or sent    *)
(* again by a retry; replies may be lost; an operation may always fail.    *)
(*                                                                         *)
(* A request in flight is a record [req, rid, try]: rid numbers the        *)
(* caller's operations, try tells apart the copies that retries send.  An  *)
(* execution leaves a reply [rid, data], with the                          *)
(* registers read for a read request and nothing for a write.             *)
(***************************************************************************)
EXTENDS Naturals, Sequences, ModbusRegisters

CONSTANTS Slaves, Addrs, Values, Requests, MaxOps

VARIABLES
    regs,      \* the slaves' registers
    calls,     \* operations the caller has started
    pending,   \* the operation under way, or NoPending
    sent,      \* requests a slave may still execute
    replies,   \* replies of executions that the master may still read
    lastOk     \* what the last operation returned, if it returned normally

avars == <<regs, calls, pending, sent, replies, lastOk>>

NoPending == [req |-> NoReq, rid |-> 0]
NoOk == [rid |-> 0, data |-> <<>>]

(* What the master has not yet read may be lost at any step.               *)
Forget == replies' \subseteq replies

(* q is a copy of the request of operation p.                              *)
CopyOf(q, p) == q.req = p.req /\ q.rid = p.rid

(* One more copy of the request of operation p goes out.                   *)
SendCopy(p) == \E q \in sent' \ sent : CopyOf(q, p) /\ sent' = sent \cup {q}

Init ==
    /\ regs \in [Slaves -> [Addrs -> Values]]
    /\ calls = 0 /\ pending = NoPending
    /\ sent = {} /\ replies = {}
    /\ lastOk = NoOk

(* The caller starts an operation, which fails at once or goes on to send *)
(* its request, in the same step or a later one (Send).                    *)
Call ==
    /\ pending = NoPending /\ calls < MaxOps
    /\ calls' = calls + 1
    /\ \E r \in Requests :
         \/ /\ pending' = [req |-> r, rid |-> calls + 1]
            /\ sent' = sent \/ SendCopy(pending')
            /\ UNCHANGED lastOk
         \/ /\ lastOk' = NoOk
            /\ UNCHANGED <<pending, sent>>
    /\ Forget
    /\ UNCHANGED regs

(* The request of the operation under way is sent, first or by a retry.  *)
Send ==
    /\ pending # NoPending
    /\ SendCopy(pending)
    /\ Forget
    /\ UNCHANGED <<regs, calls, pending, lastOk>>

(* A slave executes a request it received, leaving a reply or not.        *)
Execute ==
    \E q \in sent :
      LET s == q.req.slave
          rep == [rid |-> q.rid,
                  data |-> IF q.req.fc \in ReadFCs
                           THEN ReadRange(regs[s], q.req.addr, q.req.count)
                           ELSE <<>>]
      IN /\ regs' = [regs EXCEPT ![s] = Apply(@, q.req)]
         /\ sent' = sent \ {q}
         /\ replies' \subseteq replies \cup {rep}
         /\ UNCHANGED <<calls, pending, lastOk>>

(* A request is lost, refused with an exception, or never answered.       *)
Drop ==
    \E q \in sent :
      /\ sent' = sent \ {q}
      /\ Forget
      /\ UNCHANGED <<regs, calls, pending, lastOk>>

(* The operation returns normally with a reply to its own request.         *)
ReturnOk ==
    /\ pending # NoPending
    /\ \E rep \in replies :
         /\ rep.rid = pending.rid
         /\ lastOk' = rep
    /\ pending' = NoPending
    /\ Forget
    /\ UNCHANGED <<regs, calls, sent>>

(* The operation, or an Open, throws; a request it had not yet written    *)
(* never goes out.                                                         *)
Fail ==
    /\ pending' = NoPending
    /\ lastOk' = NoOk
    /\ sent' \subseteq sent
    /\ \A q \in sent \ sent' : CopyOf(q, pending)
    /\ Forget
    /\ UNCHANGED <<regs, calls>>

(* Replies are lost while nothing else changes.                            *)
Lose ==
    /\ Forget
    /\ UNCHANGED <<regs, calls, pending, sent, lastOk>>

Next == Call \/ Send \/ Execute \/ Drop \/ ReturnOk \/ Fail \/ Lose

Spec == Init /\ [][Next]_avars

=============================================================================
