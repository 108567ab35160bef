------------------------------ MODULE CommPort ------------------------------
(***************************************************************************)
(* TCommPort (CommPort.cpp) as RTUProtocol configures and opens it: the    *)
(* private DCB m_dcb, the open flag m_CommOpen, the OS handle, and the     *)
(* DCB the driver of each port is really running with.  Every public call *)
(* that changes state is one action: OpenCommPort with its five failure    *)
(* points, CloseCommPort, the four setters that back up and restore a      *)
(* field, SetRTS, SetCommDCBProperties and SetCommPort.                    *)
(*                                                                         *)
(* A DCB is a record of the fields the code reads or writes.  Values are   *)
(* the Windows constants: NOPARITY 0, EVENPARITY 2, ONESTOPBIT 0,          *)
(* TWOSTOPBITS 2, RTS_CONTROL_DISABLE 0, RTS_CONTROL_ENABLE 1.             *)
(***************************************************************************)
EXTENDS Naturals, FiniteSets

CONSTANTS
    Ports,          \* device names the caller may pass to SetCommPort
    DefaultPort,    \* the constructor's "\\.\COM1"
    Bauds, ByteSizes, Parities, StopBitsVals,
    RtsStates,      \* arguments the caller passes to SetRTS ({} = never called)
    DCBProps,       \* DCBs the caller passes to SetCommDCBProperties
    SupportedBauds, SupportedByteSizes, \* what SetCommState accepts
    DeviceInit,     \* DCBs a driver may hold before the first open
    Tracked,        \* DCB fields whose requested value is checked
    MaxFaults       \* transient Win32 failures per behaviour

RtsModes == 0..3    \* fRtsControl is a 2-bit field

DCB == [baud : Bauds, bits : ByteSizes, parity : Parities, stop : StopBitsVals,
        rts : RtsModes, abort : BOOLEAN]

VARIABLES
    commOpen,   \* m_CommOpen
    held,       \* m_hCom is an OS handle not yet passed to CloseHandle
    portName,   \* m_CommPort
    opened,     \* the port m_hCom refers to
    dcb,        \* m_dcb
    device,     \* the DCB each port's driver applies
    wanted,     \* ghost: the value each field was last successfully set to
    asked,      \* ghost: the fields some call has set
    faults

vars == <<commOpen, held, portName, opened, dcb, device, wanted, asked, faults>>

(* SetCommState succeeds only for a DCB the driver supports, and a          *)
(* transient failure may hit it as it may hit any Win32 call.               *)
Accepts(d) == d.baud \in SupportedBauds /\ d.bits \in SupportedByteSizes

Transient == faults < MaxFaults

(***************************************************************************)
(* Constructors: TCommPort sets N81 9600 and leaves fRtsControl            *)
(* uninitialized; RTUProtocol's constructor then calls the four setters on *)
(* the closed port.                                                        *)
(***************************************************************************)
TCommPortDefaults ==
    {[baud |-> 9600, bits |-> 8, parity |-> 0, stop |-> 0, rts |-> r, abort |-> FALSE]
        : r \in RtsModes}

RTUProtocolDefaults(d) ==
    [d EXCEPT !.parity = 0, !.bits = 8, !.stop = 0, !.baud = 115200]

Init ==
    /\ commOpen = FALSE
    /\ held = FALSE
    /\ portName = DefaultPort
    /\ opened = DefaultPort
    /\ dcb \in {RTUProtocolDefaults(d) : d \in TCommPortDefaults}
    /\ device \in [Ports -> DeviceInit]
    /\ wanted = dcb
    /\ asked = {"baud", "bits", "parity", "stop"}
    /\ faults = 0

OpenedDCBNoStopBits(d, dev) ==
    [dev EXCEPT !.baud = d.baud, !.bits = d.bits, !.parity = d.parity,
                !.abort = d.abort]

(* OpenCommPort keeps the five fields it copies into tempDCB and takes      *)
(* every other field from GetCommState.                                     *)
OpenedDCB(d, dev) ==
    [dev EXCEPT !.baud = d.baud, !.bits = d.bits, !.parity = d.parity,
                !.stop = d.stop, !.abort = d.abort]

OpenFailedNoClose(d, dev) ==
    /\ held' = TRUE
    /\ dcb' = d
    /\ device' = dev
    /\ UNCHANGED <<commOpen, portName, opened, wanted, asked>>

(* A failure after CreateFile: CloseHandle, then throw.                     *)
OpenFailed(d, dev) ==
    /\ held' = FALSE
    /\ dcb' = d
    /\ device' = dev
    /\ UNCHANGED <<commOpen, portName, wanted, asked>>

OpenCommPort ==
    \/ /\ commOpen                                   \* already open: return
       /\ UNCHANGED <<commOpen, held, portName, opened, dcb, device, wanted, asked, faults>>
    \/ /\ ~commOpen
       /\ opened' = portName
       /\ LET nd == OpenedDCB(dcb, device[portName])
              applied == [device EXCEPT ![portName] = nd]
          IN \/ /\ (held \/ Transient)              \* CreateFile: exclusive access
                /\ faults' = IF held THEN faults ELSE faults + 1
                /\ UNCHANGED <<commOpen, held, portName, dcb, device, wanted, asked>>
             \/ /\ ~held /\ Transient               \* GetCommState fails
                /\ faults' = faults + 1
                /\ OpenFailed(dcb, device)
             \/ /\ ~held                            \* SetCommState fails
                /\ ~Accepts(nd) \/ Transient
                /\ faults' = IF Accepts(nd) THEN faults + 1 ELSE faults
                /\ OpenFailed(nd, device)
             \/ /\ ~held /\ Accepts(nd) /\ Transient \* SetupComm or SetCommTimeouts fails
                /\ faults' = faults + 1
                /\ OpenFailed(nd, applied)
             \/ /\ ~held /\ Accepts(nd)             \* success
                /\ commOpen' = TRUE
                /\ held' = TRUE
                /\ dcb' = nd
                /\ device' = applied
                /\ UNCHANGED <<portName, wanted, asked, faults>>

CloseCommPort ==
    /\ commOpen' = FALSE
    /\ held' = IF commOpen THEN FALSE ELSE held
    /\ UNCHANGED <<portName, opened, dcb, device, wanted, asked, faults>>

(***************************************************************************)
(* SetBaudRate, SetByteSize, SetParity, SetStopBits: back up the field,    *)
(* assign it, and if the port is open apply m_dcb, restoring the field and *)
(* throwing if SetCommState fails.                                         *)
(***************************************************************************)
RestoreNothing(nd, f) == nd

(* The restore of the backed-up field after a failed SetCommState.          *)
RestoreBackup(nd, f) == [nd EXCEPT ![f] = dcb[f]]

SetField(f, v) ==
    LET nd == [dcb EXCEPT ![f] = v] IN
    /\ UNCHANGED <<commOpen, held, portName, opened>>
    /\ \/ /\ ~commOpen
          /\ dcb' = nd
          /\ wanted' = [wanted EXCEPT ![f] = v]
          /\ asked' = asked \cup {f}
          /\ UNCHANGED <<device, faults>>
       \/ /\ commOpen /\ Accepts(nd)
          /\ dcb' = nd
          /\ device' = [device EXCEPT ![opened] = nd]
          /\ wanted' = [wanted EXCEPT ![f] = v]
          /\ asked' = asked \cup {f}
          /\ UNCHANGED faults
       \/ /\ commOpen
          /\ ~Accepts(nd) \/ Transient
          /\ faults' = IF Accepts(nd) THEN faults + 1 ELSE faults
          /\ dcb' = RestoreBackup(nd, f)
          /\ UNCHANGED <<device, wanted, asked>>

SetBaudRate   == \E v \in Bauds : SetField("baud", v)
SetByteSizeIntoParity == \E v \in ByteSizes : SetField("parity", v)
SetByteSize   == \E v \in ByteSizes : SetField("bits", v)
SetParity     == \E v \in Parities : SetField("parity", v)
SetStopBits   == \E v \in StopBitsVals : SetField("stop", v)

(* SetRTS assigns fRtsControl and applies m_dcb if open, but throws without *)
(* restoring the field when SetCommState fails.                             *)
SetRTS ==
    \E state \in RtsStates :
    LET nd == [dcb EXCEPT !.rts = IF state THEN 1 ELSE 0] IN
    /\ dcb' = nd
    /\ UNCHANGED <<commOpen, held, portName, opened>>
    /\ \/ /\ ~commOpen
          /\ wanted' = [wanted EXCEPT !.rts = nd.rts]
          /\ asked' = asked \cup {"rts"}
          /\ UNCHANGED <<device, faults>>
       \/ /\ commOpen /\ Accepts(nd)
          /\ device' = [device EXCEPT ![opened] = nd]
          /\ wanted' = [wanted EXCEPT !.rts = nd.rts]
          /\ asked' = asked \cup {"rts"}
          /\ UNCHANGED faults
       \/ /\ commOpen
          /\ ~Accepts(nd) \/ Transient
          /\ faults' = IF Accepts(nd) THEN faults + 1 ELSE faults
          /\ UNCHANGED <<device, wanted, asked>>

(* SetCommDCBProperties: if open, SetCommState(properties) or throw; then   *)
(* m_dcb = properties.                                                      *)
SetCommDCBProperties ==
    \E p \in DCBProps :
    /\ UNCHANGED <<commOpen, held, portName, opened>>
    /\ \/ /\ commOpen
          /\ ~Accepts(p) \/ Transient
          /\ faults' = IF Accepts(p) THEN faults + 1 ELSE faults
          /\ UNCHANGED <<dcb, device, wanted, asked>>
       \/ /\ ~commOpen \/ Accepts(p)
          /\ dcb' = p
          /\ device' = IF commOpen THEN [device EXCEPT ![opened] = p] ELSE device
          /\ wanted' = p
          /\ asked' = DOMAIN p
          /\ UNCHANGED faults

(* SetCommPort: VerifyClosed, then change the device name.                  *)
SetCommPort ==
    \E n \in Ports :
    /\ portName' = IF commOpen THEN portName ELSE n
    /\ UNCHANGED <<commOpen, held, opened, dcb, device, wanted, asked, faults>>

Next ==
    \/ OpenCommPort \/ CloseCommPort
    \/ SetBaudRate \/ SetByteSize \/ SetParity \/ SetStopBits
    \/ SetRTS \/ SetCommDCBProperties \/ SetCommPort

Spec == Init /\ [][Next]_vars

(***************************************************************************)
(* RTUProtocol::GetStopBitCount, and the count each stop-bit setting means *)
(* (ONESTOPBIT 1, ONE5STOPBITS and TWOSTOPBITS rounded up to 2).           *)
(***************************************************************************)
GetStopBitCount(d) ==
    CASE d.parity = 0        -> 1
      [] d.parity \in {1, 2} -> 2
      [] OTHER               -> "ERTUParametersError"

StopBitCountOf(s) == IF s = 0 THEN 1 ELSE 2

-----------------------------------------------------------------------------
TypeOK ==
    /\ commOpen \in BOOLEAN /\ held \in BOOLEAN
    /\ portName \in Ports /\ opened \in Ports
    /\ dcb \in DCB
    /\ device \in [Ports -> DCB]
    /\ wanted \in DCB
    /\ asked \subseteq DOMAIN wanted
    /\ faults \in 0..MaxFaults

(* Every exit of OpenCommPort after CreateFile closes the handle, and      *)
(* CloseCommPort closes it: the object holds an OS handle exactly while     *)
(* m_CommOpen is set.  A leaked handle would make every later CreateFile   *)
(* on the port fail, since comm devices are opened for exclusive access.   *)
HandleHeldOnlyWhenOpen == held = commOpen

(* While the port is open, m_dcb is the DCB the driver is running with:    *)
(* the getters (GetBaudRate and the others) report the real settings, and  *)
(* the next SetCommState of m_dcb changes only the field being set.  Each  *)
(* setter restores its field when SetCommState fails.  Checked on the      *)
(* fields in Tracked.                                                      *)
DcbMatchesDevice == commOpen => \A f \in Tracked : dcb[f] = device[opened][f]

(* A setting the caller made successfully, on an open or a closed port,     *)
(* is still in m_dcb: failed setters restore it and OpenCommPort carries it *)
(* over the DCB it reads back from the driver.                              *)
SettingsAsRequested ==
    \A f \in Tracked \cap asked : dcb[f] = wanted[f]

(* GetStopBitCount reports the number of stop bits m_dcb is set to.         *)
StopBitCountReflectsSetting == GetStopBitCount(dcb) = StopBitCountOf(dcb.stop)

====
