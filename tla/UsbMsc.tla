------------------------------- MODULE UsbMsc --------------------------------
(***************************************************************************)
(* drivers/usb/usbmsc.c on drivers/usb/xhci.c: a SCSI command is a CBW     *)
(* (OUT), a data phase and a CSW (IN). Each is one TRB on the endpoint's   *)
(* ring; the driver waits 500 ms for the next transfer event, whichever    *)
(* TRB it is of, and gives up. The TRB stays on the ring: the controller   *)
(* may run it later, into the same static buffers, and its event comes     *)
(* late. bot_reset and clear_halt do nothing here (xhci.c:810).            *)
(*                                                                         *)
(* A command moves one piece of at most MSC_CHUNK sectors; lba counts      *)
(* pieces. DMA is coherent. Callers pass one static buffer, as fat32.c     *)
(* does with each of its sector buffers.                                   *)
(***************************************************************************)
EXTENDS Integers, Sequences

CONSTANTS
    Pieces,     \* capacity of the medium
    Values,     \* what a piece can hold
    Junk,       \* bytes that are not what they should be
    MaxCalls,   \* bound on the calls of usbmsc_read and usbmsc_write
    MaxUsbFaults \* bound on late answers, stalls, failing commands, port events

Lbas == 0 .. Pieces - 1

VARIABLES
    out, in,    \* TRBs the controller has not run: bulk OUT, bulk IN
    evs,        \* the event ring
    halted,     \* endpoints halted by an error
    dev,        \* the device: what it waits for, and the command it runs
    medium,     \* contents, per piece
    g_cbw, g_csw, g_buf, buf,   \* the DMA buffers
    g_tag, g_sectors,
    cmd,        \* the running bot_cmd
    call,       \* what it is run for
    calls, faults

rings == <<out, in, evs>>
device == <<halted, dev, medium>>
host == <<g_cbw, g_tag, g_sectors, cmd, call, calls>>
vars == <<rings, device, g_csw, g_buf, buf, host, faults>>

Size == [inquiry |-> 36, capacity |-> 8, sense |-> 18, read |-> 512, write |-> 512]
CswLen == 13

Fault == faults < MaxUsbFaults /\ faults' = faults + 1

Init ==
    /\ out = <<>> /\ in = <<>> /\ evs = <<>>
    /\ halted = {} /\ dev = [at |-> "cbw"]
    /\ medium \in [Lbas -> {CHOOSE v \in Values : TRUE}]
    /\ g_cbw = Junk /\ g_csw = Junk /\ g_buf = Junk /\ buf = [i \in Lbas |-> Junk]
    /\ g_tag = 0 /\ g_sectors = 0
    /\ cmd = [pc |-> "ok"] /\ call = [do |-> "init", step |-> "start", tries |-> 0]
    /\ calls = 0 /\ faults = 0

-----------------------------------------------------------------------------
(***************************************************************************)
(* bot_cmd                                                                 *)
(***************************************************************************)
\* A new tag, a new CBW in g_cbw, and its TRB on the OUT ring
Start(op, lba, at) ==
    /\ g_tag' = g_tag + 1
    /\ g_cbw' = [tag |-> g_tag', op |-> op, lba |-> lba]
    /\ out' = Append(out, [buf |-> "cbw", len |-> 31, at |-> 0])
    /\ cmd' = [pc |-> "cbw", op |-> op, at |-> at]

\* The TRB a phase waits for
DataTrb == [buf |-> IF cmd.op \in {"read", "write"} THEN "buf" ELSE "g_buf",
            len |-> Size[cmd.op], at |-> cmd.at]
CswTrb == [buf |-> "csw", len |-> CswLen, at |-> 0]
Waits == cmd.pc \in {"cbw", "data", "csw", "again"}
Expected == CASE cmd.pc = "cbw" -> 31 [] cmd.pc = "data" -> Size[cmd.op] [] OTHER -> CswLen

TagMatches_Ignored == g_csw # Junk
TagMatches == g_csw # Junk /\ g_csw.tag = g_tag
Passed == TagMatches /\ g_csw.status = 0 /\ g_csw.residue = 0

To(pc) == cmd' = [cmd EXCEPT !.pc = pc]
\* How bot_cmd goes on when hc_bulk has returned r
After(r) ==
    \/ cmd.pc = "cbw" /\ r < 0 /\ To("err") /\ UNCHANGED <<out, in>>
    \/ cmd.pc = "cbw" /\ r >= 0 /\ To("data")
       /\ IF cmd.op = "write" THEN out' = Append(out, DataTrb) /\ UNCHANGED in
          ELSE in' = Append(in, DataTrb) /\ UNCHANGED out
    \/ cmd.pc = "data" /\ r = -1 /\ To("err") /\ UNCHANGED <<out, in>>
    \/ cmd.pc = "data" /\ r # -1 /\ To("csw") /\ in' = Append(in, CswTrb) /\ UNCHANGED out
    \/ cmd.pc = "csw" /\ r = -2 /\ To("again") /\ in' = Append(in, CswTrb) /\ UNCHANGED out
    \/ /\ cmd.pc = "again" \/ (cmd.pc = "csw" /\ r # -2)
       /\ To(IF r >= CswLen /\ Passed THEN "ok" ELSE "err")
       /\ UNCHANGED <<out, in>>

\* xhci_hc_bulk: bytes moved, -2 for a stall, -1 for any other error
Moved(e, len) ==
    IF e.code \in {"success", "short"} THEN (IF len > e.resid THEN len - e.resid ELSE 0)
    ELSE IF e.code = "stall" THEN -2 ELSE -1

xfer_wait ==
    /\ Waits /\ evs # <<>>
    /\ evs' = Tail(evs)
    /\ \/ Head(evs).type = "port" /\ UNCHANGED <<out, in, cmd>>
       \/ Head(evs).type = "xfer" /\ After(Moved(Head(evs), Expected))
    /\ UNCHANGED <<device, g_cbw, g_csw, g_buf, buf, g_tag, g_sectors, call, calls, faults>>

\* Nothing on the way: no TRB that the controller and the device can run
Silent ==
    /\ out = <<>> \/ "out" \in halted \/ dev.at \in {"in", "csw"}
    /\ in = <<>> \/ "in" \in halted \/ dev.at \in {"cbw", "out"}

\* 500 ms without an event (or 16 events of ports, which ends alike)
Timeout ==
    /\ Waits /\ evs = <<>>
    /\ IF Silent THEN UNCHANGED faults ELSE Fault
    /\ After(-1)
    /\ UNCHANGED <<evs, device, g_cbw, g_csw, g_buf, buf, g_tag, g_sectors, call, calls>>

-----------------------------------------------------------------------------
(***************************************************************************)
(* msc_init and msc_rw                                                     *)
(***************************************************************************)
Done == cmd.pc \in {"ok", "err"}
Ok == cmd.pc = "ok"
Init_(step, tries) == call' = [call EXCEPT !.step = step, !.tries = tries]
Still == UNCHANGED <<in, evs, device, g_csw, g_buf, faults>>

\* INQUIRY, then READ CAPACITY up to four times with a REQUEST SENSE after each failure
msc_init ==
    /\ Done /\ call.do = "init"
    /\ Still /\ UNCHANGED <<buf, calls>>
    /\ \/ /\ call.step = "start"
          /\ Start("inquiry", 0, 0) /\ Init_("inquiry", 0) /\ UNCHANGED g_sectors
       \/ /\ (call.step = "inquiry" /\ Ok) \/ (call.step = "sense" /\ call.tries < 4)
          /\ Start("capacity", 0, 0) /\ Init_("capacity", call.tries + 1) /\ UNCHANGED g_sectors
       \/ /\ call.step = "capacity" /\ ~Ok
          /\ Start("sense", 0, 0) /\ Init_("sense", call.tries) /\ UNCHANGED g_sectors
       \/ /\ call.step = "capacity" /\ Ok
          /\ g_sectors' = IF g_buf = Junk THEN 0 ELSE g_buf      \* bsize != 512
          /\ call' = [do |-> "none"]
          /\ UNCHANGED <<out, cmd, g_cbw, g_tag>>
       \/ /\ (call.step = "inquiry" /\ ~Ok) \/ (call.step = "sense" /\ call.tries = 4)
          /\ call' = [do |-> "none"]
          /\ UNCHANGED <<out, cmd, g_cbw, g_tag, g_sectors>>

\* usbmsc_read and usbmsc_write: a call that leaves the capacity is refused.
msc_rw(op, lba, count, v) ==
    /\ call.do \in {"none", "ret"} /\ calls < MaxCalls
    /\ lba < g_sectors /\ count <= g_sectors - lba
    /\ calls' = calls + 1
    /\ call' = [do |-> op, lba |-> lba, count |-> count, v |-> v, i |-> 0]
    /\ buf' = [i \in Lbas |-> IF op = "write" /\ i < count THEN v ELSE buf[i]]
    /\ Start(op, lba, 0)
    /\ Still /\ UNCHANGED g_sectors

NextPiece ==
    /\ Done /\ call.do \in {"read", "write"}
    /\ Still /\ UNCHANGED <<buf, g_sectors, calls>>
    /\ \/ /\ Ok /\ call.i + 1 < call.count
          /\ call' = [call EXCEPT !.i = @ + 1]
          /\ Start(call.do, call.lba + call.i + 1, call.i + 1)
       \/ /\ Ok => call.i + 1 = call.count
          /\ call' = [do |-> "ret", of |-> call, ok |-> Ok]
          /\ UNCHANGED <<out, cmd, g_cbw, g_tag>>

-----------------------------------------------------------------------------
(***************************************************************************)
(* The controller and the device                                           *)
(***************************************************************************)
Event(code, resid) == evs' = Append(evs, [type |-> "xfer", code |-> code, resid |-> resid])
Csw(status, residue) ==
    [at |-> "csw", csw |-> [tag |-> dev.cbw.tag, status |-> status, residue |-> residue]]
Untouched == UNCHANGED <<g_csw, g_buf, buf, host>>

Stall(ep) ==
    /\ Event("stall", 0)
    /\ halted' = halted \cup {ep}

RunOut ==
    /\ out # <<>> /\ "out" \notin halted
    /\ LET t == Head(out) IN
       \/ /\ dev.at = "cbw" /\ t.buf = "cbw"
          /\ \/ dev' = [at |-> IF g_cbw.op = "write" THEN "out" ELSE "in", cbw |-> g_cbw, fails |-> FALSE]
                /\ UNCHANGED faults
             \/ Fault /\ dev' = [at |-> IF g_cbw.op = "write" THEN "out" ELSE "in", cbw |-> g_cbw, fails |-> TRUE]
          /\ Event("success", 0) /\ UNCHANGED <<halted, medium>>
       \/ /\ dev.at = "out" /\ t.buf = "buf" /\ ~dev.fails
          /\ medium' = [medium EXCEPT ![dev.cbw.lba] = buf[t.at]]
          /\ dev' = Csw(0, 0)
          /\ Event("success", 0) /\ UNCHANGED <<halted, faults>>
       \/ /\ dev.at = "out" /\ t.buf = "cbw" /\ ~dev.fails          \* too short
          /\ dev' = Csw(1, 512 - 31)
          /\ Event("success", 0) /\ UNCHANGED <<halted, medium, faults>>
       \/ /\ dev.at = "out" /\ dev.fails
          /\ dev' = Csw(1, 512)
          /\ Stall("out") \/ (Event("success", 0) /\ UNCHANGED halted)
          /\ UNCHANGED <<medium, faults>>
       \/ /\ dev.at = "cbw" /\ t.buf # "cbw"                        \* not a CBW
          /\ Stall("out") /\ UNCHANGED <<dev, medium, faults>>
       \/ /\ dev.at \in {"in", "csw"} /\ Fault                      \* or it is not taken yet
          /\ Stall("out") /\ UNCHANGED <<dev, medium>>
    /\ out' = Tail(out)
    /\ UNCHANGED in /\ Untouched

\* n bytes of which what is sent, into the buffer of the TRB t
Into(t, what, n) ==
    IF t.len < n THEN Event("babble", 0) /\ halted' = halted \cup {"in"}
    ELSE (IF t.len = n THEN Event("success", 0) ELSE Event("short", t.len - n)) /\ UNCHANGED halted
Fill(t, what, n) ==
    LET got == IF t.len < n THEN Junk ELSE what IN
    /\ g_csw' = IF t.buf = "csw" THEN (IF n = CswLen THEN got ELSE Junk) ELSE g_csw
    /\ g_buf' = IF t.buf = "g_buf" THEN (IF n = 8 /\ t.len = 8 THEN got ELSE Junk) ELSE g_buf
    /\ buf' = IF t.buf = "buf" THEN [buf EXCEPT ![t.at] = IF n = 512 THEN got ELSE Junk] ELSE buf

Answer == CASE dev.cbw.op = "read" -> medium[dev.cbw.lba]
            [] dev.cbw.op = "capacity" -> Pieces
            [] OTHER -> Junk

RunIn ==
    /\ in # <<>> /\ "in" \notin halted
    /\ LET t == Head(in) IN
       \/ /\ dev.at = "in" /\ ~dev.fails
          /\ Into(t, Answer, Size[dev.cbw.op]) /\ Fill(t, Answer, Size[dev.cbw.op])
          /\ dev' = Csw(0, 0)
       \/ /\ dev.at = "in" /\ dev.fails
          /\ Stall("in") \/ (Event("short", t.len) /\ UNCHANGED halted)
          /\ dev' = Csw(1, Size[dev.cbw.op]) /\ UNCHANGED <<g_csw, g_buf, buf>>
       \/ /\ dev.at = "csw"
          /\ Into(t, dev.csw, CswLen) /\ Fill(t, dev.csw, CswLen)
          /\ dev' = [at |-> "cbw"]
    /\ in' = Tail(in)
    /\ UNCHANGED <<out, medium, host, faults>>

\* A port status change: an event that is not of a transfer
PortEvent ==
    /\ Fault
    /\ evs' = Append(evs, [type |-> "port"])
    /\ UNCHANGED <<out, in, device>> /\ Untouched

-----------------------------------------------------------------------------
Next ==
    \/ xfer_wait \/ Timeout \/ msc_init \/ NextPiece
    \/ \E lba \in Lbas, count \in 1 .. Pieces :
          \/ msc_rw("read", lba, count, Junk)
          \/ \E v \in Values : msc_rw("write", lba, count, v)
    \/ RunOut \/ RunIn
    \/ Waits /\ PortEvent

Spec == Init /\ [][Next]_vars

-----------------------------------------------------------------------------
TypeOK ==
    /\ g_sectors \in {0, Pieces}
    /\ medium \in [Lbas -> Values]
    /\ buf \in [Lbas -> Values \cup {Junk}]
    /\ calls \in 0 .. MaxCalls /\ faults \in 0 .. MaxUsbFaults

\* A call that returns 0 has done what it says, whatever was given up before it and
\* comes late: the caller's buffer and the medium hold the same (usbmsc.c:51 "0 = ok
\* (CSW-Status pass, voller Datentransfer, Tag stimmt)"). It holds for one fault; two
\* late answers leave the driver one TRB behind the device, and a write returns 0 for
\* data the device took from an earlier call.
OkMeansDone ==
    call.do = "ret" /\ call.ok =>
        \A i \in 0 .. call.of.count - 1 :
            /\ buf[i] = medium[call.of.lba + i]
            /\ call.of.do = "write" => buf[i] = call.of.v
==============================================================================
