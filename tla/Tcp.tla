--------------------------------- MODULE Tcp ---------------------------------
(***************************************************************************)
(* net/tcp.c: a connection between a client and a server that both run it, *)
(* over IP, which loses, duplicates, delays and reorders segments. Every   *)
(* handler runs under the lock of net.c (net_enter) and is one action.     *)
(*                                                                         *)
(* Sequence numbers count modulo SeqMod. A byte stands for a full segment; *)
(* Nagle, silly windows and the congestion window only hold segments back  *)
(* while others are in flight, and SACK only shortens a retransmission: a  *)
(* sender may stop after any number of segments, but sends at least one    *)
(* when none is in flight. RTT and timestamps are left out; a timer fires  *)
(* when nothing is on the way any more, or, as one of MaxFaults, before.   *)
(***************************************************************************)
EXTENDS Integers, Sequences, FiniteSets

CONSTANTS
    SeqMod,         \* size of the sequence space, 2^32 in the code
    TCP_SNDBUF,
    TCP_RCVBUF,
    TCP_MAX_RTX,
    Written,        \* how many bytes each end writes
    Closers,        \* the ends that call tcp_close when they have written all
    LateSyn,        \* may a SYN still arrive after the connection it opened?
    MaxFaults,      \* bound on lost and doubled segments and early timers
    NoPcb           \* an end without a control block

TcpStates == {"SYN_SENT", "SYN_RCVD", "ESTABLISHED", "FIN_WAIT_1", "FIN_WAIT_2", "CLOSE_WAIT",
              "LAST_ACK", "TIME_WAIT", "CLOSED"}
Seqs == 0 .. SeqMod - 1
Tcbs ==
    [me : {"client", "server"}, state : TcpStates, iss : Seqs, snd_una : Seqs, snd_nxt : Seqs,
     buf : Seq(Nat), snd_wnd : Int, wl1 : Seqs, wl2 : Seqs, rcv_nxt : Seqs,
     marks : {m \in SUBSET [seq : Seqs, byte : Nat] : IsFiniteSet(m)}, fin_seq : Seqs, fin_pending : BOOLEAN,
     rtx_count : Nat, ack_pending : BOOLEAN]

ASSUME TcpAssumption ==
    /\ SeqMod \in Nat /\ TCP_SNDBUF \in Nat /\ TCP_RCVBUF \in Nat /\ TCP_MAX_RTX \in Nat
    /\ Written["client"] \in Nat /\ Written["server"] \in Nat
    /\ Closers \subseteq {"client", "server"} /\ LateSyn \in BOOLEAN
    /\ NoPcb \notin Tcbs

Client == "client"
Server == "server"
Ends == {Client, Server}
Peer(e) == IF e = Client THEN Server ELSE Client

VARIABLES
    pcb,        \* the control block of each end, or NoPcb
    wire,       \* segments on the way
    wrote,      \* how many bytes each application has written
    got,        \* the bytes each application has been given
    opened,     \* how often each end has opened, for the next ISN
    faults

vars == <<pcb, wire, wrote, got, opened, faults>>

-----------------------------------------------------------------------------
(* Sequence numbers *)
Plus(a, n) == (a + n) % SeqMod
Minus(a, b) == (a - b) % SeqMod
seq_gt(a, b) == Minus(a, b) \in 1 .. (SeqMod \div 2 - 1)
seq_geq(a, b) == a = b \/ seq_gt(a, b)
gen_isn(e) == Plus(SeqMod - 2, 5 * opened[e])

Min2(a, b) == IF a < b THEN a ELSE b

\* A handler works on a control block p, the segments it has sent and the bytes it
\* has handed to the application.
Do(p) == [p |-> p, out |-> {}, got |-> <<>>]

Window(p) == Min2(TCP_RCVBUF - Cardinality(p.marks), TCP_SNDBUF - Len(p.buf))
seg_out(r, flags, seq, data) ==
    [r EXCEPT !.out = @ \cup {[to |-> Peer(r.p.me), flags |-> flags, seq |-> seq,
                               ack |-> r.p.rcv_nxt, win |-> Window(r.p), data |-> data]},
              !.p.ack_pending = FALSE]
Ack(r) == seg_out(r, {"ACK"}, r.p.snd_nxt, <<>>)

NewPcb(e, st, iss, rcv, wnd, seq) ==
    [me |-> e, state |-> st, iss |-> iss, snd_una |-> iss, snd_nxt |-> iss, buf |-> <<>>,
     snd_wnd |-> wnd, wl1 |-> seq, wl2 |-> 0, rcv_nxt |-> rcv, marks |-> {},
     fin_seq |-> 0, fin_pending |-> FALSE, rtx_count |-> 0, ack_pending |-> FALSE]

-----------------------------------------------------------------------------
(***************************************************************************)
(* Sending                                                                 *)
(***************************************************************************)
InFlight(p) == Minus(p.snd_nxt, p.snd_una)

\* Mutant: the FIN does not wait for the send buffer.
tcp_try_fin_Early(r) ==
    LET p == r.p IN
    IF p.fin_pending
    THEN LET s == seg_out(r, {"FIN", "ACK"}, p.snd_nxt, <<>>) IN
         [s EXCEPT !.p.fin_seq = p.snd_nxt, !.p.snd_nxt = Plus(@, 1), !.p.fin_pending = FALSE,
                   !.p.state = IF @ = "CLOSE_WAIT" THEN "LAST_ACK" ELSE "FIN_WAIT_1"]
    ELSE r
tcp_try_fin(r) ==
    LET p == r.p IN
    IF p.fin_pending /\ InFlight(p) = Len(p.buf)
    THEN LET s == seg_out(r, {"FIN", "ACK"}, p.snd_nxt, <<>>) IN
         [s EXCEPT !.p.fin_seq = p.snd_nxt, !.p.snd_nxt = Plus(@, 1), !.p.fin_pending = FALSE,
                   !.p.state = IF @ = "CLOSE_WAIT" THEN "LAST_ACK" ELSE "FIN_WAIT_1",
                   !.p.rtx_count = 0]
    ELSE r

SendUnits(r, n) ==
    IF n = 0 THEN r
    ELSE LET p == r.p
             At(i) == [to |-> Peer(p.me), flags |-> {"ACK"}, seq |-> Plus(p.snd_nxt, i), ack |-> p.rcv_nxt,
                       win |-> Window(p), data |-> <<p.buf[InFlight(p) + i + 1]>>]
         IN  [r EXCEPT !.out = @ \cup {At(i) : i \in 0 .. n - 1}, !.p.snd_nxt = Plus(@, n),
                       !.p.rtx_count = 0, !.p.ack_pending = FALSE]

tcp_output(r) ==
    LET p == r.p
        most == Min2(Len(p.buf) - InFlight(p), p.snd_wnd - InFlight(p))
    IN  IF p.state \notin {"ESTABLISHED", "CLOSE_WAIT"} \/ InFlight(p) > Len(p.buf) THEN {r}
        ELSE IF most <= 0 THEN {tcp_try_fin(r)}
        ELSE {tcp_try_fin(SendUnits(r, n)) : n \in (IF InFlight(p) = 0 THEN 1 ELSE 0) .. most}

Resend(r) == seg_out(r, {"ACK"}, r.p.snd_una, <<r.p.buf[1]>>)

-----------------------------------------------------------------------------
(***************************************************************************)
(* tcp_input                                                               *)
(***************************************************************************)
\* An ACK takes what it covers out of the send buffer; one that covers nothing new may
\* be the third of its kind and make the oldest byte go out again.
Acked(r, s) ==
    LET p == r.p
        n == Minus(s.ack, p.snd_una)
    IN  IF seq_gt(s.ack, p.snd_una) /\ seq_geq(p.snd_nxt, s.ack)
        THEN {[r EXCEPT !.p.buf = SubSeq(@, Min2(n, Len(@)) + 1, Len(@)),
                        !.p.snd_una = s.ack, !.p.rtx_count = 0]}
        ELSE IF /\ p.state \in {"ESTABLISHED", "CLOSE_WAIT"} /\ s.ack = p.snd_una
                /\ p.snd_una # p.snd_nxt /\ s.data = <<>> /\ s.flags = {"ACK"}
                /\ p.snd_wnd # 0 /\ s.win = p.snd_wnd /\ p.buf # <<>>
        THEN {r, Resend(r)} ELSE {r}

Covers(p, seq) == seq_geq(p.snd_una, Plus(seq, 1))
AckedState(p) ==
    IF p.state = "SYN_RCVD" /\ Covers(p, p.iss) THEN "ESTABLISHED"
    ELSE IF p.state = "LAST_ACK" /\ Covers(p, p.fin_seq) THEN "CLOSED"
    ELSE IF p.state = "FIN_WAIT_1" /\ Covers(p, p.fin_seq) THEN "FIN_WAIT_2"
    ELSE p.state

update_snd_wnd(r, s) ==
    IF "SYN" \notin s.flags
         /\ (seq_gt(s.seq, r.p.wl1) \/ (s.seq = r.p.wl1 /\ seq_geq(s.ack, r.p.wl2)))
    THEN [r EXCEPT !.p.snd_wnd = s.win, !.p.wl1 = s.seq, !.p.wl2 = s.ack]
    ELSE r

\* The ACK part as a whole
AckPart(r, s) ==
    UNION {LET b == [a EXCEPT !.p.state = AckedState(a.p)] IN
           IF b.p.state \in {"ESTABLISHED", "CLOSE_WAIT"} THEN tcp_output(update_snd_wnd(b, s))
           ELSE {b} : a \in Acked(r, s)}

\* reasm_insert: a byte inside the window is kept, and the run at rcv_nxt delivered.
Insert(p, s) ==
    IF s.data # <<>> /\ seq_geq(s.seq, p.rcv_nxt) /\ Minus(s.seq, p.rcv_nxt) < TCP_RCVBUF
    THEN {m \in p.marks : m.seq # s.seq} \cup {[seq |-> s.seq, byte |-> s.data[1]]}
    ELSE p.marks
Run(p, marks) ==
    CHOOSE n \in 0 .. Cardinality(marks) :
        /\ \A i \in 0 .. n - 1 : \E m \in marks : m.seq = Plus(p.rcv_nxt, i)
        /\ \A m \in marks : m.seq # Plus(p.rcv_nxt, n)
reasm_insert(r, s) ==
    LET p == r.p
        marks == Insert(p, s)
        n == Run(p, marks)
        byte(i) == (CHOOSE m \in marks : m.seq = Plus(p.rcv_nxt, i - 1)).byte
    IN  [r EXCEPT !.p.rcv_nxt = Plus(@, n),
                  !.p.marks = {m \in marks : Minus(m.seq, p.rcv_nxt) >= n},
                  !.got = [i \in 1 .. n |-> byte(i)]]

\* A FIN counts once rcv_nxt has come to it.
\* Mutant: a FIN counts at once.
FinReached_AtOnce(p, s) == "FIN" \in s.flags
FinReached(p, s) ==
    "FIN" \in s.flags /\ Minus(p.rcv_nxt, Plus(s.seq, Len(s.data))) <= TCP_RCVBUF
TakeFin(r, s, st) ==
    Ack([r EXCEPT !.p.rcv_nxt = IF @ = Plus(s.seq, Len(s.data)) THEN Plus(@, 1) ELSE @,
                  !.p.state = st])

\* A SYN-ACK that comes again shows that our ACK was lost.
AckAgain(r, s) == IF "SYN" \in s.flags /\ r.p.state = "ESTABLISHED" THEN Ack(r) ELSE r

DataPart(r, s) ==
    LET p == r.p
        in == reasm_insert(r, s)
        new == s.data # <<>>
    IN
    IF p.state = "ESTABLISHED" THEN
        LET a == IF ~new THEN r
                 ELSE IF in.got = <<>> THEN Ack(in) ELSE [in EXCEPT !.p.ack_pending = TRUE]
        IN  IF p.fin_pending \/ ~FinReached(a.p, s) THEN a
            ELSE tcp_try_fin([TakeFin(a, s, "CLOSE_WAIT") EXCEPT !.p.fin_pending = TRUE])
    ELSE IF p.state \in {"FIN_WAIT_1", "FIN_WAIT_2"} THEN
        LET a == IF new THEN Ack(in) ELSE r IN
        IF FinReached(a.p, s) THEN TakeFin(a, s, "TIME_WAIT") ELSE a
    ELSE IF \/ p.state = "TIME_WAIT" /\ "FIN" \in s.flags
            \/ p.state \in {"CLOSE_WAIT", "LAST_ACK"} /\ (new \/ "FIN" \in s.flags)
    THEN Ack(r) ELSE r

\* What a handler leaves: the control block or none, its segments, its bytes.
Finish(e, r) ==
    /\ pcb' = [pcb EXCEPT ![e] = IF r.p.state = "CLOSED" THEN NoPcb ELSE r.p]
    /\ got' = [got EXCEPT ![e] = @ \o r.got]
    /\ UNCHANGED <<wrote, opened>>
Drop(e) == pcb' = [pcb EXCEPT ![e] = NoPcb] /\ UNCHANGED <<wrote, got, opened>>
Nothing == UNCHANGED <<pcb, wrote, got, opened>>

\* The segment s arrives at e and rest is what is left on the wire.
send_rst(s) ==
    [to |-> Peer(s.to), flags |-> {"RST"}, seq |-> s.ack, ack |-> 0, win |-> 0, data |-> <<>>]
IsSyn(s) == s.flags = {"SYN"}

Input(e, s, rest) ==
    LET p == pcb[e] IN
    \/ /\ e = Server /\ IsSyn(s)                       \* a new connection, or a reconnect
       /\ p = NoPcb => opened[e] = 0
       /\ p = NoPcb \/ LateSyn
       /\ \E r \in {seg_out(Do(NewPcb(e, "SYN_RCVD", gen_isn(e), Plus(s.seq, 1), s.win, s.seq)),
                            {"SYN", "ACK"}, gen_isn(e), <<>>)} :
             /\ pcb' = [pcb EXCEPT ![e] = [r.p EXCEPT !.snd_nxt = Plus(@, 1)]]
             /\ wire' = rest \cup r.out
       /\ opened' = [opened EXCEPT ![e] = @ + 1]
       /\ UNCHANGED <<wrote, got>>
    \/ /\ p = NoPcb /\ ~IsSyn(s)
       /\ wire' = rest \cup (IF "RST" \in s.flags THEN {} ELSE {send_rst(s)})
       /\ Nothing
    \/ /\ p # NoPcb /\ s.flags = {"RST"}
       /\ IF p.state # "SYN_SENT" /\ s.seq = p.rcv_nxt THEN Drop(e) ELSE Nothing
       /\ wire' = rest
    \/ /\ p # NoPcb /\ p.state = "SYN_SENT" /\ s.flags = {"SYN", "ACK"}
       /\ IF s.ack # Plus(p.iss, 1)
          THEN Drop(e) /\ wire' = rest \cup {send_rst(s)}
          ELSE \E r \in {Ack(Do([p EXCEPT !.state = "ESTABLISHED", !.snd_una = s.ack, !.snd_wnd = s.win,
                                         !.wl1 = s.seq, !.wl2 = s.ack, !.rcv_nxt = Plus(s.seq, 1),
                                         !.rtx_count = 0]))} :
                  Finish(e, r) /\ wire' = rest \cup r.out
    \/ /\ p # NoPcb /\ p.state = "SYN_SENT" /\ s.flags \notin {{"SYN", "ACK"}, {"RST"}}
       /\ wire' = rest
       /\ Nothing
    \/ /\ p # NoPcb /\ p.state # "SYN_SENT" /\ s.flags # {"RST"} /\ ~IsSyn(s)
       /\ \E r \in {DataPart(AckAgain(a, s), s) : a \in AckPart(Do(p), s)} :
             Finish(e, r) /\ wire' = rest \cup r.out

-----------------------------------------------------------------------------
(***************************************************************************)
(* The calls of the applications                                           *)
(***************************************************************************)
tcp_connect ==
    /\ pcb[Client] = NoPcb /\ opened[Client] = 0
    /\ \E r \in {seg_out(Do(NewPcb(Client, "SYN_SENT", gen_isn(Client), 0, 0, 0)),
                         {"SYN"}, gen_isn(Client), <<>>)} :
          /\ pcb' = [pcb EXCEPT ![Client] = [r.p EXCEPT !.snd_nxt = Plus(@, 1)]]
          /\ wire' = wire \cup r.out
    /\ opened' = [opened EXCEPT ![Client] = 1]
    /\ UNCHANGED <<wrote, got, faults>>

Writable(p) == p # NoPcb /\ p.state \in {"ESTABLISHED", "CLOSE_WAIT"}
tcp_write(e) ==
    /\ Writable(pcb[e]) /\ wrote[e] < Written[e]
    /\ Len(pcb[e].buf) < TCP_SNDBUF
    /\ \E r \in tcp_output(Do([pcb[e] EXCEPT !.buf = Append(@, wrote[e] + 1)])) :
          pcb' = [pcb EXCEPT ![e] = r.p] /\ wire' = wire \cup r.out
    /\ wrote' = [wrote EXCEPT ![e] = @ + 1]
    /\ UNCHANGED <<got, opened, faults>>

tcp_close(e) ==
    /\ e \in Closers /\ wrote[e] = Written[e]
    /\ pcb[e] # NoPcb /\ pcb[e].state = "ESTABLISHED" /\ ~pcb[e].fin_pending
    /\ \E r \in {tcp_try_fin(Do([pcb[e] EXCEPT !.fin_pending = TRUE]))} :
          pcb' = [pcb EXCEPT ![e] = r.p] /\ wire' = wire \cup r.out
    /\ UNCHANGED <<wrote, got, opened, faults>>

-----------------------------------------------------------------------------
(***************************************************************************)
(* tcp_tick                                                                *)
(***************************************************************************)
DelayedAck(e) ==
    /\ pcb[e] # NoPcb /\ pcb[e].ack_pending
    /\ \E r \in {Ack(Do(pcb[e]))} : pcb' = [pcb EXCEPT ![e] = r.p] /\ wire' = wire \cup r.out
    /\ UNCHANGED <<wrote, got, opened, faults>>

Persisting(p) == p.snd_wnd = 0 /\ p.state # "LAST_ACK"
\* The branches of the retransmission timer: its segments, and whether it counts.
Timeout(p) ==
    LET r == Do(p) IN
    IF p.state = "SYN_SENT" THEN {seg_out(r, {"SYN"}, p.iss, <<>>)}
    ELSE IF p.state = "SYN_RCVD" THEN {seg_out(r, {"SYN", "ACK"}, p.iss, <<>>)}
    ELSE IF p.state \in {"ESTABLISHED", "CLOSE_WAIT", "LAST_ACK"} /\ p.buf # <<>> THEN
        IF InFlight(p) > 0 THEN {Resend(r)}
        ELSE IF Persisting(p)
        THEN {LET s == seg_out(r, {"ACK"}, p.snd_nxt, <<p.buf[1]>>) IN [s EXCEPT !.p.snd_nxt = Plus(@, 1)]}
        ELSE tcp_output(r)
    ELSE IF p.state = "FIN_WAIT_1" /\ p.buf # <<>> THEN {Resend(r)}
    ELSE IF p.state \in {"LAST_ACK", "FIN_WAIT_1"} THEN {seg_out(r, {"FIN", "ACK"}, p.fin_seq, <<>>)}
    ELSE {}
Counts(p) == ~(p.state \in {"ESTABLISHED", "CLOSE_WAIT"} /\ Persisting(p))

Fault == faults < MaxFaults /\ faults' = faults + 1
Due(e) ==
    \/ wire = {} /\ (pcb[Peer(e)] # NoPcb => ~pcb[Peer(e)].ack_pending) /\ UNCHANGED faults
    \/ Fault

Retransmit(e) ==
    /\ pcb[e] # NoPcb /\ Timeout(pcb[e]) # {}
    /\ Due(e)
    /\ \E p \in {IF Counts(pcb[e]) THEN [pcb[e] EXCEPT !.rtx_count = @ + 1] ELSE pcb[e]} :
       IF p.rtx_count > TCP_MAX_RTX THEN pcb' = [pcb EXCEPT ![e] = NoPcb] /\ UNCHANGED wire
       ELSE \E r \in Timeout(p) : pcb' = [pcb EXCEPT ![e] = r.p] /\ wire' = wire \cup r.out
    /\ UNCHANGED <<wrote, got, opened>>

\* The end of TIME_WAIT; half closed ends and ends with unsent data whose peer is
\* silent are reaped after TCP_IDLE_MS.
Expire(e) ==
    /\ pcb[e] # NoPcb /\ wire = {}
    /\ \/ pcb[e].state = "TIME_WAIT"
       \/ pcb[e].state \in {"CLOSE_WAIT", "FIN_WAIT_2"} /\ pcb[Peer(e)] = NoPcb
       \/ pcb[e].state = "ESTABLISHED" /\ pcb[e].buf # <<>> /\ pcb[Peer(e)] = NoPcb
    /\ Drop(e)
    /\ UNCHANGED <<wire, faults>>

-----------------------------------------------------------------------------
(* The network *)
Deliver(e) ==
    \E s \in wire : s.to = e /\ Input(e, s, wire \ {s}) /\ UNCHANGED faults
Duplicate(e) ==
    /\ Fault
    /\ \E s \in wire : s.to = e /\ Input(e, s, wire)
Lose ==
    /\ Fault
    /\ \E s \in wire : wire' = wire \ {s}
    /\ UNCHANGED <<pcb, wrote, got, opened>>
\* A SYN that comes too late; what is left of it disappears where LateSyn is excluded.
\* That takes a repeated SYN away in SYN_RCVD, too, which the code would answer: there
\* the timer of the SYN-ACK alone carries the handshake.
Stale ==
    /\ ~LateSyn
    /\ \E s \in wire : IsSyn(s) /\ (pcb[Server] # NoPcb \/ opened[Server] > 0) /\ wire' = wire \ {s}
    /\ UNCHANGED <<pcb, wrote, got, opened, faults>>

Init ==
    /\ pcb = [e \in Ends |-> NoPcb]
    /\ wire = {}
    /\ wrote = [e \in Ends |-> 0]
    /\ got = [e \in Ends |-> <<>>]
    /\ opened = [e \in Ends |-> 0]
    /\ faults = 0

Works == tcp_connect \/ Stale \/ \E e \in Ends :
    Deliver(e) \/ tcp_write(e) \/ tcp_close(e) \/ DelayedAck(e) \/ Retransmit(e) \/ Expire(e)
Next == Works \/ Lose \/ \E e \in Ends : Duplicate(e)

Spec == Init /\ [][Next]_vars
\* The poll loop takes what arrives, the timers run, the applications go on.
FairSpec == Spec /\ WF_vars(Works)

-----------------------------------------------------------------------------
(***************************************************************************)
(* Properties                                                              *)
(***************************************************************************)
TypeOK ==
    \A e \in Ends : pcb[e] # NoPcb =>
        /\ Len(pcb[e].buf) <= TCP_SNDBUF
        /\ Cardinality(pcb[e].marks) < TCP_RCVBUF
        /\ InFlight(pcb[e]) <= Len(pcb[e].buf) + 1
        /\ pcb[e].rtx_count <= TCP_MAX_RTX

\* What an application is given is what the other one has written, in order, once.
InOrder ==
    \A e \in Ends : Len(got[e]) <= wrote[Peer(e)] /\ \A i \in DOMAIN got[e] : got[e][i] = i

\* The end of the stream is seen only behind the last byte: no FIN overtakes data that
\* the peer's window still holds back.
NoTruncation ==
    \A e \in Ends :
        pcb[e] # NoPcb /\ pcb[e].state \in {"CLOSE_WAIT", "LAST_ACK", "TIME_WAIT"} =>
            Len(got[e]) = Written[Peer(e)] \/ (wrote[Peer(e)] < Written[Peer(e)] /\ Len(got[e]) = wrote[Peer(e)])

\* Both: the stream an application reads is the one its peer wrote, up to its end.
StreamIntact == InOrder /\ NoTruncation

\* A connection is given up only when its own data have arrived ("Retransmit
\* unbestaetigter Daten", tcp.c:5): in TIME_WAIT nothing is retransmitted any more.
NothingUnacked ==
    \A e \in Ends : pcb[e] # NoPcb /\ pcb[e].state = "TIME_WAIT" => pcb[e].buf = <<>>

\* Whatever is lost, everything written arrives, zero windows included, and both ends
\* let go of the connection.
AllArrived == \A e \in Ends : Len(got[Peer(e)]) = wrote[e] /\ pcb[e] = NoPcb
AllArrives == <>[]AllArrived
==============================================================================
