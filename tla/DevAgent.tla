------------------------------- MODULE DevAgent ------------------------------
(***************************************************************************)
(* The file transfer of the development agent: dev_agent_input over the    *)
(* chunk table of dev_remote.c, and its client _build/tools/dev_remote.py, *)
(* over UDP, which doubles and delays; a packet that is never delivered is *)
(* lost. Each transfer is a process of its own with a socket of its own;   *)
(* the agent answers the sender of the packet at hand (s_peer) and keeps   *)
(* one transfer, of whichever host.                                        *)
(*                                                                         *)
(* A packet is [n, what, copy]: transfer n; what is sent, in the order of  *)
(* the sequence numbers it stands for too: 0 is FILE_BEGIN, then come the  *)
(* chunks, then FILE_END; and the try it is of, or 0 for a copy the        *)
(* network made.                                                           *)
(***************************************************************************)
EXTENDS Integers, Sequences, FiniteSets, Functions

CONSTANTS
    File,           \* per transfer: its chunks, a sequence of byte sums; its path is n
    MaxTries,       \* send_reliable gives up after so many (8 there)
    MaxNetFaults    \* bound on tries without an answer, doubles, reboots, failing writes

Transfers == DOMAIN File
Nothing == [path |-> 0, data |-> <<>>]

VARIABLES
    up, down,       \* packets in flight: to the agent, to the hosts
    host,           \* the running transfer: n, what it sends, tries, and its end
    file_active, file,   \* the agent: [path, total, buf, got]
    written,        \* the last write_file that succeeded
    netFaults

agent == <<file_active, file>>
vars == <<up, down, host, agent, written, netFaults>>

Fault == netFaults < MaxNetFaults /\ netFaults' = netFaults + 1

Init ==
    /\ up = {} /\ down = {}
    /\ host = [n |-> 0, what |-> 0, tries |-> 0, end |-> "failed"]
    /\ file_active = FALSE /\ file = [path |-> 0, total |-> 0, buf |-> <<>>, got |-> {}]
    /\ written = Nothing /\ netFaults = 0

Sum(s) == FoldFunction(+, 0, s)

-----------------------------------------------------------------------------
(***************************************************************************)
(* dev_remote.py sendfile                                                  *)
(***************************************************************************)
Send(n, what, try) == up' = up \cup {[n |-> n, what |-> what, copy |-> try]}
AtEnd(p) == p.what = Len(File[p.n]) + 1

sendfile ==
    /\ host.end # "open" /\ host.n + 1 \in Transfers
    /\ host' = [n |-> host.n + 1, what |-> 0, tries |-> 1, end |-> "open"]
    /\ Send(host.n + 1, 0, 1) /\ down' = {}
    /\ UNCHANGED <<agent, written, netFaults>>

\* recv timed out four times over: the next try, but FILE_END is sent only once.
Timeout ==
    /\ host.end = "open"
    /\ IF ~AtEnd(host) /\ host.tries < MaxTries
       THEN host' = [host EXCEPT !.tries = @ + 1] /\ Send(host.n, host.what, host.tries + 1)
       ELSE host' = [host EXCEPT !.end = "failed"] /\ UNCHANGED up
    /\ Fault
    /\ UNCHANGED <<down, agent, written>>

\* A packet for this process. send_reliable waits for the ACK of its own number; after
\* FILE_END the first packet decides.
recv(p) ==
    /\ host.end = "open"
    /\ IF AtEnd(host) THEN
          host' = [host EXCEPT !.end = IF p.type = "OK" THEN "ok" ELSE "failed"] /\ UNCHANGED up
       ELSE IF p.type = "ACK" /\ p.what = host.what THEN
          /\ host' = [host EXCEPT !.what = @ + 1, !.tries = 1]
          /\ Send(host.n, host.what + 1, 1)
       ELSE UNCHANGED <<host, up>>
    /\ UNCHANGED <<agent, written, netFaults>>

-----------------------------------------------------------------------------
(***************************************************************************)
(* dev_agent_input                                                         *)
(***************************************************************************)
\* To the socket the packet came from, if it is still open
Answer(p, type) ==
    down' = IF p.n # host.n \/ host.end # "open" THEN down
            ELSE down \cup {[what |-> p.what, copy |-> p.copy, type |-> type]}

\* Every FILE_BEGIN starts over, also a second copy of the same.
Begin(p) ==
    /\ p.what = 0
    /\ file' = [path |-> p.n, total |-> Len(File[p.n]), got |-> {}, buf |-> file.buf]
    /\ file_active' = TRUE
    /\ Answer(p, "ACK")
    /\ UNCHANGED <<written, netFaults>>

\* A chunk that is there already is acknowledged and dropped.
Chunk(p) ==
    /\ p.what # 0 /\ ~AtEnd(p)
    /\ IF ~file_active THEN UNCHANGED <<file, down>>
       ELSE /\ Answer(p, "ACK")
            /\ file' = IF p.what > file.total \/ p.what \in file.got THEN file
                       ELSE [file EXCEPT !.got = @ \cup {p.what},
                                         !.buf = [i \in DOMAIN @ \cup {p.what} |->
                                                     IF i = p.what THEN File[p.n][i] ELSE @[i]]]
    /\ UNCHANGED <<file_active, written, netFaults>>

Contents == [i \in 1 .. file.total |-> file.buf[i]]
ChecksumFits_Unchecked(p) == TRUE
ChecksumFits(p) == Sum(Contents) = Sum(File[p.n])

End(p) ==
    /\ AtEnd(p)
    /\ file_active' = FALSE /\ UNCHANGED file
    /\ \/ ~file_active /\ Answer(p, "ERRnofile") /\ UNCHANGED <<written, netFaults>>
       \/ /\ file_active /\ Cardinality(file.got) # file.total
          /\ Answer(p, "ERRincomplete") /\ UNCHANGED <<written, netFaults>>
       \/ /\ file_active /\ Cardinality(file.got) = file.total /\ ~ChecksumFits(p)
          /\ Answer(p, "ERRcksum") /\ UNCHANGED <<written, netFaults>>
       \/ /\ file_active /\ Cardinality(file.got) = file.total /\ ChecksumFits(p)
          /\ \/ /\ written' = [path |-> file.path, data |-> Contents]
                /\ Answer(p, "OK") /\ UNCHANGED netFaults
             \/ Fault /\ Answer(p, "ERRwrite") /\ UNCHANGED written

dev_agent_input(p) == (Begin(p) \/ Chunk(p) \/ End(p)) /\ UNCHANGED host

\* DEV_RESTART, or the power button: dev_agent_init
Reboot ==
    /\ Fault
    /\ file_active' = FALSE /\ file' = [file EXCEPT !.got = {}, !.total = 0]
    /\ UNCHANGED <<up, down, host, written>>

-----------------------------------------------------------------------------
Double(p) ==
    /\ Fault /\ p.copy # 0
    /\ up' = up \cup {[p EXCEPT !.copy = 0]}
    /\ UNCHANGED <<down, host, agent, written>>

Next ==
    \/ sendfile \/ Timeout \/ Reboot
    \/ \E p \in up : Double(p)
    \/ \E p \in up : dev_agent_input(p) /\ up' = up \ {p}
    \/ \E p \in down : recv(p) /\ down' = down \ {p}

Spec == Init /\ [][Next]_vars

-----------------------------------------------------------------------------
TypeOK ==
    /\ host.end \in {"open", "ok", "failed"} /\ file_active \in BOOLEAN
    /\ written.path \in Transfers \cup {0}
    /\ netFaults \in 0 .. MaxNetFaults

\* A transfer that reports OK has written its own contents, whatever was lost, doubled or
\* still on its way from an earlier one: chunks of another file that were taken for its own
\* are found by the checksum.
OkMeansWritten == host.end = "ok" => written.data = File[host.n]

\* Nothing the table can hold, of as many chunks as a file has, is taken for a file it is not.
ChecksumTells ==
    \A n, m \in Transfers :
        \A s \in [1 .. Len(File[m]) -> UNION {Range(File[k]) : k \in Transfers}] :
            /\ \A i \in 1 .. Len(s) : \E k \in Transfers : i <= Len(File[k]) /\ s[i] = File[k][i]
            /\ Sum(s) = Sum(File[n])
            => s = File[n]

\* After the answer OK another file takes its FILE_BEGIN, all its chunks and its FILE_END
\* to be written, each a copy that a fault has left in the network.
FewFaults == \A n \in Transfers : MaxNetFaults <= Len(File[n]) + 1
==============================================================================
