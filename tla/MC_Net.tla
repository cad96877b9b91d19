------------------------------- MODULE MC_Net -------------------------------
(***************************************************************************)
(* The protocol machines of net/ in one run. They share no state (each     *)
(* handler finds its own control block under the lock of net.c), so a      *)
(* behaviour lets one of them move, chosen at the start, and the rest      *)
(* stays where it began: every property is checked over every behaviour    *)
(* of its machine.                                                         *)
(***************************************************************************)
EXTENDS Tcp

CONSTANTS
    Servers, LeaseTime, Xids, NoIp, DhcpFaults,
    DnsNames, Ids, DNS_MAX_RTX, MaxQueries,
    Pcbs, MaxRequests

\* A pool, a name and a number to begin with; no server's address is NoIp.
ASSUME NetAssumption ==
    /\ Pcbs # {} /\ DnsNames # {} /\ Ids # {}
    /\ DNS_MAX_RTX \in Nat /\ MaxQueries \in Nat /\ MaxRequests \in Nat
    /\ LeaseTime \in Nat /\ NoIp \notin Servers

VARIABLES
    part,
    g_state, g_xid, g_server_id, nif_ip, age, idle, begun, slack, up, left, taken, packets, troubles,
    s_q, questions, replies, queries, result,
    s_pcbs, s_h, requests, answer

C == INSTANCE Dhcp WITH MaxFaults <- DhcpFaults
D == INSTANCE Dns
H == INSTANCE Http

MCWritten == [e \in Ends |-> IF e = Client THEN 2 ELSE 1]

NetInit ==
    /\ part \in {"tcp", "dhcp", "dns", "http"}
    /\ Init /\ C!DhcpInit /\ D!DnsInit /\ H!HttpInit

tcp == <<pcb, wire, wrote, got, opened, faults>>
dhcp == <<g_state, g_xid, g_server_id, nif_ip, age, idle, begun, slack, up, left, taken, packets, troubles>>
dns == <<s_q, questions, replies, queries, result>>
http == <<s_pcbs, s_h, requests, answer>>
net_vars == <<part, tcp, dhcp, dns, http>>

InTcp(A) == part = "tcp" /\ A /\ UNCHANGED <<part, dhcp, dns, http>>
InDhcp(A) == part = "dhcp" /\ A /\ UNCHANGED <<part, tcp, dns, http>>
InDns(A) == part = "dns" /\ A /\ UNCHANGED <<part, tcp, dhcp, http>>
InHttp(A) == part = "http" /\ A /\ UNCHANGED <<part, tcp, dhcp, dns>>

NetNext == InTcp(Next) \/ InDhcp(C!DhcpNext) \/ InDns(D!DnsNext) \/ InHttp(H!HttpNext)

NetSpec ==
    /\ NetInit /\ [][NetNext]_net_vars
    /\ WF_net_vars(InTcp(Works))
    /\ WF_net_vars(InDhcp(C!dhcp_start)) /\ WF_net_vars(InDhcp(C!dhcp_tick)) /\ WF_net_vars(InDhcp(C!Pass))
    /\ WF_net_vars(InDhcp(C!Vanish)) /\ WF_net_vars(InDhcp(C!Taken))
    /\ \A s \in Servers : WF_net_vars(InDhcp(C!Serve(s))) /\ WF_net_vars(InDhcp(C!GiveBack(s)))
    /\ WF_net_vars(InDns(D!dns_tick))
    /\ WF_net_vars(InHttp(H!http_tick))
    /\ \A p \in Pcbs : WF_net_vars(InHttp(H!Connected(p) \/ H!Refused(p)))

-----------------------------------------------------------------------------
LeaseSound == C!LeaseSound
OwnName == D!OwnName
OwnAnswer == H!OwnAnswer

\* Every machine gets done, again and again: the stream has arrived and both ends have
\* let go, the client has a lease, every query and every request has had its callback.
GetsDone ==
    []<>(/\ part = "tcp" => AllArrived
         /\ part = "dhcp" => C!HasLease
         /\ part = "dns" => D!AllAnswered
         /\ part = "http" => H!AllAnswered)
=============================================================================
