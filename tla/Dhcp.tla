-------------------------------- MODULE Dhcp --------------------------------
(***************************************************************************)
(* net/dhcp.c: the client between servers that offer, grant, renew and     *)
(* refuse a lease, over a network that loses, delays and repeats packets.  *)
(* Each handler runs under the lock of net.c and is one action. Time is    *)
(* counted in retransmission intervals (1 s), and the poll loop calls      *)
(* dhcp_tick at least once in each of them.                                *)
(***************************************************************************)
EXTENDS Naturals, FiniteSets

CONSTANTS
    Servers,    \* each of them has one address to give, named like it
    LeaseTime,  \* of every lease, in units
    Xids,       \* how many transaction numbers there are
    MaxFaults,  \* bound on lost and repeated packets, servers that leave, addresses given away
    NoIp        \* nif->ip = 0, and no server

T1 == LeaseTime \div 2
T2 == (7 * LeaseTime) \div 8

VARIABLES
    g_state, g_xid, g_server_id, nif_ip,
    age,        \* units since g_bound_ms
    idle,       \* has a unit passed since g_last_tx_ms?
    begun,      \* units since the transaction g_xid began
    slack,      \* history: begun when the lease was taken
    up,         \* of a server: does it answer?
    left,       \* of a server: the rest of the lease it has granted to us
    taken,      \* of a server: has it given its address to another host?
    packets,    \* on the way
    troubles

lease == <<g_server_id, nif_ip, age, slack>>
client == <<g_state, g_xid, lease, idle, begun>>
servers == <<up, left, taken>>
dhcp_vars == <<client, servers, packets, troubles>>

Renewing == {"RENEWING", "REBINDING"}
Leased == g_state \in {"BOUND"} \cup Renewing

DhcpInit ==
    /\ g_state = "INIT" /\ g_xid = 0 /\ g_server_id = NoIp /\ nif_ip = NoIp
    /\ age = 0 /\ idle = FALSE /\ begun = 0 /\ slack = 0
    /\ up = [s \in Servers |-> TRUE]
    /\ left = [s \in Servers |-> 0]
    /\ taken = [s \in Servers |-> FALSE]
    /\ packets = {} /\ troubles = 0

-----------------------------------------------------------------------------
(***************************************************************************)
(* The client                                                              *)
(***************************************************************************)
\* Unicast to the server of the lease when renewing, else broadcast. Only the first
\* REQUEST names a server; later ones name the address in use.
send_msg(rest, type, xid, st, sid) ==
    /\ packets' = rest \cup
          {[type |-> type, xid |-> xid, at |-> s,
            id |-> IF st = "REQUESTING" THEN sid ELSE NoIp,
            ciaddr |-> IF st \in Renewing THEN nif_ip ELSE NoIp]
              : s \in IF st = "RENEWING" THEN {sid} ELSE Servers}
    /\ idle' = FALSE

\* net_now_ms() in g_xid: a number that no packet on the way has, or, in the
\* millisecond in which the last transaction began, its number again.
NewXids == {x \in 0 .. Xids - 1 : x # g_xid /\ \A p \in packets : p.xid # x}
NewXid(x) == x \in NewXids /\ \A y \in NewXids : x <= y
SameXid(x) == begun = 0 /\ x = g_xid

Counts(n) == troubles' = troubles + n /\ troubles' <= MaxFaults
\* With n troubles so far in the step; a number that comes again is one of them.
NewTransaction(x, n) ==
    /\ (NewXid(x) /\ Counts(n)) \/ (SameXid(x) /\ Counts(n + 1))
    /\ g_xid' = x /\ begun' = 0

Discover(rest, n) ==
    \E x \in 0 .. Xids - 1 :
        /\ NewTransaction(x, n)
        /\ nif_ip' = NoIp /\ age' = 0 /\ slack' = 0
        /\ g_state' = "SELECTING"
        /\ send_msg(rest, "DISCOVER", x, "SELECTING", NoIp)
        /\ UNCHANGED g_server_id
Renew(st) ==
    \E x \in 0 .. Xids - 1 :
        /\ NewTransaction(x, 0)
        /\ g_state' = st
        /\ send_msg(packets, "REQUEST", x, st, g_server_id)
        /\ UNCHANGED lease
Resend ==
    /\ send_msg(packets, IF g_state = "SELECTING" THEN "DISCOVER" ELSE "REQUEST",
                g_xid, g_state, g_server_id)
    /\ UNCHANGED <<g_state, g_xid, lease, begun, troubles>>

\* Called once ("einmal aufrufen (nach net_init)", dhcp.h:6), at boot.
dhcp_start == g_state = "INIT" /\ Discover(packets, 0) /\ UNCHANGED servers

Expired == Leased /\ age >= LeaseTime
RebindDue == g_state \in {"BOUND", "RENEWING"} /\ age >= T2
RenewDue == g_state = "BOUND" /\ age >= T1
ResendDue == g_state \notin {"INIT", "BOUND"} /\ idle
TickDue == Expired \/ RebindDue \/ RenewDue \/ ResendDue

dhcp_tick ==
    /\ \/ Expired /\ Discover(packets, 0)
       \/ ~Expired /\ RebindDue /\ Renew("REBINDING")
       \/ ~Expired /\ ~RebindDue /\ RenewDue /\ Renew("RENEWING")
       \/ ~Expired /\ ~RebindDue /\ ResendDue /\ Resend
    /\ UNCHANGED servers

dhcp_renew == g_state = "BOUND" /\ Renew("RENEWING") /\ UNCHANGED servers

\* dhcp_input: p is a reply and rest what stays on the way.
TakeOffer(p, rest) ==
    /\ p.type = "OFFER" /\ g_state = "SELECTING"
    /\ g_state' = "REQUESTING" /\ g_server_id' = p.from
    /\ send_msg(rest, "REQUEST", g_xid, "REQUESTING", p.from)
    /\ UNCHANGED <<g_xid, nif_ip, age, slack, begun>>
apply_lease(p, rest) ==
    /\ p.type = "ACK" /\ g_state \in {"REQUESTING"} \cup Renewing
    /\ g_state' = "BOUND" /\ g_server_id' = p.from /\ nif_ip' = p.from
    /\ age' = 0 /\ slack' = begun
    /\ packets' = rest
    /\ UNCHANGED <<g_xid, idle, begun>>
Refused(p, rest, n) ==
    /\ p.type = "NAK" /\ g_state \notin {"INIT", "BOUND"}
    /\ Discover(rest, n)
IsReply(p) == p.type \in {"OFFER", "ACK", "NAK"}
\* Mutant: the transaction number is not looked at.
Answers_Any(p) == IsReply(p)
Answers(p) == IsReply(p) /\ p.xid = g_xid

\* The packet comes n more times.
dhcp_input(n) ==
    \E p \in packets :
        /\ Answers(p)
        /\ LET rest == IF n = 0 THEN packets \ {p} ELSE packets IN
           \/ TakeOffer(p, rest) /\ Counts(n)
           \/ apply_lease(p, rest) /\ Counts(n)
           \/ Refused(p, rest, n)
        /\ UNCHANGED servers
Taken == dhcp_input(0)

-----------------------------------------------------------------------------
(***************************************************************************)
(* Servers, network and time                                               *)
(***************************************************************************)
Reply(p, s, type) == packets' = (packets \ {p}) \cup {[type |-> type, xid |-> p.xid, from |-> s, at |-> NoIp]}
Serve(s) ==
    /\ up[s]
    /\ \E p \in packets :
          /\ p.at = s
          /\ \/ p.type = "DISCOVER" /\ ~taken[s] /\ Reply(p, s, "OFFER") /\ UNCHANGED left
             \/ p.type = "DISCOVER" /\ taken[s] /\ packets' = packets \ {p} /\ UNCHANGED left
             \/ p.type = "REQUEST" /\ s \in {p.id, p.ciaddr} /\ ~taken[s]
                /\ Reply(p, s, "ACK") /\ left' = [left EXCEPT ![s] = LeaseTime]
             \/ p.type = "REQUEST" /\ s \in {p.id, p.ciaddr} /\ taken[s]
                /\ Reply(p, s, "NAK") /\ UNCHANGED left
             \/ p.type = "REQUEST" /\ s \notin {p.id, p.ciaddr}   \* another server's
                /\ \/ p.ciaddr # NoIp /\ Reply(p, s, "NAK")
                   \/ packets' = packets \ {p}
                /\ UNCHANGED left
    /\ UNCHANGED <<client, up, taken, troubles>>

Trouble == Counts(1)
GiveAway(s) ==
    /\ left[s] = 0 /\ ~taken[s] /\ Trouble
    /\ taken' = [taken EXCEPT ![s] = TRUE]
    /\ UNCHANGED <<client, up, left, packets>>
GiveBack(s) ==
    /\ taken[s]
    /\ taken' = [taken EXCEPT ![s] = FALSE]
    /\ UNCHANGED <<client, up, left, packets, troubles>>
\* A server goes while we have a lease; one of them stays. (One that goes during
\* REQUESTING leaves the client there: nothing leads back to SELECTING.)
Leave(s) ==
    /\ Leased /\ up[s] /\ (\E o \in Servers \ {s} : up[o]) /\ Trouble
    /\ up' = [up EXCEPT ![s] = FALSE]
    /\ UNCHANGED <<client, left, taken, packets>>

Lose == Trouble /\ (\E p \in packets : packets' = packets \ {p}) /\ UNCHANGED <<client, servers>>
\* Packets of an old transaction, and what nobody takes, are ignored.
Vanish ==
    /\ \E p \in packets :
          /\ \/ ~IsReply(p) /\ ~up[p.at]
             \/ IsReply(p) /\ (p.xid # g_xid \/ g_state = "BOUND" \/ (p.type = "OFFER" /\ g_state # "SELECTING")
                                \/ (p.type = "ACK" /\ g_state = "SELECTING"))
          /\ packets' = packets \ {p}
    /\ UNCHANGED <<client, servers, troubles>>

Less(n) == IF n = 0 THEN 0 ELSE n - 1
\* A packet that takes longer than a unit is late.
Pass ==
    /\ ~TickDue /\ g_state # "INIT"
    /\ IF packets = {} THEN UNCHANGED troubles ELSE Trouble
    /\ age' = IF Leased THEN age + 1 ELSE age
    /\ idle' = TRUE
    /\ begun' = IF begun < LeaseTime THEN begun + 1 ELSE begun
    /\ left' = [s \in Servers |-> Less(left[s])]
    /\ UNCHANGED <<g_state, g_xid, g_server_id, nif_ip, slack, up, taken, packets>>

DhcpNext ==
    \/ dhcp_start \/ dhcp_tick \/ dhcp_renew
    \/ Taken
    \/ dhcp_input(1)
    \/ \E s \in Servers : Serve(s) \/ GiveAway(s) \/ GiveBack(s) \/ Leave(s)
    \/ Lose \/ Vanish \/ Pass

DhcpSpec == DhcpInit /\ [][DhcpNext]_dhcp_vars
Fairness ==
    /\ WF_dhcp_vars(dhcp_start) /\ WF_dhcp_vars(dhcp_tick) /\ WF_dhcp_vars(Pass) /\ WF_dhcp_vars(Vanish)
    /\ WF_dhcp_vars(Taken)
    /\ \A s \in Servers : WF_dhcp_vars(Serve(s)) /\ WF_dhcp_vars(GiveBack(s))
FairSpec == DhcpSpec /\ Fairness

-----------------------------------------------------------------------------
(***************************************************************************)
(* Properties                                                              *)
(***************************************************************************)
\* An address is in use exactly while there is a lease for it; late, repeated and
\* refused answers, NAKs and manual renewals included, it is never kept beyond its end.
LeaseHeld == (nif_ip # NoIp <=> Leased) /\ age <= LeaseTime

\* The lease was granted in the transaction that took it, so it outlives the server's
\* by no more than that transaction lasted: an answer of an older one never extends it.
LeaseFresh == Leased => LeaseTime - age <= left[nif_ip] + slack

\* So nobody else has been given the address, unless the lease is as near to its end
\* as the transaction was long that took it: the client counts from the ACK
\* (g_bound_ms), the server from when it sent it.
NotGivenAway == Leased /\ age + slack < LeaseTime => ~taken[nif_ip]

\* What the client believes of its lease is true (dhcp.c, apply_lease and dhcp_tick).
LeaseSound == LeaseHeld /\ LeaseFresh /\ NotGivenAway

\* Whatever gets lost, the client has a lease again and again, also when the server of
\* its lease is gone for good.
HasLease == g_state = "BOUND"
LeasedAgain == []<>HasLease
=============================================================================
