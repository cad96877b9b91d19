--------------------------------- MODULE Dns ---------------------------------
(***************************************************************************)
(* net/dns.c: one query at a time, retransmitted by dns_tick; answers may  *)
(* be lost, late, repeated, refused or without an address. A callback may  *)
(* ask for the next name at once. Transaction numbers come from the clock  *)
(* (16 bits of a multiple of it) and may meet again.                       *)
(***************************************************************************)
EXTENDS Naturals, Sequences

CONSTANTS
    DnsNames,
    Ids,          \* transaction numbers
    DNS_MAX_RTX,
    MaxQueries

Queries == 1 .. MaxQueries

VARIABLES
    s_q,          \* active, id, name, retries
    questions, replies,   \* on the way
    queries,      \* history: the names of the queries accepted so far
    result        \* history: what the callback of each query was told

dns_vars == <<s_q, questions, replies, queries, result>>

DnsInit ==
    /\ s_q = [active |-> FALSE, id |-> CHOOSE i \in Ids : TRUE,
              name |-> CHOOSE n \in DnsNames : TRUE, retries |-> 0]
    /\ questions = {} /\ replies = {}
    /\ queries = <<>>
    /\ result = [q \in Queries |-> <<>>]

-----------------------------------------------------------------------------
send_query(q) == questions' = questions \cup {[id |-> q.id, name |-> q.name]}

\* dns_resolve; a name that cannot be encoded is refused before anything changes.
dns_resolve ==
    /\ Len(queries) < MaxQueries
    /\ \E n \in DnsNames, i \in Ids :
          /\ s_q' = [active |-> TRUE, id |-> i, name |-> n, retries |-> 0]
          /\ send_query(s_q')
          /\ queries' = Append(queries, n)
Resolve == ~s_q.active /\ dns_resolve /\ UNCHANGED <<replies, result>>

\* finish: active is cleared before the callback, which may resolve again.
finish(told) ==
    /\ result' = [result EXCEPT ![Len(queries)] = Append(@, told)]
    /\ \/ dns_resolve
       \/ s_q' = [s_q EXCEPT !.active = FALSE] /\ UNCHANGED <<questions, queries>>

\* An answer to another question, one with an error, and one without an A record all
\* end the query; an answer with another number does not.
Failed == [ok |-> FALSE, ip |-> s_q.name]
\* Mutant: the question in the answer is not compared.
Echoes_Any(r) == TRUE
Echoes(r) == r.name = s_q.name
dns_input(r) ==
    IF ~s_q.active \/ r.id # s_q.id THEN UNCHANGED <<s_q, questions, queries, result>>
    ELSE IF r.has /\ Echoes(r) THEN finish([ok |-> TRUE, ip |-> r.name])
    ELSE finish(Failed)
Receive(again) ==
    \E r \in replies :
        /\ dns_input(r)
        /\ replies' = IF again THEN replies ELSE replies \ {r}

\* DNS_TIMEOUT_MS have passed.
dns_tick ==
    /\ s_q.active
    /\ IF s_q.retries + 1 > DNS_MAX_RTX THEN finish(Failed)
       ELSE /\ s_q' = [s_q EXCEPT !.retries = @ + 1]
            /\ send_query(s_q)
            /\ UNCHANGED <<queries, result>>
    /\ UNCHANGED replies

\* The server answers with the address of the name, written as the name, or without one.
Server ==
    /\ \E q \in questions, has \in BOOLEAN :
          /\ questions' = questions \ {q}
          /\ replies' = replies \cup {[id |-> q.id, name |-> q.name, has |-> has]}
    /\ UNCHANGED <<s_q, queries, result>>
LoseOne ==
    /\ \/ \E q \in questions : questions' = questions \ {q} /\ UNCHANGED replies
       \/ \E r \in replies : replies' = replies \ {r} /\ UNCHANGED questions
    /\ UNCHANGED <<s_q, queries, result>>

DnsNext == Resolve \/ Receive(FALSE) \/ Receive(TRUE) \/ dns_tick \/ Server \/ LoseOne
DnsSpec == DnsInit /\ [][DnsNext]_dns_vars
FairSpec == DnsSpec /\ WF_dns_vars(dns_tick)

-----------------------------------------------------------------------------
(***************************************************************************)
(* Properties                                                              *)
(***************************************************************************)
\* Late, repeated and mixed-up answers included, a callback is called once, and the
\* address it is given is that of the name it asked for.
OwnName ==
    \A q \in Queries :
        /\ Len(result[q]) <= 1
        /\ result[q] # <<>> /\ result[q][1].ok => result[q][1].ip = queries[q]

\* Every query ends: dns_tick gives up after its retransmissions.
AllAnswered == \A q \in Queries : Len(queries) >= q => result[q] # <<>>
QueryEnds == []<>AllAnswered
=============================================================================
