------------------------------ MODULE NetProofs ------------------------------
(***************************************************************************)
(* Proofs about the protocol machines of net/ that MC_Net runs: DNS, HTTP, *)
(* DHCP and TCP, for every number of names, transaction numbers, queries,  *)
(* requests, control blocks, servers, written bytes and lost, repeated or  *)
(* reordered packets.                                                      *)
(***************************************************************************)
EXTENDS MC_Net, FiniteSetTheorems, WellFoundedInduction, TLAPS

-----------------------------------------------------------------------------
(***************************************************************************)
(* Dns: the query that is active is the last one accepted, and its         *)
(* callback is still to come.                                              *)
(***************************************************************************)
DnsType ==
    /\ s_q \in [active : BOOLEAN, id : Ids, name : DnsNames, retries : Nat]
    /\ queries \in Seq(DnsNames)
    /\ Len(queries) <= MaxQueries
    /\ result \in [D!Queries -> Seq([ok : BOOLEAN, ip : DnsNames])]
    /\ \A r \in replies : r.name \in DnsNames
    /\ \A q \in questions : q.name \in DnsNames
DnsActive ==
    s_q.active =>
        /\ Len(queries) \in D!Queries
        /\ s_q.name = queries[Len(queries)]
        /\ result[Len(queries)] = <<>>
DnsFuture == \A q \in D!Queries : q > Len(queries) => result[q] = <<>>
DnsInv == DnsType /\ DnsActive /\ DnsFuture /\ D!OwnName

LEMMA DnsBegins == ASSUME D!DnsInit PROVE DnsInv
<1> USE NetAssumption DEF D!DnsInit, D!Queries
<1>1. DnsType
  BY DEF DnsType
<1>2. DnsActive /\ DnsFuture
  BY DEF DnsActive, DnsFuture
<1>3. D!OwnName
  BY DEF D!OwnName
<1> QED BY <1>1, <1>2, <1>3 DEF DnsInv

\* A query is accepted: the next number, and no callback yet.
LEMMA DnsAsks ==
    ASSUME DnsType, DnsFuture, D!OwnName, D!dns_resolve,
           NEW res \in [D!Queries -> Seq([ok : BOOLEAN, ip : DnsNames])], result' = res,
           \A q \in D!Queries : q > Len(queries) => res[q] = <<>>,
           \A q \in D!Queries : q <= Len(queries) =>
               /\ Len(res[q]) <= 1
               /\ res[q] # <<>> /\ res[q][1].ok => res[q][1].ip = queries[q],
           \A r \in replies' : r.name \in DnsNames
    PROVE  DnsInv'
<1>1. PICK n \in DnsNames, i \in Ids :
          /\ s_q' = [active |-> TRUE, id |-> i, name |-> n, retries |-> 0]
          /\ D!send_query(s_q')
          /\ queries' = Append(queries, n)
  BY Zenon DEF D!dns_resolve
<1>2. Len(queries) < MaxQueries /\ Len(queries) \in Nat /\ MaxQueries \in Nat
  BY NetAssumption DEF D!dns_resolve, DnsType
<1>3. /\ queries' \in Seq(DnsNames) /\ Len(queries') = Len(queries) + 1
      /\ queries'[Len(queries) + 1] = n
      /\ \A q \in 1 .. Len(queries) : queries'[q] = queries[q]
  BY <1>1 DEF DnsType
<1>4. DnsType'
  <2>1. s_q' \in [active : BOOLEAN, id : Ids, name : DnsNames, retries : Nat]
    BY <1>1
  <2>2. \A q \in questions' : q.name \in DnsNames
    BY <1>1 DEF DnsType, D!send_query
  <2>3. Len(queries') <= MaxQueries
    BY <1>2, <1>3
  <2> QED BY <1>3, <2>1, <2>2, <2>3 DEF DnsType
<1>5. DnsActive' /\ DnsFuture'
  BY <1>1, <1>2, <1>3 DEF DnsActive, DnsFuture, D!Queries
<1>6. D!OwnName'
  <2> SUFFICES ASSUME NEW q \in D!Queries
               PROVE  /\ Len(res[q]) <= 1
                      /\ res[q] # <<>> /\ res[q][1].ok => res[q][1].ip = queries'[q]
    BY DEF D!OwnName
  <2>1. CASE q <= Len(queries)
    BY <1>3, <2>1 DEF D!Queries
  <2>2. CASE q > Len(queries)
    BY <2>2
  <2> QED BY <1>2, <2>1, <2>2 DEF D!Queries
<1> QED BY <1>4, <1>5, <1>6 DEF DnsInv

\* The active query is told its result.
LEMMA DnsTells ==
    ASSUME DnsInv, s_q.active,
           NEW told \in [ok : BOOLEAN, ip : DnsNames], told.ok => told.ip = s_q.name,
           D!finish(told), \A r \in replies' : r.name \in DnsNames
    PROVE  DnsInv'
<1> DEFINE last == Len(queries)
           res == [result EXCEPT ![last] = Append(@, told)]
<1>1. /\ last \in D!Queries /\ s_q.name = queries[last] /\ result[last] = <<>>
      /\ last \in Nat
  BY DEF DnsInv, DnsActive, DnsType
<1>2. res[last] = <<told>> /\ \A q \in D!Queries : q # last => res[q] = result[q]
  BY <1>1 DEF DnsInv, DnsType
<1>3. res \in [D!Queries -> Seq([ok : BOOLEAN, ip : DnsNames])]
  <2>1. <<told>> \in Seq([ok : BOOLEAN, ip : DnsNames])
    OBVIOUS
  <2>2. res = [result EXCEPT ![last] = <<told>>]
    BY <1>1
  <2> QED BY <2>1, <2>2 DEF DnsInv, DnsType
<1>4. result' = res
  BY DEF D!finish
<1>5. \A q \in D!Queries : q > last => res[q] = <<>>
  BY <1>1, <1>2 DEF DnsInv, DnsFuture, D!Queries
<1>6. \A q \in D!Queries :
          /\ Len(res[q]) <= 1
          /\ res[q] # <<>> /\ res[q][1].ok => res[q][1].ip = queries[q]
  BY <1>1, <1>2 DEF DnsInv, D!OwnName
<1> HIDE DEF last, res
<1>7. CASE D!dns_resolve
  BY <1>3, <1>4, <1>5, <1>6, <1>7, DnsAsks DEF DnsInv, last
<1>8. CASE s_q' = [s_q EXCEPT !.active = FALSE] /\ UNCHANGED <<questions, queries>>
  <2>1. DnsType'
    BY <1>3, <1>4, <1>8 DEF DnsInv, DnsType
  <2>2. DnsActive' /\ DnsFuture'
    BY <1>4, <1>5, <1>8 DEF DnsInv, DnsType, DnsActive, DnsFuture, last
  <2>3. D!OwnName'
    BY <1>4, <1>6, <1>8 DEF D!OwnName
  <2> QED BY <2>1, <2>2, <2>3 DEF DnsInv
<1> QED BY <1>7, <1>8 DEF D!finish

LEMMA DnsStep == ASSUME DnsInv, D!DnsNext PROVE DnsInv'
<1>1. CASE D!Resolve
  BY <1>1, DnsAsks DEF D!Resolve, DnsInv, DnsType, DnsFuture, D!OwnName
<1>2. ASSUME NEW again \in BOOLEAN, D!Receive(again) PROVE DnsInv'
  <2>1. PICK r \in replies :
            D!dns_input(r) /\ replies' = IF again THEN replies ELSE replies \ {r}
    BY <1>2 DEF D!Receive
  <2>2. (\A x \in replies' : x.name \in DnsNames) /\ r.name \in DnsNames
    BY <2>1 DEF DnsInv, DnsType
  <2>3. CASE UNCHANGED <<s_q, questions, queries, result>>
    BY <2>2, <2>3 DEF DnsInv, DnsType, DnsActive, DnsFuture, D!OwnName
  <2>4. CASE s_q.active /\ r.has /\ D!Echoes(r) /\ D!finish([ok |-> TRUE, ip |-> r.name])
    BY <2>2, <2>4, DnsTells DEF D!Echoes
  <2>5. CASE s_q.active /\ D!finish(D!Failed)
    BY <2>2, <2>5, DnsTells DEF D!Failed, DnsInv, DnsType
  <2> QED BY <2>1, <2>3, <2>4, <2>5 DEF D!dns_input
<1>3. CASE D!dns_tick
  <2>1. CASE D!finish(D!Failed)
    BY <1>3, <2>1, DnsTells DEF D!dns_tick, D!Failed, DnsInv, DnsType
  <2>2. CASE /\ s_q' = [s_q EXCEPT !.retries = @ + 1] /\ D!send_query(s_q)
             /\ UNCHANGED <<queries, result>>
    <3>1. /\ s_q' \in [active : BOOLEAN, id : Ids, name : DnsNames, retries : Nat]
          /\ s_q'.active = s_q.active /\ s_q'.name = s_q.name
      BY <2>2 DEF DnsInv, DnsType
    <3>2. \A q \in questions' : q.name \in DnsNames
      BY <2>2 DEF D!send_query, DnsInv, DnsType
    <3>3. UNCHANGED <<queries, result, replies>>
      BY <1>3, <2>2 DEF D!dns_tick
    <3> QED BY <3>1, <3>2, <3>3 DEF DnsInv, DnsType, DnsActive, DnsFuture, D!OwnName
  <2> QED BY <1>3, <2>1, <2>2 DEF D!dns_tick
<1>4. CASE D!Server
  <2>1. PICK q \in questions, has \in BOOLEAN :
            /\ questions' = questions \ {q}
            /\ replies' = replies \cup {[id |-> q.id, name |-> q.name, has |-> has]}
    BY <1>4, Zenon DEF D!Server
  <2>2. /\ \A r \in replies' : r.name \in DnsNames
        /\ \A x \in questions' : x.name \in DnsNames
    BY <2>1 DEF DnsInv, DnsType
  <2>3. UNCHANGED <<s_q, queries, result>>
    BY <1>4 DEF D!Server
  <2> QED BY <2>2, <2>3 DEF DnsInv, DnsType, DnsActive, DnsFuture, D!OwnName
<1>5. CASE D!LoseOne
  BY <1>5 DEF D!LoseOne, DnsInv, DnsType, DnsActive, DnsFuture, D!OwnName
<1> QED BY <1>1, <1>2, <1>3, <1>4, <1>5 DEF D!DnsNext

LEMMA DnsInductive == NetSpec => []DnsInv
<1>1. NetInit => DnsInv
  BY DnsBegins DEF NetInit
<1>2. DnsInv /\ [NetNext]_net_vars => DnsInv'
  <2> SUFFICES ASSUME DnsInv, [NetNext]_net_vars PROVE DnsInv'
    OBVIOUS
  <2>1. CASE UNCHANGED dns
    BY <2>1 DEF dns, DnsInv, DnsType, DnsActive, DnsFuture, D!OwnName
  <2>2. D!DnsNext \/ UNCHANGED dns
    BY DEF NetNext, InTcp, InDhcp, InDns, InHttp, net_vars
  <2> QED BY <2>1, <2>2, DnsStep
<1> QED BY <1>1, <1>2, PTL DEF NetSpec

\* However late, repeated or mixed up the answers are: a callback is called once, and the
\* address it gets is that of the name it asked for.
THEOREM NameIsOwn == NetSpec => []OwnName
<1>1. DnsInv => OwnName
  BY DEF DnsInv, OwnName
<1> QED BY <1>1, DnsInductive, PTL

-----------------------------------------------------------------------------
(***************************************************************************)
(* Http: while a request is active, its control block is its own or gone,  *)
(* and the buffer holds its bytes only.                                    *)
(***************************************************************************)
HttpStates == {"free", "SYN_SENT", "ESTABLISHED", "asked", "FIN_WAIT"}
Blocks == [st : HttpStates, of : Nat]
Clients == [active : BOOLEAN, done : BOOLEAN, pcb : Pcbs, buf : SUBSET Nat]
HttpType ==
    /\ s_pcbs \in [Pcbs -> Blocks]
    /\ s_h \in Clients
    /\ requests \in 0 .. MaxRequests
    /\ answer \in [H!Requests -> Seq(SUBSET Nat)]
HttpActive ==
    s_h.active =>
        /\ requests \in H!Requests
        /\ answer[requests] = <<>>
        /\ s_h.buf \subseteq {requests}
        /\ s_pcbs[s_h.pcb].st # "free" => s_pcbs[s_h.pcb].of = requests
HttpFuture == \A r \in H!Requests : r > requests => answer[r] = <<>>
HttpInv == HttpType /\ HttpActive /\ HttpFuture /\ H!OwnAnswer

LEMMA HttpBegins == ASSUME H!HttpInit PROVE HttpInv
<1> USE NetAssumption DEF H!HttpInit, H!Requests, H!Free
<1>1. HttpType
  <2>1. s_pcbs \in [Pcbs -> Blocks]
    BY DEF Blocks, HttpStates
  <2>2. s_h \in Clients
    <3>1. (CHOOSE p \in Pcbs : TRUE) \in Pcbs
      BY Zenon
    <3> QED BY <3>1 DEF Clients
  <2>3. answer \in [H!Requests -> Seq(SUBSET Nat)] /\ requests \in 0 .. MaxRequests
    OBVIOUS
  <2> QED BY <2>1, <2>2, <2>3 DEF HttpType
<1>2. HttpActive /\ HttpFuture
  BY DEF HttpActive, HttpFuture
<1>3. H!OwnAnswer
  BY DEF H!OwnAnswer
<1> QED BY <1>1, <1>2, <1>3 DEF HttpInv

\* A request is accepted: it gets a free block and an empty buffer.
LEMMA HttpAsks ==
    ASSUME HttpType,
           NEW pool \in [Pcbs -> Blocks], NEW held, H!http_get(pool, held),
           NEW ans \in [H!Requests -> Seq(SUBSET Nat)], answer' = ans,
           \A r \in H!Requests : r > requests => ans[r] = <<>>,
           \A r \in H!Requests : Len(ans[r]) <= 1 /\ (ans[r] # <<>> => ans[r][1] \subseteq {r})
    PROVE  HttpInv'
<1>1. PICK p \in Pcbs :
          /\ s_pcbs' = [pool EXCEPT ![p] = [st |-> "SYN_SENT", of |-> requests + 1]]
          /\ s_h' = [active |-> TRUE, done |-> FALSE, pcb |-> p, buf |-> {}]
  BY Zenon DEF H!http_get
<1>2. /\ requests' = requests + 1 /\ requests < MaxRequests
      /\ requests \in Nat /\ MaxRequests \in Nat
  BY NetAssumption DEF H!http_get, HttpType
<1>3. HttpType'
  <2>1. s_pcbs' \in [Pcbs -> Blocks]
    <3>1. [st |-> "SYN_SENT", of |-> requests + 1] \in Blocks
      BY <1>2 DEF Blocks, HttpStates
    <3> QED BY <1>1, <3>1
  <2>2. s_h' \in Clients
    BY <1>1 DEF Clients
  <2> QED BY <1>2, <2>1, <2>2 DEF HttpType
<1>4. HttpActive'
  <2>1. s_h'.buf = {} /\ s_h'.pcb = p /\ s_pcbs'[p].of = requests + 1
    BY <1>1
  <2> QED BY <1>2, <2>1 DEF HttpActive, H!Requests
<1>5. HttpFuture' /\ H!OwnAnswer'
  BY <1>2 DEF HttpFuture, H!OwnAnswer, H!Requests
<1> QED BY <1>3, <1>4, <1>5 DEF HttpInv

\* The active request is told t, and its connection goes on as pool says.
LEMMA HttpTells ==
    ASSUME HttpInv, s_h.active,
           NEW h \in Clients, ~h.active,
           NEW t \in SUBSET {requests},
           NEW pool \in [Pcbs -> Blocks], NEW held,
           H!Callback(h, t, pool, held)
    PROVE  HttpInv'
<1> DEFINE ans == [answer EXCEPT ![requests] = Append(@, t)]
<1>1. requests \in H!Requests /\ answer[requests] = <<>> /\ requests \in Nat /\ t \in SUBSET Nat
  BY DEF HttpInv, HttpActive, HttpType
<1>2. ans[requests] = <<t>> /\ \A r \in H!Requests : r # requests => ans[r] = answer[r]
  BY <1>1 DEF HttpInv, HttpType
<1>3. ans \in [H!Requests -> Seq(SUBSET Nat)]
  <2>1. <<t>> \in Seq(SUBSET Nat)
    BY <1>1
  <2>2. ans = [answer EXCEPT ![requests] = <<t>>]
    BY <1>1
  <2> QED BY <2>1, <2>2 DEF HttpInv, HttpType
<1>4. answer' = ans
  BY DEF H!Callback
<1>5. \A r \in H!Requests : r > requests => ans[r] = <<>>
  BY <1>1, <1>2 DEF HttpInv, HttpFuture
<1>6. \A r \in H!Requests : Len(ans[r]) <= 1 /\ (ans[r] # <<>> => ans[r][1] \subseteq {r})
  <2> HIDE DEF ans
  <2>1. Len(<<t>>) = 1 /\ <<t>>[1] = t
    OBVIOUS
  <2> SUFFICES ASSUME NEW r \in H!Requests
               PROVE  Len(ans[r]) <= 1 /\ (ans[r] # <<>> => ans[r][1] \subseteq {r})
    OBVIOUS
  <2>2. CASE r = requests
    <3>1. ans[r] = <<t>> /\ t \subseteq {r}
      BY <1>2, <2>2
    <3> QED BY <2>1, <3>1
  <2>3. CASE r # requests
    BY <1>2, <2>3 DEF HttpInv, H!OwnAnswer
  <2> QED BY <2>2, <2>3
<1> HIDE DEF ans
<1>7. CASE H!http_get(pool, held)
  BY <1>3, <1>4, <1>5, <1>6, <1>7, HttpAsks DEF HttpInv
<1>8. CASE s_pcbs' = pool /\ s_h' = h /\ UNCHANGED requests
  BY <1>3, <1>4, <1>5, <1>6, <1>8 DEF HttpInv, HttpType, HttpActive, HttpFuture, H!OwnAnswer
<1> QED BY <1>7, <1>8 DEF H!Callback

\* A handler that only moves a connection on.
LEMMA HttpMoves ==
    ASSUME HttpInv, NEW pool \in [Pcbs -> Blocks], H!Ignored(pool),
           \A p \in Pcbs : pool[p].st # "free" => s_pcbs[p].st # "free" /\ pool[p].of = s_pcbs[p].of
    PROVE  HttpInv'
<1>1. s_pcbs' = pool /\ s_h' = s_h /\ requests' = requests /\ answer' = answer
  BY DEF H!Ignored
<1>2. HttpType' /\ HttpFuture' /\ H!OwnAnswer'
  BY <1>1 DEF HttpInv, HttpType, HttpFuture, H!OwnAnswer
<1>3. HttpActive'
  <2>1. s_h.pcb \in Pcbs
    BY DEF HttpInv, HttpType, Clients
  <2> QED BY <1>1, <2>1 DEF HttpInv, HttpActive
<1> QED BY <1>2, <1>3 DEF HttpInv

LEMMA HttpEnded ==
    ASSUME HttpInv
    PROVE  /\ H!Ended \in Clients
           /\ H!EndedDone \in Clients
           /\ ~H!Ended.active /\ ~H!EndedDone.active
BY DEF HttpInv, HttpType, Clients, H!Ended, H!EndedDone

LEMMA HttpReceives == ASSUME HttpInv, NEW p \in Pcbs, H!on_recv(p) PROVE HttpInv'
<1> DEFINE more == s_h.buf \cup {s_pcbs[p].of}
           closed == [s_pcbs EXCEPT ![p].st = "FIN_WAIT"]
           h == [H!EndedDone EXCEPT !.buf = more]
<1>1. s_pcbs[p].st # "free" /\ s_pcbs[p] \in Blocks
  BY DEF H!on_recv, HttpInv, HttpType
<1>0. s_h \in Clients
  BY DEF HttpInv, HttpType
<1>2. CASE ~H!Taken(p)
  <2>1. H!Ignored(s_pcbs)
    BY <1>2 DEF H!on_recv
  <2> QED BY <2>1, HttpMoves DEF HttpInv, HttpType
<1>3. CASE H!Taken(p)
  <2>1. s_h.active /\ p = s_h.pcb
    BY <1>3 DEF H!Taken
  <2>2. s_pcbs[p].of = requests /\ more \subseteq {requests} /\ requests \in Nat
    BY <1>1, <2>1 DEF HttpInv, HttpActive, HttpType
  <2>3. closed \in [Pcbs -> Blocks]
    <3>1. [s_pcbs[p] EXCEPT !.st = "FIN_WAIT"] \in Blocks
      BY <1>1 DEF Blocks, HttpStates
    <3> QED BY <3>1 DEF HttpInv, HttpType
  <2>4. h \in Clients /\ ~h.active
    BY <2>2, HttpEnded DEF Clients
  <2>5. \/ s_h' = [s_h EXCEPT !.buf = more] /\ UNCHANGED <<s_pcbs, requests, answer>>
        \/ H!Callback(h, more, closed, {})
        \/ H!Callback(h, {}, closed, {})
    BY <1>3 DEF H!on_recv
  <2> HIDE DEF more, closed, h
  <2>6. CASE s_h' = [s_h EXCEPT !.buf = more] /\ UNCHANGED <<s_pcbs, requests, answer>>
    <3>1. /\ s_h' \in Clients
          /\ s_h'.active = s_h.active /\ s_h'.pcb = s_h.pcb /\ s_h'.buf = more
      BY <1>0, <2>2, <2>6 DEF Clients
    <3> QED BY <2>2, <2>6, <3>1 DEF HttpInv, HttpType, HttpActive, HttpFuture, H!OwnAnswer
  <2>7. CASE H!Callback(h, more, closed, {})
    BY <2>1, <2>2, <2>3, <2>4, <2>7, HttpTells
  <2>8. CASE H!Callback(h, {}, closed, {})
    BY <2>1, <2>3, <2>4, <2>8, HttpTells
  <2> QED BY <2>5, <2>6, <2>7, <2>8
<1> QED BY <1>2, <1>3

LEMMA HttpStep == ASSUME HttpInv, H!HttpNext PROVE HttpInv'
<1>1. CASE H!Get
  BY <1>1, HttpAsks DEF H!Get, HttpInv, HttpType, HttpFuture, H!OwnAnswer
<1>2. CASE H!http_tick
  BY <1>2, HttpTells, HttpEnded DEF H!http_tick, HttpInv, HttpType
<1>3. ASSUME NEW p \in Pcbs, H!Connected(p) PROVE HttpInv'
  <2> DEFINE st == IF p = s_h.pcb THEN "asked" ELSE "ESTABLISHED"
             pool == [s_pcbs EXCEPT ![p].st = st]
  <2>1. H!Ignored(pool) /\ s_pcbs[p].st = "SYN_SENT"
    BY <1>3 DEF H!Connected
  <2>2. pool \in [Pcbs -> Blocks]
    <3>1. s_pcbs[p] \in Blocks
      BY DEF HttpInv, HttpType
    <3>2. [s_pcbs[p] EXCEPT !.st = st] \in Blocks
      BY <3>1 DEF Blocks, HttpStates
    <3> QED BY <3>2 DEF HttpInv, HttpType
  <2>3. \A q \in Pcbs : pool[q].of = s_pcbs[q].of /\ (q # p => pool[q].st = s_pcbs[q].st)
    BY DEF HttpInv, HttpType
  <2> QED BY <2>1, <2>2, <2>3, HttpMoves
<1>4. ASSUME NEW p \in Pcbs, H!Refused(p) \/ H!Gone(p) PROVE HttpInv'
  <2> DEFINE pool == [s_pcbs EXCEPT ![p] = H!Free]
  <2>1. pool \in [Pcbs -> Blocks]
    <3>1. H!Free \in Blocks
      BY DEF H!Free, Blocks, HttpStates
    <3> QED BY <3>1 DEF HttpInv, HttpType
  <2>2. \A q \in Pcbs : pool[q].st # "free" => pool[q] = s_pcbs[q] /\ s_pcbs[q].st # "free"
    BY DEF HttpInv, HttpType, H!Free
  <2>3. H!Ignored(pool) \/ (s_h.active /\ H!Callback(H!Ended, {}, pool, {p}))
    BY <1>4 DEF H!Refused, H!Gone
  <2> HIDE DEF pool
  <2> QED BY <2>1, <2>2, <2>3, HttpMoves, HttpTells, HttpEnded
<1>5. ASSUME NEW p \in Pcbs, H!on_recv(p) PROVE HttpInv'
  BY <1>5, HttpReceives
<1> QED BY <1>1, <1>2, <1>3, <1>4, <1>5 DEF H!HttpNext

LEMMA HttpInductive == NetSpec => []HttpInv
<1>1. NetInit => HttpInv
  BY HttpBegins DEF NetInit
<1>2. HttpInv /\ [NetNext]_net_vars => HttpInv'
  <2> SUFFICES ASSUME HttpInv, [NetNext]_net_vars PROVE HttpInv'
    OBVIOUS
  <2>1. CASE UNCHANGED http
    BY <2>1 DEF http, HttpInv, HttpType, HttpActive, HttpFuture, H!OwnAnswer
  <2>2. H!HttpNext \/ UNCHANGED http
    BY DEF NetNext, InTcp, InDhcp, InDns, InHttp, net_vars
  <2> QED BY <2>1, <2>2, HttpStep
<1> QED BY <1>1, <1>2, PTL DEF NetSpec

\* A page is made of the bytes of its own connection, and a callback hears of its
\* request once, also when the next request was made inside the callback.
THEOREM PageIsOwn == NetSpec => []OwnAnswer
<1>1. HttpInv => OwnAnswer
  BY DEF HttpInv, OwnAnswer
<1> QED BY <1>1, HttpInductive, PTL

-----------------------------------------------------------------------------
(***************************************************************************)
(* Dhcp: an ACK of the current transaction was granted in it, so what is   *)
(* gone of that lease is no more than the transaction is old.              *)
(***************************************************************************)
DhcpStates == {"INIT", "SELECTING", "REQUESTING", "BOUND", "RENEWING", "REBINDING"}
DhcpType ==
    /\ g_state \in DhcpStates
    /\ age \in 0 .. LeaseTime /\ begun \in 0 .. LeaseTime /\ slack \in Nat
    /\ left \in [Servers -> 0 .. LeaseTime]
DhcpHeld == IF C!Leased THEN nif_ip \in Servers ELSE nif_ip = NoIp
DhcpFresh == C!Leased => LeaseTime - age <= left[nif_ip] + slack
DhcpGranted ==
    \A p \in packets :
        /\ C!IsReply(p) => p.from \in Servers
        /\ p.type = "ACK" /\ p.xid = g_xid => LeaseTime <= left[p.from] + begun
DhcpInv == DhcpType /\ DhcpHeld /\ DhcpFresh /\ DhcpGranted

LEMMA DhcpBegins == ASSUME C!DhcpInit PROVE DhcpInv
<1> USE NetAssumption DEF C!DhcpInit
<1>1. DhcpType
  BY DEF DhcpType, DhcpStates
<1>2. DhcpHeld /\ DhcpFresh /\ DhcpGranted
  BY DEF DhcpHeld, DhcpFresh, DhcpGranted, C!Leased, C!Renewing
<1> QED BY <1>1, <1>2 DEF DhcpInv

\* What the client sends is no reply.
LEMMA DhcpSends ==
    ASSUME NEW rest, NEW type \in {"DISCOVER", "REQUEST"}, NEW x, NEW st, NEW sid,
           C!send_msg(rest, type, x, st, sid)
    PROVE  \A p \in packets' : p \in rest \/ p.type \in {"DISCOVER", "REQUEST"}
BY DEF C!send_msg

\* A new transaction has a number that no packet on the way bears, or that of one as young.
LEMMA DhcpDiscovers ==
    ASSUME DhcpInv, NEW rest \in SUBSET packets, NEW n, C!Discover(rest, n), UNCHANGED left
    PROVE  DhcpInv'
<1>1. PICK x \in 0 .. Xids - 1 :
          /\ C!NewXid(x) \/ C!SameXid(x)
          /\ g_xid' = x /\ begun' = 0
          /\ nif_ip' = NoIp /\ age' = 0 /\ slack' = 0
          /\ g_state' = "SELECTING"
          /\ C!send_msg(rest, "DISCOVER", x, "SELECTING", NoIp)
  BY Zenon DEF C!Discover, C!NewTransaction
<1>2. (\A p \in packets : p.xid # x) \/ (x = g_xid /\ begun = 0)
  BY <1>1 DEF C!NewXid, C!NewXids, C!SameXid
<1>3. \A p \in packets' : p \in packets \/ p.type \in {"DISCOVER", "REQUEST"}
  BY <1>1, DhcpSends
<1>4. DhcpType'
  BY <1>1, NetAssumption DEF DhcpInv, DhcpType, DhcpStates
<1>5. DhcpHeld' /\ DhcpFresh'
  BY <1>1 DEF DhcpHeld, DhcpFresh, C!Leased, C!Renewing
<1>6. DhcpGranted'
  BY <1>1, <1>2, <1>3 DEF DhcpInv, DhcpGranted, C!IsReply
<1> QED BY <1>4, <1>5, <1>6 DEF DhcpInv

LEMMA DhcpRenews ==
    ASSUME DhcpInv, C!Leased, NEW st \in {"RENEWING", "REBINDING"}, C!Renew(st), UNCHANGED left
    PROVE  DhcpInv'
<1>1. PICK x \in 0 .. Xids - 1 :
          /\ C!NewXid(x) \/ C!SameXid(x)
          /\ g_xid' = x /\ begun' = 0 /\ g_state' = st
          /\ C!send_msg(packets, "REQUEST", x, st, g_server_id)
          /\ nif_ip' = nif_ip /\ age' = age /\ slack' = slack
  BY Zenon DEF C!Renew, C!NewTransaction, C!lease
<1>2. (\A p \in packets : p.xid # x) \/ (x = g_xid /\ begun = 0)
  BY <1>1 DEF C!NewXid, C!NewXids, C!SameXid
<1>3. \A p \in packets' : p \in packets \/ p.type \in {"DISCOVER", "REQUEST"}
  BY <1>1, DhcpSends
<1>4. DhcpType'
  BY <1>1, NetAssumption DEF DhcpInv, DhcpType, DhcpStates
<1>5. DhcpHeld' /\ DhcpFresh'
  BY <1>1 DEF DhcpInv, DhcpHeld, DhcpFresh, C!Leased, C!Renewing
<1>6. DhcpGranted'
  BY <1>1, <1>2, <1>3 DEF DhcpInv, DhcpGranted, C!IsReply
<1> QED BY <1>4, <1>5, <1>6 DEF DhcpInv

LEMMA DhcpResends == ASSUME DhcpInv, C!Resend, UNCHANGED left PROVE DhcpInv'
<1>1. /\ g_state' = g_state /\ g_xid' = g_xid /\ begun' = begun
      /\ nif_ip' = nif_ip /\ age' = age /\ slack' = slack
  BY DEF C!Resend, C!lease
<1>2. \A p \in packets' : p \in packets \/ p.type \in {"DISCOVER", "REQUEST"}
  BY DhcpSends DEF C!Resend
<1>3. DhcpType' /\ DhcpHeld' /\ DhcpFresh'
  BY <1>1 DEF DhcpInv, DhcpType, DhcpHeld, DhcpFresh, C!Leased
<1>4. DhcpGranted'
  BY <1>1, <1>2 DEF DhcpInv, DhcpGranted, C!IsReply
<1> QED BY <1>3, <1>4 DEF DhcpInv

LEMMA DhcpTicks == ASSUME DhcpInv, C!dhcp_tick PROVE DhcpInv'
<1>1. UNCHANGED left
  BY DEF C!dhcp_tick, C!servers
<1>2. CASE C!Discover(packets, 0)
  BY <1>1, <1>2, DhcpDiscovers
<1>3. CASE C!RebindDue /\ C!Renew("REBINDING")
  BY <1>1, <1>3, DhcpRenews DEF C!RebindDue, C!Leased, C!Renewing
<1>4. CASE C!RenewDue /\ C!Renew("RENEWING")
  BY <1>1, <1>4, DhcpRenews DEF C!RenewDue, C!Leased
<1>5. CASE C!Resend
  BY <1>1, <1>5, DhcpResends
<1> QED BY <1>2, <1>3, <1>4, <1>5 DEF C!dhcp_tick

\* A reply is taken: an ACK is the lease of its sender, as old as the transaction at most.
LEMMA DhcpTakes == ASSUME DhcpInv, NEW n, C!dhcp_input(n) PROVE DhcpInv'
<1>1. PICK p \in packets :
          /\ C!Answers(p)
          /\ LET rest == IF n = 0 THEN packets \ {p} ELSE packets IN
             C!TakeOffer(p, rest) \/ C!apply_lease(p, rest) \/ C!Refused(p, rest, n)
          /\ UNCHANGED C!servers
  BY DEF C!dhcp_input
<1> DEFINE rest == IF n = 0 THEN packets \ {p} ELSE packets
<1>2. /\ rest \in SUBSET packets /\ left' = left
      /\ C!TakeOffer(p, rest) \/ C!apply_lease(p, rest) \/ C!Refused(p, rest, n)
  BY <1>1 DEF C!servers
<1>3. C!IsReply(p) /\ p.xid = g_xid
  BY <1>1 DEF C!Answers
<1> HIDE DEF rest
<1>4. CASE C!TakeOffer(p, rest)
  <2>1. /\ g_state = "SELECTING" /\ g_state' = "REQUESTING"
        /\ C!send_msg(rest, "REQUEST", g_xid, "REQUESTING", p.from)
        /\ g_xid' = g_xid /\ nif_ip' = nif_ip /\ age' = age /\ slack' = slack /\ begun' = begun
    BY <1>4 DEF C!TakeOffer
  <2>2. \A q \in packets' : q \in packets \/ q.type \in {"DISCOVER", "REQUEST"}
    BY <1>2, <2>1, DhcpSends
  <2>3. DhcpType' /\ DhcpHeld' /\ DhcpFresh'
    BY <1>2, <2>1 DEF DhcpInv, DhcpType, DhcpStates, DhcpHeld, DhcpFresh, C!Leased, C!Renewing
  <2>4. DhcpGranted'
    BY <1>2, <2>1, <2>2 DEF DhcpInv, DhcpGranted, C!IsReply
  <2> QED BY <2>3, <2>4 DEF DhcpInv
<1>5. CASE C!apply_lease(p, rest)
  <2>1. /\ p.type = "ACK" /\ g_state' = "BOUND" /\ nif_ip' = p.from
        /\ age' = 0 /\ slack' = begun /\ packets' = rest /\ g_xid' = g_xid /\ begun' = begun
    BY <1>5 DEF C!apply_lease
  <2>2. p.from \in Servers /\ LeaseTime <= left[p.from] + begun
    BY <1>3, <2>1 DEF DhcpInv, DhcpGranted
  <2>3. DhcpType'
    BY <1>2, <2>1, NetAssumption DEF DhcpInv, DhcpType, DhcpStates
  <2>4. DhcpHeld' /\ DhcpFresh'
    BY <1>2, <2>1, <2>2, NetAssumption DEF DhcpHeld, DhcpFresh, C!Leased
  <2>5. DhcpGranted'
    BY <1>2, <2>1 DEF DhcpInv, DhcpGranted, C!IsReply
  <2> QED BY <2>3, <2>4, <2>5 DEF DhcpInv
<1>6. CASE C!Refused(p, rest, n)
  BY <1>2, <1>6, DhcpDiscovers DEF C!Refused
<1> QED BY <1>2, <1>4, <1>5, <1>6

\* A server answers a packet; only an ACK gives time, and then all of it.
LEMMA DhcpServes == ASSUME DhcpInv, NEW s \in Servers, C!Serve(s) PROVE DhcpInv'
<1>1. PICK p \in packets :
          \/ C!Reply(p, s, "OFFER") /\ UNCHANGED left
          \/ packets' = packets \ {p} /\ UNCHANGED left
          \/ C!Reply(p, s, "ACK") /\ left' = [left EXCEPT ![s] = LeaseTime]
          \/ C!Reply(p, s, "NAK") /\ UNCHANGED left
  BY DEF C!Serve
<1>2. /\ g_state' = g_state /\ g_xid' = g_xid /\ begun' = begun
      /\ nif_ip' = nif_ip /\ age' = age /\ slack' = slack
  BY DEF C!Serve, C!client, C!lease
<1>3. left' = left \/ left' = [left EXCEPT ![s] = LeaseTime]
  BY <1>1
<1>4. \A o \in Servers : left'[o] \in 0 .. LeaseTime /\ left[o] \in 0 .. LeaseTime /\ left[o] <= left'[o]
  BY <1>3, NetAssumption DEF DhcpInv, DhcpType
<1>5. \A q \in packets' :
          \/ q \in packets
          \/ C!IsReply(q) /\ q.from = s /\ (q.type = "ACK" => left'[s] = LeaseTime)
  <2>1. CASE packets' = packets \ {p}
    BY <2>1
  <2>2. ASSUME NEW t \in {"OFFER", "ACK", "NAK"}, C!Reply(p, s, t),
               t = "ACK" => left' = [left EXCEPT ![s] = LeaseTime]
        PROVE  \A q \in packets' :
                   \/ q \in packets
                   \/ C!IsReply(q) /\ q.from = s /\ (q.type = "ACK" => left'[s] = LeaseTime)
    <3>1. left \in [Servers -> 0 .. LeaseTime]
      BY DEF DhcpInv, DhcpType
    <3> QED BY <2>2, <3>1 DEF C!Reply, C!IsReply
  <2> QED BY <1>1, <2>1, <2>2
<1>6. DhcpType'
  BY <1>2, <1>3, NetAssumption DEF DhcpInv, DhcpType
<1>7. DhcpHeld'
  BY <1>2 DEF DhcpInv, DhcpHeld, C!Leased
<1>8. DhcpFresh'
  BY <1>2, <1>4, NetAssumption DEF DhcpInv, DhcpType, DhcpHeld, DhcpFresh, C!Leased
<1>9. DhcpGranted'
  <2> SUFFICES ASSUME NEW q \in packets'
               PROVE  /\ C!IsReply(q) => q.from \in Servers
                      /\ q.type = "ACK" /\ q.xid = g_xid => LeaseTime <= left'[q.from] + begun
    BY <1>2 DEF DhcpGranted, C!IsReply
  <2>1. CASE q \in packets
    BY <1>4, <2>1, NetAssumption DEF DhcpInv, DhcpGranted, DhcpType, C!IsReply
  <2>2. CASE C!IsReply(q) /\ q.from = s /\ (q.type = "ACK" => left'[s] = LeaseTime)
    BY <2>2, NetAssumption DEF DhcpInv, DhcpType
  <2> QED BY <1>5, <2>1, <2>2
<1> QED BY <1>6, <1>7, <1>8, <1>9 DEF DhcpInv

LEMMA DhcpPasses == ASSUME DhcpInv, C!Pass PROVE DhcpInv'
<1>1. /\ g_state' = g_state /\ g_xid' = g_xid /\ nif_ip' = nif_ip /\ slack' = slack
      /\ packets' = packets
      /\ age' = IF C!Leased THEN age + 1 ELSE age
      /\ begun' = IF begun < LeaseTime THEN begun + 1 ELSE begun
      /\ C!Leased => ~(age >= LeaseTime)
  BY DEF C!Pass, C!TickDue, C!Expired
<1>2. /\ age \in Nat /\ age <= LeaseTime /\ begun \in Nat /\ begun <= LeaseTime /\ slack \in Nat
      /\ LeaseTime \in Nat
  BY NetAssumption DEF DhcpInv, DhcpType
<1>3. left' = [s \in Servers |-> C!Less(left[s])]
  BY DEF C!Pass
<1>4. \A s \in Servers : /\ left[s] \in 0 .. LeaseTime /\ left'[s] \in 0 .. LeaseTime
                         /\ left[s] <= left'[s] + 1
  BY <1>2, <1>3 DEF DhcpInv, DhcpType, C!Less
<1>5. DhcpType'
  <2>1. left' \in [Servers -> 0 .. LeaseTime]
    BY <1>3, <1>4
  <2> QED BY <1>1, <1>2, <2>1 DEF DhcpInv, DhcpType
<1>6. DhcpHeld'
  BY <1>1 DEF DhcpInv, DhcpHeld, C!Leased
<1>7. DhcpFresh'
  BY <1>1, <1>2, <1>4 DEF DhcpInv, DhcpHeld, DhcpFresh, C!Leased
<1>8. DhcpGranted'
  BY <1>1, <1>2, <1>4 DEF DhcpInv, DhcpGranted, C!IsReply
<1> QED BY <1>5, <1>6, <1>7, <1>8 DEF DhcpInv

\* The steps that touch neither client nor leases only take packets away.
LEMMA DhcpRest ==
    ASSUME DhcpInv, packets' \subseteq packets,
           UNCHANGED <<g_state, g_xid, nif_ip, age, slack, begun, left>>
    PROVE  DhcpInv'
<1>1. DhcpType' /\ DhcpHeld' /\ DhcpFresh'
  BY DEF DhcpInv, DhcpType, DhcpHeld, DhcpFresh, C!Leased
<1>2. DhcpGranted'
  BY DEF DhcpInv, DhcpGranted, C!IsReply
<1> QED BY <1>1, <1>2 DEF DhcpInv

LEMMA DhcpStep == ASSUME DhcpInv, C!DhcpNext PROVE DhcpInv'
<1>1. CASE C!dhcp_start
  BY <1>1, DhcpDiscovers DEF C!dhcp_start, C!servers
<1>2. CASE C!dhcp_tick
  BY <1>2, DhcpTicks
<1>3. CASE C!dhcp_renew
  BY <1>3, DhcpRenews DEF C!dhcp_renew, C!servers, C!Leased
<1>4. CASE C!Taken \/ C!dhcp_input(1)
  BY <1>4, DhcpTakes DEF C!Taken
<1>5. ASSUME NEW s \in Servers, C!Serve(s) PROVE DhcpInv'
  BY <1>5, DhcpServes
<1>6. ASSUME NEW s \in Servers, C!GiveAway(s) \/ C!GiveBack(s) \/ C!Leave(s) PROVE DhcpInv'
  BY <1>6, DhcpRest DEF C!GiveAway, C!GiveBack, C!Leave, C!client, C!lease
<1>7. CASE C!Lose
  BY <1>7, DhcpRest DEF C!Lose, C!client, C!lease, C!servers
<1>8. CASE C!Vanish
  <2>1. packets' \subseteq packets
    BY <1>8 DEF C!Vanish
  <2> QED BY <1>8, <2>1, DhcpRest DEF C!Vanish, C!client, C!lease, C!servers
<1>9. CASE C!Pass
  BY <1>9, DhcpPasses
<1> QED BY <1>1, <1>2, <1>3, <1>4, <1>5, <1>6, <1>7, <1>8, <1>9 DEF C!DhcpNext

\* A server that has given its address away has no lease of ours to run.
DhcpAway == taken \in [Servers -> BOOLEAN] /\ \A s \in Servers : taken[s] => left[s] = 0

LEMMA AwayStep == ASSUME DhcpInv, DhcpAway, C!DhcpNext PROVE DhcpAway'
<1> USE DEF DhcpAway
<1>0. left \in [Servers -> 0 .. LeaseTime]
  BY DEF DhcpInv, DhcpType
<1>1. CASE C!dhcp_start \/ C!dhcp_tick \/ C!dhcp_renew \/ C!Taken \/ C!dhcp_input(1)
  BY <1>1 DEF C!dhcp_start, C!dhcp_tick, C!dhcp_renew, C!Taken, C!dhcp_input, C!servers
<1>2. ASSUME NEW s \in Servers, C!Serve(s) PROVE DhcpAway'
  <2>1. taken' = taken /\ (left' = left \/ (~taken[s] /\ left' = [left EXCEPT ![s] = LeaseTime]))
    BY <1>2 DEF C!Serve
  <2>2. CASE left' = left
    BY <2>1, <2>2
  <2>3. CASE ~taken[s] /\ left' = [left EXCEPT ![s] = LeaseTime]
    BY <1>0, <2>1, <2>3
  <2> QED BY <2>1, <2>2, <2>3
<1>3. ASSUME NEW s \in Servers, C!GiveAway(s) \/ C!GiveBack(s) \/ C!Leave(s) PROVE DhcpAway'
  <2>1. left' = left
    BY <1>3 DEF C!GiveAway, C!GiveBack, C!Leave
  <2>2. CASE C!GiveAway(s)
    BY <2>1, <2>2 DEF C!GiveAway
  <2>3. CASE C!GiveBack(s)
    BY <2>1, <2>3 DEF C!GiveBack
  <2>4. CASE C!Leave(s)
    BY <2>1, <2>4 DEF C!Leave
  <2> QED BY <1>3, <2>2, <2>3, <2>4
<1>4. CASE C!Lose \/ C!Vanish
  BY <1>4 DEF C!Lose, C!Vanish, C!servers
<1>5. CASE C!Pass
  BY <1>5 DEF C!Pass, C!Less
<1> QED BY <1>1, <1>2, <1>3, <1>4, <1>5 DEF C!DhcpNext

LEMMA DhcpInductive == NetSpec => [](DhcpInv /\ DhcpAway)
<1>1. NetInit => DhcpInv /\ DhcpAway
  BY DhcpBegins DEF NetInit, C!DhcpInit, DhcpAway
<1>2. DhcpInv /\ DhcpAway /\ [NetNext]_net_vars => DhcpInv' /\ DhcpAway'
  <2> SUFFICES ASSUME DhcpInv, DhcpAway, [NetNext]_net_vars PROVE DhcpInv' /\ DhcpAway'
    OBVIOUS
  <2>1. CASE UNCHANGED dhcp
    BY <2>1, DhcpRest DEF dhcp, DhcpAway
  <2>2. C!DhcpNext \/ UNCHANGED dhcp
    BY DEF NetNext, InTcp, InDhcp, InDns, InHttp, net_vars
  <2> QED BY <2>1, <2>2, DhcpStep, AwayStep
<1> QED BY <1>1, <1>2, PTL DEF NetSpec

\* An address is in use exactly while there is a lease for it; that lease outlives the
\* server's by no more than the transaction lasted that took it, and up to there nobody
\* else has been given the address.
THEOREM LeaseIsTrue == NetSpec => []LeaseSound
<1>1. ASSUME DhcpInv, DhcpAway PROVE LeaseSound
  <2>1. C!LeaseHeld /\ C!LeaseFresh
    BY <1>1, NetAssumption DEF DhcpInv, DhcpType, DhcpHeld, DhcpFresh, C!LeaseHeld, C!LeaseFresh
  <2>2. ASSUME C!Leased, age + slack < LeaseTime PROVE ~taken[nif_ip]
    <3>1. nif_ip \in Servers /\ LeaseTime - age <= left[nif_ip] + slack
      BY <1>1, <2>2 DEF DhcpInv, DhcpHeld, DhcpFresh
    <3>2. left[nif_ip] \in Nat /\ age \in Nat /\ slack \in Nat /\ LeaseTime \in Nat
      BY <1>1, <3>1, NetAssumption DEF DhcpInv, DhcpType
    <3>3. left[nif_ip] # 0
      BY <2>2, <3>1, <3>2
    <3> QED BY <1>1, <3>1, <3>3 DEF DhcpAway
  <2> QED BY <2>1, <2>2 DEF LeaseSound, C!LeaseSound, C!NotGivenAway
<1> QED BY <1>1, DhcpInductive, PTL
-----------------------------------------------------------------------------
(***************************************************************************)
(* Tcp: what the two control blocks and the segments on the way say of the *)
(* streams. Off tells how far a number is from the one of the SYN, so that *)
(* byte b of a stream has the offset b and its FIN the one behind.         *)
(***************************************************************************)
Half == SeqMod \div 2
Off(x) == Minus(x, SeqMod - 2)

\* No stream and no buffer comes near half of the sequence space.
NoWrap == TCP_RCVBUF < Half /\ \A e \in Ends : Written[e] + 3 < Half

Datas == {<<>>} \cup {<<b>> : b \in Nat}
FlagSets == {{"SYN"}, {"SYN", "ACK"}, {"ACK"}, {"FIN", "ACK"}, {"RST"}}
Segments == [to : Ends, flags : FlagSets, seq : Seqs, ack : Seqs, win : Int, data : Datas]

Opening == {"SYN_SENT", "SYN_RCVD"}
FinSent == {"FIN_WAIT_1", "FIN_WAIT_2", "LAST_ACK", "TIME_WAIT", "CLOSED"}
FinTaken == {"CLOSE_WAIT", "LAST_ACK", "TIME_WAIT"}
Reading == {"SYN_RCVD", "ESTABLISHED", "FIN_WAIT_1", "FIN_WAIT_2"}

\* The sending half of p, whose application has written w bytes.
Sender(p, w) ==
    LET u == Off(p.snd_una)
        n == Off(p.snd_nxt)
    IN  /\ p.state \in Opening =>
               p.buf = <<>> /\ w = 0 /\ Off(p.iss) = 0 /\ u = 0 /\ n = 1 /\ ~p.fin_pending
        /\ p.state \notin Opening => u >= 1 /\ \A i \in DOMAIN p.buf : p.buf[i] = u + i - 1
        /\ p.state \in {"ESTABLISHED", "CLOSE_WAIT"} => u + Len(p.buf) = w + 1 /\ u <= n /\ n <= w + 1
        /\ p.state \in FinSent =>
               /\ n = w + 2 /\ Off(p.fin_seq) = w + 1 /\ ~p.fin_pending
               /\ u + Len(p.buf) = w + 1 \/ (u = w + 2 /\ p.buf = <<>>)
        /\ p.state = "FIN_WAIT_1" => u <= w + 1
        /\ p.state = "FIN_WAIT_2" => u = w + 2
        /\ p.state \in {"FIN_WAIT_1", "FIN_WAIT_2", "TIME_WAIT"} => p.me \in Closers
        /\ p.fin_pending /\ p.state = "ESTABLISHED" => p.me \in Closers

\* The receiving half of p, which has handed over g bytes of the v that its peer has
\* written; over tells whether these are all.
Receiver(p, g, v, over) ==
    /\ Off(p.rcv_nxt) < Half
    /\ p.state = "SYN_SENT" => g = 0
    /\ p.state \in Reading => Off(p.rcv_nxt) = g + 1
    /\ p.state \in FinTaken => Off(p.rcv_nxt) = g + 2 /\ g = v /\ over
    /\ \A m \in p.marks : Off(m.seq) = m.byte /\ m.byte \in 1 .. v

\* A segment of e, whose application has written w bytes, its peer's v.
Truthful(s, e, w, v, over, peerOver) ==
    /\ s \in Segments /\ s.to = Peer(e)
    /\ Off(s.ack) < Half
    /\ s.data # <<>> => s.flags = {"ACK"} /\ Off(s.seq) = s.data[1] /\ s.data[1] \in 1 .. w
    /\ "SYN" \in s.flags => Off(s.seq) = 0
    /\ "FIN" \in s.flags =>
           /\ Off(s.seq) = w + 1 /\ over
           /\ e \notin Closers => Off(s.ack) = v + 2 /\ peerOver

\* e will write no more.
Over(e) == opened[e] = 1 /\ (pcb[e] # NoPcb => pcb[e].state \in FinSent)

TcpType ==
    /\ pcb \in [Ends -> Tcbs \cup {NoPcb}]
    /\ wrote \in [Ends -> Nat] /\ \A e \in Ends : wrote[e] <= Written[e]
    /\ got \in [Ends -> Seq(Nat)]
    /\ opened \in [Ends -> {0, 1}]
TcpEnds ==
    \A e \in Ends :
        /\ Len(got[e]) <= wrote[Peer(e)] /\ \A i \in DOMAIN got[e] : got[e][i] = i
        /\ opened[e] = 0 => pcb[e] = NoPcb /\ wrote[e] = 0 /\ got[e] = <<>>
        /\ pcb[e] # NoPcb =>
               /\ pcb[e].me = e
               /\ Sender(pcb[e], wrote[e])
               /\ Receiver(pcb[e], Len(got[e]), wrote[Peer(e)], Over(Peer(e)))
TcpWire ==
    \A s \in wire : Truthful(s, Peer(s.to), wrote[Peer(s.to)], wrote[s.to], Over(Peer(s.to)), Over(s.to))
TcpInv == TcpType /\ TcpEnds /\ TcpWire

LEMMA Numbers ==
    ASSUME NoWrap
    PROVE  /\ SeqMod \in Nat /\ SeqMod > 6 /\ Half \in Nat /\ 2 * Half <= SeqMod
           /\ TCP_RCVBUF \in Nat /\ TCP_RCVBUF < Half
           /\ \A e \in Ends : Written[e] \in Nat /\ Written[e] + 3 < Half
<1>1. SeqMod \in Nat /\ TCP_RCVBUF \in Nat
  BY TcpAssumption
<1>2. \A e \in Ends : Written[e] \in Nat
  BY TcpAssumption DEF Ends, Client, Server
<1>3. Half \in Nat /\ 2 * Half <= SeqMod
  BY <1>1 DEF Half
<1>4. Written[Client] + 3 < Half
  BY DEF NoWrap, Ends
<1>5. Written[Client] \in Nat
  BY <1>2 DEF Ends
<1>6. SeqMod > 6
  BY <1>1, <1>3, <1>4, <1>5
<1> QED BY <1>1, <1>2, <1>3, <1>6 DEF NoWrap

LEMMA OffRange == ASSUME NoWrap, NEW x \in Seqs PROVE Off(x) \in 0 .. SeqMod - 1
BY Numbers DEF Off, Minus, Seqs

LEMMA OffIs ==
    ASSUME NoWrap, NEW x \in Seqs
    PROVE  Off(x) = IF x >= SeqMod - 2 THEN x - (SeqMod - 2) ELSE x + 2
<1>1. SeqMod \in Nat /\ SeqMod > 6 /\ x \in Int
  BY Numbers DEF Seqs
<1>2. CASE x >= SeqMod - 2
  BY <1>1, <1>2 DEF Off, Minus, Seqs
<1>3. CASE x < SeqMod - 2
  <2>1. x - (SeqMod - 2) \in (-SeqMod) .. (-1)
    BY <1>1, <1>3 DEF Seqs
  <2> QED BY <1>1, <1>3, <2>1 DEF Off, Minus
<1> QED BY <1>1, <1>2, <1>3

LEMMA OffSame == ASSUME NoWrap, NEW x \in Seqs, NEW y \in Seqs, Off(x) = Off(y) PROVE x = y
BY Numbers, OffIs DEF Seqs

LEMMA OffPlus ==
    ASSUME NoWrap, NEW x \in Seqs, NEW n \in Nat, Off(x) + n < SeqMod
    PROVE  Plus(x, n) \in Seqs /\ Off(Plus(x, n)) = Off(x) + n
<1>1. SeqMod \in Nat /\ SeqMod > 6 /\ x \in 0 .. SeqMod - 1
  BY Numbers DEF Seqs
<1>2. CASE x + n < SeqMod
  <2>1. Plus(x, n) = x + n
    BY <1>1, <1>2 DEF Plus
  <2>2. x + n \in Seqs
    BY <1>1, <1>2 DEF Seqs
  <2> QED BY <1>1, <2>1, <2>2, OffIs
<1>3. CASE x + n >= SeqMod
  <2>1. n < SeqMod
    BY <1>1, OffRange
  <2>2. x + n \in SeqMod .. (2 * SeqMod - 1)
    BY <1>1, <1>3, <2>1
  <2>3. Plus(x, n) = x + n - SeqMod
    BY <1>1, <2>2 DEF Plus
  <2>4. x + n - SeqMod \in Seqs
    BY <1>1, <2>2 DEF Seqs
  <2> QED BY <1>1, <1>3, <2>1, <2>3, <2>4, OffIs
<1> QED BY <1>1, <1>2, <1>3

LEMMA OffMinus ==
    ASSUME NoWrap, NEW x \in Seqs, NEW y \in Seqs
    PROVE  Minus(x, y) = IF Off(x) >= Off(y) THEN Off(x) - Off(y) ELSE Off(x) - Off(y) + SeqMod
<1>1. SeqMod \in Nat /\ SeqMod > 6 /\ x \in 0 .. SeqMod - 1 /\ y \in 0 .. SeqMod - 1
  BY Numbers DEF Seqs
<1>2. Minus(x, y) = IF x >= y THEN x - y ELSE x - y + SeqMod
  <2>1. CASE x >= y
    BY <1>1, <2>1 DEF Minus
  <2>2. CASE x < y
    <3>1. x - y \in (-SeqMod) .. (-1)
      BY <1>1, <2>2
    <3> QED BY <1>1, <2>2, <3>1 DEF Minus
  <2> QED BY <1>1, <2>1, <2>2
<1> QED BY <1>1, <1>2, OffIs

LEMMA OffOrder ==
    ASSUME NoWrap, NEW x \in Seqs, NEW y \in Seqs, Off(x) < Half, Off(y) < Half
    PROVE  /\ seq_gt(x, y) <=> Off(x) > Off(y)
           /\ seq_geq(x, y) <=> Off(x) >= Off(y)
<1>1. /\ SeqMod \in Nat /\ Half \in Nat /\ 2 * Half <= SeqMod
      /\ Off(x) \in Nat /\ Off(y) \in Nat
  BY Numbers, OffRange
<1>2. seq_gt(x, y) <=> Minus(x, y) \in 1 .. Half - 1
  BY DEF seq_gt, Half
<1>3. seq_gt(x, y) <=> Off(x) > Off(y)
  BY <1>1, <1>2, OffMinus
<1> QED BY <1>1, <1>3, OffSame DEF seq_geq

-----------------------------------------------------------------------------
Runs == [p : Tcbs, out : SUBSET Segments, got : Seq(Nat)]

\* q is p but for its windows, its timer and its delayed ACK.
Like(q, p) ==
    /\ q \in Tcbs
    /\ q.me = p.me /\ q.state = p.state /\ q.iss = p.iss
    /\ q.snd_una = p.snd_una /\ q.snd_nxt = p.snd_nxt /\ q.buf = p.buf
    /\ q.rcv_nxt = p.rcv_nxt /\ q.marks = p.marks
    /\ q.fin_seq = p.fin_seq /\ q.fin_pending = p.fin_pending

LEMMA LikeAck == ASSUME NEW p \in Tcbs PROVE Like([p EXCEPT !.ack_pending = FALSE], p)
BY DEF Tcbs, Like

LEMMA LikeSender == ASSUME NEW p, NEW q, Like(q, p), NEW w PROVE Sender(p, w) => Sender(q, w)
BY DEF Like, Sender

LEMMA LikeReceiver ==
    ASSUME NEW p, NEW q, Like(q, p), NEW g, NEW v, NEW over PROVE Receiver(p, g, v, over) => Receiver(q, g, v, over)
BY DEF Like, Receiver

LEMMA WindowIs == ASSUME NEW p \in Tcbs PROVE Window(p) \in Int
<1>1. Cardinality(p.marks) \in Nat
  <2>1. IsFiniteSet(p.marks)
    BY DEF Tcbs
  <2> QED BY <2>1, FS_CardinalityType
<1>2. Len(p.buf) \in Nat
  BY DEF Tcbs
<1> QED BY <1>1, <1>2, TcpAssumption DEF Window, Min2

\* The segment that p sends.
Segment(p, fl, seq, data) ==
    [to |-> Peer(p.me), flags |-> fl, seq |-> seq, ack |-> p.rcv_nxt, win |-> Window(p), data |-> data]

LEMMA SegmentIs ==
    ASSUME NEW p \in Tcbs, NEW fl \in FlagSets, NEW seq \in Seqs, NEW data \in Datas
    PROVE  Segment(p, fl, seq, data) \in Segments
<1>1. Peer(p.me) \in Ends /\ p.rcv_nxt \in Seqs
  BY DEF Tcbs, Peer, Ends, Client, Server
<1> QED BY <1>1, WindowIs DEF Segment, Segments

LEMMA SegOut ==
    ASSUME NEW r \in Runs, NEW fl \in FlagSets, NEW seq \in Seqs, NEW data \in Datas
    PROVE  LET q == seg_out(r, fl, seq, data) IN
           /\ q \in Runs /\ Like(q.p, r.p) /\ q.got = r.got
           /\ q.out = r.out \cup {Segment(r.p, fl, seq, data)}
<1> DEFINE q == seg_out(r, fl, seq, data)
<1>1. q.p = [r.p EXCEPT !.ack_pending = FALSE] /\ q.got = r.got
  BY DEF seg_out, Runs
<1>2. q.out = r.out \cup {Segment(r.p, fl, seq, data)}
  BY DEF seg_out, Runs, Segment
<1>3. r.p \in Tcbs /\ r.out \subseteq Segments
  BY DEF Runs
<1>4. Like(q.p, r.p)
  BY <1>1, <1>3, LikeAck
<1>5. q.out \in SUBSET Segments
  BY <1>2, <1>3, SegmentIs
<1>6. q.p \in Tcbs
  BY <1>4 DEF Like
<1>7. q \in Runs
  BY <1>5, <1>6 DEF Runs, seg_out
<1> QED BY <1>1, <1>2, <1>4, <1>7

-----------------------------------------------------------------------------
(***************************************************************************)
(* A handler of e, whose application has written w bytes and been given g; *)
(* its peer's has written v, and over tells whether it will write more.    *)
(***************************************************************************)
Ctx(e, w, g, v, over) ==
    /\ NoWrap /\ e \in Ends /\ w \in 0 .. Written[e] /\ v \in 0 .. Written[Peer(e)]
    /\ g \in Nat /\ over \in BOOLEAN

Good(r, e, w, g, v, over) ==
    /\ r \in Runs /\ r.p.me = e
    /\ Sender(r.p, w)
    /\ Receiver(r.p, g + Len(r.got), v, over)
    /\ g + Len(r.got) <= v /\ \A i \in DOMAIN r.got : r.got[i] = g + i
    /\ \A s \in r.out : Truthful(s, e, w, v, r.p.state \in FinSent, over)

LEMMA CtxNumbers ==
    ASSUME NEW e, NEW w, NEW g, NEW v, NEW over, Ctx(e, w, g, v, over)
    PROVE  /\ NoWrap /\ SeqMod \in Nat /\ SeqMod > 6 /\ Half \in Nat /\ 2 * Half <= SeqMod
           /\ TCP_RCVBUF \in Nat /\ TCP_RCVBUF < Half
           /\ w \in Nat /\ v \in Nat /\ g \in Nat /\ w + 3 < Half /\ v + 3 < Half
<1>1. NoWrap /\ e \in Ends /\ Peer(e) \in Ends
  BY DEF Ctx, Peer, Ends
<1>2. w \in 0 .. Written[e] /\ v \in 0 .. Written[Peer(e)] /\ g \in Nat
  BY DEF Ctx
<1>3. Written[e] \in Nat /\ Written[e] + 3 < Half
  BY <1>1, Numbers
<1>4. Written[Peer(e)] \in Nat /\ Written[Peer(e)] + 3 < Half
  BY <1>1, Numbers
<1>5. SeqMod \in Nat /\ SeqMod > 6 /\ Half \in Nat /\ 2 * Half <= SeqMod
  BY <1>1, Numbers
<1>6. TCP_RCVBUF \in Nat /\ TCP_RCVBUF < Half
  BY <1>1, Numbers
<1>7. w \in Nat /\ w + 3 < Half
  BY <1>2, <1>3, <1>5
<1>8. v \in Nat /\ v + 3 < Half
  BY <1>2, <1>4, <1>5
<1> QED BY <1>1, <1>2, <1>5, <1>6, <1>7, <1>8

\* What the fields of a control block are
LEMMA Fields ==
    ASSUME NEW p \in Tcbs
    PROVE  /\ p.snd_una \in Seqs /\ p.snd_nxt \in Seqs /\ p.iss \in Seqs /\ p.rcv_nxt \in Seqs
           /\ p.fin_seq \in Seqs /\ p.buf \in Seq(Nat) /\ p.state \in TcpStates /\ p.me \in Ends
           /\ p.snd_wnd \in Int /\ p.wl1 \in Seqs /\ p.wl2 \in Seqs /\ p.fin_pending \in BOOLEAN
           /\ p.marks \in SUBSET [seq : Seqs, byte : Nat] /\ IsFiniteSet(p.marks)
           /\ p.rtx_count \in Nat /\ p.ack_pending \in BOOLEAN
BY DEF Tcbs, Ends, Client, Server

\* Sending a segment that tells the truth
LEMMA Sends ==
    ASSUME NEW e, NEW w, NEW g, NEW v, NEW over, Ctx(e, w, g, v, over),
           NEW r, Good(r, e, w, g, v, over),
           NEW fl \in FlagSets, NEW seq \in Seqs, NEW data \in Datas,
           Truthful(Segment(r.p, fl, seq, data), e, w, v, r.p.state \in FinSent, over)
    PROVE  LET q == seg_out(r, fl, seq, data) IN
           Good(q, e, w, g, v, over) /\ Like(q.p, r.p) /\ q.got = r.got
<1> DEFINE q == seg_out(r, fl, seq, data)
<1>1. r \in Runs
  BY DEF Good
<1>2. q \in Runs /\ Like(q.p, r.p) /\ q.got = r.got /\ q.out = r.out \cup {Segment(r.p, fl, seq, data)}
  BY <1>1, SegOut
<1> HIDE DEF q
<1>3. q.p.me = e /\ q.p.state = r.p.state
  BY <1>2 DEF Like, Good
<1>4. Sender(q.p, w)
  BY <1>2, LikeSender DEF Good
<1>5. Receiver(q.p, g + Len(q.got), v, over)
  BY <1>2, LikeReceiver DEF Good
<1>6. g + Len(q.got) <= v /\ \A i \in DOMAIN q.got : q.got[i] = g + i
  BY <1>2 DEF Good
<1>7. \A s \in q.out : Truthful(s, e, w, v, q.p.state \in FinSent, over)
  BY <1>2, <1>3 DEF Good
<1>8. Good(q, e, w, g, v, over)
  BY <1>2, <1>3, <1>4, <1>5, <1>6, <1>7 DEF Good
<1> QED BY <1>2, <1>8 DEF q

LEMMA SegmentFields ==
    ASSUME NEW p \in Tcbs, NEW fl, NEW seq, NEW data
    PROVE  LET s == Segment(p, fl, seq, data) IN
           s.to = Peer(p.me) /\ s.flags = fl /\ s.seq = seq /\ s.ack = p.rcv_nxt /\ s.data = data
BY DEF Segment

LEMMA Flags ==
    /\ \A fl \in FlagSets : fl \subseteq {"SYN", "ACK", "FIN", "RST"}
    /\ {"ACK"} \in FlagSets /\ {"SYN"} \in FlagSets /\ {"SYN", "ACK"} \in FlagSets
    /\ {"FIN", "ACK"} \in FlagSets /\ {"RST"} \in FlagSets
    /\ "SYN" \notin {"ACK"} /\ "FIN" \notin {"ACK"} /\ "SYN" \notin {"FIN", "ACK"}
    /\ "FIN" \notin {"SYN"} /\ "FIN" \notin {"SYN", "ACK"} /\ {"FIN", "ACK"} # {"ACK"}
    /\ <<>> \in Datas /\ \A b \in Nat : <<b>> \in Datas /\ <<b>> # <<>> /\ <<b>>[1] = b
BY DEF FlagSets, Datas

LEMMA AckTells ==
    ASSUME NEW e, NEW w, NEW g, NEW v, NEW over, Ctx(e, w, g, v, over),
           NEW r, Good(r, e, w, g, v, over), NEW seq \in Seqs
    PROVE  Truthful(Segment(r.p, {"ACK"}, seq, <<>>), e, w, v, r.p.state \in FinSent, over)
<1>1. r.p \in Tcbs /\ r.p.me = e /\ Off(r.p.rcv_nxt) < Half
  BY DEF Good, Runs, Receiver
<1>2. Segment(r.p, {"ACK"}, seq, <<>>) \in Segments
  BY <1>1, Flags, SegmentIs
<1> QED BY <1>1, <1>2, Flags, SegmentFields DEF Truthful

LEMMA Acks ==
    ASSUME NEW e, NEW w, NEW g, NEW v, NEW over, Ctx(e, w, g, v, over),
           NEW r, Good(r, e, w, g, v, over)
    PROVE  Good(Ack(r), e, w, g, v, over) /\ Like(Ack(r).p, r.p) /\ Ack(r).got = r.got
<1>1. r.p.snd_nxt \in Seqs
  BY Fields DEF Good, Runs
<1> QED BY <1>1, AckTells, Sends, Flags DEF Ack

LEMMA OffNat == ASSUME NoWrap, NEW x \in Seqs PROVE Off(x) \in Nat /\ Off(x) < SeqMod
BY OffRange, Numbers

LEMMA Flying ==
    ASSUME NEW e, NEW w, NEW g, NEW v, NEW over, Ctx(e, w, g, v, over),
           NEW p \in Tcbs, Off(p.snd_una) <= Off(p.snd_nxt)
    PROVE  InFlight(p) = Off(p.snd_nxt) - Off(p.snd_una) /\ InFlight(p) \in Nat
BY CtxNumbers, Fields, OffMinus, OffNat DEF InFlight

\* The control block once its FIN is out as number x.
Fins(p, x) ==
    [p EXCEPT !.fin_seq = x, !.snd_nxt = Plus(@, 1), !.fin_pending = FALSE,
              !.state = IF @ = "CLOSE_WAIT" THEN "LAST_ACK" ELSE "FIN_WAIT_1", !.rtx_count = 0]

LEMMA FinsIs ==
    ASSUME NEW p \in Tcbs, NEW x \in Seqs, Plus(p.snd_nxt, 1) \in Seqs
    PROVE  LET q == Fins(p, x) IN
           /\ q \in Tcbs /\ q.me = p.me /\ q.fin_seq = x /\ q.snd_nxt = Plus(p.snd_nxt, 1)
           /\ ~q.fin_pending /\ q.state = IF p.state = "CLOSE_WAIT" THEN "LAST_ACK" ELSE "FIN_WAIT_1"
           /\ q.snd_una = p.snd_una /\ q.buf = p.buf /\ q.rcv_nxt = p.rcv_nxt /\ q.marks = p.marks
<1> DEFINE st == IF p.state = "CLOSE_WAIT" THEN "LAST_ACK" ELSE "FIN_WAIT_1"
<1>1. st \in TcpStates
  BY DEF TcpStates
<1>2. Fins(p, x) \in Tcbs
  BY <1>1 DEF Fins, Tcbs
<1> QED BY <1>2 DEF Fins, Tcbs

LEMMA TryFin ==
    ASSUME NEW e, NEW w, NEW g, NEW v, NEW over, Ctx(e, w, g, v, over),
           NEW r, Good(r, e, w, g, v, over), r.p.state \in {"ESTABLISHED", "CLOSE_WAIT"}
    PROVE  Good(tcp_try_fin(r), e, w, g, v, over) /\ tcp_try_fin(r).got = r.got
<1> DEFINE p == r.p
           u == Off(p.snd_una)
           n == Off(p.snd_nxt)
           q == tcp_try_fin(r)
           sent == Segment(p, {"FIN", "ACK"}, p.snd_nxt, <<>>)
<1>1. p \in Tcbs /\ p.me = e /\ r \in Runs
  BY DEF Good, Runs
<1>2. u + Len(p.buf) = w + 1 /\ u <= n /\ n <= w + 1 /\ u >= 1 /\ Len(p.buf) \in Nat
      /\ \A i \in DOMAIN p.buf : p.buf[i] = u + i - 1
  BY <1>1, Fields DEF Good, Sender, Opening
<1>3. CASE ~(p.fin_pending /\ InFlight(p) = Len(p.buf))
  BY <1>3 DEF tcp_try_fin
<1>4. CASE p.fin_pending /\ InFlight(p) = Len(p.buf)
  <2>1. u \in Nat /\ n \in Nat /\ InFlight(p) = n - u
    BY <1>1, <1>2, Flying, OffNat, Fields DEF Ctx
  <2>2. n = w + 1
    BY <1>2, <1>4, <2>1, CtxNumbers
  <2>3. p.snd_nxt \in Seqs /\ Plus(p.snd_nxt, 1) \in Seqs /\ Off(Plus(p.snd_nxt, 1)) = w + 2
    BY <1>1, <2>2, CtxNumbers, OffPlus, Fields
  <2> DEFINE s == seg_out(r, {"FIN", "ACK"}, p.snd_nxt, <<>>)
  <2>4. s \in Runs /\ Like(s.p, p) /\ s.got = r.got /\ s.out = r.out \cup {sent}
    BY <1>1, <2>3, Flags, SegOut
  <2>5. q = [s EXCEPT !.p.fin_seq = p.snd_nxt, !.p.snd_nxt = Plus(@, 1), !.p.fin_pending = FALSE,
                      !.p.state = IF @ = "CLOSE_WAIT" THEN "LAST_ACK" ELSE "FIN_WAIT_1",
                      !.p.rtx_count = 0]
    BY <1>4 DEF tcp_try_fin
  <2> HIDE DEF s
  <2>6. q.p = Fins(s.p, p.snd_nxt) /\ q.got = r.got /\ q.out = r.out \cup {sent}
    BY <2>4, <2>5 DEF Runs, Fins, Tcbs
  <2> HIDE DEF q
  <2>7. /\ q.p \in Tcbs /\ q.p.me = e /\ q.p.fin_seq = p.snd_nxt /\ q.p.snd_nxt = Plus(p.snd_nxt, 1)
        /\ ~q.p.fin_pending /\ q.p.state = IF p.state = "CLOSE_WAIT" THEN "LAST_ACK" ELSE "FIN_WAIT_1"
        /\ q.p.snd_una = p.snd_una /\ q.p.buf = p.buf /\ q.p.rcv_nxt = p.rcv_nxt /\ q.p.marks = p.marks
    BY <1>1, <2>3, <2>4, <2>6, FinsIs DEF Like
  <2>8. q \in Runs
    BY <2>4, <2>5, <2>6, <2>7 DEF Runs
  <2>9. Sender(q.p, w)
    BY <1>2, <1>4, <2>2, <2>3, <2>7, CtxNumbers DEF Sender, Opening, FinSent, Good
  <2>10. Receiver(q.p, g + Len(q.got), v, over)
    BY <2>6, <2>7 DEF Good, Receiver, Reading, FinTaken
  <2>11. Truthful(sent, e, w, v, TRUE, over)
    <3>1. sent \in Segments
      BY <1>1, <2>3, Flags, SegmentIs
    <3>2. sent.to = Peer(e) /\ sent.flags = {"FIN", "ACK"} /\ sent.seq = p.snd_nxt
          /\ sent.ack = p.rcv_nxt /\ sent.data = <<>>
      BY <1>1, SegmentFields
    <3>3. Off(p.rcv_nxt) < Half
      BY DEF Good, Receiver
    <3>4. e \notin Closers => Off(p.rcv_nxt) = v + 2 /\ over
      BY <1>1, <1>4 DEF Good, Sender, Receiver, FinTaken
    <3>5. Off(sent.seq) = w + 1
      BY <2>2, <3>2
    <3> HIDE DEF sent, p
    <3> QED BY <3>1, <3>2, <3>3, <3>4, <3>5, Flags DEF Truthful
  <2>12. \A x \in q.out : Truthful(x, e, w, v, q.p.state \in FinSent, over)
    <3>1. q.p.state \in FinSent
      BY <2>7 DEF FinSent
    <3>2. ASSUME NEW x \in r.out PROVE Truthful(x, e, w, v, TRUE, over)
      BY <3>2 DEF Good, Truthful
    <3> HIDE DEF sent, p
    <3> QED BY <2>6, <2>11, <3>1, <3>2 DEF Truthful
  <2>13. g + Len(q.got) <= v /\ \A i \in DOMAIN q.got : q.got[i] = g + i
    BY <2>6 DEF Good
  <2>14. Good(q, e, w, g, v, over)
    BY <2>7, <2>8, <2>9, <2>10, <2>12, <2>13 DEF Good
  <2> QED BY <2>6, <2>14 DEF q
<1> QED BY <1>3, <1>4

\* The control block that has sent up to number x.
MovedOn(p, x) == [p EXCEPT !.snd_nxt = x, !.rtx_count = 0, !.ack_pending = FALSE]

LEMMA MovedOnIs ==
    ASSUME NEW p \in Tcbs, NEW x \in Seqs
    PROVE  LET q == MovedOn(p, x) IN
           /\ q \in Tcbs /\ q.me = p.me /\ q.state = p.state /\ q.iss = p.iss
           /\ q.snd_nxt = x /\ q.snd_una = p.snd_una /\ q.buf = p.buf
           /\ q.rcv_nxt = p.rcv_nxt /\ q.marks = p.marks
           /\ q.fin_seq = p.fin_seq /\ q.fin_pending = p.fin_pending
BY DEF MovedOn, Tcbs

LEMMA Sending ==
    ASSUME NEW e, NEW w, NEW g, NEW v, NEW over, Ctx(e, w, g, v, over),
           NEW r, Good(r, e, w, g, v, over), r.p.state \in {"ESTABLISHED", "CLOSE_WAIT"},
           NEW k \in Nat, k <= Len(r.p.buf) - InFlight(r.p)
    PROVE  LET q == SendUnits(r, k) IN
           Good(q, e, w, g, v, over) /\ q.got = r.got /\ q.p.state = r.p.state
<1> DEFINE p == r.p
           u == Off(p.snd_una)
           n == Off(p.snd_nxt)
           q == SendUnits(r, k)
           At(i) == Segment(p, {"ACK"}, Plus(p.snd_nxt, i), <<p.buf[InFlight(p) + i + 1]>>)
<1>1. p \in Tcbs /\ p.me = e /\ r \in Runs
  BY DEF Good, Runs
<1>2. u + Len(p.buf) = w + 1 /\ u <= n /\ n <= w + 1 /\ u >= 1 /\ Len(p.buf) \in Nat
      /\ \A i \in DOMAIN p.buf : p.buf[i] = u + i - 1
  BY <1>1, Fields DEF Good, Sender, Opening
<1>3. u \in Nat /\ n \in Nat /\ InFlight(p) = n - u
  BY <1>1, <1>2, Flying, OffNat, Fields DEF Ctx
<1>0. NoWrap /\ SeqMod \in Nat /\ Half \in Nat /\ 2 * Half <= SeqMod /\ w \in Nat /\ w + 3 < Half
  BY CtxNumbers
<1>4. n + k <= w + 1
  <2> HIDE DEF u, n
  <2> QED BY <1>0, <1>2, <1>3
<1>5. ASSUME NEW i \in 0 .. k PROVE Plus(p.snd_nxt, i) \in Seqs /\ Off(Plus(p.snd_nxt, i)) = n + i
  <2>1. p.snd_nxt \in Seqs
    BY <1>1, Fields
  <2>2. i \in Nat /\ n + i < SeqMod
    <3> HIDE DEF n
    <3> QED BY <1>0, <1>3, <1>4
  <2> QED BY <1>0, <2>1, <2>2, OffPlus
<1>6. CASE k = 0
  BY <1>6 DEF SendUnits
<1>7. CASE k # 0
  <2>1. q = [r EXCEPT !.out = @ \cup {At(i) : i \in 0 .. k - 1}, !.p.snd_nxt = Plus(@, k),
                      !.p.rtx_count = 0, !.p.ack_pending = FALSE]
    BY <1>7 DEF SendUnits, Segment
  <2>2. ASSUME NEW i \in 0 .. k - 1
        PROVE  Truthful(At(i), e, w, v, p.state \in FinSent, over)
    <3>1. InFlight(p) + i + 1 \in DOMAIN p.buf /\ i \in 0 .. k
      <4>1. p.buf \in Seq(Nat)
        BY <1>1, Fields
      <4>2. InFlight(p) + i + 1 \in 1 .. Len(p.buf) /\ i \in 0 .. k
        <5> HIDE DEF u, n, p
        <5> QED BY <1>0, <1>2, <1>3, <1>4
      <4> QED BY <4>1, <4>2
    <3>2. p.buf[InFlight(p) + i + 1] = n + i /\ n + i \in 1 .. w
      <4> HIDE DEF u, n, p
      <4> QED BY <1>0, <1>2, <1>3, <1>4, <3>1
    <3>3. Plus(p.snd_nxt, i) \in Seqs /\ Off(Plus(p.snd_nxt, i)) = n + i
      BY <1>5, <3>1
    <3>4. <<n + i>> \in Datas
      BY <1>3, <3>1, Flags
    <3> DEFINE a == At(i)
    <3>5. a \in Segments
      BY <1>1, <3>2, <3>3, <3>4, Flags, SegmentIs
    <3>6. a.to = Peer(e) /\ a.flags = {"ACK"} /\ a.seq = Plus(p.snd_nxt, i) /\ a.ack = p.rcv_nxt /\ a.data = <<n + i>>
      BY <1>1, <3>2, SegmentFields
    <3>7. Off(p.rcv_nxt) < Half
      BY DEF Good, Receiver
    <3> HIDE DEF p, a, n
    <3> QED BY <3>2, <3>3, <3>5, <3>6, <3>7, Flags DEF Truthful, a
  <2>3. {At(i) : i \in 0 .. k - 1} \subseteq Segments
    BY <2>2 DEF Truthful
  <2> HIDE DEF At
  <2>4. q.p = MovedOn(p, Plus(p.snd_nxt, k))
        /\ q.got = r.got /\ q.out = r.out \cup {At(i) : i \in 0 .. k - 1}
    BY <1>1, <2>1 DEF Runs, Tcbs, MovedOn
  <2> HIDE DEF q
  <2>5. Plus(p.snd_nxt, k) \in Seqs /\ Off(Plus(p.snd_nxt, k)) = n + k
    BY <1>5
  <2>6. /\ q.p \in Tcbs /\ q.p.me = e /\ q.p.fin_seq = p.fin_seq /\ q.p.snd_nxt = Plus(p.snd_nxt, k)
        /\ q.p.fin_pending = p.fin_pending /\ q.p.state = p.state /\ q.p.iss = p.iss
        /\ q.p.snd_una = p.snd_una /\ q.p.buf = p.buf /\ q.p.rcv_nxt = p.rcv_nxt /\ q.p.marks = p.marks
    BY <1>1, <2>4, <2>5, MovedOnIs
  <2>7. q \in Runs
    BY <1>1, <2>1, <2>3, <2>4, <2>6 DEF Runs, q
  <2>8. Sender(q.p, w)
    BY <1>2, <1>3, <1>4, <2>5, <2>6 DEF Sender, Opening, FinSent, Good
  <2>9. Receiver(q.p, g + Len(q.got), v, over)
    BY <2>4, <2>6 DEF Good, Receiver, Reading, FinTaken
  <2>10. g + Len(q.got) <= v /\ \A i \in DOMAIN q.got : q.got[i] = g + i
    BY <2>4 DEF Good
  <2>11. \A s \in q.out : Truthful(s, e, w, v, q.p.state \in FinSent, over)
    BY <2>2, <2>4, <2>6 DEF Good
  <2>12. Good(q, e, w, g, v, over)
    BY <2>6, <2>7, <2>8, <2>9, <2>10, <2>11 DEF Good
  <2> QED BY <2>4, <2>6, <2>12 DEF q
<1> QED BY <1>6, <1>7

\* Whatever tcp_output sends keeps the run good; it hands nothing over.
LEMMA Outputs ==
    ASSUME NEW e, NEW w, NEW g, NEW v, NEW over, Ctx(e, w, g, v, over),
           NEW r, Good(r, e, w, g, v, over), NEW q \in tcp_output(r)
    PROVE  /\ Good(q, e, w, g, v, over) /\ q.got = r.got
           /\ r.p.state \in FinSent => q = r
<1> DEFINE p == r.p
           room == Len(p.buf) - InFlight(p)
           most == Min2(room, p.snd_wnd - InFlight(p))
<1>1. p \in Tcbs
  BY DEF Good, Runs
<1>2. CASE p.state \notin {"ESTABLISHED", "CLOSE_WAIT"} \/ InFlight(p) > Len(p.buf)
  <2>1. q = r
    BY <1>2 DEF tcp_output
  <2> QED BY <2>1
<1>3. CASE p.state \in {"ESTABLISHED", "CLOSE_WAIT"} /\ ~(InFlight(p) > Len(p.buf))
  <2>1. p.state \notin FinSent
    BY <1>3 DEF FinSent
  <2>2. Off(p.snd_una) <= Off(p.snd_nxt)
    BY <1>3 DEF Good, Sender
  <2>3. InFlight(p) \in Nat /\ Len(p.buf) \in Nat /\ p.snd_wnd \in Int
    BY <1>1, <2>2, Flying, Fields
  <2>4. most \in Int /\ most <= room
    BY <2>3 DEF Min2
  <2>5. CASE most <= 0
    <3>1. q = tcp_try_fin(r)
      BY <1>3, <2>5 DEF tcp_output
    <3> QED BY <1>3, <2>1, <3>1, TryFin
  <2>6. CASE ~(most <= 0)
    <3>1. \E k \in (IF InFlight(p) = 0 THEN 1 ELSE 0) .. most : q = tcp_try_fin(SendUnits(r, k))
      BY <1>3, <2>6 DEF tcp_output
    <3>2. PICK k \in Nat : k <= room /\ q = tcp_try_fin(SendUnits(r, k))
      <4> HIDE DEF most
      <4>1. PICK k \in (IF InFlight(p) = 0 THEN 1 ELSE 0) .. most : q = tcp_try_fin(SendUnits(r, k))
        BY <3>1
      <4>2. k \in Nat /\ k <= most
        BY <4>1, <2>4
      <4>3. k <= room
        BY <2>3, <2>4, <4>2
      <4> QED BY <4>1, <4>2, <4>3
    <3> DEFINE s == SendUnits(r, k)
    <3>3. Good(s, e, w, g, v, over) /\ s.got = r.got /\ s.p.state \in {"ESTABLISHED", "CLOSE_WAIT"}
      BY <1>3, <3>2, Sending
    <3> HIDE DEF s
    <3>4. Good(tcp_try_fin(s), e, w, g, v, over) /\ tcp_try_fin(s).got = r.got
      BY <3>3, TryFin
    <3> QED BY <2>1, <3>2, <3>4 DEF s
  <2> QED BY <2>5, <2>6
<1> QED BY <1>2, <1>3

-----------------------------------------------------------------------------
(***************************************************************************)
(* The ACK part of tcp_input                                               *)
(***************************************************************************)
LEMMA GoodLike ==
    ASSUME NEW e, NEW w, NEW g, NEW v, NEW over, NEW r, Good(r, e, w, g, v, over),
           NEW q \in Runs, Like(q.p, r.p), q.got = r.got, q.out = r.out
    PROVE  Good(q, e, w, g, v, over)
<1>1. Sender(q.p, w)
  BY LikeSender DEF Good
<1>2. Receiver(q.p, g + Len(q.got), v, over)
  BY LikeReceiver DEF Good
<1>3. q.p.me = e /\ q.p.state = r.p.state
  BY DEF Like, Good
<1> QED BY <1>1, <1>2, <1>3 DEF Good

\* Where a control block is in its own stream
LEMMA Stands ==
    ASSUME NEW e, NEW w, NEW g, NEW v, NEW over, Ctx(e, w, g, v, over),
           NEW r, Good(r, e, w, g, v, over)
    PROVE  /\ r.p \in Tcbs /\ r.p.me = e
           /\ Off(r.p.snd_una) \in Nat /\ Off(r.p.snd_nxt) \in Nat /\ Len(r.p.buf) \in Nat
           /\ Off(r.p.snd_una) <= Off(r.p.snd_nxt) /\ Off(r.p.snd_nxt) <= w + 2
           /\ Off(r.p.snd_una) < Half /\ Off(r.p.snd_nxt) < Half
           /\ \/ r.p.state \in Opening
              \/ r.p.state \in {"ESTABLISHED", "CLOSE_WAIT"}
              \/ r.p.state \in FinSent
<1>1. r.p \in Tcbs /\ r.p.me = e
  BY DEF Good, Runs
<1>2. r.p.state \in TcpStates /\ Len(r.p.buf) \in Nat
  BY <1>1, Fields
<1>3. \/ r.p.state \in Opening
      \/ r.p.state \in {"ESTABLISHED", "CLOSE_WAIT"}
      \/ r.p.state \in FinSent
  BY <1>2 DEF TcpStates, Opening, FinSent
<1>4. Off(r.p.snd_una) \in Nat /\ Off(r.p.snd_nxt) \in Nat
  BY <1>1, OffNat, Fields DEF Ctx
<1>5. w \in Nat /\ w + 3 < Half /\ Half \in Nat
  BY CtxNumbers
<1> DEFINE u == Off(r.p.snd_una)
           n == Off(r.p.snd_nxt)
           k == Len(r.p.buf)
<1>6. \/ u = 0 /\ n = 1
      \/ u <= n /\ n <= w + 1
      \/ n = w + 2 /\ (u + k = w + 1 \/ u = w + 2)
  BY <1>3 DEF Good, Sender
<1>7. u <= n /\ n <= w + 2 /\ u < Half /\ n < Half
  <2>1. k \in Nat /\ u \in Nat /\ n \in Nat
    BY <1>2, <1>4
  <2> HIDE DEF u, n, k
  <2> QED BY <1>5, <1>6, <2>1
<1> QED BY <1>1, <1>2, <1>3, <1>4, <1>7

LEMMA Resends ==
    ASSUME NEW e, NEW w, NEW g, NEW v, NEW over, Ctx(e, w, g, v, over),
           NEW r, Good(r, e, w, g, v, over), r.p.buf # <<>>
    PROVE  Good(Resend(r), e, w, g, v, over) /\ Like(Resend(r).p, r.p) /\ Resend(r).got = r.got
<1> DEFINE p == r.p
           u == Off(p.snd_una)
           k == Len(p.buf)
           data == <<p.buf[1]>>
           s == Segment(p, {"ACK"}, p.snd_una, data)
<1>1. p \in Tcbs /\ p.me = e /\ u \in Nat /\ p.snd_una \in Seqs
  BY Stands, Fields
<1>2. k \in Nat /\ k >= 1 /\ 1 \in DOMAIN p.buf
  <2>1. p.buf \in Seq(Nat) /\ p.buf # <<>>
    BY <1>1, Fields
  <2> QED BY <2>1
<1>3. u + k = w + 1 /\ u >= 1 /\ p.buf[1] = u + 1 - 1
  BY <1>2, Stands DEF Good, Sender, Opening, FinSent
<1>4. u \in 1 .. w /\ p.buf[1] = u
  <2> w \in Nat
    BY CtxNumbers
  <2> HIDE DEF u, k
  <2> QED BY <1>1, <1>2, <1>3
<1>5. data \in Datas /\ data # <<>> /\ data[1] = u
  BY <1>1, <1>4, Flags
<1> HIDE DEF data
<1>6. s \in Segments
  BY <1>1, <1>5, Flags, SegmentIs
<1>7. s.to = Peer(e) /\ s.flags = {"ACK"} /\ s.seq = p.snd_una /\ s.ack = p.rcv_nxt /\ s.data = data
  BY <1>1, SegmentFields
<1>8. Off(p.rcv_nxt) < Half
  BY DEF Good, Receiver
<1> HIDE DEF s
<1>9. Truthful(s, e, w, v, p.state \in FinSent, over)
  BY <1>4, <1>5, <1>6, <1>7, <1>8, Flags DEF Truthful
<1> QED BY <1>1, <1>5, <1>9, Sends, Flags DEF Resend, s, data

\* The control block that has taken the ACK x and still holds the bytes b.
TookAck(p, x, b) == [p EXCEPT !.buf = b, !.snd_una = x, !.rtx_count = 0]
InState(p, st) == [p EXCEPT !.state = st]

LEMMA TookAckIs ==
    ASSUME NEW p \in Tcbs, NEW x \in Seqs, NEW b \in Seq(Nat)
    PROVE  LET q == TookAck(p, x, b) IN
           /\ q \in Tcbs /\ q.me = p.me /\ q.state = p.state /\ q.iss = p.iss
           /\ q.snd_nxt = p.snd_nxt /\ q.snd_una = x /\ q.buf = b
           /\ q.rcv_nxt = p.rcv_nxt /\ q.marks = p.marks
           /\ q.fin_seq = p.fin_seq /\ q.fin_pending = p.fin_pending
BY DEF TookAck, Tcbs

LEMMA InStateIs ==
    ASSUME NEW p \in Tcbs, NEW st \in TcpStates
    PROVE  LET q == InState(p, st) IN
           /\ q \in Tcbs /\ q.me = p.me /\ q.state = st /\ q.iss = p.iss
           /\ q.snd_nxt = p.snd_nxt /\ q.snd_una = p.snd_una /\ q.buf = p.buf
           /\ q.rcv_nxt = p.rcv_nxt /\ q.marks = p.marks
           /\ q.fin_seq = p.fin_seq /\ q.fin_pending = p.fin_pending
BY DEF InState, Tcbs

LEMMA CoversIs ==
    ASSUME NoWrap, NEW p \in Tcbs, NEW x \in Seqs, Off(x) + 1 < Half, Off(p.snd_una) < Half
    PROVE  Covers(p, x) <=> Off(p.snd_una) >= Off(x) + 1
<1>1. SeqMod \in Nat /\ Half \in Nat /\ 2 * Half <= SeqMod /\ Off(x) \in Nat
  BY Numbers, OffNat
<1>2. Plus(x, 1) \in Seqs /\ Off(Plus(x, 1)) = Off(x) + 1
  BY <1>1, OffPlus
<1> QED BY <1>2, OffOrder, Fields DEF Covers

\* What is left of a buffer when k more are covered
Left(b, k) == SubSeq(b, Min2(k, Len(b)) + 1, Len(b))

LEMMA LeftIs ==
    ASSUME NEW b \in Seq(Nat), NEW k \in Nat
    PROVE  /\ Left(b, k) \in Seq(Nat)
           /\ k <= Len(b) => Len(Left(b, k)) = Len(b) - k /\ \A i \in DOMAIN Left(b, k) : Left(b, k)[i] = b[k + i]
           /\ k >= Len(b) => Left(b, k) = <<>>
<1>1. Len(b) \in Nat
  OBVIOUS
<1>2. CASE k <= Len(b)
  <2>1. Left(b, k) = SubSeq(b, k + 1, Len(b))
    <3>1. Min2(k, Len(b)) = k
      BY <1>1, <1>2 DEF Min2
    <3> QED BY <3>1 DEF Left
  <2>2. k + 1 \in 1 .. Len(b) + 1
    BY <1>1, <1>2
  <2>3. Left(b, k) \in Seq(Nat) /\ Len(Left(b, k)) = Len(b) - k
    BY <1>1, <1>2, <2>1, <2>2
  <2>4. \A i \in DOMAIN Left(b, k) : Left(b, k)[i] = b[k + i]
    BY <1>1, <1>2, <2>1, <2>2, <2>3
  <2>5. k >= Len(b) => Left(b, k) = <<>>
    BY <1>1, <1>2, <2>3
  <2> QED BY <1>2, <2>3, <2>4, <2>5
<1>3. CASE k >= Len(b)
  <2>1. Left(b, k) = SubSeq(b, Len(b) + 1, Len(b))
    <3>1. Min2(k, Len(b)) = Len(b)
      BY <1>1, <1>3 DEF Min2
    <3> QED BY <3>1 DEF Left
  <2>2. SubSeq(b, Len(b) + 1, Len(b)) = <<>>
    BY <1>1
  <2> QED BY <1>1, <1>3, <2>1, <2>2
<1> QED BY <1>1, <1>2, <1>3

LEMMA AckedIs ==
    ASSUME NEW r \in Runs, NEW s \in Segments, NEW a \in Acked(r, s)
    PROVE  LET new == seq_gt(s.ack, r.p.snd_una) /\ seq_geq(r.p.snd_nxt, s.ack) IN
           \/ /\ new /\ a.got = r.got /\ a.out = r.out
              /\ a.p = TookAck(r.p, s.ack, Left(r.p.buf, Minus(s.ack, r.p.snd_una)))
              /\ a.p \in Tcbs => a \in Runs
           \/ ~new /\ (a = r \/ (a = Resend(r) /\ r.p.buf # <<>>))
<1> DEFINE new == seq_gt(s.ack, r.p.snd_una) /\ seq_geq(r.p.snd_nxt, s.ack)
           k == Minus(s.ack, r.p.snd_una)
<1>1. CASE new
  <2>1. a = [r EXCEPT !.p.buf = SubSeq(@, Min2(k, Len(@)) + 1, Len(@)), !.p.snd_una = s.ack, !.p.rtx_count = 0]
    BY <1>1 DEF Acked
  <2>2. a.got = r.got /\ a.out = r.out
    BY <2>1 DEF Runs
  <2>3. a.p = TookAck(r.p, s.ack, Left(r.p.buf, k))
    BY <2>1 DEF Runs, TookAck, Left, Tcbs
  <2>4. a.p \in Tcbs => a \in Runs
    BY <2>1 DEF Runs
  <2> QED BY <1>1, <2>2, <2>3, <2>4
<1>2. CASE ~new
  BY <1>2 DEF Acked
<1> QED BY <1>1, <1>2

\* What the ACK part leaves to do: the state that follows from what is covered now.
After(a) == [a EXCEPT !.p.state = AckedState(a.p)]

LEMMA AfterIs ==
    ASSUME NEW a \in Runs
    PROVE  /\ After(a) \in Runs /\ After(a).p = InState(a.p, AckedState(a.p))
           /\ After(a).got = a.got /\ After(a).out = a.out
           /\ AckedState(a.p) \in TcpStates
<1>1. a.p \in Tcbs
  BY DEF Runs
<1>2. AckedState(a.p) \in TcpStates
  BY <1>1, Fields DEF AckedState, TcpStates
<1>3. InState(a.p, AckedState(a.p)) \in Tcbs
  BY <1>1, <1>2, InStateIs
<1>4. After(a).p = InState(a.p, AckedState(a.p)) /\ After(a).got = a.got /\ After(a).out = a.out
  BY DEF After, Runs, InState, Tcbs
<1>5. After(a) \in Runs
  BY <1>3, <1>4 DEF After, Runs
<1> QED BY <1>2, <1>4, <1>5

\* Nothing new is covered: at most the state changes, and only to CLOSED.
LEMMA OldAck ==
    ASSUME NEW e, NEW w, NEW g, NEW v, NEW over, Ctx(e, w, g, v, over),
           NEW r, Good(r, e, w, g, v, over)
    PROVE  /\ Good(After(r), e, w, g, v, over) /\ After(r).got = r.got
           /\ After(r).p.buf = r.p.buf
           /\ r.p.state \in FinSent => After(r).p.state \in FinSent
           /\ After(r).p.state \in {r.p.state, "CLOSED"}
<1> DEFINE p == r.p
           u == Off(p.snd_una)
           b == After(r)
<1>1. r \in Runs /\ p \in Tcbs /\ p.me = e /\ u < Half /\ u \in Nat
  BY Stands DEF Good
<1>2. NoWrap /\ w \in Nat /\ w + 3 < Half /\ Half \in Nat
  BY CtxNumbers
<1>3. p.state = "SYN_RCVD" => ~Covers(p, p.iss)
  <2>1. p.state = "SYN_RCVD" => u = 0 /\ Off(p.iss) = 0
    BY DEF Good, Sender, Opening
  <2>2. p.state = "SYN_RCVD" => (Covers(p, p.iss) <=> u >= 0 + 1)
    BY <1>1, <1>2, <2>1, CoversIs, Fields
  <2> QED BY <2>1, <2>2
<1>4. p.state = "FIN_WAIT_1" => ~Covers(p, p.fin_seq)
  <2>1. p.state = "FIN_WAIT_1" => u <= w + 1 /\ Off(p.fin_seq) = w + 1
    BY DEF Good, Sender, FinSent
  <2>2. p.state = "FIN_WAIT_1" => (Covers(p, p.fin_seq) <=> u >= w + 1 + 1)
    BY <1>1, <1>2, <2>1, CoversIs, Fields
  <2> HIDE DEF u
  <2> QED BY <1>1, <1>2, <2>1, <2>2
<1>5. AckedState(p) \in {p.state, "CLOSED"} /\ (AckedState(p) # p.state => p.state = "LAST_ACK")
  BY <1>3, <1>4 DEF AckedState
<1>6. b \in Runs /\ b.p = InState(p, AckedState(p)) /\ b.got = r.got /\ b.out = r.out /\ AckedState(p) \in TcpStates
  BY <1>1, AfterIs
<1> HIDE DEF b
<1>7. /\ b.p \in Tcbs /\ b.p.me = e /\ b.p.state = AckedState(p) /\ b.p.iss = p.iss
      /\ b.p.snd_nxt = p.snd_nxt /\ b.p.snd_una = p.snd_una /\ b.p.buf = p.buf
      /\ b.p.rcv_nxt = p.rcv_nxt /\ b.p.marks = p.marks
      /\ b.p.fin_seq = p.fin_seq /\ b.p.fin_pending = p.fin_pending
  BY <1>1, <1>6, InStateIs
<1>8. Sender(b.p, w)
  BY <1>5, <1>7 DEF Good, Sender, Opening, FinSent
<1>9. Receiver(b.p, g + Len(b.got), v, over)
  BY <1>5, <1>6, <1>7 DEF Good, Receiver, Reading, FinTaken
<1>10. g + Len(b.got) <= v /\ \A i \in DOMAIN b.got : b.got[i] = g + i
  BY <1>6 DEF Good
<1>11. p.state \in FinSent <=> b.p.state \in FinSent
  BY <1>5, <1>7 DEF FinSent
<1>12. \A s \in b.out : Truthful(s, e, w, v, b.p.state \in FinSent, over)
  <2>1. \A s \in b.out : Truthful(s, e, w, v, p.state \in FinSent, over)
    BY <1>6 DEF Good
  <2> HIDE DEF p
  <2> QED BY <1>11, <2>1 DEF Truthful
<1>13. Good(b, e, w, g, v, over)
  BY <1>6, <1>7, <1>8, <1>9, <1>10, <1>12 DEF Good
<1> QED BY <1>5, <1>6, <1>7, <1>11, <1>13 DEF b

\* The ACK covers more than before.
LEMMA NewAck ==
    ASSUME NEW e, NEW w, NEW g, NEW v, NEW over, Ctx(e, w, g, v, over),
           NEW r, Good(r, e, w, g, v, over), r.p.state # "SYN_SENT",
           NEW x \in Seqs, Off(r.p.snd_una) < Off(x), Off(x) <= Off(r.p.snd_nxt),
           NEW a \in Runs, a.got = r.got, a.out = r.out,
           a.p = TookAck(r.p, x, Left(r.p.buf, Off(x) - Off(r.p.snd_una)))
    PROVE  /\ Good(After(a), e, w, g, v, over) /\ After(a).got = r.got
           /\ r.p.state \in FinSent =>
                  After(a).p.state \in FinSent /\ (Off(x) = w + 2 => After(a).p.buf = <<>>)
<1> DEFINE p == r.p
           u == Off(p.snd_una)
           n == Off(p.snd_nxt)
           o == Off(x)
           len == Len(p.buf)
           remains == Left(p.buf, o - u)
           b == After(a)
<1>1. r \in Runs /\ p \in Tcbs /\ p.me = e /\ u \in Nat /\ n \in Nat /\ o \in Nat /\ len \in Nat
      /\ n < Half /\ p.buf \in Seq(Nat)
  <2>1. r \in Runs /\ NoWrap
    BY DEF Good, Ctx
  <2>2. p \in Tcbs /\ p.me = e /\ u \in Nat /\ n \in Nat /\ len \in Nat /\ n < Half
    BY Stands
  <2>3. o \in Nat
    BY <2>1, OffNat
  <2>4. p.buf \in Seq(Nat)
    BY <2>2, Fields
  <2> QED BY <2>1, <2>2, <2>3, <2>4
<1>2. NoWrap /\ w \in Nat /\ w + 3 < Half /\ Half \in Nat
  BY CtxNumbers
<1>3. o - u \in Nat /\ o - u >= 1 /\ o >= 1 /\ o < Half /\ u < o /\ o <= n
  <2>1. u < o /\ o <= n
    OBVIOUS
  <2> HIDE DEF u, o, n
  <2> QED BY <1>1, <1>2, <2>1
<1>4. /\ remains \in Seq(Nat)
      /\ o - u <= len => Len(remains) = len - (o - u) /\ \A i \in DOMAIN remains : remains[i] = p.buf[o - u + i]
      /\ o - u >= len => remains = <<>>
  <2> HIDE DEF o, u
  <2> QED BY <1>1, <1>3, LeftIs
<1> HIDE DEF remains
<1>5. /\ a.p \in Tcbs /\ a.p.me = e /\ a.p.state = p.state /\ a.p.iss = p.iss
      /\ a.p.snd_nxt = p.snd_nxt /\ a.p.snd_una = x /\ a.p.buf = remains
      /\ a.p.rcv_nxt = p.rcv_nxt /\ a.p.marks = p.marks
      /\ a.p.fin_seq = p.fin_seq /\ a.p.fin_pending = p.fin_pending
  <2>1. a.p = TookAck(p, x, remains)
    BY DEF remains
  <2>2. p \in Tcbs /\ remains \in Seq(Nat)
    BY <1>1, <1>4
  <2>3. x \in Seqs
    OBVIOUS
  <2> DEFINE q == TookAck(p, x, remains)
  <2>4. /\ q \in Tcbs /\ q.me = p.me /\ q.state = p.state /\ q.iss = p.iss
        /\ q.snd_nxt = p.snd_nxt /\ q.snd_una = x /\ q.buf = remains
        /\ q.rcv_nxt = p.rcv_nxt /\ q.marks = p.marks
        /\ q.fin_seq = p.fin_seq /\ q.fin_pending = p.fin_pending
    BY <2>2, <2>3, TookAckIs
  <2> HIDE DEF p
  <2> QED BY <1>1, <2>1, <2>4
<1>6. b \in Runs /\ b.p = InState(a.p, AckedState(a.p)) /\ b.got = r.got /\ b.out = r.out /\ AckedState(a.p) \in TcpStates
  BY AfterIs
<1> HIDE DEF b
<1>7. /\ b.p \in Tcbs /\ b.p.me = e /\ b.p.state = AckedState(a.p) /\ b.p.iss = p.iss
      /\ b.p.snd_nxt = p.snd_nxt /\ b.p.snd_una = x /\ b.p.buf = remains
      /\ b.p.rcv_nxt = p.rcv_nxt /\ b.p.marks = p.marks
      /\ b.p.fin_seq = p.fin_seq /\ b.p.fin_pending = p.fin_pending
  BY <1>5, <1>6, InStateIs
<1>8. g + Len(b.got) <= v /\ \A i \in DOMAIN b.got : b.got[i] = g + i
  BY <1>6 DEF Good
<1>9. CASE p.state \in Opening
  <2>1. p.state = "SYN_RCVD" /\ p.buf = <<>> /\ w = 0 /\ Off(p.iss) = 0 /\ u = 0 /\ n = 1 /\ ~p.fin_pending
    BY <1>9 DEF Good, Sender, Opening
  <2>2. o = 1 /\ remains = <<>>
    <3>1. len = 0
      BY <2>1
    <3> HIDE DEF u, o, n, len
    <3> QED BY <1>1, <1>3, <1>4, <2>1, <3>1
  <2>3. Covers(a.p, a.p.iss)
    BY <1>2, <1>5, <2>1, <2>2, CoversIs, Fields
  <2>4. b.p.state = "ESTABLISHED"
    BY <1>5, <1>7, <2>1, <2>3 DEF AckedState
  <2>5. Sender(b.p, w)
    BY <1>7, <2>1, <2>2, <2>4 DEF Sender, Opening, FinSent
  <2>6. Receiver(b.p, g + Len(b.got), v, over)
    BY <1>6, <1>7, <2>1, <2>4 DEF Good, Receiver, Reading, FinTaken
  <2>7. p.state \notin FinSent /\ b.p.state \notin FinSent
    BY <2>1, <2>4 DEF FinSent
  <2>8. \A s \in b.out : Truthful(s, e, w, v, b.p.state \in FinSent, over)
    BY <1>6, <2>7 DEF Good, Truthful
  <2> QED BY <1>6, <1>7, <1>8, <2>5, <2>6, <2>7, <2>8 DEF Good, b
<1>10. CASE p.state \in {"ESTABLISHED", "CLOSE_WAIT"}
  <2>1. u + len = w + 1 /\ n <= w + 1 /\ \A i \in DOMAIN p.buf : p.buf[i] = u + i - 1
    BY <1>10 DEF Good, Sender, Opening
  <2>2. o - u <= len /\ o + Len(remains) = w + 1
    <3>1. u + len = w + 1 /\ n <= w + 1
      BY <2>1
    <3>2. o - u <= len => Len(remains) = len - (o - u)
      BY <1>4
    <3> HIDE DEF u, o, n, len
    <3>3. o - u <= len
      BY <1>1, <1>2, <1>3, <3>1
    <3> QED BY <1>1, <1>2, <3>1, <3>2, <3>3
  <2>3. ASSUME NEW i \in DOMAIN remains PROVE remains[i] = o + i - 1
    <3>1. i \in 1 .. Len(remains) /\ Len(remains) = len - (o - u)
      BY <1>4, <2>2, <2>3
    <3>2. o - u + i \in 1 .. len
      <4> HIDE DEF u, o, n, len
      <4> QED BY <1>1, <1>3, <2>2, <3>1
    <3>3. p.buf[o - u + i] = u + (o - u + i) - 1
      BY <1>1, <2>1, <3>2
    <3>4. remains[i] = p.buf[o - u + i]
      BY <1>4, <2>2, <2>3
    <3> HIDE DEF u, o, n, len, p
    <3> QED BY <1>1, <3>1, <3>3, <3>4
  <2>4. b.p.state = p.state
    BY <1>5, <1>7, <1>10 DEF AckedState
  <2>5. Sender(b.p, w)
    BY <1>3, <1>7, <1>10, <2>1, <2>2, <2>3, <2>4 DEF Sender, Opening, FinSent, Good
  <2>6. Receiver(b.p, g + Len(b.got), v, over)
    BY <1>6, <1>7, <2>4 DEF Good, Receiver, Reading, FinTaken
  <2>7. p.state \notin FinSent
    BY <1>10 DEF FinSent
  <2>8. \A s \in b.out : Truthful(s, e, w, v, b.p.state \in FinSent, over)
    BY <1>6, <2>4 DEF Good
  <2> QED BY <1>6, <1>7, <1>8, <2>5, <2>6, <2>7, <2>8 DEF Good, b
<1>11. CASE p.state \in FinSent
  <2>1. /\ n = w + 2 /\ Off(p.fin_seq) = w + 1 /\ ~p.fin_pending
        /\ u + len = w + 1 \/ (u = w + 2 /\ p.buf = <<>>)
        /\ \A i \in DOMAIN p.buf : p.buf[i] = u + i - 1
    BY <1>11 DEF Good, Sender, Opening, FinSent
  <2>2. u + len = w + 1
    <3> HIDE DEF u, o, n, len
    <3> QED BY <1>1, <1>2, <1>3, <2>1
  <2>3. \/ o - u <= len /\ o + Len(remains) = w + 1 /\ o <= w + 1
        \/ o = w + 2 /\ remains = <<>>
    <3> HIDE DEF u, o, n, len
    <3> QED BY <1>1, <1>2, <1>3, <1>4, <2>1, <2>2
  <2>4. ASSUME NEW i \in DOMAIN remains PROVE remains[i] = o + i - 1
    <3>1. CASE o = w + 2 /\ remains = <<>>
      BY <2>4, <3>1
    <3>2. CASE o - u <= len /\ o + Len(remains) = w + 1 /\ o <= w + 1
      <4>1. i \in 1 .. Len(remains) /\ Len(remains) = len - (o - u)
        BY <1>4, <3>2, <2>4
      <4>2. o - u + i \in 1 .. len
        <5> HIDE DEF u, o, n, len
        <5> QED BY <1>1, <1>3, <3>2, <4>1
      <4>3. p.buf[o - u + i] = u + (o - u + i) - 1
        BY <1>1, <2>1, <4>2
      <4>4. remains[i] = p.buf[o - u + i]
        BY <1>4, <3>2, <2>4
      <4> HIDE DEF u, o, n, len, p
      <4> QED BY <1>1, <4>1, <4>3, <4>4
    <3> QED BY <2>3, <3>1, <3>2
  <2>5. Covers(a.p, a.p.fin_seq) <=> o >= w + 1 + 1
    BY <1>2, <1>3, <1>5, <2>1, CoversIs, Fields
  <2>6. b.p.state = IF p.state = "LAST_ACK" /\ o = w + 2 THEN "CLOSED"
                    ELSE IF p.state = "FIN_WAIT_1" /\ o = w + 2 THEN "FIN_WAIT_2" ELSE p.state
    <3>1. Covers(a.p, a.p.fin_seq) <=> o = w + 2
      <4> HIDE DEF o
      <4> QED BY <1>1, <1>2, <2>3, <2>5
    <3> HIDE DEF p, o
    <3> QED BY <1>5, <1>7, <1>11, <3>1 DEF AckedState, FinSent
  <2>7. b.p.state \in FinSent
    BY <1>11, <2>6 DEF FinSent
  <2>8. p.state # "FIN_WAIT_2"
    <3>1. p.state = "FIN_WAIT_2" => u = w + 2
      BY DEF Good, Sender
    <3> HIDE DEF u, o, n, len
    <3> QED BY <1>1, <1>2, <1>3, <2>1, <3>1
  <2>10. Sender(b.p, w)
    <3>1. p.state \in {"FIN_WAIT_1", "TIME_WAIT"} => e \in Closers
      BY <1>1 DEF Good, Sender
    <3>2. b.p.state = "FIN_WAIT_1" => o <= w + 1
      <4> HIDE DEF o
      <4> QED BY <1>1, <1>2, <2>3, <2>6, <2>8
    <3>3. b.p.state = "FIN_WAIT_2" => o = w + 2 /\ p.state = "FIN_WAIT_1"
      BY <2>6, <2>8
    <3>4. b.p.state = "TIME_WAIT" => p.state = "TIME_WAIT"
      BY <2>6
    <3>5. b.p.state \notin Opening /\ b.p.state \notin {"ESTABLISHED", "CLOSE_WAIT"}
      BY <2>7 DEF Opening, FinSent
    <3>6. Off(b.p.snd_una) = o /\ Off(b.p.snd_nxt) = n /\ b.p.buf = remains /\ b.p.me = e
          /\ b.p.fin_seq = p.fin_seq /\ b.p.fin_pending = p.fin_pending
      BY <1>7
    <3>7. n = w + 2 /\ Off(p.fin_seq) = w + 1 /\ ~p.fin_pending
      BY <2>1
    <3>8. o + Len(remains) = w + 1 \/ (o = w + 2 /\ remains = <<>>)
      BY <2>3
    <3>9. b.p.state \in {"FIN_WAIT_1", "FIN_WAIT_2", "TIME_WAIT"} => e \in Closers
      BY <3>1, <3>3, <2>6
    <3> HIDE DEF p, o, n, u, len
    <3> QED BY <1>3, <2>4, <3>2, <3>3, <3>4, <3>5, <3>6, <3>7, <3>8, <3>9 DEF Sender
  <2>11. Receiver(b.p, g + Len(b.got), v, over)
    BY <1>6, <1>7, <2>6 DEF Good, Receiver, Reading, FinTaken
  <2>12. \A s \in b.out : Truthful(s, e, w, v, b.p.state \in FinSent, over)
    BY <1>6, <1>11, <2>7 DEF Good, Truthful
  <2>13. o = w + 2 => b.p.buf = <<>>
    <3>1. b.p.buf = remains
      BY <1>7
    <3> HIDE DEF o
    <3> QED BY <1>1, <1>2, <2>3, <3>1
  <2> QED BY <1>6, <1>7, <1>8, <2>7, <2>10, <2>11, <2>12, <2>13 DEF Good, b
<1> QED BY <1>9, <1>10, <1>11, Stands

LEMMA SegmentTypes ==
    ASSUME NEW s \in Segments
    PROVE  /\ s.to \in Ends /\ s.flags \in FlagSets /\ s.seq \in Seqs /\ s.ack \in Seqs
           /\ s.win \in Int /\ s.data \in Datas
BY DEF Segments

LEMMA Updates ==
    ASSUME NEW e, NEW w, NEW g, NEW v, NEW over, NEW r, Good(r, e, w, g, v, over), NEW s \in Segments
    PROVE  LET q == update_snd_wnd(r, s) IN
           Good(q, e, w, g, v, over) /\ q.got = r.got /\ q.p.state = r.p.state /\ q.p.buf = r.p.buf
<1> DEFINE q == update_snd_wnd(r, s)
           upd == [r EXCEPT !.p.snd_wnd = s.win, !.p.wl1 = s.seq, !.p.wl2 = s.ack]
<1>1. q \in {r, upd}
  BY DEF update_snd_wnd
<1>2. CASE q = r
  BY <1>2
<1>3. CASE q = upd
  <2>1. r \in Runs /\ r.p \in Tcbs
    BY DEF Good, Runs
  <2>2. s.win \in Int /\ s.seq \in Seqs /\ s.ack \in Seqs
    BY SegmentTypes
  <2>3. upd.p = [r.p EXCEPT !.snd_wnd = s.win, !.wl1 = s.seq, !.wl2 = s.ack] /\ upd.got = r.got /\ upd.out = r.out
    BY <2>1 DEF Runs, Tcbs
  <2>4. Like(upd.p, r.p)
    <3> HIDE DEF upd
    <3> QED BY <2>1, <2>2, <2>3 DEF Like, Tcbs
  <2>5. upd \in Runs
    BY <2>1, <2>4 DEF Runs, Like
  <2> HIDE DEF upd, q
  <2>6. Good(upd, e, w, g, v, over)
    BY <2>3, <2>4, <2>5, GoodLike
  <2>7. upd.p.state = r.p.state /\ upd.p.buf = r.p.buf
    BY <2>4 DEF Like
  <2> QED BY <1>3, <2>3, <2>6, <2>7 DEF q
<1> QED BY <1>1, <1>2, <1>3

LEMMA AckStep ==
    ASSUME NEW e, NEW w, NEW g, NEW v, NEW over, Ctx(e, w, g, v, over),
           NEW r, Good(r, e, w, g, v, over), r.p.state # "SYN_SENT",
           NEW s \in Segments, Off(s.ack) < Half, NEW a \in Acked(r, s)
    PROVE  /\ Good(After(a), e, w, g, v, over) /\ After(a).got = r.got
           /\ r.p.state \in FinSent =>
                  After(a).p.state \in FinSent /\ (Off(s.ack) = w + 2 => After(a).p.buf = <<>>)
<1> DEFINE p == r.p
           u == Off(p.snd_una)
           n == Off(p.snd_nxt)
           o == Off(s.ack)
           new == seq_gt(s.ack, p.snd_una) /\ seq_geq(p.snd_nxt, s.ack)
<1>1. r \in Runs /\ p \in Tcbs /\ s.ack \in Seqs /\ p.snd_una \in Seqs /\ p.snd_nxt \in Seqs /\ NoWrap
  <2>1. r \in Runs /\ NoWrap
    BY DEF Good, Ctx
  <2>2. p \in Tcbs
    BY <2>1 DEF Runs
  <2>3. p.snd_una \in Seqs /\ p.snd_nxt \in Seqs
    BY <2>2, Fields
  <2> QED BY <2>1, <2>2, <2>3, SegmentTypes
<1>2. u \in Nat /\ n \in Nat /\ o \in Nat /\ u < Half /\ n < Half /\ o < Half /\ SeqMod \in Nat
  <2>1. u \in Nat /\ n \in Nat /\ u < Half /\ n < Half
    BY Stands
  <2>2. o \in Nat /\ SeqMod \in Nat
    BY <1>1, OffNat, Numbers
  <2> QED BY <2>1, <2>2
<1>3. new <=> o > u /\ n >= o
  BY <1>1, <1>2, OffOrder
<1>4. CASE new
  <2>1. o > u /\ o <= n
    <3> HIDE DEF o, u, n, new
    <3> QED BY <1>2, <1>3, <1>4
  <2>2. Minus(s.ack, p.snd_una) = o - u
    <3>1. Minus(s.ack, p.snd_una) = IF o >= u THEN o - u ELSE o - u + SeqMod
      BY <1>1, OffMinus
    <3> HIDE DEF o, u
    <3> QED BY <1>2, <2>1, <3>1
  <2>3. a.got = r.got /\ a.out = r.out /\ a.p = TookAck(p, s.ack, Left(p.buf, Minus(s.ack, p.snd_una)))
        /\ (a.p \in Tcbs => a \in Runs)
    BY <1>1, <1>4, AckedIs
  <2>4. Left(p.buf, o - u) \in Seq(Nat)
    <3>1. o - u \in Nat
      <4> HIDE DEF o, u
      <4> QED BY <1>2, <2>1
    <3>2. p.buf \in Seq(Nat)
      BY <1>1, Fields
    <3> HIDE DEF o, u, p
    <3> QED BY <3>1, <3>2, LeftIs
  <2>5. TookAck(p, s.ack, Left(p.buf, o - u)) \in Tcbs
    <3> DEFINE b == Left(p.buf, o - u)
    <3>1. b \in Seq(Nat)
      BY <2>4
    <3> HIDE DEF b, p
    <3>2. TookAck(p, s.ack, b) \in Tcbs
      BY <1>1, <3>1, TookAckIs
    <3> QED BY <3>2 DEF b
  <2>6. a \in Runs
    BY <2>2, <2>3, <2>5
  <2>7. a.p = TookAck(r.p, s.ack, Left(r.p.buf, Off(s.ack) - Off(r.p.snd_una)))
    BY <2>2, <2>3
  <2>8. Off(r.p.snd_una) < Off(s.ack) /\ Off(s.ack) <= Off(r.p.snd_nxt) /\ s.ack \in Seqs
    BY <1>1, <1>2, <2>1
  <2> QED BY <2>3, <2>6, <2>7, <2>8, NewAck
<1>5. CASE ~new
  <2>1. a = r \/ (a = Resend(r) /\ p.buf # <<>>)
    BY <1>1, <1>5, AckedIs
  <2>2. Good(a, e, w, g, v, over) /\ a.got = r.got /\ a.p.state = p.state /\ a.p.buf = p.buf
    <3>1. CASE a = r
      BY <3>1
    <3>2. CASE a = Resend(r) /\ p.buf # <<>>
      BY <3>2, Resends DEF Like
    <3> QED BY <2>1, <3>1, <3>2
  <2>3. /\ Good(After(a), e, w, g, v, over) /\ After(a).got = r.got /\ After(a).p.buf = p.buf
        /\ p.state \in FinSent => After(a).p.state \in FinSent
    BY <2>2, OldAck
  <2>4. p.state \in FinSent /\ o = w + 2 => p.buf = <<>>
    <3>1. p.state \in FinSent => n = w + 2 /\ (u + Len(p.buf) = w + 1 \/ (u = w + 2 /\ p.buf = <<>>))
      BY DEF Good, Sender
    <3>2. Len(p.buf) \in Nat /\ w \in Nat
      BY Stands, CtxNumbers
    <3> DEFINE len == Len(p.buf)
    <3> HIDE DEF o, u, n, new, len
    <3> QED BY <1>2, <1>3, <1>5, <3>1, <3>2 DEF len
  <2> QED BY <2>3, <2>4
<1> QED BY <1>4, <1>5

LEMMA AckPartKeeps ==
    ASSUME NEW e, NEW w, NEW g, NEW v, NEW over, Ctx(e, w, g, v, over),
           NEW r, Good(r, e, w, g, v, over), r.p.state # "SYN_SENT",
           NEW s \in Segments, Off(s.ack) < Half, NEW q \in AckPart(r, s)
    PROVE  /\ Good(q, e, w, g, v, over) /\ q.got = r.got
           /\ r.p.state \in FinSent =>
                  q.p.state \in FinSent /\ (Off(s.ack) = w + 2 => q.p.buf = <<>>)
<1>1. PICK a \in Acked(r, s) :
          q \in IF After(a).p.state \in {"ESTABLISHED", "CLOSE_WAIT"}
                THEN tcp_output(update_snd_wnd(After(a), s)) ELSE {After(a)}
  BY DEF AckPart, After
<1> DEFINE b == After(a)
<1>2. /\ Good(b, e, w, g, v, over) /\ b.got = r.got
      /\ r.p.state \in FinSent => b.p.state \in FinSent /\ (Off(s.ack) = w + 2 => b.p.buf = <<>>)
  BY AckStep
<1> HIDE DEF b
<1>3. CASE b.p.state \in {"ESTABLISHED", "CLOSE_WAIT"}
  <2>1. q \in tcp_output(update_snd_wnd(b, s)) /\ b.p.state \notin FinSent
    BY <1>1, <1>3 DEF b, FinSent
  <2> DEFINE c == update_snd_wnd(b, s)
  <2>2. Good(c, e, w, g, v, over) /\ c.got = b.got
    BY <1>2, Updates
  <2> HIDE DEF c
  <2>3. Good(q, e, w, g, v, over) /\ q.got = c.got
    BY <2>1, <2>2, Outputs DEF c
  <2> QED BY <1>2, <2>1, <2>2, <2>3
<1>4. CASE b.p.state \notin {"ESTABLISHED", "CLOSE_WAIT"}
  <2>1. q = b
    BY <1>1, <1>4 DEF b
  <2> QED BY <1>2, <2>1
<1> QED BY <1>3, <1>4

-----------------------------------------------------------------------------
(***************************************************************************)
(* The data part of tcp_input                                              *)
(***************************************************************************)
LEMMA OrderOfNat == \E R : IsWellFoundedOn(R, Nat) /\ \A x, y \in Nat : x < y => <<x, y>> \in R
<1>1. IsWellFoundedOn(OpToRel(<, Nat), Nat)
  BY NatLessThanWellFounded, Zenon
<1>2. \A x, y \in Nat : x < y => <<x, y>> \in OpToRel(<, Nat)
  BY DEF OpToRel
<1> QED BY <1>1, <1>2, Zenon

LEMMA Least == ASSUME NEW T, T \subseteq Nat, T # {} PROVE \E x \in T : \A y \in T : x <= y
<1>1. PICK R : IsWellFoundedOn(R, Nat) /\ \A x, y \in Nat : x < y => <<x, y>> \in R
  BY OrderOfNat
<1>2. IsWellFoundedOn(R, Nat)
  BY <1>1
<1>3. \E x \in T : \A y \in T : ~(<<y, x>> \in R)
  BY <1>2, WFMin
<1>4. PICK x \in T : \A y \in T : ~(<<y, x>> \in R)
  BY <1>3
<1>5. x \in Nat /\ \A y \in T : y \in Nat /\ ~(y < x)
  BY <1>1, <1>4
<1> QED BY <1>4, <1>5

\* Bytes kept for the v that the peer has written
Kept(marks, v) == IsFiniteSet(marks) /\ \A m \in marks : m.seq \in Seqs /\ Off(m.seq) = m.byte /\ m.byte \in 1 .. v

\* The run at rcv_nxt exists and ends within what the peer has written.
LEMMA RunIs ==
    ASSUME NoWrap, NEW p \in Tcbs, NEW g \in Nat, NEW v \in Nat, g <= v, v + 3 < Half,
           Off(p.rcv_nxt) = g + 1, NEW marks, Kept(marks, v)
    PROVE  /\ Run(p, marks) \in 0 .. v - g
           /\ \A i \in 0 .. Run(p, marks) - 1 : \E m \in marks : m.seq = Plus(p.rcv_nxt, i)
<1> DEFINE x == p.rcv_nxt
           Free(n) == \A m \in marks : m.seq # Plus(x, n)
           T == {n \in Nat : Free(n)}
           Ok(n) == (\A i \in 0 .. n - 1 : \E m \in marks : m.seq = Plus(x, i)) /\ Free(n)
<1>1. x \in Seqs /\ Half \in Nat /\ SeqMod \in Nat /\ 2 * Half <= SeqMod
  BY Numbers, Fields
<1>2. ASSUME NEW i \in 0 .. v - g PROVE Plus(x, i) \in Seqs /\ Off(Plus(x, i)) = g + 1 + i
  <2>1. i \in Nat /\ g + 1 + i < SeqMod
    BY <1>1
  <2> QED BY <1>1, <2>1, OffPlus
<1>3. v - g \in T
  <2>1. v - g \in 0 .. v - g /\ v - g \in Nat
    OBVIOUS
  <2>2. Off(Plus(x, v - g)) = v + 1
    BY <1>2, <2>1
  <2>3. ASSUME NEW m \in marks PROVE m.seq # Plus(x, v - g)
    <3>1. Off(m.seq) = m.byte /\ m.byte \in 1 .. v
      BY DEF Kept
    <3> QED BY <2>2, <3>1
  <2> QED BY <2>1, <2>3
<1>4. PICK n \in T : \A y \in T : n <= y
  <2>1. T \subseteq Nat /\ T # {}
    BY <1>3
  <2> HIDE DEF T
  <2> QED BY <2>1, Least
<1>5. n \in 0 .. v - g /\ n \in Nat
  BY <1>3, <1>4
<1>6. \A i \in 0 .. n - 1 : \E m \in marks : m.seq = Plus(x, i)
  BY <1>4, <1>5
<1>7. Cardinality(marks) \in Nat /\ n <= Cardinality(marks)
  <2>1. IsFiniteSet(marks) /\ Cardinality(marks) \in Nat
    BY FS_CardinalityType DEF Kept
  <2> SUFFICES ASSUME Cardinality(marks) < n PROVE FALSE
    BY <1>5, <2>1
  <2> DEFINE f == [i \in 1 .. n |-> CHOOSE m \in marks : m.seq = Plus(x, i - 1)]
  <2>2. ASSUME NEW i \in 1 .. n PROVE f[i] \in marks /\ f[i].seq = Plus(x, i - 1)
    <3>1. i - 1 \in 0 .. n - 1
      BY <1>5
    <3>2. \E m \in marks : m.seq = Plus(x, i - 1)
      BY <1>6, <3>1
    <3> QED BY <3>2
  <2>3. f \in [1 .. n -> marks]
    BY <2>2
  <2>4. IsFiniteSet(1 .. n) /\ Cardinality(1 .. n) = n
    BY <1>5, FS_Interval
  <2> HIDE DEF f
  <2>5. PICK i \in 1 .. n, j \in 1 .. n : i # j /\ f[i] = f[j]
    BY <2>1, <2>3, <2>4, FS_PigeonHole
  <2>6. Off(Plus(x, i - 1)) = g + i /\ Off(Plus(x, j - 1)) = g + j
    <3>1. i - 1 \in 0 .. v - g /\ j - 1 \in 0 .. v - g
      BY <1>5
    <3>2. Off(Plus(x, i - 1)) = g + 1 + (i - 1) /\ Off(Plus(x, j - 1)) = g + 1 + (j - 1)
      BY <1>2, <3>1
    <3> QED BY <1>5, <3>2
  <2>7. g + i = g + j
    BY <2>2, <2>5, <2>6
  <2> QED BY <1>5, <2>5, <2>7
<1>8. n \in 0 .. Cardinality(marks) /\ Ok(n)
  BY <1>4, <1>5, <1>6, <1>7
<1>9. Run(p, marks) = CHOOSE k \in 0 .. Cardinality(marks) : Ok(k)
  BY DEF Run
<1> DEFINE k == Run(p, marks)
<1> HIDE DEF Ok
<1>10. k \in 0 .. Cardinality(marks) /\ Ok(k)
  BY <1>8, <1>9
<1> HIDE DEF k
<1>11. k \in Nat /\ Free(k) /\ \A i \in 0 .. k - 1 : \E m \in marks : m.seq = Plus(x, i)
  BY <1>7, <1>10 DEF Ok
<1>12. k <= v - g
  <2> SUFFICES ASSUME v - g < k PROVE FALSE
    BY <1>11
  <2>1. v - g \in 0 .. k - 1
    BY <1>11
  <2>2. \E m \in marks : m.seq = Plus(x, v - g)
    BY <1>11, <2>1
  <2> QED BY <1>3, <2>2
<1> QED BY <1>11, <1>12 DEF k

\* The control block that has handed over bytes: rcv_nxt is x, the marks M stay.
Moved(p, x, M) == [p EXCEPT !.rcv_nxt = x, !.marks = M]

LEMMA MovedIs ==
    ASSUME NEW p \in Tcbs, NEW x \in Seqs, NEW M \in SUBSET [seq : Seqs, byte : Nat], IsFiniteSet(M)
    PROVE  LET q == Moved(p, x, M) IN
           /\ q \in Tcbs /\ q.me = p.me /\ q.state = p.state /\ q.iss = p.iss
           /\ q.snd_nxt = p.snd_nxt /\ q.snd_una = p.snd_una /\ q.buf = p.buf
           /\ q.rcv_nxt = x /\ q.marks = M
           /\ q.fin_seq = p.fin_seq /\ q.fin_pending = p.fin_pending
<1>1. M \in {m \in SUBSET [seq : Seqs, byte : Nat] : IsFiniteSet(m)}
  OBVIOUS
<1> QED BY <1>1 DEF Moved, Tcbs

LEMMA Inserted ==
    ASSUME NEW p \in Tcbs, NEW v \in Nat, \A m \in p.marks : Off(m.seq) = m.byte /\ m.byte \in 1 .. v,
           NEW s \in Segments, s.data # <<>> => Off(s.seq) = s.data[1] /\ s.data[1] \in 1 .. v
    PROVE  Insert(p, s) \in SUBSET [seq : Seqs, byte : Nat] /\ Kept(Insert(p, s), v)
<1>1. p.marks \in SUBSET [seq : Seqs, byte : Nat] /\ IsFiniteSet(p.marks)
  BY Fields
<1>2. CASE Insert(p, s) = p.marks
  BY <1>1, <1>2 DEF Kept
<1>3. CASE s.data # <<>> /\ Insert(p, s) = {m \in p.marks : m.seq # s.seq} \cup {[seq |-> s.seq, byte |-> s.data[1]]}
  <2> DEFINE A == {m \in p.marks : m.seq # s.seq}
             new == [seq |-> s.seq, byte |-> s.data[1]]
  <2>1. IsFiniteSet(A)
    BY <1>1, FS_Subset
  <2>2. new \in [seq : Seqs, byte : Nat] /\ Off(new.seq) = new.byte /\ new.byte \in 1 .. v
    BY <1>3, SegmentTypes
  <2>3. A \subseteq p.marks
    OBVIOUS
  <2> HIDE DEF new, A
  <2>4. IsFiniteSet(A \cup {new})
    BY <2>1, FS_AddElement
  <2>5. Insert(p, s) = A \cup {new}
    BY <1>3 DEF A, new
  <2>6. \A m \in A : m.seq \in Seqs /\ Off(m.seq) = m.byte /\ m.byte \in 1 .. v
    BY <1>1, <2>3
  <2>7. new.seq \in Seqs
    BY <2>2
  <2> QED BY <1>1, <2>2, <2>3, <2>4, <2>5, <2>6, <2>7 DEF Kept
<1> QED BY <1>2, <1>3 DEF Insert

LEMMA Reasm ==
    ASSUME NEW e, NEW w, NEW g, NEW v, NEW over, Ctx(e, w, g, v, over),
           NEW r, Good(r, e, w, g, v, over), r.got = <<>>,
           r.p.state \in {"ESTABLISHED", "FIN_WAIT_1", "FIN_WAIT_2"},
           NEW s \in Segments, s.data # <<>> => Off(s.seq) = s.data[1] /\ s.data[1] \in 1 .. v
    PROVE  LET q == reasm_insert(r, s) IN
           /\ Good(q, e, w, g, v, over) /\ q.p.state = r.p.state
           /\ q.p.fin_pending = r.p.fin_pending /\ q.p.buf = r.p.buf
<1> DEFINE p == r.p
           marks == Insert(p, s)
           n == Run(p, marks)
           byte(i) == (CHOOSE m \in marks : m.seq = Plus(p.rcv_nxt, i - 1)).byte
           stay == {m \in marks : Minus(m.seq, p.rcv_nxt) >= n}
           handed == [i \in 1 .. n |-> byte(i)]
           q == reasm_insert(r, s)
           x == Plus(p.rcv_nxt, n)
<1>0. NoWrap /\ SeqMod \in Nat /\ Half \in Nat /\ 2 * Half <= SeqMod /\ g \in Nat /\ v \in Nat /\ v + 3 < Half
  BY CtxNumbers
<1>1. r \in Runs /\ p \in Tcbs /\ p.me = e
  BY Stands DEF Good
<1>2. Len(r.got) = 0 /\ g + Len(r.got) = g
  BY <1>0
<1>3. g <= v /\ Off(p.rcv_nxt) = g + 1 /\ \A m \in p.marks : Off(m.seq) = m.byte /\ m.byte \in 1 .. v
  BY <1>0, <1>2 DEF Good, Receiver, Reading
<1>4. marks \in SUBSET [seq : Seqs, byte : Nat] /\ Kept(marks, v)
  BY <1>0, <1>1, <1>3, Inserted
<1> HIDE DEF marks
<1>5. n \in 0 .. v - g /\ \A i \in 0 .. n - 1 : \E m \in marks : m.seq = Plus(p.rcv_nxt, i)
  BY <1>0, <1>1, <1>3, <1>4, RunIs
<1> HIDE DEF n
<1>6. ASSUME NEW i \in 0 .. n PROVE Plus(p.rcv_nxt, i) \in Seqs /\ Off(Plus(p.rcv_nxt, i)) = g + 1 + i
  <2>1. i \in Nat /\ g + 1 + i < SeqMod
    BY <1>0, <1>5
  <2>2. p.rcv_nxt \in Seqs
    BY <1>1, Fields
  <2> HIDE DEF p
  <2> QED BY <1>0, <1>3, <2>1, <2>2, OffPlus
<1>7. ASSUME NEW i \in 1 .. n PROVE byte(i) = g + i
  <2>1. i - 1 \in 0 .. n - 1 /\ i - 1 \in 0 .. n
    BY <1>5
  <2>2. \E m \in marks : m.seq = Plus(p.rcv_nxt, i - 1)
    BY <1>5, <2>1
  <2> DEFINE m == CHOOSE m \in marks : m.seq = Plus(p.rcv_nxt, i - 1)
  <2>3. m \in marks /\ m.seq = Plus(p.rcv_nxt, i - 1)
    BY <2>2
  <2>4. byte(i) = m.byte
    OBVIOUS
  <2> HIDE DEF m, byte
  <2>5. m.byte = Off(m.seq)
    BY <1>4, <2>3 DEF Kept
  <2>6. Off(Plus(p.rcv_nxt, i - 1)) = g + 1 + (i - 1)
    BY <1>6, <2>1
  <2>7. byte(i) = g + 1 + (i - 1)
    BY <2>3, <2>4, <2>5, <2>6
  <2> HIDE DEF p
  <2> QED BY <1>0, <1>5, <2>7
<1> HIDE DEF byte
<1>8. handed \in Seq(Nat) /\ Len(handed) = n /\ \A i \in DOMAIN handed : handed[i] = g + i
  <2>1. \A i \in 1 .. n : byte(i) = g + i /\ byte(i) \in Nat
    BY <1>0, <1>5, <1>7
  <2>2. n \in Nat
    BY <1>0, <1>5
  <2>3. handed \in [1 .. n -> Nat]
    BY <2>1
  <2> QED BY <2>1, <2>2, <2>3
<1> HIDE DEF handed
<1>9. stay \in SUBSET [seq : Seqs, byte : Nat] /\ Kept(stay, v)
  <2>1. stay \subseteq marks
    OBVIOUS
  <2> HIDE DEF stay
  <2> QED BY <1>4, <2>1, FS_Subset DEF Kept
<1> HIDE DEF stay
<1>10. x \in Seqs /\ Off(x) = g + 1 + n
  BY <1>0, <1>5, <1>6
<1>11. q = [r EXCEPT !.p.rcv_nxt = Plus(@, n), !.p.marks = stay, !.got = handed]
  BY DEF reasm_insert, n, marks, stay, handed, byte
<1>12. q.p = Moved(p, x, stay) /\ q.got = handed /\ q.out = r.out
  BY <1>1, <1>11 DEF Runs, Moved, Tcbs
<1>13. /\ q.p \in Tcbs /\ q.p.me = e /\ q.p.state = p.state /\ q.p.iss = p.iss
       /\ q.p.snd_nxt = p.snd_nxt /\ q.p.snd_una = p.snd_una /\ q.p.buf = p.buf
       /\ q.p.rcv_nxt = x /\ q.p.marks = stay
       /\ q.p.fin_seq = p.fin_seq /\ q.p.fin_pending = p.fin_pending
  <2>1. IsFiniteSet(stay)
    BY <1>9 DEF Kept
  <2> HIDE DEF p, x, q
  <2> QED BY <1>1, <1>9, <1>10, <1>12, <2>1, MovedIs
<1>14. q \in Runs
  BY <1>1, <1>8, <1>11, <1>12, <1>13 DEF Runs
<1> HIDE DEF q, x
<1>15. Sender(q.p, w)
  BY <1>13 DEF Good, Sender
<1>16. Receiver(q.p, g + Len(q.got), v, over)
  <2>1. Off(x) < Half /\ Off(x) = (g + Len(q.got)) + 1
    <3>1. n \in 0 .. v - g /\ Len(q.got) = n
      BY <1>5, <1>8, <1>12
    <3>2. Off(x) = g + 1 + n
      BY <1>10
    <3> QED BY <1>0, <3>1, <3>2
  <2>2. q.p.state \notin FinTaken
    BY <1>13 DEF FinTaken
  <2>3. \A m \in stay : Off(m.seq) = m.byte /\ m.byte \in 1 .. v
    BY <1>9 DEF Kept
  <2> QED BY <1>13, <2>1, <2>2, <2>3 DEF Receiver
<1>17. g + Len(q.got) <= v /\ \A i \in DOMAIN q.got : q.got[i] = g + i
  BY <1>0, <1>3, <1>5, <1>8, <1>12
<1>18. \A t \in q.out : Truthful(t, e, w, v, q.p.state \in FinSent, over)
  BY <1>12, <1>13 DEF Good
<1>19. Good(q, e, w, g, v, over)
  BY <1>13, <1>14, <1>15, <1>16, <1>17, <1>18 DEF Good
<1> QED BY <1>13, <1>19 DEF q

\* A FIN counts only once all that the peer has written has been handed over.
LEMMA FinReachedIs ==
    ASSUME NoWrap, NEW v \in Nat, v + 3 < Half,
           NEW p \in Tcbs, NEW h \in Nat, h <= v, Off(p.rcv_nxt) = h + 1,
           NEW s \in Segments, s.data = <<>>, Off(s.seq) = v + 1, FinReached(p, s)
    PROVE  h = v /\ p.rcv_nxt = Plus(s.seq, Len(s.data))
<1> DEFINE y == Plus(s.seq, Len(s.data))
<1>1. NoWrap /\ SeqMod \in Nat /\ Half \in Nat /\ 2 * Half <= SeqMod /\ v \in Nat /\ v + 3 < Half
      /\ TCP_RCVBUF \in Nat /\ TCP_RCVBUF < Half
  BY Numbers
<1>2. s.seq \in Seqs /\ p.rcv_nxt \in Seqs /\ Len(s.data) = 0
  BY SegmentTypes, Fields
<1>3. y \in Seqs /\ Off(y) = v + 1
  <2>1. 0 \in Nat /\ Off(s.seq) + 0 < SeqMod /\ Off(s.seq) + 0 = v + 1
    BY <1>1
  <2>2. Plus(s.seq, 0) \in Seqs /\ Off(Plus(s.seq, 0)) = v + 1
    BY <1>1, <1>2, <2>1, OffPlus
  <2> QED BY <1>2, <2>2
<1>4. Minus(p.rcv_nxt, y) <= TCP_RCVBUF
  BY DEF FinReached
<1>5. Minus(p.rcv_nxt, y) = IF h + 1 >= v + 1 THEN (h + 1) - (v + 1) ELSE (h + 1) - (v + 1) + SeqMod
  BY <1>1, <1>2, <1>3, OffMinus
<1> HIDE DEF y
<1>6. h = v
  BY <1>1, <1>4, <1>5
<1>7. p.rcv_nxt = y
  BY <1>1, <1>2, <1>3, <1>6, OffSame
<1> QED BY <1>6, <1>7 DEF y

\* The control block that has taken the FIN before x.
FinIn(p, x, st) == [p EXCEPT !.rcv_nxt = x, !.state = st]

LEMMA FinInIs ==
    ASSUME NEW p \in Tcbs, NEW x \in Seqs, NEW st \in TcpStates
    PROVE  LET q == FinIn(p, x, st) IN
           /\ q \in Tcbs /\ q.me = p.me /\ q.state = st /\ q.iss = p.iss
           /\ q.snd_nxt = p.snd_nxt /\ q.snd_una = p.snd_una /\ q.buf = p.buf
           /\ q.rcv_nxt = x /\ q.marks = p.marks
           /\ q.fin_seq = p.fin_seq /\ q.fin_pending = p.fin_pending
BY DEF FinIn, Tcbs

\* Where a FIN of the peer brings an end that still reads
FinMoves(p, st) ==
    \/ p.state = "ESTABLISHED" /\ st = "CLOSE_WAIT"
    \/ p.state \in {"FIN_WAIT_1", "FIN_WAIT_2"} /\ st = "TIME_WAIT"

\* What a segment of the peer, which has written v bytes, says to the reader.
Told(s, v, over) ==
    /\ s \in Segments
    /\ s.data # <<>> => s.flags = {"ACK"} /\ Off(s.seq) = s.data[1] /\ s.data[1] \in 1 .. v
    /\ "FIN" \in s.flags => s.data = <<>> /\ Off(s.seq) = v + 1 /\ over

LEMMA TakesFin ==
    ASSUME NEW e, NEW w, NEW g, NEW v, NEW over, Ctx(e, w, g, v, over),
           NEW r, Good(r, e, w, g, v, over), NEW st, FinMoves(r.p, st),
           NEW s, Told(s, v, over), FinReached(r.p, s)
    PROVE  LET q == TakeFin(r, s, st) IN
           Good(q, e, w, g, v, over) /\ q.p.state = st /\ q.got = r.got
<1> DEFINE p == r.p
           h == g + Len(r.got)
           x == Plus(p.rcv_nxt, 1)
           m == [r EXCEPT !.p.rcv_nxt = IF @ = Plus(s.seq, Len(s.data)) THEN Plus(@, 1) ELSE @, !.p.state = st]
<1>1. NoWrap /\ SeqMod \in Nat /\ Half \in Nat /\ 2 * Half <= SeqMod /\ v \in Nat /\ v + 3 < Half /\ g \in Nat
  BY CtxNumbers
<1>0. s \in Segments /\ s.data = <<>> /\ Off(s.seq) = v + 1
  BY DEF FinReached, Told
<1>2. r \in Runs /\ p \in Tcbs /\ p.me = e
  BY DEF Good, Runs
<1>3. h \in Nat /\ h <= v /\ Off(p.rcv_nxt) = h + 1
  <2>1. r.got \in Seq(Nat)
    BY <1>2 DEF Runs
  <2>2. Len(r.got) \in Nat
    BY <2>1
  <2>3. p.state \in Reading
    BY DEF FinMoves, Reading
  <2> QED BY <1>1, <2>2, <2>3 DEF Good, Receiver
<1> HIDE DEF h
<1>4. h = v /\ p.rcv_nxt = Plus(s.seq, Len(s.data))
  BY <1>0, <1>1, <1>2, <1>3, FinReachedIs
<1>5. x \in Seqs /\ Off(x) = h + 2
  <2>1. p.rcv_nxt \in Seqs
    BY <1>2, Fields
  <2>2. 1 \in Nat /\ Off(p.rcv_nxt) + 1 < SeqMod
    BY <1>1, <1>3
  <2>3. x \in Seqs /\ Off(x) = Off(p.rcv_nxt) + 1
    BY <1>1, <2>1, <2>2, OffPlus
  <2> HIDE DEF x, p
  <2> QED BY <1>3, <2>3
<1>6. st \in TcpStates
  BY DEF FinMoves, TcpStates
<1>7. m.p = FinIn(p, x, st) /\ m.got = r.got /\ m.out = r.out
  BY <1>2, <1>4 DEF Runs, FinIn, Tcbs
<1>8. /\ m.p \in Tcbs /\ m.p.me = e /\ m.p.state = st /\ m.p.iss = p.iss
      /\ m.p.snd_nxt = p.snd_nxt /\ m.p.snd_una = p.snd_una /\ m.p.buf = p.buf
      /\ m.p.rcv_nxt = x /\ m.p.marks = p.marks
      /\ m.p.fin_seq = p.fin_seq /\ m.p.fin_pending = p.fin_pending
  <2> HIDE DEF m, x, p
  <2> QED BY <1>2, <1>5, <1>6, <1>7, FinInIs
<1>9. m \in Runs
  BY <1>2, <1>7, <1>8 DEF Runs
<1> HIDE DEF m, x
<1>10. Sender(m.p, w)
  <2>1. CASE p.state = "ESTABLISHED" /\ st = "CLOSE_WAIT"
    <3>1. p.state \notin Opening /\ st \notin Opening /\ st \notin FinSent
      BY <2>1 DEF Opening, FinSent
    <3> QED BY <1>8, <2>1, <3>1 DEF Good, Sender
  <2>2. CASE p.state \in {"FIN_WAIT_1", "FIN_WAIT_2"} /\ st = "TIME_WAIT"
    <3>1. p.state \notin Opening /\ st \notin Opening /\ st \in FinSent /\ p.state \in FinSent
      BY <2>2 DEF Opening, FinSent
    <3> QED BY <1>8, <2>2, <3>1 DEF Good, Sender
  <2> QED BY <2>1, <2>2 DEF FinMoves
<1>11. Receiver(m.p, g + Len(m.got), v, over)
  <2>1. Off(x) < Half
    BY <1>1, <1>3, <1>5
  <2>2. st \notin Reading /\ st # "SYN_SENT"
    BY DEF FinMoves, Reading
  <2>3. over
    BY DEF FinReached, Told
  <2> QED BY <1>4, <1>5, <1>7, <1>8, <2>1, <2>2, <2>3 DEF Good, Receiver, h
<1>12. \A t \in m.out : Truthful(t, e, w, v, m.p.state \in FinSent, over)
  <2>1. (m.p.state \in FinSent) = (p.state \in FinSent)
    BY <1>8 DEF FinMoves, FinSent
  <2> QED BY <1>7, <2>1 DEF Good
<1>13. Good(m, e, w, g, v, over)
  BY <1>7, <1>8, <1>9, <1>10, <1>11, <1>12 DEF Good
<1>14. TakeFin(r, s, st) = Ack(m)
  BY DEF TakeFin, m
<1>15. Good(Ack(m), e, w, g, v, over) /\ Like(Ack(m).p, m.p) /\ Ack(m).got = m.got
  BY <1>13, Acks
<1> QED BY <1>7, <1>8, <1>14, <1>15 DEF Like

\* The end will close once its buffer is out.
WillClose(r) == [r EXCEPT !.p.fin_pending = TRUE]

LEMMA Closes ==
    ASSUME NEW e, NEW w, NEW g, NEW v, NEW over,
           NEW r, Good(r, e, w, g, v, over),
           r.p.state = "CLOSE_WAIT" \/ (r.p.state = "ESTABLISHED" /\ e \in Closers)
    PROVE  Good(WillClose(r), e, w, g, v, over) /\ WillClose(r).p.state = r.p.state /\ WillClose(r).got = r.got
<1> DEFINE p == r.p
           q == WillClose(r)
<1>1. r \in Runs /\ p \in Tcbs /\ p.me = e
  BY DEF Good, Runs
<1>2. q.p = [p EXCEPT !.fin_pending = TRUE] /\ q.got = r.got /\ q.out = r.out
  BY <1>1 DEF Runs, Tcbs, WillClose
<1>3. /\ q.p \in Tcbs /\ q.p.me = e /\ q.p.state = p.state /\ q.p.iss = p.iss
      /\ q.p.snd_nxt = p.snd_nxt /\ q.p.snd_una = p.snd_una /\ q.p.buf = p.buf
      /\ q.p.rcv_nxt = p.rcv_nxt /\ q.p.marks = p.marks
      /\ q.p.fin_seq = p.fin_seq
  BY <1>1, <1>2 DEF Tcbs
<1>4. q \in Runs
  BY <1>1, <1>2, <1>3 DEF Runs, WillClose
<1> HIDE DEF q
<1>5. p.state \notin Opening /\ p.state \notin FinSent
  BY DEF Opening, FinSent
<1>6. Sender(q.p, w)
  BY <1>3, <1>5 DEF Good, Sender
<1>7. Receiver(q.p, g + Len(q.got), v, over)
  BY <1>2, <1>3 DEF Good, Receiver
<1>8. Good(q, e, w, g, v, over)
  BY <1>2, <1>3, <1>4, <1>6, <1>7 DEF Good
<1> QED BY <1>2, <1>3, <1>8 DEF q

LEMMA LikePending == ASSUME NEW p \in Tcbs PROVE Like([p EXCEPT !.ack_pending = TRUE], p)
BY DEF Tcbs, Like

LEMMA Delays ==
    ASSUME NEW e, NEW w, NEW g, NEW v, NEW over, NEW r, Good(r, e, w, g, v, over)
    PROVE  LET q == [r EXCEPT !.p.ack_pending = TRUE] IN
           Good(q, e, w, g, v, over) /\ q.p.state = r.p.state
<1> DEFINE q == [r EXCEPT !.p.ack_pending = TRUE]
<1>1. r \in Runs /\ r.p \in Tcbs
  BY DEF Good, Runs
<1>2. q.p = [r.p EXCEPT !.ack_pending = TRUE] /\ q.got = r.got /\ q.out = r.out
  BY <1>1 DEF Runs, Tcbs
<1>3. Like(q.p, r.p)
  BY <1>1, <1>2, LikePending
<1>4. q \in Runs
  BY <1>1, <1>2, <1>3 DEF Runs, Like
<1> HIDE DEF q
<1>5. Good(q, e, w, g, v, over)
  BY <1>2, <1>3, <1>4, GoodLike
<1> QED BY <1>3, <1>5 DEF Like, q

LEMMA DataPartKeeps ==
    ASSUME NEW e, NEW w, NEW g, NEW v, NEW over, Ctx(e, w, g, v, over),
           NEW r, Good(r, e, w, g, v, over), r.got = <<>>,
           NEW s, Told(s, v, over)
    PROVE  LET q == DataPart(r, s) IN
           Good(q, e, w, g, v, over) /\ (r.p.state \in FinSent => q.p.state \in FinSent)
<1> DEFINE p == r.p
           in == reasm_insert(r, s)
           new == s.data # <<>>
           q == DataPart(r, s)
<1>1. s \in Segments
  BY DEF Told
<1>2. p.state \in {"ESTABLISHED", "FIN_WAIT_1", "FIN_WAIT_2"} =>
        Good(in, e, w, g, v, over) /\ in.p.state = p.state
  <2> SUFFICES ASSUME p.state \in {"ESTABLISHED", "FIN_WAIT_1", "FIN_WAIT_2"}
               PROVE  Good(in, e, w, g, v, over) /\ in.p.state = p.state
    OBVIOUS
  <2>1. s.data # <<>> => Off(s.seq) = s.data[1] /\ s.data[1] \in 1 .. v
    BY DEF Told
  <2> QED BY <1>1, <2>1, Reasm
<1> HIDE DEF in
<1>3. CASE p.state = "ESTABLISHED"
  <2> DEFINE a == IF ~new THEN r
                  ELSE IF in.got = <<>> THEN Ack(in) ELSE [in EXCEPT !.p.ack_pending = TRUE]
  <2>1. Good(a, e, w, g, v, over) /\ a.p.state = "ESTABLISHED"
    <3>1. CASE ~new
      BY <1>3, <3>1
    <3>2. CASE new /\ in.got = <<>>
      BY <1>2, <1>3, <3>2, Acks DEF Like
    <3>3. CASE new /\ in.got # <<>>
      <4>1. Good(in, e, w, g, v, over) /\ in.p.state = "ESTABLISHED"
        BY <1>2, <1>3
      <4> DEFINE d == [in EXCEPT !.p.ack_pending = TRUE]
      <4>2. Good(d, e, w, g, v, over) /\ d.p.state = "ESTABLISHED"
        BY <4>1, Delays
      <4> QED BY <3>3, <4>2
    <3> QED BY <3>1, <3>2, <3>3
  <2>2. p.state \notin FinSent
    BY <1>3 DEF FinSent
  <2>3. q = IF p.fin_pending \/ ~FinReached(a.p, s) THEN a
            ELSE tcp_try_fin(WillClose(TakeFin(a, s, "CLOSE_WAIT")))
    BY <1>3 DEF DataPart, WillClose, in
  <2> HIDE DEF a
  <2>4. CASE p.fin_pending \/ ~FinReached(a.p, s)
    BY <2>1, <2>2, <2>3, <2>4
  <2>5. CASE FinReached(a.p, s) /\ ~p.fin_pending
    <3> DEFINE f == TakeFin(a, s, "CLOSE_WAIT")
    <3>2. FinMoves(a.p, "CLOSE_WAIT")
      BY <2>1 DEF FinMoves
    <3>3. Good(f, e, w, g, v, over) /\ f.p.state = "CLOSE_WAIT"
      BY <2>1, <2>5, <3>2, TakesFin
    <3> HIDE DEF f
    <3>4. Good(WillClose(f), e, w, g, v, over) /\ WillClose(f).p.state = "CLOSE_WAIT"
      BY <3>3, Closes
    <3>5. Good(tcp_try_fin(WillClose(f)), e, w, g, v, over)
      BY <3>4, TryFin
    <3> QED BY <2>2, <2>3, <2>5, <3>5 DEF f
  <2> QED BY <2>4, <2>5
<1>4. CASE p.state \in {"FIN_WAIT_1", "FIN_WAIT_2"}
  <2> DEFINE a == IF new THEN Ack(in) ELSE r
  <2>1. Good(a, e, w, g, v, over) /\ a.p.state = p.state
    <3>1. CASE ~new
      BY <3>1
    <3>2. CASE new
      BY <1>2, <1>4, <3>2, Acks DEF Like
    <3> QED BY <3>1, <3>2
  <2>2. p.state \in FinSent /\ "TIME_WAIT" \in FinSent
    BY <1>4 DEF FinSent
  <2>3. q = IF FinReached(a.p, s) THEN TakeFin(a, s, "TIME_WAIT") ELSE a
    BY <1>4 DEF DataPart, in
  <2>4. "FIN" \in s.flags => a = r
    BY DEF Told
  <2> HIDE DEF a
  <2>5. CASE ~FinReached(a.p, s)
    BY <2>1, <2>2, <2>3, <2>5
  <2>6. CASE FinReached(a.p, s)
    <3>1. "FIN" \in s.flags
      BY <2>6 DEF FinReached
    <3>2. FinMoves(a.p, "TIME_WAIT")
      BY <1>4, <2>4, <3>1 DEF FinMoves
    <3>3. Good(TakeFin(a, s, "TIME_WAIT"), e, w, g, v, over) /\ TakeFin(a, s, "TIME_WAIT").p.state = "TIME_WAIT"
      BY <2>1, <2>6, <3>2, TakesFin
    <3> QED BY <2>2, <2>3, <2>6, <3>3
  <2> QED BY <2>5, <2>6
<1>5. CASE p.state \notin {"ESTABLISHED", "FIN_WAIT_1", "FIN_WAIT_2"}
  <2>1. q \in {Ack(r), r}
    BY <1>5 DEF DataPart
  <2>2. Good(Ack(r), e, w, g, v, over) /\ Ack(r).p.state = p.state
    BY Acks DEF Like
  <2> QED BY <2>1, <2>2
<1> QED BY <1>3, <1>4, <1>5

LEMMA AcksAgain ==
    ASSUME NEW e, NEW w, NEW g, NEW v, NEW over, Ctx(e, w, g, v, over),
           NEW r, Good(r, e, w, g, v, over), NEW s
    PROVE  LET q == AckAgain(r, s) IN
           /\ Good(q, e, w, g, v, over) /\ q.got = r.got
           /\ q.p.state = r.p.state /\ q.p.buf = r.p.buf
<1>1. AckAgain(r, s) \in {r, Ack(r)}
  BY DEF AckAgain
<1> QED BY <1>1, Acks DEF Like

-----------------------------------------------------------------------------
(***************************************************************************)
(* The handlers                                                            *)
(***************************************************************************)
LEMMA DoIs ==
    ASSUME NEW p \in Tcbs PROVE Do(p) \in Runs /\ Do(p).p = p /\ Do(p).out = {} /\ Do(p).got = <<>>
BY DEF Do, Runs

LEMMA Starts ==
    ASSUME NEW e, NEW w, NEW g, NEW v, NEW over, Ctx(e, w, g, v, over), g <= v,
           NEW p \in Tcbs, p.me = e, Sender(p, w), Receiver(p, g, v, over)
    PROVE  Good(Do(p), e, w, g, v, over)
<1>1. Do(p) \in Runs /\ Do(p).p = p /\ Do(p).out = {} /\ Do(p).got = <<>>
  BY DoIs
<1>2. g + Len(Do(p).got) = g
  BY <1>1, CtxNumbers
<1> QED BY <1>1, <1>2 DEF Good

LEMMA TruthfulTold ==
    ASSUME NEW e \in Ends, NEW w, NEW v, NEW over, NEW own, NEW s, Truthful(s, Peer(e), v, w, over, own)
    PROVE  /\ Told(s, v, over) /\ s \in Segments /\ Off(s.ack) < Half /\ s.to = e
           /\ "SYN" \in s.flags => Off(s.seq) = 0
           /\ "FIN" \in s.flags /\ Peer(e) \notin Closers => Off(s.ack) = w + 2 /\ own
<1>1. Peer(Peer(e)) = e
  BY DEF Peer, Ends, Client, Server
<1> QED BY <1>1, Flags DEF Truthful, Told

\* A segment of an open connection
LEMMA InputKeeps ==
    ASSUME NEW e, NEW w, NEW g, NEW v, NEW over, Ctx(e, w, g, v, over),
           NEW r, Good(r, e, w, g, v, over), r.p.state # "SYN_SENT", r.got = <<>>,
           NEW own, own => r.p.state \in FinSent,
           NEW s, Truthful(s, Peer(e), v, w, over, own), NEW a \in AckPart(r, s)
    PROVE  LET q == DataPart(AckAgain(a, s), s) IN
           Good(q, e, w, g, v, over) /\ (r.p.state \in FinSent => q.p.state \in FinSent)
<1>1. e \in Ends
  BY DEF Ctx
<1>2. /\ Told(s, v, over) /\ s \in Segments /\ Off(s.ack) < Half
      /\ "FIN" \in s.flags /\ Peer(e) \notin Closers => Off(s.ack) = w + 2 /\ own
  BY <1>1, TruthfulTold
<1>3. /\ Good(a, e, w, g, v, over) /\ a.got = <<>>
      /\ r.p.state \in FinSent => a.p.state \in FinSent /\ (Off(s.ack) = w + 2 => a.p.buf = <<>>)
  BY <1>2, AckPartKeeps
<1> DEFINE c == AckAgain(a, s)
<1>4. Good(c, e, w, g, v, over) /\ c.got = <<>> /\ c.p.state = a.p.state /\ c.p.buf = a.p.buf
  BY <1>3, AcksAgain
<1> HIDE DEF c
<1>5. Good(DataPart(c, s), e, w, g, v, over) /\ (c.p.state \in FinSent => DataPart(c, s).p.state \in FinSent)
  BY <1>2, <1>4, DataPartKeeps
<1> QED BY <1>3, <1>4, <1>5 DEF c

\* The probe of a zero window
Probe(r) == seg_out(r, {"ACK"}, r.p.snd_nxt, <<r.p.buf[1]>>)
Stepped(r) == [r EXCEPT !.p.snd_nxt = Plus(@, 1)]

LEMMA SteppedIs ==
    ASSUME NEW r \in Runs, Plus(r.p.snd_nxt, 1) \in Seqs
    PROVE  LET q == Stepped(r).p IN
           /\ q \in Tcbs /\ q.me = r.p.me /\ q.state = r.p.state /\ q.iss = r.p.iss
           /\ q.snd_nxt = Plus(r.p.snd_nxt, 1) /\ q.snd_una = r.p.snd_una /\ q.buf = r.p.buf
           /\ q.rcv_nxt = r.p.rcv_nxt /\ q.marks = r.p.marks
           /\ q.fin_seq = r.p.fin_seq /\ q.fin_pending = r.p.fin_pending
           /\ Stepped(r) \in Runs /\ Stepped(r).got = r.got /\ Stepped(r).out = r.out
<1> DEFINE p == r.p
           q == [p EXCEPT !.snd_nxt = Plus(@, 1)]
<1>1. p \in Tcbs
  BY DEF Runs
<1>2. Stepped(r).p = q /\ Stepped(r).got = r.got /\ Stepped(r).out = r.out
  BY <1>1 DEF Stepped, Runs, Tcbs
<1>3. /\ q \in Tcbs /\ q.me = p.me /\ q.state = p.state /\ q.iss = p.iss
      /\ q.snd_nxt = Plus(p.snd_nxt, 1) /\ q.snd_una = p.snd_una /\ q.buf = p.buf
      /\ q.rcv_nxt = p.rcv_nxt /\ q.marks = p.marks
      /\ q.fin_seq = p.fin_seq /\ q.fin_pending = p.fin_pending
  BY <1>1 DEF Tcbs
<1> HIDE DEF q
<1>4. Stepped(r) \in Runs
  BY <1>2, <1>3 DEF Stepped, Runs
<1> QED BY <1>2, <1>3, <1>4

LEMMA Probes ==
    ASSUME NEW e, NEW w, NEW g, NEW v, NEW over, Ctx(e, w, g, v, over),
           NEW r, Good(r, e, w, g, v, over), r.p.buf # <<>>,
           r.p.state \in {"ESTABLISHED", "CLOSE_WAIT"}, InFlight(r.p) = 0
    PROVE  LET q == Stepped(Probe(r)) IN
           Good(q, e, w, g, v, over) /\ q.p.state = r.p.state /\ q.got = r.got
<1> DEFINE p == r.p
           u == Off(p.snd_una)
           n == Off(p.snd_nxt)
           len == Len(p.buf)
           b == p.buf[1]
           t == Segment(p, {"ACK"}, p.snd_nxt, <<b>>)
           c == Probe(r)
           q == Stepped(c)
<1>0. NoWrap /\ SeqMod \in Nat /\ Half \in Nat /\ 2 * Half <= SeqMod /\ w \in Nat /\ w + 3 < Half
  BY CtxNumbers
<1>1. p \in Tcbs /\ p.me = e /\ u \in Nat /\ n \in Nat /\ len \in Nat /\ u <= n
  BY Stands
<1>2. u + len = w + 1 /\ u >= 1 /\ (\A i \in DOMAIN p.buf : p.buf[i] = u + i - 1)
      /\ (p.fin_pending /\ p.state = "ESTABLISHED" => e \in Closers)
  BY <1>1 DEF Good, Sender, Opening
<1>3. n = u
  <2>1. InFlight(p) = n - u
    BY <1>1, Flying
  <2> HIDE DEF u, n, p
  <2>2. InFlight(p) = 0
    BY DEF p
  <2> QED BY <1>1, <2>1, <2>2
<1>4. 1 \in DOMAIN p.buf /\ len >= 1
  <2>1. p.buf \in Seq(Nat)
    BY <1>1, Fields
  <2> QED BY <2>1
<1>5. b = n /\ n \in 1 .. w
  <2>1. b = u + 1 - 1
    BY <1>2, <1>4
  <2> HIDE DEF u, n, len, b
  <2> QED BY <1>0, <1>1, <1>2, <1>3, <1>4, <2>1
<1>6. p.snd_nxt \in Seqs /\ Off(p.rcv_nxt) < Half
  BY <1>1, Fields DEF Good, Receiver
<1>7. <<b>> \in Datas /\ <<b>> # <<>> /\ <<b>>[1] = b
  BY <1>1, <1>5, Flags
<1>8. Truthful(t, e, w, v, p.state \in FinSent, over)
  <2>1. t \in Segments
    BY <1>1, <1>6, <1>7, Flags, SegmentIs
  <2>2. t.to = Peer(e) /\ t.flags = {"ACK"} /\ t.seq = p.snd_nxt /\ t.ack = p.rcv_nxt /\ t.data = <<b>>
    BY <1>1, SegmentFields
  <2> HIDE DEF t, p, b
  <2> QED BY <1>5, <1>6, <1>7, <2>1, <2>2, Flags DEF Truthful
<1>9. Good(c, e, w, g, v, over) /\ Like(c.p, p) /\ c.got = r.got
  BY <1>6, <1>7, <1>8, Sends, Flags DEF Probe
<1> HIDE DEF c
<1>10. c.p.snd_nxt = p.snd_nxt /\ c \in Runs
  BY <1>9 DEF Like, Good
<1>11. Plus(p.snd_nxt, 1) \in Seqs /\ Off(Plus(p.snd_nxt, 1)) = n + 1
  <2>1. 1 \in Nat /\ Off(p.snd_nxt) + 1 < SeqMod
    <3> HIDE DEF u, len, p
    <3> QED BY <1>0, <1>5
  <2> QED BY <1>0, <1>6, <2>1, OffPlus
<1>12. /\ q.p \in Tcbs /\ q.p.me = e /\ q.p.state = p.state /\ q.p.iss = p.iss
       /\ q.p.snd_nxt = Plus(p.snd_nxt, 1) /\ q.p.snd_una = p.snd_una /\ q.p.buf = p.buf
       /\ q.p.rcv_nxt = p.rcv_nxt /\ q.p.marks = p.marks
       /\ q.p.fin_seq = p.fin_seq /\ q.p.fin_pending = p.fin_pending
       /\ q \in Runs /\ q.got = r.got /\ q.out = c.out
  BY <1>1, <1>9, <1>10, <1>11, SteppedIs DEF Like
<1> HIDE DEF q
<1>13. Sender(q.p, w)
  <2>1. u <= n + 1 /\ n + 1 <= w + 1
    <3> HIDE DEF u, n, len
    <3> QED BY <1>0, <1>1, <1>3, <1>5
  <2>2. p.state \notin Opening /\ p.state \notin FinSent
    BY DEF Opening, FinSent
  <2> QED BY <1>2, <1>11, <1>12, <2>1, <2>2 DEF Sender
<1>14. Receiver(q.p, g + Len(q.got), v, over)
  BY <1>12 DEF Good, Receiver
<1>15. g + Len(q.got) <= v /\ \A i \in DOMAIN q.got : q.got[i] = g + i
  BY <1>12 DEF Good
<1>16. \A x \in q.out : Truthful(x, e, w, v, q.p.state \in FinSent, over)
  BY <1>9, <1>12 DEF Good, Like
<1>17. Good(q, e, w, g, v, over)
  BY <1>12, <1>13, <1>14, <1>15, <1>16 DEF Good
<1> QED BY <1>12, <1>17 DEF q, c

\* The retransmission timer
LEMMA Retries ==
    ASSUME NEW e, NEW w, NEW g, NEW v, NEW over, Ctx(e, w, g, v, over),
           NEW p \in Tcbs, Good(Do(p), e, w, g, v, over), NEW q \in Timeout(p)
    PROVE  Good(q, e, w, g, v, over) /\ q.got = <<>> /\ (p.state \in FinSent => q.p.state \in FinSent)
<1> DEFINE r == Do(p)
           Done(x) == Good(x, e, w, g, v, over) /\ x.got = <<>> /\ (p.state \in FinSent => x.p.state \in FinSent)
<1>1. r \in Runs /\ r.p = p /\ r.got = <<>> /\ p.me = e
  BY DoIs DEF Good
<1>2. Good(r, e, w, g, v, over)
  OBVIOUS
<1> HIDE DEF r
<1>3. p.iss \in Seqs /\ p.fin_seq \in Seqs /\ p.snd_nxt \in Seqs /\ Off(p.rcv_nxt) < Half
  BY <1>1, <1>2, Fields DEF Good, Receiver
<1>4. ASSUME NEW fl \in FlagSets, NEW seq \in Seqs,
             Truthful(Segment(p, fl, seq, <<>>), e, w, v, p.state \in FinSent, over)
      PROVE  Done(seg_out(r, fl, seq, <<>>))
  BY <1>1, <1>2, <1>4, Flags, Sends DEF Like
<1>5. CASE p.state \in Opening
  <2>1. Off(p.iss) = 0
    BY <1>1, <1>2, <1>5 DEF Good, Sender
  <2>2. q = seg_out(r, {"SYN"}, p.iss, <<>>) \/ q = seg_out(r, {"SYN", "ACK"}, p.iss, <<>>)
    BY <1>5 DEF Timeout, Opening, r
  <2>3. ASSUME NEW fl \in {{"SYN"}, {"SYN", "ACK"}}
        PROVE  Truthful(Segment(p, fl, p.iss, <<>>), e, w, v, p.state \in FinSent, over)
    <3> DEFINE s == Segment(p, fl, p.iss, <<>>)
    <3>1. fl \in FlagSets /\ "FIN" \notin fl
      BY Flags
    <3>2. s \in Segments
      BY <1>3, <3>1, Flags, SegmentIs
    <3>3. s.to = Peer(e) /\ s.flags = fl /\ s.seq = p.iss /\ s.ack = p.rcv_nxt /\ s.data = <<>>
      BY <1>1, SegmentFields
    <3> HIDE DEF s
    <3>4. Truthful(s, e, w, v, p.state \in FinSent, over)
      BY <1>3, <2>1, <3>1, <3>2, <3>3 DEF Truthful
    <3> QED BY <3>4 DEF s
  <2> QED BY <1>3, <1>4, <2>2, <2>3, Flags
<1>6. CASE p.buf # <<>> /\ p.state \in {"ESTABLISHED", "CLOSE_WAIT", "LAST_ACK", "FIN_WAIT_1"}
  <2>1. Done(Resend(r))
    BY <1>1, <1>2, <1>6, Resends DEF Like
  <2>2. CASE p.state = "FIN_WAIT_1" \/ InFlight(p) > 0
    <3>1. q = Resend(r)
      BY <1>6, <2>2 DEF Timeout, r
    <3> QED BY <2>1, <3>1
  <2>3. CASE p.state # "FIN_WAIT_1" /\ ~(InFlight(p) > 0) /\ Persisting(p)
    <3>1. q = Stepped(Probe(r))
      BY <1>1, <1>6, <2>3 DEF Timeout, r, Stepped, Probe
    <3>2. p.state \in {"ESTABLISHED", "CLOSE_WAIT"}
      BY <1>6, <2>3 DEF Persisting
    <3>3. InFlight(p) = 0
      <4>1. Off(p.snd_una) <= Off(p.snd_nxt)
        BY <1>1, <1>2, Stands
      <4>2. InFlight(p) \in Nat
        BY <4>1, Flying
      <4> QED BY <2>3, <4>2
    <3>4. Good(Stepped(Probe(r)), e, w, g, v, over) /\ Stepped(Probe(r)).p.state = p.state /\ Stepped(Probe(r)).got = <<>>
      BY <1>1, <1>2, <1>6, <3>2, <3>3, Probes
    <3> QED BY <3>1, <3>2, <3>4
  <2>4. CASE p.state # "FIN_WAIT_1" /\ ~(InFlight(p) > 0) /\ ~Persisting(p)
    <3>1. q \in tcp_output(r)
      BY <1>6, <2>4 DEF Timeout, r
    <3>2. Good(q, e, w, g, v, over) /\ q.got = <<>> /\ (p.state \in FinSent => q = r)
      BY <1>1, <1>2, <3>1, Outputs
    <3> QED BY <1>1, <3>2
  <2> QED BY <2>2, <2>3, <2>4
<1>7. CASE p.buf = <<>> /\ p.state \in {"LAST_ACK", "FIN_WAIT_1"}
  <2>1. q = seg_out(r, {"FIN", "ACK"}, p.fin_seq, <<>>)
    BY <1>7 DEF Timeout, r
  <2> DEFINE s == Segment(p, {"FIN", "ACK"}, p.fin_seq, <<>>)
  <2>2. s \in Segments
    BY <1>3, Flags, SegmentIs
  <2>3. s.to = Peer(e) /\ s.flags = {"FIN", "ACK"} /\ s.seq = p.fin_seq /\ s.ack = p.rcv_nxt /\ s.data = <<>>
    BY <1>1, SegmentFields
  <2> HIDE DEF s
  <2>4. p.state \in FinSent
    BY <1>7 DEF FinSent
  <2>5. Off(p.fin_seq) = w + 1
    BY <1>1, <1>2, <2>4 DEF Good, Sender
  <2>6. e \notin Closers => Off(p.rcv_nxt) = v + 2 /\ over
    <3> SUFFICES ASSUME e \notin Closers PROVE Off(p.rcv_nxt) = v + 2 /\ over
      OBVIOUS
    <3>1. p.state = "LAST_ACK"
      BY <1>1, <1>2, <1>7 DEF Good, Sender
    <3>2. p.state \in FinTaken
      BY <3>1 DEF FinTaken
    <3> QED BY <1>1, <1>2, <3>2 DEF Good, Receiver
  <2>7. Truthful(s, e, w, v, p.state \in FinSent, over)
    BY <1>3, <2>2, <2>3, <2>4, <2>5, <2>6, Flags DEF Truthful
  <2> QED BY <1>3, <1>4, <2>1, <2>7, Flags DEF s
<1>8. \/ p.state \in Opening
      \/ p.buf # <<>> /\ p.state \in {"ESTABLISHED", "CLOSE_WAIT", "LAST_ACK", "FIN_WAIT_1"}
      \/ p.buf = <<>> /\ p.state \in {"LAST_ACK", "FIN_WAIT_1"}
  BY DEF Timeout, Opening
<1> QED BY <1>5, <1>6, <1>7, <1>8

\* One byte more in the send buffer
Writes(p, b) == [p EXCEPT !.buf = Append(@, b)]

LEMMA WritesIs ==
    ASSUME NEW p \in Tcbs, NEW b \in Nat
    PROVE  LET q == Writes(p, b) IN
           /\ q \in Tcbs /\ q.me = p.me /\ q.state = p.state /\ q.iss = p.iss
           /\ q.snd_nxt = p.snd_nxt /\ q.snd_una = p.snd_una /\ q.buf = Append(p.buf, b)
           /\ q.rcv_nxt = p.rcv_nxt /\ q.marks = p.marks
           /\ q.fin_seq = p.fin_seq /\ q.fin_pending = p.fin_pending
<1>1. Append(p.buf, b) \in Seq(Nat)
  <2>1. p.buf \in Seq(Nat)
    BY Fields
  <2> QED BY <2>1
<1> QED BY <1>1 DEF Writes, Tcbs

LEMMA WriteKeeps ==
    ASSUME NEW e, NEW w, NEW g, NEW v, NEW over, Ctx(e, w, g, v, over), w < Written[e], g <= v,
           NEW p \in Tcbs, p.me = e, Sender(p, w), Receiver(p, g, v, over), Writable(p)
    PROVE  Ctx(e, w + 1, g, v, over) /\ Good(Do(Writes(p, w + 1)), e, w + 1, g, v, over)
<1> DEFINE u == Off(p.snd_una)
           n == Off(p.snd_nxt)
           q == Writes(p, w + 1)
<1>1. w \in Nat /\ w + 1 \in Nat
  BY CtxNumbers
<1>2. Ctx(e, w + 1, g, v, over)
  BY <1>1, Numbers DEF Ctx
<1>3. p.buf \in Seq(Nat) /\ u \in Nat /\ n \in Nat
  BY Fields, OffNat DEF Ctx
<1>4. p.state \in {"ESTABLISHED", "CLOSE_WAIT"}
  BY DEF Writable
<1>5. u + Len(p.buf) = w + 1 /\ u <= n /\ n <= w + 1 /\ u >= 1 /\ \A i \in DOMAIN p.buf : p.buf[i] = u + i - 1
  BY <1>4 DEF Sender, Opening
<1>6. /\ q \in Tcbs /\ q.me = p.me /\ q.state = p.state /\ q.iss = p.iss
      /\ q.snd_nxt = p.snd_nxt /\ q.snd_una = p.snd_una /\ q.buf = Append(p.buf, w + 1)
      /\ q.rcv_nxt = p.rcv_nxt /\ q.marks = p.marks
      /\ q.fin_seq = p.fin_seq /\ q.fin_pending = p.fin_pending
  BY <1>1, WritesIs
<1> HIDE DEF q
<1> DEFINE len == Len(p.buf)
<1>7. u + Len(q.buf) = w + 1 + 1 /\ n <= w + 1 + 1
  <2>1. Len(q.buf) = len + 1 /\ len \in Nat
    BY <1>3, <1>6
  <2>2. u + len = w + 1 /\ n <= w + 1
    BY <1>5
  <2> HIDE DEF u, n, len
  <2> QED BY <1>1, <1>3, <2>1, <2>2
<1>8. ASSUME NEW i \in DOMAIN q.buf PROVE q.buf[i] = u + i - 1
  <2>1. i \in 1 .. len + 1 /\ len \in Nat
    BY <1>3, <1>6
  <2>2. CASE i \in 1 .. len
    <3>1. q.buf[i] = p.buf[i] /\ i \in DOMAIN p.buf
      BY <1>3, <1>6, <2>2
    <3> QED BY <1>5, <3>1
  <2>3. CASE i = len + 1
    <3>1. q.buf[i] = w + 1
      BY <1>3, <1>6, <2>3
    <3>2. u + len = w + 1
      BY <1>5
    <3> HIDE DEF u, n, len
    <3> QED BY <1>1, <1>3, <2>1, <2>3, <3>1, <3>2
  <2> QED BY <2>1, <2>2, <2>3
<1>9. Sender(q, w + 1)
  <2>1. q.state \notin Opening /\ q.state \notin FinSent /\ q.state \in {"ESTABLISHED", "CLOSE_WAIT"}
    BY <1>4, <1>6 DEF Opening, FinSent
  <2>2. Off(q.snd_una) = u /\ Off(q.snd_nxt) = n /\ q.fin_pending = p.fin_pending
    BY <1>6
  <2>3. u >= 1 /\ u <= n
    BY <1>5
  <2>4. q.fin_pending /\ q.state = "ESTABLISHED" => q.me \in Closers
    BY <1>6 DEF Sender
  <2> HIDE DEF u, n
  <2> QED BY <1>7, <1>8, <2>1, <2>2, <2>3, <2>4 DEF Sender
<1>10. Receiver(q, g, v, over)
  BY <1>6 DEF Receiver
<1>11. Good(Do(q), e, w + 1, g, v, over)
  BY <1>2, <1>6, <1>9, <1>10, Starts
<1> QED BY <1>2, <1>11 DEF q

LEMMA FirstNumber == ASSUME NoWrap, NEW e \in Ends, opened[e] = 0 PROVE gen_isn(e) \in Seqs /\ Off(gen_isn(e)) = 0
<1>1. SeqMod \in Nat /\ SeqMod > 6
  BY Numbers
<1>2. gen_isn(e) = SeqMod - 2
  BY <1>1 DEF gen_isn, Plus
<1>3. SeqMod - 2 \in Seqs
  BY <1>1 DEF Seqs
<1> QED BY <1>1, <1>2, <1>3, OffIs

LEMMA NewPcbIs ==
    ASSUME NoWrap, NEW e \in Ends, NEW st \in TcpStates, NEW iss \in Seqs, NEW rcv \in Seqs,
           NEW wnd \in Int, NEW seq \in Seqs
    PROVE  LET p == NewPcb(e, st, iss, rcv, wnd, seq) IN
           /\ p \in Tcbs /\ p.me = e /\ p.state = st /\ p.iss = iss /\ p.snd_una = iss /\ p.snd_nxt = iss
           /\ p.buf = <<>> /\ p.rcv_nxt = rcv /\ p.marks = {} /\ ~p.fin_pending
<1>1. 0 \in Seqs
  BY Numbers DEF Seqs
<1>2. {} \in {m \in SUBSET [seq : Seqs, byte : Nat] : IsFiniteSet(m)}
  BY FS_EmptySet
<1>3. <<>> \in Seq(Nat)
  OBVIOUS
<1>4. e \in {"client", "server"}
  BY DEF Ends, Client, Server
<1> QED BY <1>1, <1>2, <1>3, <1>4 DEF NewPcb, Tcbs

LEMMA Opens ==
    ASSUME NEW e, NEW v, NEW over, Ctx(e, 0, 0, v, over), opened[e] = 0,
           NEW st \in Opening, NEW rcv \in Seqs, NEW wnd \in Int, NEW seq \in Seqs,
           Off(rcv) < Half, st = "SYN_RCVD" => Off(rcv) = 1,
           NEW fl \in {{"SYN"}, {"SYN", "ACK"}}
    PROVE  LET c == seg_out(Do(NewPcb(e, st, gen_isn(e), rcv, wnd, seq)), fl, gen_isn(e), <<>>)
               q == Stepped(c)
           IN  /\ Good(q, e, 0, 0, v, over) /\ q.got = <<>> /\ q.out = c.out
               /\ q.p.state = st /\ c \in Runs
<1> DEFINE iss == gen_isn(e)
           p == NewPcb(e, st, iss, rcv, wnd, seq)
           d == Do(p)
           c == seg_out(d, fl, iss, <<>>)
           q == Stepped(c)
           t == Segment(p, fl, iss, <<>>)
<1>0. NoWrap /\ SeqMod \in Nat /\ SeqMod > 6 /\ v \in Nat /\ e \in Ends
  BY CtxNumbers DEF Ctx
<1>1. iss \in Seqs /\ Off(iss) = 0
  BY <1>0, FirstNumber
<1> HIDE DEF iss
<1>2. st \in TcpStates
  BY DEF Opening, TcpStates
<1>3. /\ p \in Tcbs /\ p.me = e /\ p.state = st /\ p.iss = iss /\ p.snd_una = iss /\ p.snd_nxt = iss
      /\ p.buf = <<>> /\ p.rcv_nxt = rcv /\ p.marks = {} /\ ~p.fin_pending
  BY <1>0, <1>1, <1>2, NewPcbIs
<1> HIDE DEF p
<1>4. d \in Runs /\ d.p = p /\ d.out = {} /\ d.got = <<>>
  BY <1>3, DoIs
<1> HIDE DEF d
<1>5. fl \in FlagSets /\ "FIN" \notin fl
  BY Flags
<1>6. c \in Runs /\ Like(c.p, p) /\ c.got = <<>> /\ c.out = {t}
  <2>1. <<>> \in Datas
    BY Flags
  <2>2. c \in Runs /\ Like(c.p, d.p) /\ c.got = d.got /\ c.out = d.out \cup {Segment(d.p, fl, iss, <<>>)}
    BY <1>1, <1>4, <1>5, <2>1, SegOut
  <2> HIDE DEF c
  <2> QED BY <1>4, <2>2
<1>7. Truthful(t, e, 0, v, FALSE, over)
  <2>1. t \in Segments
    BY <1>1, <1>3, <1>5, Flags, SegmentIs
  <2>2. t.to = Peer(e) /\ t.flags = fl /\ t.seq = iss /\ t.ack = rcv /\ t.data = <<>>
    BY <1>3, SegmentFields
  <2> HIDE DEF t
  <2> QED BY <1>1, <1>5, <2>1, <2>2 DEF Truthful
<1> HIDE DEF c
<1>8. c.p.snd_nxt = iss
  BY <1>3, <1>6 DEF Like
<1>9. Plus(iss, 1) \in Seqs /\ Off(Plus(iss, 1)) = 1
  <2>1. 1 \in Nat /\ Off(iss) + 1 < SeqMod /\ Off(iss) + 1 = 1
    BY <1>0, <1>1
  <2>2. Plus(iss, 1) \in Seqs /\ Off(Plus(iss, 1)) = Off(iss) + 1
    BY <1>0, <1>1, <2>1, OffPlus
  <2> QED BY <2>1, <2>2
<1>10. /\ q.p \in Tcbs /\ q.p.me = e /\ q.p.state = st /\ q.p.iss = iss
       /\ q.p.snd_nxt = Plus(iss, 1) /\ q.p.snd_una = iss /\ q.p.buf = <<>>
       /\ q.p.rcv_nxt = rcv /\ q.p.marks = {} /\ ~q.p.fin_pending
       /\ q \in Runs /\ q.got = <<>> /\ q.out = {t} /\ q.out = c.out
  BY <1>3, <1>6, <1>8, <1>9, SteppedIs DEF Like
<1> HIDE DEF q
<1>12. st \notin {"ESTABLISHED", "CLOSE_WAIT"} /\ st \notin FinSent /\ st \notin FinTaken /\ st # "TIME_WAIT"
  BY DEF Opening, FinSent, FinTaken
<1>13. Sender(q.p, 0)
  BY <1>1, <1>9, <1>10, <1>12 DEF Sender, Opening
<1>14. Receiver(q.p, 0, v, over)
  BY <1>10, <1>12 DEF Receiver, Opening, Reading
<1>15. 0 + Len(q.got) = 0 /\ DOMAIN q.got = {}
  BY <1>10
<1>16. \A x \in q.out : Truthful(x, e, 0, v, q.p.state \in FinSent, over)
  <2>1. (q.p.state \in FinSent) = FALSE
    BY <1>10, <1>12
  <2> QED BY <1>7, <1>10, <2>1
<1>17. Good(q, e, 0, 0, v, over)
  BY <1>0, <1>10, <1>13, <1>14, <1>15, <1>16 DEF Good
<1> QED BY <1>6, <1>10, <1>17 DEF q, c, d, p, iss

\* The control block of the client once the server has answered its SYN
Answered(p, s) ==
    [p EXCEPT !.state = "ESTABLISHED", !.snd_una = s.ack, !.snd_wnd = s.win,
              !.wl1 = s.seq, !.wl2 = s.ack, !.rcv_nxt = Plus(s.seq, 1), !.rtx_count = 0]

LEMMA Answers ==
    ASSUME NEW e, NEW w, NEW g, NEW v, NEW over, Ctx(e, w, g, v, over), g <= v,
           NEW p \in Tcbs, p.me = e, p.state = "SYN_SENT", Sender(p, w), Receiver(p, g, v, over),
           NEW s \in Segments, s.ack = Plus(p.iss, 1), Off(s.seq) = 0
    PROVE  Good(Ack(Do(Answered(p, s))), e, w, g, v, over)
<1> DEFINE q == Answered(p, s)
<1>1. NoWrap /\ SeqMod \in Nat /\ SeqMod > 6 /\ Half \in Nat /\ w \in Nat /\ w + 3 < Half
  BY CtxNumbers
<1>2. s.ack \in Seqs /\ s.seq \in Seqs /\ s.win \in Int /\ p.iss \in Seqs
  BY SegmentTypes, Fields
<1>3. p.buf = <<>> /\ w = 0 /\ Off(p.iss) = 0 /\ Off(p.snd_nxt) = 1 /\ ~p.fin_pending
  BY DEF Sender, Opening
<1>4. g = 0 /\ \A m \in p.marks : Off(m.seq) = m.byte /\ m.byte \in 1 .. v
  BY DEF Receiver
<1>5. Plus(s.seq, 1) \in Seqs /\ Off(Plus(s.seq, 1)) = 1
  <2>1. 1 \in Nat /\ Off(s.seq) + 1 < SeqMod /\ Off(s.seq) + 1 = 1
    BY <1>1
  <2>2. Plus(s.seq, 1) \in Seqs /\ Off(Plus(s.seq, 1)) = Off(s.seq) + 1
    BY <1>1, <1>2, <2>1, OffPlus
  <2> QED BY <2>1, <2>2
<1>6. Off(s.ack) = 1
  <2>1. 1 \in Nat /\ Off(p.iss) + 1 < SeqMod /\ Off(p.iss) + 1 = 1
    BY <1>1, <1>3
  <2>2. Off(Plus(p.iss, 1)) = Off(p.iss) + 1
    BY <1>1, <1>2, <2>1, OffPlus
  <2> QED BY <2>1, <2>2
<1>7. /\ q \in Tcbs /\ q.me = e /\ q.state = "ESTABLISHED" /\ q.snd_una = s.ack /\ q.snd_nxt = p.snd_nxt
      /\ q.buf = p.buf /\ q.rcv_nxt = Plus(s.seq, 1) /\ q.marks = p.marks /\ ~q.fin_pending
  BY <1>2, <1>3, <1>5 DEF Answered, Tcbs, TcpStates
<1> HIDE DEF q
<1>8. Sender(q, w)
  BY <1>1, <1>3, <1>6, <1>7 DEF Sender, Opening, FinSent
<1>9. Receiver(q, g, v, over)
  BY <1>1, <1>4, <1>5, <1>7 DEF Receiver, FinTaken
<1>10. Good(Do(q), e, w, g, v, over)
  BY <1>7, <1>8, <1>9, Starts
<1>11. Good(Ack(Do(q)), e, w, g, v, over)
  BY <1>10, Acks
<1> QED BY <1>11 DEF q

-----------------------------------------------------------------------------
(***************************************************************************)
(* The two ends together                                                   *)
(***************************************************************************)
LEMMA Peers == \A e \in Ends : Peer(e) \in Ends /\ Peer(e) # e /\ Peer(Peer(e)) = e /\ \A d \in Ends : d # e => d = Peer(e)
BY DEF Ends, Peer, Client, Server

LEMMA Parts ==
    ASSUME NoWrap, TcpInv, NEW e \in Ends
    PROVE  LET g == Len(got[e])
               v == wrote[Peer(e)]
           IN  /\ Ctx(e, wrote[e], g, v, Over(Peer(e))) /\ g <= v
               /\ pcb[e] # NoPcb =>
                      /\ pcb[e] \in Tcbs /\ pcb[e].me = e /\ opened[e] = 1
                      /\ Sender(pcb[e], wrote[e]) /\ Receiver(pcb[e], g, v, Over(Peer(e)))
                      /\ Good(Do(pcb[e]), e, wrote[e], g, v, Over(Peer(e)))
<1> DEFINE g == Len(got[e])
           v == wrote[Peer(e)]
           over == Over(Peer(e))
<1>1. TcpType /\ TcpEnds /\ Peer(e) \in Ends
  BY Peers DEF TcpInv
<1>2. wrote[e] \in 0 .. Written[e] /\ v \in 0 .. Written[Peer(e)]
  BY <1>1, Numbers DEF TcpType
<1>3. g \in Nat /\ g <= v
  <2>1. got[e] \in Seq(Nat)
    BY <1>1 DEF TcpType
  <2> QED BY <1>1, <2>1 DEF TcpEnds
<1>4. over \in BOOLEAN
  BY DEF Over
<1>5. Ctx(e, wrote[e], g, v, over)
  BY <1>2, <1>3, <1>4 DEF Ctx
<1>6. ASSUME pcb[e] # NoPcb
      PROVE  /\ pcb[e] \in Tcbs /\ pcb[e].me = e /\ opened[e] = 1
             /\ Sender(pcb[e], wrote[e]) /\ Receiver(pcb[e], g, v, over)
             /\ Good(Do(pcb[e]), e, wrote[e], g, v, over)
  <2>1. pcb[e] \in Tcbs /\ opened[e] \in {0, 1}
    BY <1>1, <1>6 DEF TcpType
  <2>2. pcb[e].me = e /\ opened[e] # 0 /\ Sender(pcb[e], wrote[e]) /\ Receiver(pcb[e], g, v, over)
    BY <1>1, <1>6 DEF TcpEnds
  <2> HIDE DEF over, g, v
  <2>3. Good(Do(pcb[e]), e, wrote[e], g, v, over)
    BY <1>3, <1>5, <2>1, <2>2, Starts
  <2> QED BY <2>1, <2>2, <2>3
<1> QED BY <1>3, <1>5, <1>6

\* What holds of what has been written goes on to hold when more is.
LEMMA ReceiverGrows ==
    ASSUME NEW p, NEW g, NEW v \in Nat, NEW over, Receiver(p, g, v, over),
           NEW v2 \in Nat, v <= v2, NEW over2, over => over2 /\ v2 = v
    PROVE  Receiver(p, g, v2, over2)
<1>1. \A m \in p.marks : Off(m.seq) = m.byte /\ m.byte \in 1 .. v2
  BY DEF Receiver
<1> QED BY <1>1 DEF Receiver

LEMMA TruthGrows ==
    ASSUME NEW s, NEW e, NEW w \in Nat, NEW v, NEW over, NEW own, Truthful(s, e, w, v, over, own),
           NEW w2 \in Nat, w <= w2, NEW over2, over => over2 /\ w2 = w,
           NEW v2, NEW own2, own => own2 /\ v2 = v
    PROVE  Truthful(s, e, w2, v2, over2, own2)
BY DEF Truthful

\* A reset says nothing of a stream.
Mute(s) == s \in Segments /\ s.flags = {"RST"} /\ s.data = <<>> /\ Off(s.ack) < Half

LEMMA MuteIsTrue ==
    ASSUME NEW s, Mute(s), NEW e \in Ends, s.to = Peer(e), NEW w, NEW v, NEW over, NEW own
    PROVE  Truthful(s, e, w, v, over, own)
BY DEF Mute, Truthful

\* The handler of e that leaves r moves e on, whose application has written w by now.
Moves(e, r, w) ==
    /\ Good(r, e, w, Len(got[e]), wrote[Peer(e)], Over(Peer(e)))
    /\ w \in wrote[e] .. Written[e]
    /\ Over(e) => w = wrote[e] /\ r.p.state \in FinSent
    /\ wrote' = [wrote EXCEPT ![e] = w]
    /\ got' = [got EXCEPT ![e] = @ \o r.got]
    /\ opened' = [opened EXCEPT ![e] = 1]
    /\ pcb' = [pcb EXCEPT ![e] = r.p] \/ pcb' = [pcb EXCEPT ![e] = NoPcb]
    /\ \A s \in wire' : s \in wire \/ s \in r.out \/ Mute(s)

LEMMA Cat ==
    ASSUME NEW a \in Seq(Nat), NEW b \in Seq(Nat)
    PROVE  /\ DOMAIN (a \o b) = 1 .. Len(a) + Len(b)
           /\ \A i \in 1 .. Len(a) + Len(b) : i > Len(a) => (a \o b)[i] = b[i - Len(a)] /\ i - Len(a) \in DOMAIN b
<1>1. a \o b \in Seq(Nat) /\ Len(a \o b) = Len(a) + Len(b)
  OBVIOUS
<1>2. ASSUME NEW i \in 1 .. Len(a) + Len(b), i > Len(a) PROVE (a \o b)[i] = b[i - Len(a)] /\ i - Len(a) \in 1 .. Len(b)
  BY <1>2
<1> QED BY <1>1, <1>2

LEMMA MoveKeeps ==
    ASSUME NoWrap, TcpInv, NEW e \in Ends, NEW r, NEW w, Moves(e, r, w)
    PROVE  TcpInv'
<1> DEFINE g == Len(got[e])
           v == wrote[Peer(e)]
           o == Peer(e)
<1>1. TcpType /\ TcpEnds /\ TcpWire /\ o \in Ends /\ o # e /\ Peer(o) = e /\ \A d \in Ends : d = e \/ d = o
  BY Peers DEF TcpInv
<1>2. Good(r, e, w, g, v, Over(o)) /\ r \in Runs /\ r.p \in Tcbs /\ r.got \in Seq(Nat)
  BY DEF Moves, Good, Runs
<1>3. w \in Nat /\ wrote[e] \in Nat /\ wrote[e] <= w /\ w <= Written[e] /\ (Over(e) => w = wrote[e])
  <2>1. Written[e] \in Nat /\ wrote[e] \in Nat
    BY <1>1, Numbers DEF TcpType
  <2> QED BY <2>1 DEF Moves
<1>4. /\ wrote'[e] = w /\ wrote'[o] = v /\ opened'[e] = 1 /\ opened'[o] = opened[o]
      /\ got'[e] = got[e] \o r.got /\ got'[o] = got[o]
      /\ pcb'[e] \in {r.p, NoPcb} /\ pcb'[o] = pcb[o]
  BY <1>1 DEF Moves, TcpType
<1>5. got[e] \in Seq(Nat) /\ got[o] \in Seq(Nat) /\ g \in Nat /\ v \in Nat /\ v <= Written[o]
  BY <1>1 DEF TcpType
<1>6. TcpType'
  <2>1. pcb' \in [Ends -> Tcbs \cup {NoPcb}]
    BY <1>1, <1>2 DEF Moves, TcpType
  <2>2. wrote' \in [Ends -> Nat] /\ \A d \in Ends : wrote'[d] <= Written[d]
    BY <1>1, <1>3, <1>4, <1>5 DEF Moves, TcpType
  <2>3. got[e] \o r.got \in Seq(Nat)
    BY <1>2, <1>5
  <2>4. got' \in [Ends -> Seq(Nat)]
    BY <1>1, <2>3 DEF Moves, TcpType
  <2>5. opened' \in [Ends -> {0, 1}]
    BY <1>1 DEF Moves, TcpType
  <2> QED BY <2>1, <2>2, <2>4, <2>5 DEF TcpType
<1>7. Over(o)' = Over(o)
  BY <1>4 DEF Over
<1>8. (r.p.state \in FinSent => Over(e)') /\ (Over(e) => Over(e)')
  BY <1>4 DEF Over, Moves
<1>9. TcpEnds'
  <2>1. /\ Len(got'[e]) <= wrote'[Peer(e)] /\ \A i \in DOMAIN got'[e] : got'[e][i] = i
    <3>1. g + Len(r.got) <= v /\ \A i \in DOMAIN r.got : r.got[i] = g + i
      BY <1>2 DEF Good
    <3>2. \A i \in DOMAIN got[e] : got[e][i] = i
      BY <1>1 DEF TcpEnds
    <3>3. Len(got[e] \o r.got) = g + Len(r.got) /\ Len(r.got) \in Nat
      BY <1>2, <1>5
    <3>4. ASSUME NEW i \in DOMAIN (got[e] \o r.got) PROVE (got[e] \o r.got)[i] = i
      <4>1. i \in 1 .. g + Len(r.got)
        BY <1>2, <1>5, Cat
      <4>2. CASE i <= g
        <5>1. (got[e] \o r.got)[i] = got[e][i] /\ i \in DOMAIN got[e]
          BY <1>2, <1>5, <4>1, <4>2
        <5> QED BY <3>2, <5>1
      <4>3. CASE i > g
        <5>1. (got[e] \o r.got)[i] = r.got[i - g] /\ i - g \in DOMAIN r.got
          BY <1>2, <1>5, <4>1, <4>3, Cat
        <5>2. r.got[i - g] = g + (i - g)
          BY <3>1, <5>1
        <5> HIDE DEF g
        <5> QED BY <1>5, <4>1, <5>1, <5>2
      <4> QED BY <1>5, <4>1, <4>2, <4>3
    <3> QED BY <1>4, <3>1, <3>3, <3>4
  <2>2. pcb'[e] # NoPcb =>
          pcb'[e].me = e /\ Sender(pcb'[e], wrote'[e]) /\ Receiver(pcb'[e], Len(got'[e]), wrote'[o], Over(o)')
    <3>1. Len(got'[e]) = g + Len(r.got)
      BY <1>2, <1>4, <1>5
    <3> QED BY <1>2, <1>4, <1>7, <3>1 DEF Good
  <2>3. Len(got'[o]) <= wrote'[e] /\ \A i \in DOMAIN got'[o] : got'[o][i] = i
    <3>1. Len(got[o]) <= wrote[e] /\ \A i \in DOMAIN got[o] : got[o][i] = i
      BY <1>1 DEF TcpEnds
    <3>2. Len(got[o]) \in Nat
      BY <1>5
    <3> QED BY <1>3, <1>4, <3>1, <3>2
  <2>4. pcb'[o] # NoPcb =>
          pcb'[o].me = o /\ Sender(pcb'[o], wrote'[o]) /\ Receiver(pcb'[o], Len(got'[o]), wrote'[e], Over(e)')
    <3> SUFFICES ASSUME pcb[o] # NoPcb
                 PROVE  pcb[o].me = o /\ Sender(pcb[o], wrote[o]) /\ Receiver(pcb[o], Len(got[o]), w, Over(e)')
      BY <1>4
    <3>1. pcb[o].me = o /\ Sender(pcb[o], wrote[o]) /\ Receiver(pcb[o], Len(got[o]), wrote[e], Over(e))
      BY <1>1 DEF TcpEnds
    <3>2. Receiver(pcb[o], Len(got[o]), w, Over(e)')
      BY <1>3, <1>8, <3>1, ReceiverGrows
    <3> QED BY <3>1, <3>2
  <2>5. \A d \in Ends : opened'[d] = 0 => pcb'[d] = NoPcb /\ wrote'[d] = 0 /\ got'[d] = <<>>
    BY <1>1, <1>4 DEF TcpEnds
  <2> QED BY <1>1, <2>1, <2>2, <2>3, <2>4, <2>5 DEF TcpEnds
<1>10. TcpWire'
  <2> SUFFICES ASSUME NEW s \in wire'
               PROVE  Truthful(s, Peer(s.to), wrote'[Peer(s.to)], wrote'[s.to], Over(Peer(s.to))', Over(s.to)')
    BY DEF TcpWire
  <2>1. CASE s \in wire
    <3>1. Truthful(s, Peer(s.to), wrote[Peer(s.to)], wrote[s.to], Over(Peer(s.to)), Over(s.to))
      BY <1>1, <2>1 DEF TcpWire
    <3>2. s.to \in {e, o}
      BY <1>1, <3>1 DEF Truthful, Segments
    <3>3. CASE s.to = e
      <4>1. Truthful(s, o, v, wrote[e], Over(o), Over(e))
        BY <3>1, <3>3
      <4>2. Truthful(s, o, v, w, Over(o), Over(e)')
        BY <1>3, <1>5, <1>8, <4>1, TruthGrows
      <4> QED BY <1>4, <1>7, <3>3, <4>2
    <3>4. CASE s.to = o
      <4>1. Truthful(s, e, wrote[e], v, Over(e), Over(o))
        BY <1>1, <3>1, <3>4
      <4>2. Truthful(s, e, w, v, Over(e)', Over(o))
        BY <1>3, <1>5, <1>8, <4>1, TruthGrows
      <4> QED BY <1>1, <1>4, <1>7, <3>4, <4>2
    <3> QED BY <3>2, <3>3, <3>4
  <2>2. CASE s \in r.out
    <3>1. Truthful(s, e, w, v, r.p.state \in FinSent, Over(o))
      BY <1>2, <2>2 DEF Good
    <3>2. Truthful(s, e, w, v, Over(e)', Over(o))
      BY <1>3, <1>8, <3>1 DEF Truthful
    <3>3. s.to = o
      BY <3>1 DEF Truthful
    <3> QED BY <1>1, <1>4, <1>7, <3>2, <3>3
  <2>3. CASE Mute(s)
    <3>1. s.to \in Ends
      BY <2>3 DEF Mute, Segments
    <3> QED BY <2>3, <3>1, MuteIsTrue, Peers
  <2> QED BY <2>1, <2>2, <2>3 DEF Moves
<1> QED BY <1>6, <1>9, <1>10 DEF TcpInv

\* Nothing but the wire moves.
LEMMA StillKeeps ==
    ASSUME TcpInv, UNCHANGED <<pcb, wrote, got, opened>>, \A s \in wire' : s \in wire \/ Mute(s)
    PROVE  TcpInv'
<1>1. \A e \in Ends : Over(e)' = Over(e)
  BY DEF Over
<1>2. TcpType'
  BY DEF TcpInv, TcpType
<1>3. TcpEnds'
  BY <1>1, Peers DEF TcpInv, TcpEnds
<1>4. ASSUME NEW s \in wire'
      PROVE  Truthful(s, Peer(s.to), wrote[Peer(s.to)], wrote[s.to], Over(Peer(s.to)), Over(s.to)) /\ s.to \in Ends
  <2>1. CASE s \in wire
    BY <2>1 DEF TcpInv, TcpWire, Truthful, Segments
  <2>2. CASE Mute(s)
    <3>1. s.to \in Ends
      BY <2>2 DEF Mute, Segments
    <3> QED BY <2>2, <3>1, MuteIsTrue, Peers
  <2> QED BY <2>1, <2>2
<1>5. TcpWire'
  BY <1>1, <1>4, Peers DEF TcpWire
<1> QED BY <1>2, <1>3, <1>5 DEF TcpInv

LEMMA RstIsMute == ASSUME NoWrap, NEW s \in Segments PROVE Mute(send_rst(s))
<1>1. SeqMod \in Nat /\ SeqMod > 6 /\ Half \in Nat
  BY Numbers
<1>2. Half > 3
  <2>1. Written[Client] \in Nat /\ Written[Client] + 3 < Half
    BY Numbers DEF Ends
  <2> QED BY <1>1, <2>1
<1>3. 0 \in Seqs /\ Off(0) = 2
  <2>1. 0 \in Seqs
    BY <1>1 DEF Seqs
  <2> QED BY <1>1, <2>1, OffIs
<1>4. Peer(s.to) \in Ends /\ s.ack \in Seqs
  BY SegmentTypes, Peers
<1>5. send_rst(s) \in Segments
  BY <1>3, <1>4, Flags DEF send_rst, Segments
<1> QED BY <1>1, <1>2, <1>3, <1>5 DEF Mute, send_rst

\* A handler of an open end that leaves r
LEMMA HandlerKeeps ==
    ASSUME NoWrap, TcpInv, NEW e \in Ends, pcb[e] # NoPcb,
           NEW r, Good(r, e, wrote[e], Len(got[e]), wrote[Peer(e)], Over(Peer(e))),
           pcb[e].state \in FinSent => r.p.state \in FinSent,
           got' = [got EXCEPT ![e] = @ \o r.got], UNCHANGED <<wrote, opened>>,
           pcb' = [pcb EXCEPT ![e] = r.p] \/ pcb' = [pcb EXCEPT ![e] = NoPcb],
           \A s \in wire' : s \in wire \/ s \in r.out \/ Mute(s)
    PROVE  TcpInv'
<1>1. TcpType /\ opened[e] = 1 /\ wrote[e] \in Nat /\ wrote[e] <= Written[e] /\ Written[e] \in Nat
  BY Parts, Numbers DEF TcpInv, TcpType
<1>2. wrote' = [wrote EXCEPT ![e] = wrote[e]] /\ opened' = [opened EXCEPT ![e] = 1]
  BY <1>1 DEF TcpType
<1>3. wrote[e] \in wrote[e] .. Written[e]
  BY <1>1
<1>4. Over(e) => r.p.state \in FinSent
  BY DEF Over
<1>5. Moves(e, r, wrote[e])
  BY <1>2, <1>3, <1>4 DEF Moves
<1> QED BY <1>5, MoveKeeps

LEMMA NothingHandedOver ==
    ASSUME TcpInv, NEW e \in Ends, NEW r, r.got = <<>>, UNCHANGED got
    PROVE  got' = [got EXCEPT ![e] = @ \o r.got]
<1>1. got \in [Ends -> Seq(Nat)]
  BY DEF TcpInv, TcpType
<1>2. got[e] \o <<>> = got[e]
  BY <1>1
<1> QED BY <1>1, <1>2

LEMMA DropKeeps ==
    ASSUME NoWrap, TcpInv, NEW e \in Ends, pcb[e] # NoPcb, Drop(e), \A s \in wire' : s \in wire \/ Mute(s)
    PROVE  TcpInv'
<1> DEFINE r == Do(pcb[e])
<1>1. pcb[e] \in Tcbs /\ Good(r, e, wrote[e], Len(got[e]), wrote[Peer(e)], Over(Peer(e)))
  BY Parts
<1>2. r.p = pcb[e] /\ r.got = <<>>
  BY <1>1, DoIs
<1> HIDE DEF r
<1>3. got' = [got EXCEPT ![e] = @ \o r.got]
  BY <1>2, NothingHandedOver DEF Drop
<1>4. pcb' = [pcb EXCEPT ![e] = NoPcb] /\ UNCHANGED <<wrote, opened>>
  BY DEF Drop
<1> QED BY <1>1, <1>2, <1>3, <1>4, HandlerKeeps

LEMMA InputStep ==
    ASSUME NoWrap, ~LateSyn, TcpInv, NEW e \in Ends, NEW s \in wire, s.to = e,
           NEW rest \in SUBSET wire, Input(e, s, rest)
    PROVE  TcpInv'
<1> DEFINE p == pcb[e]
           o == Peer(e)
           g == Len(got[e])
<1>1. Truthful(s, o, wrote[o], wrote[e], Over(o), Over(e))
  BY DEF TcpInv, TcpWire
<1>2. /\ s \in Segments /\ Off(s.ack) < Half
      /\ "SYN" \in s.flags => Off(s.seq) = 0
  BY <1>1, TruthfulTold
<1>3. Mute(send_rst(s))
  BY <1>2, RstIsMute
<1>4. Ctx(e, wrote[e], g, wrote[o], Over(o)) /\ g <= wrote[o]
  BY Parts
<1>5. CASE /\ e = Server /\ IsSyn(s)
           /\ p = NoPcb => opened[e] = 0
           /\ p = NoPcb \/ LateSyn
           /\ \E r \in {seg_out(Do(NewPcb(e, "SYN_RCVD", gen_isn(e), Plus(s.seq, 1), s.win, s.seq)),
                                {"SYN", "ACK"}, gen_isn(e), <<>>)} :
                 /\ pcb' = [pcb EXCEPT ![e] = [r.p EXCEPT !.snd_nxt = Plus(@, 1)]]
                 /\ wire' = rest \cup r.out
           /\ opened' = [opened EXCEPT ![e] = @ + 1]
           /\ UNCHANGED <<wrote, got>>
  <2>1. p = NoPcb /\ opened[e] = 0
    BY <1>5
  <2>2. wrote[e] = 0 /\ got[e] = <<>> /\ g = 0
    BY <2>1 DEF TcpInv, TcpEnds
  <2>3. s.seq \in Seqs /\ s.win \in Int /\ Off(s.seq) = 0
    BY <1>2, <1>5, SegmentTypes DEF IsSyn
  <2>4. SeqMod \in Nat /\ SeqMod > 6 /\ Half \in Nat /\ Half > 3
    <3>1. wrote[e] \in Nat
      BY DEF TcpInv, TcpType
    <3> QED BY <1>4, <3>1, CtxNumbers
  <2>5. Plus(s.seq, 1) \in Seqs /\ Off(Plus(s.seq, 1)) = 1
    <3>1. 1 \in Nat /\ Off(s.seq) + 1 < SeqMod /\ Off(s.seq) + 1 = 1
      BY <2>3, <2>4
    <3>2. Plus(s.seq, 1) \in Seqs /\ Off(Plus(s.seq, 1)) = Off(s.seq) + 1
      BY <2>3, <3>1, OffPlus
    <3> QED BY <3>1, <3>2
  <2> DEFINE c == seg_out(Do(NewPcb(e, "SYN_RCVD", gen_isn(e), Plus(s.seq, 1), s.win, s.seq)),
                          {"SYN", "ACK"}, gen_isn(e), <<>>)
             q == Stepped(c)
  <2>6. Ctx(e, 0, 0, wrote[o], Over(o))
    BY <1>4, <2>2
  <2>7. /\ Good(q, e, 0, 0, wrote[o], Over(o)) /\ q.got = <<>> /\ q.out = c.out
        /\ q.p = [c.p EXCEPT !.snd_nxt = Plus(@, 1)]
    <3>1. "SYN_RCVD" \in Opening /\ {"SYN", "ACK"} \in {{"SYN"}, {"SYN", "ACK"}}
      BY DEF Opening
    <3>2. Off(Plus(s.seq, 1)) < Half
      BY <2>4, <2>5
    <3>3. Good(q, e, 0, 0, wrote[o], Over(o)) /\ q.got = <<>> /\ q.out = c.out /\ c \in Runs
      BY <2>1, <2>3, <2>5, <2>6, <3>1, <3>2, Opens
    <3> HIDE DEF c
    <3>4. q.p = [c.p EXCEPT !.snd_nxt = Plus(@, 1)]
      BY <3>3 DEF Stepped, Runs, Tcbs
    <3> QED BY <3>3, <3>4
  <2>8. pcb' = [pcb EXCEPT ![e] = [c.p EXCEPT !.snd_nxt = Plus(@, 1)]] /\ wire' = rest \cup c.out
    BY <1>5
  <2> HIDE DEF q, c
  <2>9. pcb' = [pcb EXCEPT ![e] = q.p] /\ \A x \in wire' : x \in wire \/ x \in q.out
    BY <2>7, <2>8
  <2>10. opened' = [opened EXCEPT ![e] = 1] /\ wrote' = [wrote EXCEPT ![e] = 0]
    BY <1>5, <2>1, <2>2 DEF TcpInv, TcpType
  <2>11. got' = [got EXCEPT ![e] = @ \o q.got]
    BY <1>5, <2>7, NothingHandedOver
  <2>12. ~Over(e)
    BY <2>1 DEF Over
  <2>13. 0 \in wrote[e] .. Written[e]
    BY <2>2, Numbers
  <2>14. Moves(e, q, 0)
    BY <2>2, <2>7, <2>9, <2>10, <2>11, <2>12, <2>13 DEF Moves
  <2> QED BY <2>14, MoveKeeps
<1>6. CASE /\ p = NoPcb /\ ~IsSyn(s)
           /\ wire' = rest \cup (IF "RST" \in s.flags THEN {} ELSE {send_rst(s)})
           /\ Nothing
  BY <1>3, <1>6, StillKeeps DEF Nothing
<1>7. CASE /\ p # NoPcb /\ s.flags = {"RST"}
           /\ IF p.state # "SYN_SENT" /\ s.seq = p.rcv_nxt THEN Drop(e) ELSE Nothing
           /\ wire' = rest
  BY <1>7, StillKeeps, DropKeeps DEF Nothing
<1>8. CASE /\ p # NoPcb /\ p.state = "SYN_SENT" /\ s.flags = {"SYN", "ACK"}
           /\ IF s.ack # Plus(p.iss, 1)
              THEN Drop(e) /\ wire' = rest \cup {send_rst(s)}
              ELSE \E r \in {Ack(Do([p EXCEPT !.state = "ESTABLISHED", !.snd_una = s.ack, !.snd_wnd = s.win,
                                             !.wl1 = s.seq, !.wl2 = s.ack, !.rcv_nxt = Plus(s.seq, 1),
                                             !.rtx_count = 0]))} :
                      Finish(e, r) /\ wire' = rest \cup r.out
  <2>1. CASE s.ack # Plus(p.iss, 1)
    BY <1>3, <1>8, <2>1, DropKeeps
  <2>2. CASE s.ack = Plus(p.iss, 1)
    <3> DEFINE r == Ack(Do(Answered(p, s)))
    <3>1. Finish(e, r) /\ wire' = rest \cup r.out
      BY <1>8, <2>2 DEF Answered
    <3>2. Off(s.seq) = 0
      BY <1>2, <1>8
    <3>3. p \in Tcbs /\ p.me = e /\ Sender(p, wrote[e]) /\ Receiver(p, g, wrote[o], Over(o))
      BY <1>8, Parts
    <3>4. Good(r, e, wrote[e], g, wrote[o], Over(o))
      BY <1>2, <1>4, <1>8, <2>2, <3>2, <3>3, Answers
    <3> HIDE DEF r
    <3>5. p.state \notin FinSent
      BY <1>8 DEF FinSent
    <3> QED BY <1>8, <3>1, <3>4, <3>5, HandlerKeeps DEF Finish
  <2> QED BY <2>1, <2>2
<1>9. CASE /\ p # NoPcb /\ p.state = "SYN_SENT" /\ s.flags \notin {{"SYN", "ACK"}, {"RST"}}
           /\ wire' = rest
           /\ Nothing
  BY <1>9, StillKeeps DEF Nothing
<1>10. CASE /\ p # NoPcb /\ p.state # "SYN_SENT" /\ s.flags # {"RST"} /\ ~IsSyn(s)
            /\ \E r \in {DataPart(AckAgain(a, s), s) : a \in AckPart(Do(p), s)} :
                  Finish(e, r) /\ wire' = rest \cup r.out
  <2>1. PICK a \in AckPart(Do(p), s) :
            LET r == DataPart(AckAgain(a, s), s) IN Finish(e, r) /\ wire' = rest \cup r.out
    BY <1>10
  <2> DEFINE d == Do(p)
             r == DataPart(AckAgain(a, s), s)
  <2>2. p \in Tcbs /\ Good(d, e, wrote[e], g, wrote[o], Over(o))
    BY <1>10, Parts
  <2>3. d.p = p /\ d.got = <<>> /\ a \in AckPart(d, s)
    BY <2>1, <2>2, DoIs
  <2>4. Over(e) => d.p.state \in FinSent
    BY <1>10, <2>3 DEF Over
  <2>5. Finish(e, r) /\ wire' = rest \cup r.out
    BY <2>1
  <2> HIDE DEF d
  <2>6. d.p.state # "SYN_SENT"
    BY <1>10, <2>3
  <2>7. Good(r, e, wrote[e], g, wrote[o], Over(o)) /\ (d.p.state \in FinSent => r.p.state \in FinSent)
    BY <1>1, <1>4, <2>2, <2>3, <2>4, <2>6, InputKeeps
  <2> HIDE DEF r
  <2> QED BY <1>10, <2>3, <2>5, <2>7, HandlerKeeps DEF Finish
<1> QED BY <1>5, <1>6, <1>7, <1>8, <1>9, <1>10 DEF Input

LEMMA ConnectStep == ASSUME NoWrap, TcpInv, tcp_connect PROVE TcpInv'
<1> DEFINE e == Client
           o == Peer(e)
           c == seg_out(Do(NewPcb(e, "SYN_SENT", gen_isn(e), 0, 0, 0)), {"SYN"}, gen_isn(e), <<>>)
           q == Stepped(c)
<1>1. e \in Ends /\ opened[e] = 0 /\ pcb[e] = NoPcb
  BY DEF tcp_connect, Ends
<1>2. wrote[e] = 0 /\ got[e] = <<>> /\ Len(got[e]) = 0
  BY <1>1 DEF TcpInv, TcpEnds
<1>3. Ctx(e, 0, 0, wrote[o], Over(o))
  BY <1>1, <1>2, Parts
<1>4. 0 \in Seqs /\ Off(0) < Half
  <2>1. SeqMod \in Nat /\ SeqMod > 6 /\ Half \in Nat /\ Written[e] \in Nat /\ Written[e] + 3 < Half
    BY <1>1, Numbers
  <2>2. 0 \in Seqs
    BY <2>1 DEF Seqs
  <2>3. Off(0) = 2
    BY <2>1, <2>2, OffIs
  <2> QED BY <2>1, <2>2, <2>3
<1>5. Good(q, e, 0, 0, wrote[o], Over(o)) /\ q.got = <<>> /\ q.out = c.out /\ c \in Runs
  <2>1. "SYN_SENT" \in Opening /\ {"SYN"} \in {{"SYN"}, {"SYN", "ACK"}}
    BY DEF Opening
  <2> HIDE DEF o
  <2> QED BY <1>1, <1>3, <1>4, <2>1, Opens
<1>6. pcb' = [pcb EXCEPT ![e] = [c.p EXCEPT !.snd_nxt = Plus(@, 1)]] /\ wire' = wire \cup c.out
  BY DEF tcp_connect
<1> HIDE DEF c
<1>7. q.p = [c.p EXCEPT !.snd_nxt = Plus(@, 1)]
  BY <1>5 DEF Stepped, Runs, Tcbs
<1> HIDE DEF q
<1>8. pcb' = [pcb EXCEPT ![e] = q.p] /\ \A x \in wire' : x \in wire \/ x \in q.out
  BY <1>5, <1>6, <1>7
<1>9. opened' = [opened EXCEPT ![e] = 1] /\ wrote' = [wrote EXCEPT ![e] = 0]
  BY <1>1, <1>2 DEF TcpInv, TcpType, tcp_connect
<1>10. got' = [got EXCEPT ![e] = @ \o q.got]
  BY <1>1, <1>5, NothingHandedOver DEF tcp_connect
<1>11. ~Over(e)
  BY <1>1 DEF Over
<1>12. 0 \in wrote[e] .. Written[e]
  BY <1>1, <1>2, Numbers
<1>13. Moves(e, q, 0)
  BY <1>2, <1>5, <1>8, <1>9, <1>10, <1>11, <1>12 DEF Moves
<1> QED BY <1>1, <1>13, MoveKeeps

LEMMA WriteStep == ASSUME NoWrap, TcpInv, NEW e \in Ends, tcp_write(e) PROVE TcpInv'
<1> DEFINE p == pcb[e]
           w == wrote[e] + 1
           o == Peer(e)
           g == Len(got[e])
           d == Do(Writes(p, w))
<1>1. p # NoPcb /\ Writable(p) /\ wrote[e] < Written[e]
  BY DEF tcp_write, Writable
<1>2. PICK r \in tcp_output(d) : pcb' = [pcb EXCEPT ![e] = r.p] /\ wire' = wire \cup r.out
  BY DEF tcp_write, Writes
<1>3. Ctx(e, wrote[e], g, wrote[o], Over(o)) /\ g <= wrote[o] /\ p \in Tcbs /\ p.me = e
      /\ Sender(p, wrote[e]) /\ Receiver(p, g, wrote[o], Over(o))
  BY <1>1, Parts
<1>4. Ctx(e, w, g, wrote[o], Over(o)) /\ Good(d, e, w, g, wrote[o], Over(o))
  BY <1>1, <1>3, WriteKeeps
<1>5. d.got = <<>>
  BY DEF Do
<1> HIDE DEF d
<1>6. Good(r, e, w, g, wrote[o], Over(o)) /\ r.got = <<>>
  BY <1>2, <1>4, <1>5, Outputs
<1>7. ~Over(e)
  BY <1>1 DEF Over, Writable, FinSent
<1>8. w \in wrote[e] .. Written[e] /\ opened[e] = 1
  <2>1. wrote[e] \in Nat /\ Written[e] \in Nat
    BY Numbers DEF TcpInv, TcpType
  <2> QED BY <1>1, <2>1, Parts
<1>9. wrote' = [wrote EXCEPT ![e] = w] /\ opened' = [opened EXCEPT ![e] = 1]
  BY <1>8 DEF tcp_write, TcpInv, TcpType
<1>10. got' = [got EXCEPT ![e] = @ \o r.got]
  BY <1>6, NothingHandedOver DEF tcp_write
<1> HIDE DEF w
<1>11. Moves(e, r, w)
  BY <1>2, <1>6, <1>7, <1>8, <1>9, <1>10 DEF Moves
<1> QED BY <1>11, MoveKeeps

LEMMA SameRun ==
    ASSUME NEW a \in Runs, NEW b \in Runs, a.p = b.p, a.out = b.out, a.got = b.got PROVE a = b
BY DEF Runs

LEMMA CloseStep == ASSUME NoWrap, TcpInv, NEW e \in Ends, tcp_close(e) PROVE TcpInv'
<1> DEFINE p == pcb[e]
           d == Do(p)
           r == tcp_try_fin(WillClose(d))
           o == Peer(e)
           g == Len(got[e])
<1>1. e \in Closers /\ p # NoPcb /\ p.state = "ESTABLISHED" /\ UNCHANGED <<wrote, got, opened>>
  BY DEF tcp_close
<1>2. Ctx(e, wrote[e], g, wrote[o], Over(o)) /\ p \in Tcbs /\ Good(d, e, wrote[e], g, wrote[o], Over(o))
  BY <1>1, Parts
<1>3. pcb' = [pcb EXCEPT ![e] = r.p] /\ wire' = wire \cup r.out
  <2>1. WillClose(d) = Do([p EXCEPT !.fin_pending = TRUE])
    <3>1. d \in Runs /\ d.p = p /\ d.out = {} /\ d.got = <<>>
      BY <1>2, DoIs
    <3> DEFINE x == [p EXCEPT !.fin_pending = TRUE]
    <3>2. x \in Tcbs
      BY <1>2 DEF Tcbs
    <3> HIDE DEF d
    <3>3. WillClose(d) \in Runs /\ WillClose(d).p = x /\ WillClose(d).out = {} /\ WillClose(d).got = <<>>
      BY <3>1, <3>2 DEF WillClose, Runs, Tcbs
    <3> HIDE DEF x
    <3>4. Do(x) \in Runs /\ Do(x).p = x /\ Do(x).out = {} /\ Do(x).got = <<>>
      BY <3>2, DoIs
    <3>5. WillClose(d) = Do(x)
      BY <3>3, <3>4, SameRun
    <3> QED BY <3>5 DEF x
  <2>2. \E x \in {tcp_try_fin(Do([p EXCEPT !.fin_pending = TRUE]))} : pcb' = [pcb EXCEPT ![e] = x.p] /\ wire' = wire \cup x.out
    BY DEF tcp_close
  <2>3. r = tcp_try_fin(Do([p EXCEPT !.fin_pending = TRUE]))
    BY <2>1
  <2> HIDE DEF r
  <2> QED BY <2>2, <2>3
<1>4. d.p = p /\ d.got = <<>>
  BY DEF Do
<1> HIDE DEF d
<1>5. Good(WillClose(d), e, wrote[e], g, wrote[o], Over(o)) /\ WillClose(d).p.state = "ESTABLISHED" /\ WillClose(d).got = <<>>
  <2>1. d.p.state = "ESTABLISHED" /\ e \in Closers
    BY <1>1, <1>4
  <2> DEFINE c == WillClose(d)
  <2>2. Good(c, e, wrote[e], g, wrote[o], Over(o)) /\ c.p.state = d.p.state /\ c.got = d.got
    BY <1>2, <2>1, Closes
  <2> HIDE DEF c
  <2>3. Good(c, e, wrote[e], g, wrote[o], Over(o)) /\ c.p.state = "ESTABLISHED" /\ c.got = <<>>
    BY <1>4, <2>1, <2>2
  <2> QED BY <2>3 DEF c
<1>6. Good(r, e, wrote[e], g, wrote[o], Over(o)) /\ r.got = <<>>
  BY <1>2, <1>5, TryFin
<1> HIDE DEF r
<1>7. got' = [got EXCEPT ![e] = @ \o r.got]
  BY <1>1, <1>6, NothingHandedOver
<1>8. p.state \notin FinSent
  BY <1>1 DEF FinSent
<1> QED BY <1>1, <1>3, <1>6, <1>7, <1>8, HandlerKeeps

LEMMA DelayedAckStep == ASSUME NoWrap, TcpInv, NEW e \in Ends, DelayedAck(e) PROVE TcpInv'
<1> DEFINE p == pcb[e]
           d == Do(p)
           r == Ack(d)
           o == Peer(e)
           g == Len(got[e])
<1>1. p # NoPcb /\ UNCHANGED <<wrote, got, opened>>
  BY DEF DelayedAck
<1>2. Ctx(e, wrote[e], g, wrote[o], Over(o)) /\ p \in Tcbs /\ Good(d, e, wrote[e], g, wrote[o], Over(o))
  BY <1>1, Parts
<1>3. pcb' = [pcb EXCEPT ![e] = r.p] /\ wire' = wire \cup r.out
  BY DEF DelayedAck
<1>4. d.p = p /\ d.got = <<>>
  BY DEF Do
<1> HIDE DEF d
<1>5. Good(r, e, wrote[e], g, wrote[o], Over(o)) /\ r.got = <<>> /\ r.p.state = p.state
  BY <1>2, <1>4, Acks DEF Like
<1> HIDE DEF r
<1>6. got' = [got EXCEPT ![e] = @ \o r.got]
  BY <1>1, <1>5, NothingHandedOver
<1> QED BY <1>1, <1>3, <1>5, <1>6, HandlerKeeps

\* The same control block but for the count of its timer
LEMMA Counted ==
    ASSUME NEW p \in Tcbs PROVE Like([p EXCEPT !.rtx_count = @ + 1], p)
<1>1. p.rtx_count + 1 \in Nat
  BY Fields
<1> QED BY <1>1 DEF Tcbs, Like

LEMMA RetransmitStep == ASSUME NoWrap, TcpInv, NEW e \in Ends, Retransmit(e) PROVE TcpInv'
<1> DEFINE q == IF Counts(pcb[e]) THEN [pcb[e] EXCEPT !.rtx_count = @ + 1] ELSE pcb[e]
           o == Peer(e)
           g == Len(got[e])
<1>1. pcb[e] # NoPcb /\ UNCHANGED <<wrote, got, opened>>
  BY DEF Retransmit
<1>2. /\ Ctx(e, wrote[e], g, wrote[o], Over(o)) /\ g <= wrote[o] /\ pcb[e] \in Tcbs /\ pcb[e].me = e
      /\ Sender(pcb[e], wrote[e]) /\ Receiver(pcb[e], g, wrote[o], Over(o))
  BY <1>1, Parts
<1>3. IF q.rtx_count > TCP_MAX_RTX THEN pcb' = [pcb EXCEPT ![e] = NoPcb] /\ UNCHANGED wire
      ELSE \E r \in Timeout(q) : pcb' = [pcb EXCEPT ![e] = r.p] /\ wire' = wire \cup r.out
  BY DEF Retransmit
<1>4. Like(q, pcb[e])
  <2>1. CASE q = pcb[e]
    BY <1>2, <2>1 DEF Like
  <2>2. CASE q = [pcb[e] EXCEPT !.rtx_count = @ + 1]
    <3>1. Like([pcb[e] EXCEPT !.rtx_count = @ + 1], pcb[e])
      BY <1>2, Counted
    <3> QED BY <2>2, <3>1
  <2> QED BY <2>1, <2>2
<1> HIDE DEF q
<1>5. q \in Tcbs /\ q.me = e /\ q.state = pcb[e].state
  BY <1>2, <1>4 DEF Like
<1>6. Sender(q, wrote[e]) /\ Receiver(q, g, wrote[o], Over(o))
  BY <1>2, <1>4, LikeSender, LikeReceiver
<1>7. Good(Do(q), e, wrote[e], g, wrote[o], Over(o))
  BY <1>2, <1>5, <1>6, Starts
<1>8. CASE q.rtx_count > TCP_MAX_RTX
  <2>1. Drop(e) /\ UNCHANGED wire
    BY <1>1, <1>3, <1>8 DEF Drop
  <2> QED BY <1>1, <2>1, DropKeeps
<1>9. CASE ~(q.rtx_count > TCP_MAX_RTX)
  <2>1. PICK r \in Timeout(q) : pcb' = [pcb EXCEPT ![e] = r.p] /\ wire' = wire \cup r.out
    BY <1>3, <1>9
  <2>2. Good(r, e, wrote[e], g, wrote[o], Over(o)) /\ r.got = <<>> /\ (q.state \in FinSent => r.p.state \in FinSent)
    BY <1>2, <1>5, <1>7, Retries
  <2>3. got' = [got EXCEPT ![e] = @ \o r.got]
    BY <1>1, <2>2, NothingHandedOver
  <2> QED BY <1>1, <1>5, <2>1, <2>2, <2>3, HandlerKeeps
<1> QED BY <1>8, <1>9

LEMMA TcpStarts == ASSUME NoWrap, Init PROVE TcpInv
<1>1. TcpType
  BY Numbers DEF Init, TcpType
<1>2. TcpEnds
  BY Peers DEF Init, TcpEnds
<1>3. TcpWire
  BY DEF Init, TcpWire
<1> QED BY <1>1, <1>2, <1>3 DEF TcpInv

LEMMA TcpSteps == ASSUME NoWrap, ~LateSyn, TcpInv, Next PROVE TcpInv'
<1>1. CASE tcp_connect
  BY <1>1, ConnectStep
<1>2. ASSUME NEW e \in Ends, tcp_write(e) \/ tcp_close(e) \/ DelayedAck(e) \/ Retransmit(e) PROVE TcpInv'
  BY <1>2, WriteStep, CloseStep, DelayedAckStep, RetransmitStep
<1>3. ASSUME NEW e \in Ends, Expire(e) PROVE TcpInv'
  BY <1>3, DropKeeps DEF Expire
<1>4. ASSUME NEW e \in Ends, Deliver(e) PROVE TcpInv'
  <2>1. PICK s \in wire : s.to = e /\ Input(e, s, wire \ {s})
    BY <1>4 DEF Deliver
  <2>2. wire \ {s} \in SUBSET wire
    OBVIOUS
  <2> QED BY <2>1, <2>2, InputStep
<1>5. ASSUME NEW e \in Ends, Duplicate(e) PROVE TcpInv'
  <2>1. PICK s \in wire : s.to = e /\ Input(e, s, wire)
    BY <1>5 DEF Duplicate
  <2>2. wire \in SUBSET wire
    OBVIOUS
  <2> QED BY <2>1, <2>2, InputStep
<1>6. CASE Lose \/ Stale
  BY <1>6, StillKeeps DEF Lose, Stale
<1> QED BY <1>1, <1>2, <1>3, <1>4, <1>5, <1>6 DEF Next, Works

\* The numbers of tcp.c tell the truth about the streams.
LEMMA TcpHolds == ASSUME NoWrap, ~LateSyn PROVE NetSpec => []TcpInv
<1>1. NetInit => TcpInv
  BY TcpStarts DEF NetInit
<1>2. TcpInv /\ [NetNext]_net_vars => TcpInv'
  <2> SUFFICES ASSUME TcpInv, [NetNext]_net_vars PROVE TcpInv'
    OBVIOUS
  <2>1. CASE Next
    BY <2>1, TcpSteps
  <2>2. CASE UNCHANGED tcp
    BY <2>2, StillKeeps DEF tcp
  <2> QED BY <2>1, <2>2 DEF NetNext, InTcp, InDhcp, InDns, InHttp, net_vars
<1> QED BY <1>1, <1>2, PTL DEF NetSpec

\* Whatever the network loses, doubles or reorders, an application is given what the
\* other end has written, in order and once, and sees its end only behind the last byte.
THEOREM StreamIsTrue == ASSUME NoWrap, ~LateSyn PROVE NetSpec => []StreamIntact
<1>1. TcpInv => StreamIntact
  <2> SUFFICES ASSUME TcpInv PROVE StreamIntact
    OBVIOUS
  <2>1. InOrder
    BY DEF InOrder, TcpInv, TcpEnds
  <2>2. ASSUME NEW e \in Ends, pcb[e] # NoPcb, pcb[e].state \in {"CLOSE_WAIT", "LAST_ACK", "TIME_WAIT"}
        PROVE  \/ Len(got[e]) = Written[Peer(e)]
               \/ wrote[Peer(e)] < Written[Peer(e)] /\ Len(got[e]) = wrote[Peer(e)]
    <3>1. Receiver(pcb[e], Len(got[e]), wrote[Peer(e)], Over(Peer(e)))
      BY <2>2, Parts
    <3>2. Len(got[e]) = wrote[Peer(e)]
      BY <2>2, <3>1 DEF Receiver, FinTaken
    <3>3. wrote[Peer(e)] \in Nat /\ wrote[Peer(e)] <= Written[Peer(e)] /\ Written[Peer(e)] \in Nat
      BY Peers, Numbers DEF TcpInv, TcpType
    <3> QED BY <3>2, <3>3
  <2> QED BY <2>1, <2>2 DEF StreamIntact, NoTruncation
<1> QED BY <1>1, TcpHolds, PTL
=============================================================================
