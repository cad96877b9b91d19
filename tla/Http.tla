-------------------------------- MODULE Http --------------------------------
(***************************************************************************)
(* net/http.c: one GET at a time over the connections of net/tcp.c, whose  *)
(* control blocks a small pool gives and takes. A callback may ask for the *)
(* next page at once. Each handler runs under the lock of net.c.           *)
(***************************************************************************)
EXTENDS Naturals, Sequences

CONSTANTS
    Pcbs,        \* s_pcbs[]
    MaxRequests

Requests == 1 .. MaxRequests
Free == [st |-> "free", of |-> 0]

VARIABLES
    s_pcbs,      \* of a control block: its state, and the request it was made for
    s_h,         \* active, done, pcb, and the requests whose bytes are in buf
    requests,    \* history: how many requests were accepted
    answer       \* history: what the callback of each request was told

http_vars == <<s_pcbs, s_h, requests, answer>>

HttpInit ==
    /\ s_pcbs = [p \in Pcbs |-> Free]
    /\ s_h = [active |-> FALSE, done |-> FALSE, pcb |-> CHOOSE p \in Pcbs : TRUE, buf |-> {}]
    /\ requests = 0
    /\ answer = [r \in Requests |-> <<>>]

-----------------------------------------------------------------------------
\* http_get from a handler that leaves pool behind, but still holds the blocks in held.
http_get(pool, held) ==
    /\ requests < MaxRequests
    /\ \E p \in Pcbs \ held :
          /\ pool[p] = Free
          /\ s_pcbs' = [pool EXCEPT ![p] = [st |-> "SYN_SENT", of |-> requests + 1]]
          /\ s_h' = [active |-> TRUE, done |-> FALSE, pcb |-> p, buf |-> {}]
    /\ requests' = requests + 1

Get == ~s_h.active /\ http_get(s_pcbs, {}) /\ UNCHANGED answer

\* The callback of the request in h, which is not active any more, is told t and may
\* ask again.
Callback(h, t, pool, held) ==
    /\ answer' = [answer EXCEPT ![requests] = Append(@, t)]
    /\ \/ http_get(pool, held)
       \/ s_pcbs' = pool /\ s_h' = h /\ UNCHANGED requests

Ignored(pool) == s_pcbs' = pool /\ UNCHANGED <<s_h, requests, answer>>
Ended == [s_h EXCEPT !.active = FALSE]
EndedDone == [Ended EXCEPT !.done = TRUE]

\* on_conn. The request goes out even when it was given up in the meantime.
Connected(p) ==
    /\ s_pcbs[p].st = "SYN_SENT"
    /\ Ignored([s_pcbs EXCEPT ![p].st = IF p = s_h.pcb THEN "asked" ELSE "ESTABLISHED"])
\* tcp.c takes the block back behind the callback.
Refused(p) ==
    /\ s_pcbs[p].st = "SYN_SENT"
    /\ LET pool == [s_pcbs EXCEPT ![p] = Free] IN
       IF p = s_h.pcb /\ s_h.active THEN Callback(Ended, {}, pool, {p}) ELSE Ignored(pool)

\* on_recv: too little, the whole header, or a full buffer without its end
\* Mutant: the handler does not ask which connection it serves.
Taken_Any(p) == s_h.active /\ ~s_h.done
Taken(p) == s_h.active /\ ~s_h.done /\ p = s_h.pcb
on_recv(p) ==
    /\ s_pcbs[p].st \in {"asked", "FIN_WAIT"}
    /\ LET buf == s_h.buf \cup {s_pcbs[p].of}
           closed == [s_pcbs EXCEPT ![p].st = "FIN_WAIT"]
           h == [EndedDone EXCEPT !.buf = buf]
       IN  IF ~Taken(p) THEN Ignored(s_pcbs)
           ELSE \/ s_h' = [s_h EXCEPT !.buf = buf] /\ UNCHANGED <<s_pcbs, requests, answer>>
                \/ Callback(h, buf, closed, {})
                \/ Callback(h, {}, closed, {})

\* A connection ends without a word: closed or reset by the server, or reaped.
Gone(p) == s_pcbs[p].st \in {"ESTABLISHED", "asked", "FIN_WAIT"} /\ Ignored([s_pcbs EXCEPT ![p] = Free])

\* Mutant: the deadline covers the connect only.
http_tick_Connect ==
    s_h.active /\ ~s_h.done /\ s_pcbs[s_h.pcb].st = "SYN_SENT" /\ Callback(EndedDone, {}, s_pcbs, {})
http_tick == s_h.active /\ ~s_h.done /\ Callback(EndedDone, {}, s_pcbs, {})

HttpNext == Get \/ http_tick \/ \E p \in Pcbs : Connected(p) \/ Refused(p) \/ on_recv(p) \/ Gone(p)

HttpSpec == HttpInit /\ [][HttpNext]_http_vars
\* The poll loop runs http_tick; a connection is made or refused in the end.
HttpFair ==
    /\ WF_http_vars(http_tick)
    /\ \A p \in Pcbs : WF_http_vars(Connected(p) \/ Refused(p))
FairSpec == HttpSpec /\ HttpFair

-----------------------------------------------------------------------------
(***************************************************************************)
(* Properties                                                              *)
(***************************************************************************)
\* A page is made of the bytes of its own connection, although a late segment of the one
\* before may still come to the same handler, and a callback hears of a request once.
OwnAnswer ==
    \A r \in Requests : Len(answer[r]) <= 1 /\ (answer[r] # <<>> => answer[r][1] \subseteq {r})

\* Every request that was accepted gets its callback, also when tcp.c drops the
\* connection without one.
AllAnswered == \A r \in Requests : requests >= r => answer[r] # <<>>
RequestAnswered == []<>AllAnswered
=============================================================================
