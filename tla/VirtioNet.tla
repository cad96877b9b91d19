------------------------------ MODULE VirtioNet ------------------------------
(***************************************************************************)
(* drivers/net/virtio_net.c: the two split virtqueues between the driver   *)
(* and the device. Indices run freely modulo 2^16 and address the rings    *)
(* modulo the queue size. The device is QEMU's: it takes the buffers of a  *)
(* queue one at a time and in order. Frames have legal lengths, and all    *)
(* driver code runs one call at a time (under the lock of net.c).          *)
(***************************************************************************)
EXTENDS Integers, Sequences

CONSTANTS
    VNET_QSIZE,
    Wrap,          \* 2^16, scaled: a multiple of VNET_QSIZE larger than it
    Frames

VARIABLES
    rx_buf, rx_avail, rx_used, rx_last_used,    \* avail and used: [idx, ring]
    rx_at,         \* device: the next avail entry it takes, and
    rx_busy,       \* whether it is writing a frame into it
    poll,          \* driver: where virtio_net_poll is, its snapshot and descriptor id
    given,         \* the last frame eth_input had
    tx_buf, tx_avail, tx_used,
    tx_at, tx_busy,  \* device: the next avail entry, and whether it is sending it
    tx_filled,     \* driver: virtio_net_transmit has filled a slot
    sent           \* the last frame on the wire

rx == <<rx_buf, rx_avail, rx_used, rx_last_used, rx_at, rx_busy, poll, given>>
tx == <<tx_buf, tx_avail, tx_used, tx_at, tx_busy, tx_filled, sent>>
vars == <<rx, tx>>

Slots == 0 .. VNET_QSIZE - 1
Slot(i) == i % VNET_QSIZE
Inc(i) == (i + 1) % Wrap
Distance(from, to) == (to - from + Wrap) % Wrap
AFrame == CHOOSE f \in Frames : TRUE

Init ==
    /\ rx_buf = [s \in Slots |-> AFrame]
    /\ rx_avail = [idx |-> VNET_QSIZE, ring |-> [s \in Slots |-> s]]
    /\ rx_used = [idx |-> 0, ring |-> [s \in Slots |-> 0]]
    /\ rx_last_used = 0 /\ rx_at = 0 /\ rx_busy = FALSE
    /\ poll = [pc |-> "idle"] /\ given = AFrame
    /\ tx_buf = [s \in Slots |-> AFrame]
    /\ tx_avail = [idx |-> 0, ring |-> [s \in Slots |-> 0]]
    /\ tx_used = 0 /\ tx_at = 0 /\ tx_busy = FALSE
    /\ tx_filled = FALSE /\ sent = AFrame

-----------------------------------------------------------------------------
(***************************************************************************)
(* virtio_net_transmit, also from inside eth_input                         *)
(***************************************************************************)
\* avail.idx - used.idx in 16 bits; a full queue times out with -1.
TxFull_OffByOne == Distance(tx_used, tx_avail.idx) > VNET_QSIZE
TxFull == Distance(tx_used, tx_avail.idx) >= VNET_QSIZE

TxFill(frame) ==
    /\ ~tx_filled /\ poll.pc \in {"idle", "input"}
    /\ ~TxFull
    /\ tx_filled' = TRUE
    /\ tx_buf' = [tx_buf EXCEPT ![Slot(tx_avail.idx)] = frame]
    /\ tx_avail' = [tx_avail EXCEPT !.ring[Slot(tx_avail.idx)] = Slot(tx_avail.idx)]
    /\ UNCHANGED <<rx, tx_used, tx_at, tx_busy, sent>>

TxPublish ==
    /\ tx_filled /\ tx_filled' = FALSE
    /\ tx_avail' = [tx_avail EXCEPT !.idx = Inc(@)]
    /\ UNCHANGED <<rx, tx_buf, tx_used, tx_at, tx_busy, sent>>

\* The device sends the frame in place, and gives the slot back afterwards.
DevSend ==
    /\ ~tx_busy /\ tx_at # tx_avail.idx
    /\ tx_busy' = TRUE
    /\ UNCHANGED <<rx, tx_buf, tx_avail, tx_used, tx_at, tx_filled, sent>>

DevSent ==
    /\ tx_busy /\ tx_busy' = FALSE
    /\ sent' = tx_buf[tx_avail.ring[Slot(tx_at)]]
    /\ tx_at' = Inc(tx_at) /\ tx_used' = Inc(tx_used)
    /\ UNCHANGED <<rx, tx_buf, tx_avail, tx_filled>>

-----------------------------------------------------------------------------
(***************************************************************************)
(* virtio_net_poll                                                         *)
(***************************************************************************)
DevReceive(frame) ==
    /\ ~rx_busy /\ rx_at # rx_avail.idx
    /\ rx_busy' = TRUE
    /\ rx_buf' = [rx_buf EXCEPT ![rx_avail.ring[Slot(rx_at)]] = frame]
    /\ UNCHANGED <<rx_avail, rx_used, rx_last_used, rx_at, poll, given, tx>>

DevReceived ==
    /\ rx_busy /\ rx_busy' = FALSE
    /\ rx_used' = [idx |-> Inc(rx_used.idx),
                   ring |-> [rx_used.ring EXCEPT ![Slot(rx_used.idx)] = rx_avail.ring[Slot(rx_at)]]]
    /\ rx_at' = Inc(rx_at)
    /\ UNCHANGED <<rx_buf, rx_avail, rx_last_used, poll, given, tx>>

Snapshot ==
    /\ poll.pc = "idle" /\ ~tx_filled
    /\ rx_last_used # rx_used.idx
    /\ poll' = [pc |-> "next", snap |-> rx_used.idx, id |-> 0]
    /\ UNCHANGED <<rx_buf, rx_avail, rx_used, rx_last_used, rx_at, rx_busy, given, tx>>

\* eth_input reads the frame where it lies.
Input ==
    /\ poll.pc = "next"
    /\ poll' = [poll EXCEPT !.pc = "input", !.id = rx_used.ring[Slot(rx_last_used)]]
    /\ UNCHANGED <<rx_buf, rx_avail, rx_used, rx_last_used, rx_at, rx_busy, given, tx>>

InputDone ==
    /\ poll.pc = "input" /\ ~tx_filled
    /\ given' = rx_buf[poll.id]
    /\ rx_last_used' = Inc(rx_last_used)
    /\ rx_avail' = [rx_avail EXCEPT !.ring[Slot(rx_avail.idx)] = poll.id]
    /\ poll' = [poll EXCEPT !.pc = "repost"]
    /\ UNCHANGED <<rx_buf, rx_used, rx_at, rx_busy, tx>>

Repost ==
    /\ poll.pc = "repost"
    /\ rx_avail' = [rx_avail EXCEPT !.idx = Inc(@)]
    /\ poll' = [poll EXCEPT !.pc = IF rx_last_used = poll.snap THEN "idle" ELSE "next"]
    /\ UNCHANGED <<rx_buf, rx_used, rx_last_used, rx_at, rx_busy, given, tx>>

Next ==
    \/ \E frame \in Frames : TxFill(frame) \/ DevReceive(frame)
    \/ TxPublish \/ DevSend \/ DevSent
    \/ DevReceived \/ Snapshot \/ Input \/ InputDone \/ Repost

Spec == Init /\ [][Next]_vars

-----------------------------------------------------------------------------
(***************************************************************************)
(* Each queue is a bounded FIFO: the sender holds the frame it sends, the  *)
(* stack the frame it is given, in the buffer itself until they let go.    *)
(***************************************************************************)
Queued(buf, ring, from, to) ==
    [i \in 1 .. Distance(from, to) |-> buf[ring[Slot(from + i - 1)]]]

TxFirst == IF tx_busy THEN Inc(tx_at) ELSE tx_at
Tx == INSTANCE EventQueue WITH
        Events <- Frames, Capacity <- VNET_QSIZE,
        q <- Queued(tx_buf, tx_avail.ring, TxFirst, tx_avail.idx),
        hand <- IF tx_busy THEN tx_buf[tx_avail.ring[Slot(tx_at)]] ELSE sent

RxFirst == IF poll.pc = "input" THEN Inc(rx_last_used) ELSE rx_last_used
Rx == INSTANCE EventQueue WITH
        Events <- Frames, Capacity <- VNET_QSIZE,
        q <- Queued(rx_buf, rx_used.ring, RxFirst, rx_used.idx),
        hand <- IF poll.pc = "input" THEN rx_buf[poll.id] ELSE given

TypeOK ==
    /\ rx_buf \in [Slots -> Frames] /\ tx_buf \in [Slots -> Frames]
    /\ given \in Frames /\ sent \in Frames
    /\ {rx_avail.idx, rx_used.idx, rx_last_used, rx_at, tx_avail.idx, tx_used, tx_at} \subseteq 0 .. Wrap - 1

\* Frames go out and come in in order, each once and unchanged: no buffer is refilled
\* while the device sends it or the stack reads it, over every wrap of the indices.
RingsAreQueues == Tx!Spec /\ Rx!Spec
==============================================================================
