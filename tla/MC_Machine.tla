----------------------------- MODULE MC_Machine ------------------------------
(***************************************************************************)
(* The address spaces, and the machines around the network: the lock of    *)
(* the stack, the rings of virtio-net and the development agent. They      *)
(* share no state, so a behaviour lets one of them move, chosen at the     *)
(* start, and the rest stays where it began. Any process, and any core, is *)
(* like another.                                                           *)
(***************************************************************************)
EXTENDS AddrSpace, Sequences, TLC

CONSTANTS
    MaxDepth,
    VNET_QSIZE, Wrap, Frames,
    File, MaxTries, MaxNetFaults

\* -1 is no core. A queue has 2^k descriptors, its indices 16 bits.
ASSUME MachineAssumption ==
    /\ None \notin Cores
    /\ Frames # {}
    /\ VNET_QSIZE \in Nat \ {0}
    /\ Wrap \in Nat /\ Wrap > VNET_QSIZE /\ Wrap % VNET_QSIZE = 0

\* The file the host sends, in chunks of words.
ASSUME TransferAssumption == File \in Seq(Seq(Nat)) /\ MaxNetFaults \in Nat

VARIABLES
    part,
    s_netlock, s_net_owner, s_net_depth, s_net_flags, pc, f, daif, wants, nest, irq, held,
    rx_buf, rx_avail, rx_used, rx_last_used, rx_at, rx_busy, poll, given,
    tx_buf, tx_avail, tx_used, tx_at, tx_busy, tx_filled, sent,
    up, down, host, file_active, file, written, netFaults

L == INSTANCE NetLock
V == INSTANCE VirtioNet
D == INSTANCE DevAgent

netlock == <<s_netlock, s_net_owner, s_net_depth, s_net_flags, pc, f, daif, wants, nest, irq, held>>
virtio == <<rx_buf, rx_avail, rx_used, rx_last_used, rx_at, rx_busy, poll, given,
            tx_buf, tx_avail, tx_used, tx_at, tx_busy, tx_filled, sent>>
dev_agent == <<up, down, host, file_active, file, written, netFaults>>
machine_vars == <<part, vars, netlock, virtio, dev_agent>>

Alike == Permutations(Procs) \cup Permutations(Cores)

\* Two files of two chunks each; their byte sums differ.
TwoFiles == << <<1, 2>>, <<3, 5>> >>

MachineInit ==
    /\ part \in {"memory", "netlock", "virtio", "dev_agent"}
    /\ Init /\ L!Init /\ V!Init /\ D!Init
    /\ part # "memory" => \E c \in Cores : core = [p \in Procs |-> c]
    /\ part # "netlock" => daif = [c \in Cores |-> TRUE]

InMemory(A) == part = "memory" /\ A /\ UNCHANGED <<part, netlock, virtio, dev_agent>>
InNetLock(A) == part = "netlock" /\ A /\ UNCHANGED <<part, vars, virtio, dev_agent>>
InVirtio(A) == part = "virtio" /\ A /\ UNCHANGED <<part, vars, netlock, dev_agent>>
InDevAgent(A) == part = "dev_agent" /\ A /\ UNCHANGED <<part, vars, netlock, virtio>>

MachineNext == InMemory(Next) \/ InNetLock(L!Next) \/ InVirtio(V!Next) \/ InDevAgent(D!Next)
MachineSpec == MachineInit /\ [][MachineNext]_machine_vars

-----------------------------------------------------------------------------
\* NetLock!NetExclusive: one activity at a time is inside the network stack.
NetExclusive == L!NetExclusive
\* NetLock!DaifRestored: net_leave gives interrupts back as they were found.
DaifRestored == L!DaifRestored
\* VirtioNet!RingsAreQueues: both rings are FIFO queues of unchanged frames.
RingsAreQueues == V!RingsAreQueues
\* DevAgent!OkMeansWritten: a transfer that reports OK has written its own contents.
OkMeansWritten == D!OkMeansWritten
==============================================================================
