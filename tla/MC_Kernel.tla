------------------------------ MODULE MC_Kernel ------------------------------
(***************************************************************************)
(* The smaller machines of the kernel in one run, with the scheduler's     *)
(* round robin. They share no state, so a behaviour lets one of them move, *)
(* chosen at the start, and the rest stays where it began: every property  *)
(* is checked over every behaviour of its machine.                         *)
(***************************************************************************)
EXTENDS MC_Sched, GuiConstants

CONSTANTS
    Callers, VI_MAX_WORKERS, MaxRegions, EndsEarly,
    Keys, NoKey, Moves, Buttons, XMAX, YMAX, XK_RING, MaxReports, MaxPortEvents

\* A caller is one of the workers; 0 is no button.
ASSUME KernelAssumption ==
    /\ VI_MAX_WORKERS \in Nat \ {0} /\ MaxRegions \in Nat
    /\ NoKey \notin Keys /\ Moves \subseteq Int \X Int /\ 0 \in Buttons
    /\ XMAX \in Nat /\ YMAX \in Nat /\ XK_RING \in Nat \ {0}

VARIABLES
    part,
    g_evq, g_head, g_tail, ppc, ev, todo, t, out,
    st, region, asked, spawned, joined, worker, took, g_barrier, g_nworkers, g_coargs, regions,
    evt, hid_buf, primed, loop, idx, rep, g_xm, g_xm_dirty, s_prev, s_xk_ring,
    cursor, console, mouse, key, pressed, reports

G == INSTANCE GuiInput
V == INSTANCE ViPar
U == INSTANCE UsbInput

ring == <<g_evq, g_head, g_tail, ppc, ev, todo, t, out>>
vi == <<st, region, asked, spawned, joined, worker, took, g_barrier, g_nworkers, g_coargs, regions>>
usb == <<evt, hid_buf, primed, loop, idx, rep, g_xm, g_xm_dirty, s_prev, s_xk_ring,
         cursor, console, mouse, key, pressed, reports>>
kernel_vars == <<part, vars, ring, vi, usb>>

\* A mouse that moves down to the right, or to the left.
TwoMoves == {<<1, 1>>, <<-1, 0>>}

KernelInit ==
    /\ part \in {"sched", "gui", "vi", "usb"}
    /\ Init /\ G!Init /\ V!Init /\ U!Init

InSched(A) == part = "sched" /\ A /\ UNCHANGED <<part, ring, vi, usb>>
InGui(A) == part = "gui" /\ A /\ UNCHANGED <<part, vars, vi, usb>>
InVi(A) == part = "vi" /\ A /\ UNCHANGED <<part, vars, ring, usb>>
InUsb(A) == part = "usb" /\ A /\ UNCHANGED <<part, vars, ring, vi>>

KernelNext == InSched(Next) \/ InGui(G!Next) \/ InVi(V!Next) \/ InUsb(U!Next)

KernelSpec ==
    /\ KernelInit /\ [][KernelNext]_kernel_vars
    /\ \A c \in Cores :
          /\ WF_kernel_vars(InSched(Forced(c)))
          /\ SF_kernel_vars(InSched(Tick(c))) /\ SF_kernel_vars(InSched(TickDeadlines(c)))
    /\ \A p \in Callers : WF_kernel_vars(InVi(V!Calling(p)))
    /\ \A r \in V!Regions, w \in V!Wids : WF_kernel_vars(InVi(V!Working(r, w)))

-----------------------------------------------------------------------------
ImplementsQueue == G!ImplementsQueue
JoinIsBarrier == V!JoinIsBarrier
\* UsbInput!InputSettles: cursor, buttons and keys end up as the devices left them.
InputSettles == U!InputSettles

\* Round robin starves no task of the best priority of its core, and every join of a
\* parallel region comes back.
GetsServed ==
    \A x \in Tasks \ Idles :
        []<>(/\ part = "sched" =>
                ~(used[x] /\ state[x] = "READY" /\ \A u \in Mine(owner[x]) : priority[x] <= priority[u])
             /\ part = "vi" => \A p \in Callers : st[p] # "join")
==============================================================================
