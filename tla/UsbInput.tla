------------------------------ MODULE UsbInput -------------------------------
(***************************************************************************)
(* Mouse and keyboard behind the xHCI controller, from the interrupt       *)
(* transfer to the cursor and the console (GUI session of the Pi 4):       *)
(* xhci_hid_prime and xhci_hid_wait of drivers/usb/xhci.c, usb_input_loop  *)
(* and xhci_mouse_get of drivers/pci/pcie.c, the key ring of usbkbd.c.     *)
(*                                                                         *)
(* usb_input_loop is a task of core 0. The reader of the mouse is the      *)
(* timer interrupt of the same core (gui_input_tick), so it is one step,   *)
(* and comes between any two stores of the task. Both sides share one      *)
(* event ring, in which port events are mixed with the reports.            *)
(*                                                                         *)
(* Left out: transfers that end in an error (the loop does not look at the *)
(* completion code), arrow keys, several new keys in one report.           *)
(***************************************************************************)
EXTENDS Integers, Sequences

CONSTANTS
    Keys,            \* keys of the keyboard
    NoKey,           \* the report of a keyboard on which nothing is pressed
    Moves,           \* deltas <<dx, dy>> a mouse reports
    Buttons,         \* values of the button byte; 0 is none pressed
    XMAX, YMAX,      \* last column and row of the screen (1919, 1079)
    XK_RING,         \* size of s_xk_ring (64)
    MaxReports,      \* bound: reports the devices send
    MaxPortEvents    \* bound: port events in the ring at a time

VARIABLES
    evt,          \* the event ring, oldest first: the device of each event, or "port"
    hid_buf,      \* g_hid_buf: where the controller writes a device's report
    primed,       \* transfers queued on each device's ring and not completed
    loop,         \* where usb_input_loop is: before a wait, a store, ...
    idx, rep,     \* its device, and its copy of that device's report
    g_xm,         \* g_xm_x, g_xm_y, g_xm_btn
    g_xm_dirty,
    s_prev,       \* the key of the last report decoded
    s_xk_ring,    \* keys on their way to the console
    cursor,       \* mouse state the timer interrupt took last
    console,      \* keys read by the console
    mouse,        \* mouse state after all reports the mouse has sent
    key, pressed, \* key held down, and all keys that were pressed
    reports

vars == <<evt, hid_buf, primed, loop, idx, rep, g_xm, g_xm_dirty, s_prev, s_xk_ring,
          cursor, console, mouse, key, pressed, reports>>
devices == <<mouse, key, pressed, reports>>
readers == <<cursor, console>>
xm == <<g_xm, g_xm_dirty>>
keyboard == <<s_prev, s_xk_ring>>

Hid == {"mouse", "kbd"}

Clamp(v, last) == IF v < 0 THEN 0 ELSE IF v > last THEN last ELSE v

\* A mouse state after a report.
Moved(m, r) ==
    [x |-> Clamp(m.x + r.move[1], XMAX), y |-> Clamp(m.y + r.move[2], YMAX), btn |-> r.btn]

Still == [move |-> <<0, 0>>, btn |-> 0]
Start == [x |-> XMAX \div 2, y |-> YMAX \div 2, btn |-> 0]

Init ==
    /\ evt = <<>> /\ hid_buf = [mouse |-> Still, kbd |-> NoKey]
    /\ primed = [d \in Hid |-> 1]
    /\ loop = "wait" /\ idx = "mouse" /\ rep = hid_buf
    /\ g_xm = Start /\ g_xm_dirty = FALSE
    /\ s_prev = NoKey /\ s_xk_ring = <<>>
    /\ cursor = Start /\ console = <<>>
    /\ mouse = Start /\ key = NoKey /\ pressed = <<>> /\ reports = 0

-----------------------------------------------------------------------------
(* The devices and the controller: a device that has something to report     *)
(* does so when a transfer is queued for it.                                 *)

Complete(d, r) ==
    /\ primed[d] > 0 /\ reports < MaxReports
    /\ primed' = [primed EXCEPT ![d] = @ - 1]
    /\ hid_buf' = [hid_buf EXCEPT ![d] = r]
    /\ evt' = Append(evt, d)
    /\ reports' = reports + 1
    /\ UNCHANGED <<loop, idx, rep, xm, keyboard, readers>>

MouseReport ==
    \E m \in Moves, b \in Buttons :
        LET r == [move |-> m, btn |-> b] IN
        /\ Complete("mouse", r)
        /\ mouse' = Moved(mouse, r)
        /\ UNCHANGED <<key, pressed>>

KeyReport ==
    \E k \in (Keys \cup {NoKey}) \ {key} :
        /\ Complete("kbd", k)
        /\ key' = k
        /\ pressed' = IF k = NoKey THEN pressed ELSE Append(pressed, k)
        /\ UNCHANGED mouse

PortEvent ==
    /\ Len(SelectSeq(evt, LAMBDA e : e = "port")) < MaxPortEvents
    /\ evt' = Append(evt, "port")
    /\ UNCHANGED <<hid_buf, primed, loop, idx, rep, xm, keyboard, readers, devices>>

-----------------------------------------------------------------------------
(* usb_input_loop.                                                           *)

\* xhci_hid_wait takes the next event; a port event costs one of its tries.
\* Out of tries, or of time, the loop calls it again.
hid_wait ==
    /\ loop = "wait" /\ evt # <<>>
    /\ evt' = Tail(evt)
    /\ IF Head(evt) = "port"
       THEN UNCHANGED <<loop, idx>>
       ELSE loop' = "copy" /\ idx' = Head(evt)
    /\ UNCHANGED <<hid_buf, primed, rep, xm, keyboard, readers, devices>>

\* Mutant: the flag is raised before the state it announces.
Stores_DirtyFirst == <<"dirty", "x", "y", "btn">>

\* The order in which the loop publishes a mouse report.
Stores == <<"x", "y", "btn", "dirty">>

After(s) ==
    LET i == CHOOSE i \in DOMAIN Stores : Stores[i] = s
    IN  IF i = Len(Stores) THEN "prime" ELSE Stores[i + 1]

Copy ==
    /\ loop = "copy"
    /\ rep' = [rep EXCEPT ![idx] = hid_buf[idx]]
    /\ loop' = IF idx = "mouse" THEN Stores[1] ELSE "key"
    /\ UNCHANGED <<evt, hid_buf, primed, idx, xm, keyboard, readers, devices>>

\* One store of g_xm_x, g_xm_y, g_xm_btn or g_xm_dirty.
Store ==
    /\ loop \in {"x", "y", "btn", "dirty"}
    /\ IF loop = "dirty"
       THEN g_xm_dirty' = TRUE /\ UNCHANGED g_xm
       ELSE g_xm' = [g_xm EXCEPT ![loop] = Moved(g_xm, rep.mouse)[loop]] /\ UNCHANGED g_xm_dirty
    /\ loop' = After(loop)
    /\ UNCHANGED <<evt, hid_buf, primed, idx, rep, keyboard, readers, devices>>

\* usbkbd_decode: a key counts when the report before did not hold it.
Fresh(k) == k # NoKey /\ k # s_prev

\* usbkbd_decode and usbkbd_xhci_push: a full ring drops the key.
Decode ==
    /\ loop = "key"
    /\ s_prev' = rep.kbd
    /\ s_xk_ring' = IF Fresh(rep.kbd) /\ Len(s_xk_ring) < XK_RING - 1
                    THEN Append(s_xk_ring, rep.kbd) ELSE s_xk_ring
    /\ loop' = "prime"
    /\ UNCHANGED <<evt, hid_buf, primed, idx, rep, xm, readers, devices>>

\* xhci_hid_prime of the device that reported.
hid_prime ==
    /\ loop = "prime"
    /\ primed' = [primed EXCEPT ![idx] = @ + 1]
    /\ loop' = "wait"
    /\ UNCHANGED <<evt, hid_buf, idx, rep, xm, keyboard, readers, devices>>

-----------------------------------------------------------------------------
(* The readers.                                                              *)

\* The timer interrupt: gui_input_tick with xhci_mouse_get.
mouse_get ==
    /\ g_xm_dirty
    /\ cursor' = g_xm
    /\ g_xm_dirty' = FALSE
    /\ UNCHANGED <<evt, hid_buf, primed, loop, idx, rep, g_xm, keyboard, console, devices>>

\* console_getc_nb or console_getc: xhci_kbd_get.
kbd_get ==
    /\ s_xk_ring # <<>>
    /\ console' = Append(console, Head(s_xk_ring))
    /\ s_xk_ring' = Tail(s_xk_ring)
    /\ UNCHANGED <<evt, hid_buf, primed, loop, idx, rep, xm, s_prev, cursor, devices>>

Next ==
    \/ MouseReport \/ KeyReport \/ PortEvent
    \/ hid_wait \/ Copy \/ Store \/ Decode \/ hid_prime
    \/ mouse_get \/ kbd_get

Spec == Init /\ [][Next]_vars

-----------------------------------------------------------------------------
\* The places of the events of d in the ring.
At(d) == {i \in DOMAIN evt : evt[i] = d}

\* No report is on its way and the task waits.
Quiet == loop = "wait" /\ \A d \in Hid : At(d) = {}

\* What reaches the screen and the console is what the devices did. Whenever
\* the task waits, every device has one transfer outstanding or one report in
\* the ring ("je genau ein ausstehender Transfer", xhci.c:731-732), so neither
\* goes deaf and no buffer is overwritten. Once all reports are processed and
\* the dirty flag is down, the cursor and the buttons that the timer interrupt
\* took are those of the mouse, although it may have come between any two
\* stores of the task: a release is not lost. Keys arrive once and in order,
\* as long as no more were pressed than the ring holds.
InputSettles ==
    /\ loop = "wait" =>
          \A d \in Hid : \/ primed[d] = 1 /\ At(d) = {}
                         \/ primed[d] = 0 /\ \E i \in DOMAIN evt : At(d) = {i}
    /\ Quiet /\ ~g_xm_dirty => cursor = mouse
    /\ Quiet /\ Len(pressed) < XK_RING => console \o s_xk_ring = pressed
==============================================================================
