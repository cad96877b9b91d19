------------------------------ MODULE FileStore ------------------------------
(***************************************************************************)
(* What the file system promises its callers, whatever sector writes fail  *)
(* and wherever the power goes: one call at a time (s_fslock), and a call  *)
(* changes the one path it names, once, from the old to the new contents.  *)
(* An ok answer means the change is there; an error or a power loss means  *)
(* it is there completely or not at all.                                   *)
(***************************************************************************)
CONSTANTS
    Paths,      \* the paths of files
    Dirs,       \* the paths of directories
    Data,       \* contents of files
    Absent,     \* no such path
    InDir,      \* for every path the directory it lies in, Absent for the root
    NoCall      \* no call is running

VARIABLES
    files,      \* contents of every path, or Absent
    dirs,       \* the directories that exist
    call,       \* the running call
    applied,    \* has it changed anything yet?
    answer      \* what the last call answered, "none" while one runs

vars == <<files, dirs, call, applied, answer>>

Calls ==
    [do : {"write"}, path : Paths, v : Data] \cup [do : {"delete"}, path : Paths]
        \cup [do : {"mkdir", "rmdir"}, path : Dirs]

Init ==
    /\ files = [p \in Paths |-> Absent]
    /\ dirs = {}
    /\ call = NoCall
    /\ applied = FALSE
    /\ answer = "none"

Begin ==
    /\ call = NoCall
    /\ call' \in Calls
    /\ applied' = FALSE
    /\ answer' = "none"
    /\ UNCHANGED <<files, dirs>>

\* The change of the running call, in one step.
Apply ==
    /\ call # NoCall /\ ~applied
    /\ applied' = TRUE
    /\ \/ /\ call.do = "write" /\ InDir[call.path] \in dirs \cup {Absent}
          /\ files' = [files EXCEPT ![call.path] = call.v]
          /\ UNCHANGED dirs
       \/ /\ call.do = "delete" /\ files[call.path] # Absent
          /\ files' = [files EXCEPT ![call.path] = Absent]
          /\ UNCHANGED dirs
       \/ /\ call.do = "mkdir" /\ call.path \notin dirs
          /\ dirs' = dirs \cup {call.path}
          /\ UNCHANGED files
       \/ /\ call.do = "rmdir" /\ call.path \in dirs
          /\ \A p \in Paths : InDir[p] = call.path => files[p] = Absent
          /\ dirs' = dirs \ {call.path}
          /\ UNCHANGED files
    /\ UNCHANGED <<call, answer>>

\* An ok answer comes after the change; an error, or no answer (the power is
\* gone), before or after it.
Return ==
    /\ call # NoCall
    /\ answer' \in {"ok", "err", "none"}
    /\ answer' = "ok" => applied
    /\ call' = NoCall
    /\ applied' = FALSE
    /\ UNCHANGED <<files, dirs>>

Next == Begin \/ Apply \/ Return

Spec == Init /\ [][Next]_vars
==============================================================================
