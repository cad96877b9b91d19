---------------------------- MODULE MC_ProcWait -----------------------------
\* Instances of ProcWait for TLC.
EXTENDS ProcWait

\* 298 % 256 = 42: a status the mask changes.
WideCode == {298}
\* The child of the first process is an administrator and can kill its parent.
ChildIsAdmin == {2}
=============================================================================
