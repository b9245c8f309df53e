---------------------------- MODULE MCDoraTpcb ----------------------------
(* Routes of two TPC-B account updates for TLC. *)
EXTENDS DoraTpcb, TLC

CONSTANTS d1, d2, b1, b2

\* Both tellers in branch 1, both accounts in branch 2: the drivers share
\* every partition, the branch lock orders them.
SameHome == (d1 :> b1) @@ (d2 :> b1)
SameAcct == (d1 :> b2) @@ (d2 :> b2)

\* Tellers in different branches, the same remote account branch: the
\* drivers share only the account and history partitions.
SplitHome == (d1 :> b1) @@ (d2 :> b2)
=============================================================================
