---------------------------- MODULE HandleIssuer ----------------------------
(***************************************************************************)
(* What the file-descriptor table of fs.c really offers its callers: a     *)
(* dispenser of numbered handles.  Handles leave in increasing order, each *)
(* at most once in the life of the process; giving one back ends its life  *)
(* but never makes its number available again.  Only the end of the        *)
(* process refills the dispenser.                                          *)
(***************************************************************************)
EXTENDS Integers

CONSTANT MaxOpen        \* how many handles there are

VARIABLES
    issued,             \* how many handles have left the dispenser
    live                \* the handles in use

issuerVars == <<issued, live>>

Handles == 0 .. MaxOpen - 1

IssuerInit == issued = 0 /\ live = {}

\* The next number leaves the dispenser.
Issue ==
    /\ issued < MaxOpen
    /\ issued' = issued + 1
    /\ live' = live \cup {issued}

\* A handle is given back; its number is not.
Retire(h) ==
    /\ h \in live
    /\ live' = live \ {h}
    /\ UNCHANGED issued

\* The process ends: a new one starts with a full dispenser.
Restart == issued' = 0 /\ live' = {}

IssuerNext ==
    \/ Issue
    \/ \E h \in Handles : Retire(h)
    \/ Restart

IssuerSpec == IssuerInit /\ [][IssuerNext]_issuerVars
=============================================================================
