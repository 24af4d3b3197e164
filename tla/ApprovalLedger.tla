---------------------------- MODULE ApprovalLedger ----------------------------
(***************************************************************************)
(* What pause-on-dangerous promises the operator, with nothing of banners, *)
(* holds, prompts and restarts: a call runs only by spending a grant, each *)
(* grant is spent by one run at most, and no grant comes into being but by *)
(* an approval that is on record first.                                    *)
(***************************************************************************)
EXTENDS Naturals

CONSTANT Call  \* what an approval is of: an agent and a command

VARIABLES
  approved,  \* call -> approvals on record
  granted,   \* call -> grants that stand
  ran        \* call -> times it ran

vars == <<approved, granted, ran>>

Init ==
  /\ approved = [c \in Call |-> 0]
  /\ granted = [c \in Call |-> 0]
  /\ ran = [c \in Call |-> 0]

\* An approval is recorded; the grant follows, or cannot be written.
Approve(c) ==
  /\ approved' = [approved EXCEPT ![c] = @ + 1]
  /\ \/ granted' = [granted EXCEPT ![c] = @ + 1]
     \/ UNCHANGED granted
  /\ UNCHANGED ran

Run(c) ==
  /\ granted[c] > 0
  /\ granted' = [granted EXCEPT ![c] = @ - 1]
  /\ ran' = [ran EXCEPT ![c] = @ + 1]
  /\ UNCHANGED approved

\* Grants are dropped unused, some or all.
Lapse ==
  /\ granted' \in [Call -> Nat]
  /\ \A c \in Call : granted'[c] <= granted[c]
  /\ UNCHANGED <<approved, ran>>

Next == Lapse \/ \E c \in Call : Approve(c) \/ Run(c)

Spec == Init /\ [][Next]_vars
=============================================================================
