--------------------------- MODULE Configuration ---------------------------
(***************************************************************************)
(* What startup and routing both read: the configuration of a broker and   *)
(* the values that stand for what it leaves out.                           *)
(***************************************************************************)
EXTENDS Integers, Sequences, FiniteSets

VARIABLE config  \* the configuration; chosen once

Unset == -1      \* a number the configuration does not give
Invalid == -2    \* a value that is no number of the kind the field takes
NoDispatcher == <<>>
NoLimit == [max |-> Unset, extra |-> FALSE, realms |-> <<>>]
RealmsOf(limit) == DOMAIN limit.realms
=============================================================================
