--------------------------- MODULE MCReservations ---------------------------
(* Small instances of Reservations for TLC. *)
EXTENDS Reservations

CONSTANTS d1, d2, a1, a2

\* Two deploys compete for one account that can only pay for one of them.
SharedAccount == [d \in {d1, d2} |-> a1]
MCAmount == [d \in {d1, d2} |-> IF d = d1 THEN 2 ELSE 1]
ScarceFunds == [a \in {a1} |-> 2]

\* Two accounts of one signer, each with a deploy of its own.
OwnAccount == [d \in {d1, d2} |-> IF d = d1 THEN a1 ELSE a2]
AmpleFunds == [a \in {a1, a2} |-> 2]
=============================================================================
