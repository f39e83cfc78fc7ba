------------------------------ MODULE AllocSpec ------------------------------
(***************************************************************************)
(* What a malloc package promises, whatever its layout: a set of payload   *)
(* pointers, each with the bytes it may use, 16-aligned, inside the heap   *)
(* region [Lo, Hi) and disjoint from every other; a call hands out one new *)
(* payload, takes back one, or (realloc) does both at once, and leaves the *)
(* others as they were.                                                    *)
(***************************************************************************)
EXTENDS Integers, Functions, TLC

CONSTANTS Lo, Hi

VARIABLE owned   \* payload pointer -> usable bytes

\* Payloads that fit the region and overlap no other.
Valid(o) ==
    \A p \in DOMAIN o :
        /\ p % 16 = 0 /\ Lo <= p /\ p + o[p] <= Hi
        /\ \A q \in DOMAIN o \ {p} : p + o[p] <= q \/ q + o[q] <= p

Without(p) == Restrict(owned, DOMAIN owned \ {p})

AInit == owned = << >>

\* malloc and calloc: one new payload.
AMalloc ==
    \E p \in DOMAIN owned' \ DOMAIN owned :
        /\ owned' = owned @@ (p :> owned'[p])
        /\ Valid(owned')

\* free: one payload goes back.
AFree == \E p \in DOMAIN owned : owned' = Without(p)

\* realloc: a new payload for an old one.
ARealloc ==
    \E p \in DOMAIN owned, q \in DOMAIN owned' \ DOMAIN owned :
        /\ owned' = Without(p) @@ (q :> owned'[q])
        /\ Valid(owned')

ANext == AMalloc \/ AFree \/ ARealloc

ASpec == AInit /\ [][ANext]_owned
==============================================================================
