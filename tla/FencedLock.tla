----------------------------- MODULE FencedLock -----------------------------
(***************************************************************************)
(* What a session lease promises, with no store and no clock: a lock that  *)
(* lapses by itself, whose every grant carries a token no earlier grant    *)
(* had, and which under Exclusive is granted only while nobody holds it.   *)
(* A holder that lapsed may extend its grant as long as no later one was   *)
(* made.                                                                   *)
(***************************************************************************)
EXTENDS Integers

CONSTANTS
  Client,     \* who may hold the lock
  Nobody,     \* the holder of a free lock
  Exclusive   \* TRUE: a held lock is not granted to another client

VARIABLES
  holder,   \* who holds the lock now
  last,     \* who was granted it last
  token     \* the last grant's token, ordered by generation, then fence

vars == <<holder, last, token>>

Tokens == [gen : Nat, fence : Nat]

Later(a, b) == a.gen < b.gen \/ (a.gen = b.gen /\ a.fence < b.fence)

Init ==
  /\ holder = Nobody
  /\ last = Nobody
  /\ token = [gen |-> 0, fence |-> 0]

\* A grant may have lapsed by the time it is made: its clock is older.
Grant(c) ==
  /\ Exclusive => holder \in {Nobody, c}
  /\ token' \in Tokens /\ Later(token, token')
  /\ last' = c
  /\ holder' \in {c, Nobody}

Extend ==
  /\ holder' = last
  /\ UNCHANGED <<last, token>>

Lapse ==
  /\ holder' = Nobody
  /\ UNCHANGED <<last, token>>

Next == Lapse \/ Extend \/ \E c \in Client : Grant(c)

Spec == Init /\ [][Next]_vars
=============================================================================
