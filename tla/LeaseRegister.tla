---------------------------- MODULE LeaseRegister ----------------------------
(***************************************************************************)
(* The ownership lease of one review record, as if every operation on the  *)
(* scheduler's document took effect in one step and in the order of the    *)
(* server's clock: what claim_next_with_limit, renew and defer of          *)
(* src/src/ports/review_job.rs do to it.                                   *)
(***************************************************************************)
EXTENDS Naturals

CONSTANTS
  Owners,  \* identities of the server processes
  Ttl,     \* REVIEW_OWNER_TTL_MS
  None

VARIABLES
  lease,   \* owner, generation and owner_until_ms of the record
  time     \* server time of the last operation that changed it

vars == <<lease, time>>

Lease == [owner: Owners \cup {None}, gen: Nat, until: Nat]
NoLease == [owner |-> None, gen |-> 0, until |-> 0]

Free(r, now) == r.owner = None \/ r.until <= now
Live(r, now) == r.owner # None /\ now < r.until

Claimed(r, o, now) == [owner |-> o, gen |-> r.gen + 1, until |-> now + Ttl]
Renewed(r, now) == [r EXCEPT !.until = now + Ttl]
Left(r) == [r EXCEPT !.owner = None, !.until = 0]

Init == lease = NoLease /\ time = 0

Claim ==
  /\ Free(lease, time')
  /\ \E o \in Owners : lease' = Claimed(lease, o, time')
Renew == Live(lease, time') /\ lease' = Renewed(lease, time')
Leave == Live(lease, time') /\ lease' = Left(lease)

Next == time' \in Nat /\ time <= time' /\ (Claim \/ Renew \/ Leave)

Spec == Init /\ [][Next]_vars
==============================================================================
