----------------------------- MODULE MCIndexRun -----------------------------
(* Instances of IndexRun for TLC: a file, a file of a submodule, and one that *)
(* is emptied and filled again.                                               *)
EXTENDS IndexRun

CONSTANTS p, s, f, none, r1, r2, r3, w1, w2, a, b

MCAt == {1, 2}

\* A file whose text moves down a line and later grows; a submodule file that
\* disappears and comes back; a file that is emptied and filled again.
MCPresent == [r \in Revisions |-> IF r = r1 THEN {p, s} ELSE {p, f}]
MCTree ==
  [r \in Revisions |->
     [q \in Paths |->
        CASE q = s -> {<<1, a>>}
          [] q = f -> IF r = r2 THEN {} ELSE {<<1, a>>}
          [] q = p -> CASE r = r1 -> {<<1, a>>}
                        [] r = r2 -> {<<2, a>>}
                        [] r = r3 -> {<<1, b>>, <<2, a>>}]]
=============================================================================
