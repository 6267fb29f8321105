----------------------------- MODULE MCUploads -----------------------------
(* A small instance of Images for TLC. *)
EXTENDS Images

CONSTANTS alice, bob, p1, p2, p3, k1, k2, s1, s2, s3

\* p1 and p2 are different pictures whose hashes begin alike.
Colliding == [p \in Pictures |-> IF p = p3 THEN k2 ELSE k1]

\* alice can pay once and not twice, bob once.
FewCoins == [u \in Users |-> IF u = alice THEN 3 ELSE 2]

\* Texts that show one of two pictures or both.
OneOrBoth == {{p1}, {p1, p2}}
=============================================================================
