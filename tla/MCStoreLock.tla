---------------------------- MODULE MCStoreLock ----------------------------
(* Three goroutines, two of them on one replica, that keep calling; three  *)
(* sessions for an index of two, or two users for a queue.                 *)
EXTENDS StoreLock, TLC

CONSTANTS a, b, c, r1, r2, e1, e2, e3

MCHome == a :> r1 @@ b :> r1 @@ c :> (IF redis THEN r2 ELSE r1)

MCOldList == [index |-> <<e1, e2>>, queue |-> <<e2>>]

About(k, e) == [kind |-> k, entry |-> e, live |-> {}]
MCCalls == {About("record", e3), About("drop", e1), About("revoke", e1), About("others", e2), [kind |-> "list", entry |-> e1, live |-> {e2, e3}], About("queue", e1), About("unqueue", e1)}
=============================================================================
