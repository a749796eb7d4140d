---------------------------- MODULE MCChatStream ----------------------------
(* Requests on one session: two turns and a cancel, or one of each method. *)
EXTENDS ChatStream

CONSTANTS s1, s2, x1, q1, p1, k1

TwoTurns == {s1, s2, x1}
AllMethods == {s1, x1, q1, p1}
OneSession == [q \in Requests |-> k1]
Methods == [q \in Requests |-> CASE q \in {s1, s2} -> "chat.send"
                                 [] q = x1 -> "chat.cancel"
                                 [] q = q1 -> "query"
                                 [] q = p1 -> "ping"]
=============================================================================
