---------------------------- MODULE MCChatGateway ----------------------------
(***************************************************************************)
(* Small instances of ChatGateway: two starts of one user on one           *)
(* connection, whose requestIds may be the same.                           *)
(***************************************************************************)
EXTENDS ChatGateway, TLC

CONSTANTS a, b

OneConn == [s \in {a, b} |-> "c1"]
OneUser == [s \in {a, b} |-> "u1"]
Symmetric == Permutations({a, b})
=============================================================================
