---------------------------- MODULE MCRoomServer ----------------------------
(* TLC instance of RoomServer for its safety properties.  Users, rooms,    *)
(* room ids and requests are interchangeable unless a message names a user.*)
EXTENDS RoomServer, TLC

Symmetry == Permutations(RoomIds) \cup Permutations(Rooms) \cup Permutations(Requests)
            \cup IF Messages \cap Users \in {{}, Users} THEN Permutations(Users) ELSE {}
=============================================================================
