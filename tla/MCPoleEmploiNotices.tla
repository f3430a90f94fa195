------------------------ MODULE MCPoleEmploiNotices ------------------------
(* Values of the constants of PoleEmploiNotices for the runs.              *)
EXTENDS PoleEmploiNotices, TLC

CONSTANTS p1, p2

(* The second pass comes first.                                            *)
RankMC == p1 :> 1 @@ p2 :> 2

(* One pass, runs that overlap and a kill; or two passes that compete for  *)
(* a batch of one.                                                         *)
StartsMC ==
    {[passes |-> {p1}, runs |-> Runs, kills |-> 0],
     [passes |-> {p1, p2}, runs |-> {"r1"}, kills |-> 1]}
=============================================================================
