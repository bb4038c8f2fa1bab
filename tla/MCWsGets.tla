------------------------------ MODULE MCWsGets ------------------------------
(* Two tip GETs of one repository with a retry each, a profile GET without *)
(* a cancel group and a listing GET of the repository, both soft.          *)
EXTENDS WsGets, TLC

CONSTANTS tip1, tip2, soft1, soft2, repoA

MCScope == tip1 :> repoA @@ tip2 :> repoA @@ soft1 :> None @@ soft2 :> repoA
MCMaxAttempts == tip1 :> 2 @@ tip2 :> 1 @@ soft1 :> 1 @@ soft2 :> 2
=============================================================================
