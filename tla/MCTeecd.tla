------------------------------ MODULE MCTeecd ------------------------------
(***************************************************************************)
(* teecd for TLC: two files in the first directory of drivers, one in the  *)
(* default one, an empty first directory of services.                      *)
(***************************************************************************)
EXTENDS Teecd, TLC

MCDirFiles == "drv_feima" :> 2 @@ "drv" :> 1 @@ "srv_feima" :> 0 @@ "srv" :> 1
=============================================================================
