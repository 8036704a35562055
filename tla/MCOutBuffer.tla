---------------------------- MODULE MCOutBuffer ----------------------------
(* Model-checking instance of OutBuffer: three size classes scaled down    *)
(* from 2048/4096/8192/16384 so that a few add_output calls grow the       *)
(* buffer through every class and overflow the largest.                    *)
EXTENDS OutBuffer

MCSizes == <<2, 3, 4>>
====
