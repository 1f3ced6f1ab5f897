------------------------------ MODULE MCSocketTable ----------------------------
(* Three sockets and an array of two entries, so that sockets are registered  *)
(* one too many and deregistered in every order, and addresses come back.     *)
EXTENDS SocketTable
================================================================================
