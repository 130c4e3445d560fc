------------------------------ MODULE MCTopside ------------------------------
(***************************************************************************)
(* topside's phone side in one run: its tasks (Topside) and the token at   *)
(* its door (Gate).                                                        *)
(***************************************************************************)
EXTENDS Topside, Gate

(* While the phones' port is open it admits whoever sends the configured   *)
(* token and nobody else: not with a part of it, with more than it, or     *)
(* with another scheme (net.rs:184, config.rs:236).  The token is any one  *)
(* Config::load took; one with white space at an end, or with a character  *)
(* outside visible ASCII (net.rs:189), lets nobody in.                     *)
OnlyTheToken == accepting => AdmitsItsToken

=============================================================================
