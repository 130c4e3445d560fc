------------------------------ MODULE MCSnorkel ------------------------------
(***************************************************************************)
(* snorkel's loop (SnorkelLink) and the --server value it is given         *)
(* (Endpoint).                                                             *)
(***************************************************************************)
EXTENDS SnorkelLink, Endpoint

(* Whatever --server value made it past the start-up, snorkel dials what   *)
(* the value spells: a host rustls can name, with the port written after   *)
(* it, or 1943, and no part of the value dropped but the scope of an IPv6  *)
(* address (config.rs:72).  Every spelling of a host and a port is taken   *)
(* for that host and port, and an IPv6 literal is never a shorter address  *)
(* and a port (config.rs:71-91).                                           *)
ParsedAsSpelled == at = "Dial" => ParsesSpellings

=============================================================================
