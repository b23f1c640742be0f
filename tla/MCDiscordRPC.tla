---------------------------- MODULE MCDiscordRPC ----------------------------
(* A small instance of DiscordRPC.                                         *)
EXTENDS DiscordRPC
=============================================================================
