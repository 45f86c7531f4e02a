----------------------------- MODULE MCGenesis -----------------------------
(* Genesis with two accounts: lists of up to four allocations repeat an     *)
(* address, hold zeros and overflow.                                        *)
EXTENDS Genesis

CONSTANTS alice, bob

MCAddress == {alice, bob}
=============================================================================
