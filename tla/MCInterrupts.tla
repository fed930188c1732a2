---------------------------- MODULE MCInterrupts ----------------------------
(* Small instances of Interrupts.                                          *)
EXTENDS Interrupts

\* The call of the network extension; a second call replaces an allocated
\* table.
MCRegistrations == <<"network", "keyboard">>
=============================================================================
