----------------------------- MODULE MCStackTask -----------------------------
EXTENDS StackTask, TLC
MCPort == DHCP :> 68 @@ NBNS :> 137 @@ App :> 5000
=============================================================================
