----------------------------- MODULE MCPhoneChat -----------------------------
(* PhoneChat for TLC: two workspaces, so that there is one to switch to.   *)
EXTENDS PhoneChat, TLC

CONSTANTS a, b

=============================================================================
