----------------------------- MODULE MCAccounts -----------------------------
(* Accounts with two spellings of one name, and a name that only the account
   command takes for it; a token that lives for one instant of two. *)
EXTENDS Accounts, TLC

CONSTANTS low, high, accent, old, new, nick, t1

MCFold == (low :> low) @@ (high :> low) @@ (accent :> accent)
MCLower == (low :> low) @@ (high :> low) @@ (accent :> low)

=============================================================================
