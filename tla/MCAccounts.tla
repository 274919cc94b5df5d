----------------------------- MODULE MCAccounts -----------------------------
(* Two or three registrations and two logins.  Of the phones, "01" and     *)
(* "+8801" spell one number, and "10" reads like an account number.        *)
EXTENDS Accounts

MCPhones == {"01", "+8801", "10"}
MCAccountNumbers == {"10", "20"}
MCNormal == [i \in {"01", "+8801", "10", "20"} |-> IF i = "01" THEN "+8801" ELSE i]
=============================================================================
