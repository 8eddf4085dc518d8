----------------------------- MODULE MCAccounts -----------------------------
(* Instances of Accounts for TLC. *)
EXTENDS Accounts, TLC

CONSTANTS u1, u2, u3, s1, s2, s3, v1, c1, r1, r2

\* u1 has a phone, u2 a Google login; a phone and a vehicle
\* are unknown yet.
Providers == [s \in Subjects |-> IF s = s2 THEN "GOOGLE" ELSE "PHONE"]
Known == [s \in Subjects |-> CASE s = s1 -> u1 [] s = s2 -> u2 [] s = s3 -> NoUser]
Owned == [v \in Vehicles |-> NoUser]
Phones == [c \in Codes |-> s3]
Alike == Permutations(Requests)
=============================================================================
