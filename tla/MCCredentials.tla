---------------------------- MODULE MCCredentials ----------------------------
(***************************************************************************)
(* Credentials on small instances: three browsers race, two passwords are  *)
(* swapped back and forth, and two failures close an address.              *)
(***************************************************************************)
EXTENDS Credentials, TLC

Interchangeable ==
  Permutations(Clients) \cup Permutations(Passwords) \cup Permutations(Ids)
    \cup Permutations(Addresses)

===============================================================================
