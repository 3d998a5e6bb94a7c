---------------------------- MODULE MCOAuthTokens ----------------------------
(* OAuthTokens for TLC; accounts, clients, codes, pairs and slots are alike. *)
EXTENDS OAuthTokens, TLC

Alike == Permutations(Account) \cup Permutations(Client) \cup Permutations(Code)
           \cup Permutations(Pair) \cup Permutations(Slot)
=============================================================================
