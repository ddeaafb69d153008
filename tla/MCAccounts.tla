---------------------------- MODULE MCAccounts ----------------------------
EXTENDS Accounts, TLC

Symmetry == Permutations(Requests) \cup Permutations(Sessions) \cup Permutations(Links)
              \cup Permutations(Invites) \cup Permutations(Passwords)
============================================================================
