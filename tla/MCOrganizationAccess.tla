----------------------- MODULE MCOrganizationAccess -----------------------
EXTENDS OrganizationAccess, TLC

Symmetry == Permutations(Users) \cup Permutations(Groups) \cup Permutations(Requests)
============================================================================
