----------------------------- MODULE MCService ------------------------------
(***************************************************************************)
(* Service for TLC.  Requests are interchangeable, and so are tokens, user *)
(* names and salts.                                                        *)
(***************************************************************************)
EXTENDS Service, TLC

ServiceSymmetry ==
    Permutations(User) \union Permutations(Token) \union Permutations(Username) \union Permutations(Salt)
=============================================================================
