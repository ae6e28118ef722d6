-------------------------------- MODULE MCSignIn --------------------------------
(* SignIn on small instances: the tabs share a browser, or have one each.  *)
EXTENDS SignIn, TLC

MCHome == [Tabs -> Browsers]
MCSymmetry == Permutations(Tabs) \cup Permutations(Browsers)
               \cup Permutations(Emails) \cup Permutations(Creds)

=============================================================================
