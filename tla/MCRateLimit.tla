------------------------------ MODULE MCRateLimit ------------------------------
(* RateLimit on a small instance: one account, whose browsers have an      *)
(* address each.                                                           *)
EXTENDS RateLimit

MCIpOf ==
  CHOOSE f \in [Callers -> Ips] : \A c, d \in Callers : c # d => f[c] # f[d]

MCEmailOf == [c \in Callers |-> CHOOSE e \in Emails : TRUE]

=============================================================================
