SPECIFICATION Spec
CONSTANTS
  None = None
  Ips = {home, office}
  home = home
  office = office
  Emails = {alice}
  alice = alice
  Callers = {laptop}
  laptop = laptop
  IpOf <- MCIpOf
  EmailOf <- MCEmailOf
  MagicCapacity = 1
  MagicRefill = 2
  CeremonyCapacity = 1
  CeremonyRefill = 1
  Second = 2
  MaxAge = 2
  Skew = 0
  MaxNow = 3
  MaxBack = 1
  MaxRestarts = 1
  MaxEpoch = 1
INVARIANTS
  TypeOK
  MailsBounded
  GuessesBounded
  QuotedWaitIsEnough
