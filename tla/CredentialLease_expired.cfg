SPECIFICATION LeaseSpec
CONSTANTS
  Clients = {c1, c2}
  MaxLeases = 2
PROPERTY OccupiedByLiveLease
