CONSTANTS
  b1 = b1
  b2 = b2
  v1 = v1
  v2 = v2
  c1 = c1
  Unset = Unset
  BroadcastIds <- MCBroadcastIds
  Versions <- MCVersions
  Clients <- MCClients
  MaxPublications = 4
SPECIFICATION Spec
INVARIANTS
  NoMissedBroadcast
  RevisionsOrdered
PROPERTIES
  EventuallyInformed
