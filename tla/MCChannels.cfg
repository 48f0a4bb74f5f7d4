SPECIFICATION Spec
CONSTANTS
  RpcChannels = {email}
  Webhook = webhook
  Credentials = {k1}
  Unset = unset
  Requests = {r1, r2}
  MaxLate = 1
SYMMETRY Symmetry
INVARIANTS TypeOK NamesWereStored UpdateHeals RemovalHeals SaveFailsClosed
PROPERTIES EnabledOnPurpose
