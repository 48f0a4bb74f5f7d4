SPECIFICATION AuditSpec
CONSTANTS
  RpcChannels = {email}
  Webhook = webhook
  Credentials = {k1}
  Unset = unset
  Requests = {r1, r2}
  MaxLate = 0
INVARIANT RemovedStaysOff
