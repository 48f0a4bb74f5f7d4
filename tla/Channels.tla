----------------------------- MODULE Channels -----------------------------
(***************************************************************************)
(* The configuration of the notification channels, which is spread over    *)
(* three stores that no transaction covers: the provider's document in     *)
(* Secrets Store, its row in provider_credential_status and the single row *)
(* of notification_settings, always read and rewritten as a whole.         *)
(*                                                                         *)
(* Four kinds of requests write them: a credential update and a credential *)
(* removal (worker/api.js, worker/routes/webhook.js), the owner saving the *)
(* settings (worker/notifications/settings.js) and a webhook delivery      *)
(* noting its outcome (worker/notifications/webhook.js).  Each `await` is  *)
(* a place where another request may move, or where this one may end with  *)
(* an error.  Secrets Store is external: reads see the last PATCH.         *)
(*                                                                         *)
(* The limiter lets two mutations start ten seconds apart and the RPC to   *)
(* the credential-admin Worker is given up, not cancelled, after fifteen:  *)
(* time is left out, mutations overlap, and a PATCH may land late.         *)
(***************************************************************************)
EXTENDS Integers, FiniteSets

CONSTANTS
  RpcChannels,  \* channels whose secret the credential-admin Worker writes
  Webhook,      \* the channel whose secret this Worker writes, if it can
  Credentials,  \* configured transport documents
  Unset,        \* the sentinel document; also no masked name at all
  Requests,     \* HTTP requests and webhook deliveries in flight
  MaxLate       \* bound: PATCHes that may outlive their callers at a time

ASSUME ChannelsAssumption ==
  /\ Webhook \notin RpcChannels
  /\ Unset \notin Credentials

VARIABLES
  putBinding, \* does the binding of the webhook's secret have a put()
  secret,     \* the documents in Secrets Store
  status,     \* provider_credential_status: what the masked identifier names
  settings,   \* the row of notification_settings
  req,        \* the local state of each request
  late,       \* PATCHes whose caller has given up
  stored      \* history: the documents each secret has ever held

vars == <<putBinding, secret, status, settings, req, late, stored>>

Channels == RpcChannels \cup {Webhook}
Docs == Credentials \cup {Unset}

\* "on" are the channels whose Enabled column is 1; before the first upsert
\* there is no row and getSettings answers with the defaults.
Row == [exists : BOOLEAN, on : SUBSET Channels, host : Docs]
DefaultRow == [exists |-> FALSE, on |-> {}, host |-> Unset]

Kind == {"update", "remove", "save", "deliver"}
Pc == {"idle", "existing", "put", "activate", "status", "check", "resolve", "read",
       "write", "done"}

\* "clean" is history: no request in conflict with this one was in flight
\* with it.
Request == [kind : Kind, channel : Channels, doc : Docs, wanted : SUBSET Channels,
            todo : SUBSET Channels, row : Row, clean : BOOLEAN, pc : Pc]

TypeOK == /\ putBinding \in BOOLEAN
          /\ secret \in [Channels -> Docs]
          /\ status \in [Channels -> Docs]
          /\ settings \in Row
          /\ req \in [Requests -> Request]
          /\ late \subseteq Channels \X Docs
          /\ stored \in [Channels -> SUBSET Credentials]

Idle == [kind |-> "save", channel |-> Webhook, doc |-> Unset, wanted |-> {},
         todo |-> {}, row |-> DefaultRow, clean |-> FALSE, pc |-> "idle"]

Init == /\ putBinding \in BOOLEAN
        /\ secret = [c \in Channels |-> Unset]
        /\ status = [c \in Channels |-> Unset]
        /\ settings = DefaultRow
        /\ req = [r \in Requests |-> Idle]
        /\ late = {}
        /\ stored = [c \in Channels |-> {}]

At(r, pc) == req[r].pc = pc
Is(r, kind) == req[r].kind = kind
Running(q) == q.pc \notin {"idle", "done"}

Goto(r, pc) == req' = [req EXCEPT ![r].pc = pc]

\* What a request reads or writes besides the settings row.
Concerns(q) == IF q.kind = "save" THEN Channels ELSE {q.channel}

WritesSettings(q) == q.kind # "update" \/ q.channel = Webhook

Conflict(p, q) == \/ WritesSettings(p) /\ WritesSettings(q)
                  \/ Concerns(p) \cap Concerns(q) # {}

\* Request r starts as q; whoever it conflicts with is no longer clean.
Begin(r, q) ==
  LET others == {s \in Requests \ {r} : Running(req[s]) /\ Conflict(req[s], q)}
      clean  == others = {} /\ \A l \in late : l[1] \notin Concerns(q)
  IN  /\ At(r, "idle")
      /\ req' = [s \in Requests |->
                   IF s = r THEN [q EXCEPT !.clean = clean]
                   ELSE IF Conflict(req[s], q) THEN [req[s] EXCEPT !.clean = FALSE]
                   ELSE req[s]]
      /\ UNCHANGED <<putBinding, secret, status, settings, late, stored>>

---------------------------------------------------------------------------
(* The four kinds of requests.                                             *)

\* PUT of complete credentials.  Without a put() the webhook's route answers
\* 503 before it does anything.
BeginUpdate(r) == \E c \in Channels, d \in Credentials :
  /\ c = Webhook => putBinding
  /\ Begin(r, [Idle EXCEPT !.kind = "update", !.channel = c, !.doc = d, !.pc = "put"])

\* PUT that leaves out what the store has: it is completed from there.
BeginRetainingUpdate(r) == \E c \in RpcChannels :
  Begin(r, [Idle EXCEPT !.kind = "update", !.channel = c, !.pc = "existing"])

BeginRemove(r) == \E c \in Channels :
  Begin(r, [Idle EXCEPT !.kind = "remove", !.channel = c,
                        !.pc = IF c = Webhook /\ ~putBinding THEN "read" ELSE "put"])

BeginSave(r) == \E on \in SUBSET Channels :
  Begin(r, [Idle EXCEPT !.kind = "save", !.wanted = on, !.todo = on, !.pc = "check"])

BeginDeliver(r) == Begin(r, [Idle EXCEPT !.kind = "deliver", !.pc = "resolve"])

\* readBoundSecret: with no configured document there is nothing to retain.
ReadExisting(r) ==
  /\ At(r, "existing")
  /\ secret[req[r].channel] # Unset
  /\ req' = [req EXCEPT ![r].doc = secret[req[r].channel], ![r].pc = "put"]
  /\ UNCHANGED <<putBinding, secret, status, settings, late, stored>>

Keep(c, d) == stored' = [stored EXCEPT ![c] = @ \cup ({d} \ {Unset})]

\* The PATCH, or put(), applied.
Put(r) ==
  LET c == req[r].channel IN
  /\ At(r, "put")
  /\ secret' = [secret EXCEPT ![c] = req[r].doc]
  /\ Keep(c, req[r].doc)
  /\ Goto(r, IF c = Webhook THEN "read" ELSE "activate")
  /\ UNCHANGED <<putBinding, status, settings, late>>

\* apiRequest sends the PATCH again when the answer to the first is lost.
PutAgain(r) ==
  /\ At(r, "activate")
  /\ secret' = [secret EXCEPT ![req[r].channel] = req[r].doc]
  /\ UNCHANGED <<putBinding, status, settings, req, late, stored>>

\* waitForActive, and the RPC returns in time.
Activated(r) == /\ At(r, "activate")
                /\ Goto(r, "status")
                /\ UNCHANGED <<putBinding, secret, status, settings, late, stored>>

\* Broken: a removal notes the status and leaves the channel enabled.
BadAfterStatus(r) == "done"

\* An RPC removal disables the channel last, the webhook's first.
AfterStatus(r) ==
  IF Is(r, "remove") /\ req[r].channel # Webhook THEN "read" ELSE "done"

\* Broken: the fields of the row are bound in the wrong order.
BadStatusDoc(r) == req[r].kind

\* What upsertProviderCredentialStatus is told: the document that was written.
StatusDoc(r) == req[r].doc

UpsertStatus(r) ==
  /\ At(r, "status")
  /\ status' = [status EXCEPT ![req[r].channel] = StatusDoc(r)]
  /\ Goto(r, AfterStatus(r))
  /\ UNCHANGED <<putBinding, secret, settings, late, stored>>

\* Broken: a check by what D1 says of the channel.
BadCheck(r) ==
  /\ At(r, "check")
  /\ \E c \in req[r].todo :
       /\ status[c] # Unset
       /\ req' = [req EXCEPT ![r].todo = @ \ {c}]
  /\ UNCHANGED <<putBinding, secret, status, settings, late, stored>>

\* saveSettings: every channel that is to be enabled must have a transport.
Check(r) ==
  /\ At(r, "check")
  /\ \E c \in req[r].todo :
       /\ secret[c] # Unset
       /\ req' = [req EXCEPT ![r].todo = @ \ {c}]
  /\ UNCHANGED <<putBinding, secret, status, settings, late, stored>>

\* Broken: one channel is checked for all.
BadChecked(r) == /\ At(r, "check")
                 /\ req[r].todo # req[r].wanted \/ req[r].wanted = {}
                 /\ Goto(r, "read")
                 /\ UNCHANGED <<putBinding, secret, status, settings, late, stored>>

Checked(r) == /\ At(r, "check")
              /\ req[r].todo = {}
              /\ Goto(r, "read")
              /\ UNCHANGED <<putBinding, secret, status, settings, late, stored>>

\* sendWebhook resolves its transport, and later has its answer.
Resolve(r) ==
  /\ At(r, "resolve")
  /\ secret[Webhook] # Unset
  /\ req' = [req EXCEPT ![r].doc = secret[Webhook], ![r].pc = "read"]
  /\ UNCHANGED <<putBinding, secret, status, settings, late, stored>>

\* Broken: a webhook update is done once its host is noted.
BadAfterSettings(r) == IF req[r].channel = Webhook /\ req[r].kind = "remove"
                       THEN "status" ELSE "done"

\* The webhook's routes note the status last.
AfterSettings(r) == IF req[r].channel = Webhook /\ req[r].kind \in {"update", "remove"}
                    THEN "status" ELSE "done"

\* getNotificationSettingsRow; a removal or a delivery that finds no row does
\* not write one.
ReadSettings(r) ==
  /\ At(r, "read")
  /\ IF ~settings.exists /\ req[r].kind \in {"remove", "deliver"}
     THEN Goto(r, AfterSettings(r))
     ELSE req' = [req EXCEPT ![r].row = settings, ![r].pc = "write"]
  /\ UNCHANGED <<putBinding, secret, status, settings, late, stored>>

\* Broken: the outcome of a delivery is written with the channel's switch on.
BadRewritten(r) ==
  LET q == req[r] IN
  [exists |-> TRUE,
   on     |-> IF q.kind = "save" THEN q.wanted
              ELSE IF q.kind = "remove" THEN q.row.on \ {q.channel}
              ELSE IF q.kind = "deliver" THEN q.row.on \cup {Webhook} ELSE q.row.on,
   host   |-> IF q.kind \in {"update", "deliver"} THEN q.doc ELSE q.row.host]

\* The row that was read, with this request's own columns replaced.
Rewritten(r) ==
  LET q == req[r] IN
  [exists |-> TRUE,
   on     |-> IF q.kind = "save" THEN q.wanted
              ELSE IF q.kind = "remove" THEN q.row.on \ {q.channel} ELSE q.row.on,
   host   |-> IF q.kind \in {"update", "deliver"} THEN q.doc ELSE q.row.host]

\* upsertNotificationSettings: every column.
WriteSettings(r) ==
  /\ At(r, "write")
  /\ settings' = Rewritten(r)
  /\ req' = [req EXCEPT ![r].row = DefaultRow, ![r].pc = AfterSettings(r)]
  /\ UNCHANGED <<putBinding, secret, status, late, stored>>

\* The answer reaches the caller.
Finish(r) == /\ At(r, "done")
             /\ req' = [req EXCEPT ![r] = Idle]
             /\ UNCHANGED <<putBinding, secret, status, settings, late, stored>>

\* Broken: an RPC that times out counts as one that succeeded.
BadAbort(r) ==
  /\ Running(req[r])
  /\ IF At(r, "put") THEN Goto(r, "status") ELSE req' = [req EXCEPT ![r] = Idle]
  /\ UNCHANGED <<putBinding, secret, status, settings, late, stored>>

\* The request ends with an error at any await: a refused check or document, a
\* D1 error, a Secrets Store read that times out, an activation that does, the
\* Worker killed.  A PATCH on its way is not stopped by that.
Abort(r) ==
  /\ Running(req[r])
  /\ req' = [req EXCEPT ![r] = Idle]
  /\ \/ UNCHANGED late
     \/ /\ At(r, "put") \/ At(r, "activate")
        /\ Cardinality(late) < MaxLate
        /\ late' = late \cup {<<req[r].channel, req[r].doc>>}
  /\ UNCHANGED <<putBinding, secret, status, settings, stored>>

\* A PATCH whose caller has given up is applied, or fails; apiRequest may send it
\* again, so that it is applied once more even later.
LatePut == \E l \in late :
  /\ late' = late \ {l} \/ UNCHANGED late
  /\ \/ UNCHANGED <<secret, stored>>
     \/ secret' = [secret EXCEPT ![l[1]] = l[2]] /\ Keep(l[1], l[2])
  /\ UNCHANGED <<putBinding, status, settings, req>>

\* Where the Worker cannot write the webhook's secret, an operator sets it with
\* Cloudflare's tools; removing it there is left out.
Provision == \E d \in Credentials :
  /\ ~putBinding
  /\ secret' = [secret EXCEPT ![Webhook] = d]
  /\ Keep(Webhook, d)
  /\ UNCHANGED <<putBinding, status, settings, req, late>>

Step(r) == \/ BeginUpdate(r) \/ BeginRetainingUpdate(r) \/ BeginRemove(r)
           \/ BeginSave(r) \/ BeginDeliver(r)
           \/ ReadExisting(r) \/ Put(r) \/ PutAgain(r) \/ Activated(r) \/ UpsertStatus(r)
           \/ Check(r) \/ Checked(r) \/ Resolve(r)
           \/ ReadSettings(r) \/ WriteSettings(r) \/ Finish(r) \/ Abort(r)

Next == (\E r \in Requests : Step(r)) \/ LatePut \/ Provision

Spec == Init /\ [][Next]_vars

---------------------------------------------------------------------------
(* Properties.                                                             *)

Succeeded(r, kind) == At(r, "done") /\ Is(r, kind) /\ req[r].clean

\* A channel is enabled only if its credentials have been configured at some
\* time, whatever requests overlap, fail halfway or rewrite stale rows.
EnabledWasConfigured == \A c \in settings.on : stored[c] # {}

\* The status row and the masked host never name credentials that their secret
\* never held, however late the PATCHes land and whoever times out.
NamesWereStored ==
  /\ \A c \in Channels : status[c] # Unset => status[c] \in stored[c]
  /\ settings.host # Unset => settings.host \in stored[Webhook]

\* A credential update that succeeds, with nothing in conflict in flight, leaves
\* the three stores agreeing on the new credentials, whatever earlier failures
\* left behind.
UpdateHeals ==
  \A r \in Requests : Succeeded(r, "update") =>
    LET q == req[r] IN
    /\ secret[q.channel] = q.doc /\ status[q.channel] = q.doc /\ q.doc # Unset
    /\ q.channel = Webhook => settings.host = q.doc

\* So does a removal: no credentials, a status row that claims none, the channel
\* disabled; only the webhook's secret stays where the Worker cannot write it.
RemovalHeals ==
  \A r \in Requests : Succeeded(r, "remove") =>
    LET c == req[r].channel IN
    /\ status[c] = Unset /\ c \notin settings.on
    /\ (c \in RpcChannels \/ putBinding) => secret[c] = Unset

\* Settings saved with nothing in conflict in flight are those asked for, and
\* every channel they enable has a transport (settings.js: fail closed).
SaveFailsClosed ==
  \A r \in Requests : Succeeded(r, "save") =>
    settings.on = req[r].wanted /\ \A c \in settings.on : secret[c] # Unset

\* A disabled channel is enabled only by settings that ask for it, or by a row
\* read while the channel was enabled; and then another writer of the row was
\* in flight with the request that writes it back.
EnabledOnPurpose ==
  [][\A c \in settings'.on \ settings.on : \E r \in Requests :
       /\ At(r, "write")
       /\ \/ Is(r, "save") /\ c \in req[r].wanted
          \/ ~req[r].clean /\ c \in req[r].row.on]_vars
=============================================================================
