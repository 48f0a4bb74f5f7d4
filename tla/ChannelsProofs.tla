-------------------------- MODULE ChannelsProofs --------------------------
(* Theorems about Channels, for any channels, credentials and requests and *)
(* any number of late PATCHes.                                             *)
EXTENDS Channels, TLAPS

---------------------------------------------------------------------------
(* The inductive invariant.                                                *)

\* What the place a request has reached says of its kind.
StageOf(q) ==
  /\ q.kind = "deliver" => q.channel = Webhook
  /\ q.kind = "remove" => q.doc = Unset
  /\ q.kind = "update" /\ q.pc # "existing" => q.doc # Unset
  /\ q.kind = "update" /\ q.channel = Webhook => putBinding
  /\ q.pc = "existing" => q.kind = "update"
  /\ q.pc \in {"put", "activate", "status"} => q.kind \in {"update", "remove"}
  /\ q.pc = "check" => q.kind = "save"
  /\ q.pc = "resolve" => q.kind = "deliver"
  /\ q.pc = "activate" => q.channel # Webhook
  /\ q.pc \in {"read", "write"} => q.kind # "update" \/ q.channel = Webhook
  /\ q.pc = "put" /\ q.channel = Webhook => putBinding
  /\ q.kind = "save" /\ q.pc \in {"read", "write", "done"} => q.todo = {}

Stage == \A r \in Requests : StageOf(req[r])

\* What is written, or remembered to be, has been in Secrets Store.
KnownDoc(d, c) == d # Unset => d \in stored[c]

HistoryOf(q) ==
  /\ q.pc # "put" => KnownDoc(q.doc, q.channel)
  /\ KnownDoc(q.row.host, Webhook)
  /\ \A c \in q.row.on \cup (q.wanted \ q.todo) : stored[c] # {}

History ==
  /\ \A c \in Channels : KnownDoc(secret[c], c) /\ KnownDoc(status[c], c)
  /\ KnownDoc(settings.host, Webhook)
  /\ \A c \in settings.on : stored[c] # {}
  /\ settings.exists \/ settings.on = {}
  /\ \A r \in Requests : HistoryOf(req[r])

\* Nothing in conflict with a clean request is in flight.
Isolated ==
  \A r \in Requests : req[r].clean =>
    /\ \A s \in Requests \ {r} : Running(req[s]) => ~Conflict(req[s], req[r])
    /\ \A l \in late : l[1] \notin Concerns(req[r])

\* What a clean request has achieved so far.
ProgressOf(q) ==
  LET c == q.channel IN
  /\ q.kind = "update" =>
       /\ q.pc \in {"activate", "status", "read", "write", "done"} => secret[c] = q.doc
       /\ q.pc = "done" => status[c] = q.doc
       /\ c = Webhook /\ q.pc \in {"status", "done"} => settings.host = q.doc
  /\ q.kind = "remove" =>
       /\ (c # Webhook \/ putBinding) /\ q.pc \in {"activate", "status", "read", "write", "done"}
            => secret[c] = Unset
       /\ (c # Webhook /\ q.pc \in {"read", "write"}) \/ q.pc = "done" => status[c] = Unset
       /\ (c = Webhook /\ q.pc = "status") \/ q.pc = "done" => c \notin settings.on
  /\ q.kind = "save" =>
       /\ \A d \in q.wanted \ q.todo : secret[d] # Unset
       /\ q.pc = "done" => settings.on = q.wanted

Progress == \A r \in Requests : req[r].clean => ProgressOf(req[r])

IInv == TypeOK /\ Stage /\ History /\ Isolated /\ Progress

---------------------------------------------------------------------------
(* What each step leaves of the local states of the requests.              *)

\* Only request r moves, to p, and remains the request it was.
Becomes(r, p) ==
  /\ req' \in [Requests -> Request]
  /\ \A s \in Requests : s # r => req'[s] = req[s]
  /\ req'[r].pc = p /\ req'[r].kind = req[r].kind /\ req'[r].channel = req[r].channel
  /\ req'[r].wanted = req[r].wanted /\ req'[r].clean = req[r].clean

\* Request r is over.
Ends(r) ==
  /\ req' \in [Requests -> Request]
  /\ \A s \in Requests : s # r => req'[s] = req[s]
  /\ req'[r] = Idle

LEMMA Domains ==
  /\ Webhook \in Channels /\ RpcChannels \subseteq Channels
  /\ Unset \in Docs /\ Credentials \subseteq Docs
  /\ DefaultRow \in Row /\ Idle \in Request
<1>1. /\ Webhook \in Channels /\ RpcChannels \subseteq Channels
      /\ Unset \in Docs /\ Credentials \subseteq Docs
  BY DEF Channels, Docs
<1>2. DefaultRow \in Row
  BY <1>1 DEF DefaultRow, Row
<1>3. "save" \in Kind /\ "idle" \in Pc
  BY DEF Kind, Pc
<1>4. Idle \in Request
  BY <1>1, <1>2, <1>3 DEF Idle, Request
<1>5. QED BY <1>1, <1>2, <1>4

LEMMA GotoFields ==
  ASSUME TypeOK, NEW r \in Requests, NEW p \in Pc, Goto(r, p)
  PROVE  /\ Becomes(r, p)
         /\ req'[r].doc = req[r].doc /\ req'[r].todo = req[r].todo
         /\ req'[r].row = req[r].row
<1>1. req \in [Requests -> Request] /\ req[r] \in Request
  BY DEF TypeOK
<1> DEFINE q == [req[r] EXCEPT !.pc = p]
<1>2. /\ q \in Request /\ q.pc = p /\ q.kind = req[r].kind /\ q.channel = req[r].channel
      /\ q.wanted = req[r].wanted /\ q.clean = req[r].clean
      /\ q.doc = req[r].doc /\ q.todo = req[r].todo /\ q.row = req[r].row
  BY <1>1 DEF Request
<1>3. req' = [req EXCEPT ![r] = q]
  BY DEF Goto
<1> HIDE DEF q
<1>4. QED BY <1>1, <1>2, <1>3 DEF Becomes

\* ReadExisting and Resolve.
LEMMA DocFields ==
  ASSUME TypeOK, NEW r \in Requests, NEW p \in Pc, NEW d \in Docs,
         req' = [req EXCEPT ![r].doc = d, ![r].pc = p]
  PROVE  /\ Becomes(r, p)
         /\ req'[r].doc = d /\ req'[r].todo = req[r].todo
         /\ req'[r].row = req[r].row
<1>1. req \in [Requests -> Request] /\ req[r] \in Request
  BY DEF TypeOK
<1> DEFINE q == [req[r] EXCEPT !.doc = d, !.pc = p]
<1>2. /\ q \in Request /\ q.pc = p /\ q.kind = req[r].kind /\ q.channel = req[r].channel
      /\ q.wanted = req[r].wanted /\ q.clean = req[r].clean
      /\ q.doc = d /\ q.todo = req[r].todo /\ q.row = req[r].row
  BY <1>1 DEF Request
<1>3. req' = [req EXCEPT ![r] = q]
  BY <1>1
<1> HIDE DEF q
<1>4. QED BY <1>1, <1>2, <1>3 DEF Becomes

\* ReadSettings and WriteSettings.
LEMMA RowFields ==
  ASSUME TypeOK, NEW r \in Requests, NEW p \in Pc, NEW w \in Row,
         req' = [req EXCEPT ![r].row = w, ![r].pc = p]
  PROVE  /\ Becomes(r, p)
         /\ req'[r].doc = req[r].doc /\ req'[r].todo = req[r].todo
         /\ req'[r].row = w
<1>1. req \in [Requests -> Request] /\ req[r] \in Request
  BY DEF TypeOK
<1> DEFINE q == [req[r] EXCEPT !.row = w, !.pc = p]
<1>2. /\ q \in Request /\ q.pc = p /\ q.kind = req[r].kind /\ q.channel = req[r].channel
      /\ q.wanted = req[r].wanted /\ q.clean = req[r].clean
      /\ q.doc = req[r].doc /\ q.todo = req[r].todo /\ q.row = w
  BY <1>1 DEF Request
<1>3. req' = [req EXCEPT ![r] = q]
  BY <1>1
<1> HIDE DEF q
<1>4. QED BY <1>1, <1>2, <1>3 DEF Becomes

LEMMA CheckFields ==
  ASSUME TypeOK, NEW r \in Requests, NEW c \in Channels,
         req' = [req EXCEPT ![r].todo = @ \ {c}]
  PROVE  /\ Becomes(r, req[r].pc)
         /\ req'[r].doc = req[r].doc /\ req'[r].todo = req[r].todo \ {c}
         /\ req'[r].row = req[r].row
<1>1. req \in [Requests -> Request] /\ req[r] \in Request
  BY DEF TypeOK
<1> DEFINE q == [req[r] EXCEPT !.todo = @ \ {c}]
<1>2. /\ q \in Request /\ q.pc = req[r].pc /\ q.kind = req[r].kind
      /\ q.channel = req[r].channel
      /\ q.wanted = req[r].wanted /\ q.clean = req[r].clean
      /\ q.doc = req[r].doc /\ q.todo = req[r].todo \ {c} /\ q.row = req[r].row
  BY <1>1 DEF Request
<1>3. req' = [req EXCEPT ![r] = q]
  BY <1>1
<1> HIDE DEF q
<1>4. QED BY <1>1, <1>2, <1>3 DEF Becomes

LEMMA EndFields ==
  ASSUME TypeOK, NEW r \in Requests, req' = [req EXCEPT ![r] = Idle]
  PROVE  Ends(r)
BY Domains DEF TypeOK, Ends

---------------------------------------------------------------------------
(* The start of a request.                                                 *)

Begins(r) == \/ BeginUpdate(r) \/ BeginRetainingUpdate(r) \/ BeginRemove(r)
             \/ BeginSave(r) \/ BeginDeliver(r)

\* What holds of a request that starts, and of its conflicts.
Fresh(q) ==
  /\ StageOf(q)
  /\ q.row = DefaultRow /\ q.todo = q.wanted
  /\ q.pc # "put" => q.doc = Unset
  /\ q.pc \in {"existing", "put", "check", "resolve", "read"}
  /\ q.pc = "read" => q.kind = "remove" /\ q.channel = Webhook /\ ~putBinding

LEMMA BeginRequest ==
  ASSUME TypeOK, NEW r \in Requests, Begins(r)
  PROVE  \E q \in Request : Begin(r, q) /\ Fresh(q)
<1> USE Domains, ChannelsAssumption
<1>1. CASE BeginUpdate(r)
  <2>1. PICK c \in Channels, d \in Credentials :
          /\ c = Webhook => putBinding
          /\ Begin(r, [Idle EXCEPT !.kind = "update", !.channel = c, !.doc = d, !.pc = "put"])
    BY <1>1 DEF BeginUpdate
  <2> DEFINE q == [Idle EXCEPT !.kind = "update", !.channel = c, !.doc = d, !.pc = "put"]
  <2>2. q \in Request
    BY DEF Request, Idle, Kind, Pc
  <2>3. Fresh(q)
    BY <2>1 DEF Fresh, StageOf, Idle
  <2>4. QED BY <2>1, <2>2, <2>3
<1>2. CASE BeginRetainingUpdate(r)
  <2>1. PICK c \in RpcChannels :
          Begin(r, [Idle EXCEPT !.kind = "update", !.channel = c, !.pc = "existing"])
    BY <1>2 DEF BeginRetainingUpdate
  <2> DEFINE q == [Idle EXCEPT !.kind = "update", !.channel = c, !.pc = "existing"]
  <2>2. q \in Request
    BY DEF Request, Idle, Kind, Pc
  <2>3. Fresh(q)
    BY DEF Fresh, StageOf, Idle
  <2>4. QED BY <2>1, <2>2, <2>3
<1>3. CASE BeginRemove(r)
  <2>1. PICK c \in Channels :
          Begin(r, [Idle EXCEPT !.kind = "remove", !.channel = c,
                                !.pc = IF c = Webhook /\ ~putBinding THEN "read" ELSE "put"])
    BY <1>3 DEF BeginRemove
  <2> DEFINE q == [Idle EXCEPT !.kind = "remove", !.channel = c,
                               !.pc = IF c = Webhook /\ ~putBinding THEN "read" ELSE "put"]
  <2>2. q \in Request
    BY DEF Request, Idle, Kind, Pc
  <2>3. Fresh(q)
    BY DEF Fresh, StageOf, Idle, TypeOK
  <2>4. QED BY <2>1, <2>2, <2>3
<1>4. CASE BeginSave(r)
  <2>1. PICK on \in SUBSET Channels :
          Begin(r, [Idle EXCEPT !.kind = "save", !.wanted = on, !.todo = on, !.pc = "check"])
    BY <1>4 DEF BeginSave
  <2> DEFINE q == [Idle EXCEPT !.kind = "save", !.wanted = on, !.todo = on, !.pc = "check"]
  <2>2. q \in Request
    BY DEF Request, Idle, Kind, Pc
  <2>3. Fresh(q)
    BY DEF Fresh, StageOf, Idle
  <2>4. QED BY <2>1, <2>2, <2>3
<1>5. CASE BeginDeliver(r)
  <2> DEFINE q == [Idle EXCEPT !.kind = "deliver", !.pc = "resolve"]
  <2>1. Begin(r, q)
    BY <1>5 DEF BeginDeliver
  <2>2. q \in Request
    BY DEF Request, Idle, Kind, Pc
  <2>3. Fresh(q)
    BY DEF Fresh, StageOf, Idle
  <2>4. QED BY <2>1, <2>2, <2>3
<1>6. QED BY <1>1, <1>2, <1>3, <1>4, <1>5 DEF Begins

SameButClean(p, q) ==
  /\ p.kind = q.kind /\ p.channel = q.channel /\ p.doc = q.doc /\ p.wanted = q.wanted
  /\ p.todo = q.todo /\ p.row = q.row /\ p.pc = q.pc

LEMMA BeginFields ==
  ASSUME TypeOK, NEW r \in Requests, NEW q \in Request, Begin(r, q)
  PROVE  /\ req' \in [Requests -> Request]
         /\ SameButClean(req'[r], q)
         /\ req'[r].clean =>
               /\ \A s \in Requests \ {r} : Running(req[s]) => ~Conflict(req[s], q)
               /\ \A l \in late : l[1] \notin Concerns(q)
         /\ \A s \in Requests : s # r =>
               /\ SameButClean(req'[s], req[s])
               /\ req'[s].clean => req[s].clean /\ ~Conflict(req[s], q)
<1> DEFINE others == {s \in Requests \ {r} : Running(req[s]) /\ Conflict(req[s], q)}
           clean == others = {} /\ \A l \in late : l[1] \notin Concerns(q)
           start == [q EXCEPT !.clean = clean]
           soiled(s) == [req[s] EXCEPT !.clean = FALSE]
           next == [s \in Requests |->
                      IF s = r THEN start
                      ELSE IF Conflict(req[s], q) THEN soiled(s) ELSE req[s]]
<1>1. req' = next
  BY DEF Begin
<1>2. clean \in BOOLEAN /\ req \in [Requests -> Request]
  BY DEF TypeOK
<1>3. start \in Request /\ SameButClean(start, q) /\ start.clean = clean
  <2> HIDE DEF clean
  <2> QED BY <1>2 DEF Request, SameButClean
<1>4. ASSUME NEW s \in Requests
      PROVE  soiled(s) \in Request /\ SameButClean(soiled(s), req[s]) /\ ~soiled(s).clean
  BY <1>2, req[s] \in Request DEF Request, SameButClean
<1> HIDE DEF start, soiled
<1>5. req' \in [Requests -> Request]
  BY <1>1, <1>2, <1>3, <1>4
<1>6. req'[r] = start
  BY <1>1
<1>7. ASSUME NEW s \in Requests, s # r
      PROVE  /\ SameButClean(req'[s], req[s])
             /\ req'[s].clean => req[s].clean /\ ~Conflict(req[s], q)
  <2>1. CASE Conflict(req[s], q)
    BY <1>1, <1>4, <1>7, <2>1
  <2>2. CASE ~Conflict(req[s], q)
    BY <1>1, <1>7, <2>2 DEF SameButClean
  <2>3. QED BY <2>1, <2>2
<1>8. clean => /\ \A s \in Requests \ {r} : Running(req[s]) => ~Conflict(req[s], q)
               /\ \A l \in late : l[1] \notin Concerns(q)
  OBVIOUS
<1>9. QED BY <1>3, <1>5, <1>6, <1>7, <1>8

---------------------------------------------------------------------------
(* The other steps of a request, each by what it changes.                  *)

Same(r) == req'[r].doc = req[r].doc /\ req'[r].todo = req[r].todo /\ req'[r].row = req[r].row

\* Every step but a start and an end moves r from one place to another and
\* leaves its data, but for the one field that it reads into.
LEMMA PutFields ==
  ASSUME TypeOK, NEW r \in Requests, Put(r)
  PROVE  /\ Becomes(r, IF req[r].channel = Webhook THEN "read" ELSE "activate")
         /\ Same(r)
BY GotoFields DEF Put, Pc, Same

LEMMA ActivatedFields ==
  ASSUME TypeOK, NEW r \in Requests, Activated(r)
  PROVE  Becomes(r, "status") /\ Same(r)
BY GotoFields DEF Activated, Pc, Same

LEMMA StatusFields ==
  ASSUME TypeOK, NEW r \in Requests, UpsertStatus(r)
  PROVE  /\ Becomes(r, AfterStatus(r)) /\ Same(r)
         /\ AfterStatus(r) \in {"read", "done"}
<1>1. AfterStatus(r) \in {"read", "done"} /\ {"read", "done"} \subseteq Pc
  BY DEF AfterStatus, Pc
<1>2. QED BY <1>1, GotoFields DEF UpsertStatus, Same

LEMMA CheckedFields ==
  ASSUME TypeOK, NEW r \in Requests, Checked(r)
  PROVE  Becomes(r, "read") /\ Same(r) /\ req[r].todo = {}
BY GotoFields DEF Checked, Pc, Same

LEMMA ExistingFields ==
  ASSUME TypeOK, NEW r \in Requests, ReadExisting(r)
  PROVE  /\ Becomes(r, "put")
         /\ req'[r].doc = secret[req[r].channel] /\ req'[r].todo = req[r].todo
         /\ req'[r].row = req[r].row
<1>1. req[r] \in Request
  BY DEF TypeOK
<1>2. secret[req[r].channel] \in Docs /\ "put" \in Pc
  BY <1>1 DEF TypeOK, Request, Pc
<1>3. req' = [req EXCEPT ![r].doc = secret[req[r].channel], ![r].pc = "put"]
  BY DEF ReadExisting
<1>4. QED BY <1>2, <1>3, DocFields

LEMMA ResolveFields ==
  ASSUME TypeOK, NEW r \in Requests, Resolve(r)
  PROVE  /\ Becomes(r, "read")
         /\ req'[r].doc = secret[Webhook] /\ req'[r].todo = req[r].todo
         /\ req'[r].row = req[r].row
<1>1. secret[Webhook] \in Docs /\ "read" \in Pc
  BY Domains DEF TypeOK, Pc
<1>2. req' = [req EXCEPT ![r].doc = secret[Webhook], ![r].pc = "read"]
  BY DEF Resolve
<1>3. QED BY <1>1, <1>2, DocFields

LEMMA CheckStep ==
  ASSUME TypeOK, NEW r \in Requests, Check(r)
  PROVE  \E c \in req[r].todo :
           /\ c \in Channels /\ secret[c] # Unset
           /\ Becomes(r, "check")
           /\ req'[r].doc = req[r].doc /\ req'[r].todo = req[r].todo \ {c}
           /\ req'[r].row = req[r].row
<1>1. PICK c \in req[r].todo : /\ secret[c] # Unset
                               /\ req' = [req EXCEPT ![r].todo = @ \ {c}]
  BY DEF Check
<1>2. req[r] \in Request
  BY DEF TypeOK
<1>3. c \in Channels /\ req[r].pc = "check"
  BY <1>2 DEF Request, Check, At
<1>4. QED BY <1>1, <1>3, CheckFields

LEMMA AfterSettingsPlace == ASSUME NEW r \in Requests
                            PROVE  AfterSettings(r) \in {"status", "done"}
BY DEF AfterSettings

LEMMA ReadFields ==
  ASSUME TypeOK, NEW r \in Requests, ReadSettings(r)
  PROVE  \/ /\ ~settings.exists /\ req[r].kind \in {"remove", "deliver"}
            /\ Becomes(r, AfterSettings(r)) /\ Same(r)
         \/ /\ Becomes(r, "write")
            /\ req'[r].doc = req[r].doc /\ req'[r].todo = req[r].todo
            /\ req'[r].row = settings
<1>1. {"status", "done", "write"} \subseteq Pc /\ settings \in Row
  BY DEF Pc, TypeOK
<1>2. CASE ~settings.exists /\ req[r].kind \in {"remove", "deliver"}
  BY <1>1, <1>2, AfterSettingsPlace, GotoFields DEF ReadSettings, Same
<1>3. CASE ~(~settings.exists /\ req[r].kind \in {"remove", "deliver"})
  <2>1. req' = [req EXCEPT ![r].row = settings, ![r].pc = "write"]
    BY <1>3 DEF ReadSettings
  <2>2. QED BY <1>1, <2>1, RowFields
<1>4. QED BY <1>2, <1>3

LEMMA WriteFields ==
  ASSUME TypeOK, NEW r \in Requests, WriteSettings(r)
  PROVE  /\ Becomes(r, AfterSettings(r))
         /\ req'[r].doc = req[r].doc /\ req'[r].todo = req[r].todo
         /\ req'[r].row = DefaultRow
<1>1. AfterSettings(r) \in Pc /\ DefaultRow \in Row
  BY AfterSettingsPlace, Domains DEF Pc
<1>2. req' = [req EXCEPT ![r].row = DefaultRow, ![r].pc = AfterSettings(r)]
  BY DEF WriteSettings
<1>3. QED BY <1>1, <1>2, RowFields

LEMMA RewrittenRow ==
  ASSUME TypeOK, NEW r \in Requests
  PROVE  Rewritten(r) \in Row
<1>1. req[r] \in Request
  BY DEF TypeOK
<1>2. /\ req[r].row.on \in SUBSET Channels /\ req[r].row.host \in Docs
      /\ req[r].wanted \in SUBSET Channels /\ req[r].doc \in Docs
  BY <1>1 DEF Request, Row
<1>3. QED BY <1>2 DEF Rewritten, Row

LEMMA KeepStored ==
  ASSUME TypeOK, NEW c \in Channels, NEW d \in Docs, Keep(c, d)
  PROVE  /\ stored' \in [Channels -> SUBSET Credentials]
         /\ \A x \in Channels : stored[x] \subseteq stored'[x]
         /\ d # Unset => d \in stored'[c]
<1>1. {d} \ {Unset} \subseteq Credentials
  BY DEF Docs
<1>2. QED BY <1>1 DEF TypeOK, Keep

---------------------------------------------------------------------------
(* Types.                                                                  *)

LEMMA TypeInit == Init => TypeOK
BY Domains DEF Init, TypeOK

LEMMA TypeStep ==
  ASSUME TypeOK, NEW r \in Requests, Step(r)
  PROVE  TypeOK'
<1> USE Domains
<1>0. /\ req[r] \in Request /\ req[r].channel \in Channels /\ req[r].doc \in Docs
  BY DEF TypeOK, Request
<1>1. CASE \E q \in Request : Begin(r, q)
  <2>1. PICK q \in Request : Begin(r, q)
    BY <1>1
  <2>2. req' \in [Requests -> Request]
    BY <2>1, BeginFields
  <2>3. QED BY <2>1, <2>2 DEF TypeOK, Begin
<1>2. CASE ReadExisting(r)
  BY <1>2, ExistingFields DEF TypeOK, Becomes, ReadExisting
<1>3. CASE Put(r)
  <2>1. Keep(req[r].channel, req[r].doc) /\ req' \in [Requests -> Request]
    BY <1>3, PutFields DEF Put, Becomes
  <2>2. stored' \in [Channels -> SUBSET Credentials]
    BY <1>0, <2>1, KeepStored
  <2>3. QED BY <1>0, <1>3, <2>1, <2>2 DEF TypeOK, Put
<1>4. CASE PutAgain(r)
  BY <1>0, <1>4 DEF TypeOK, PutAgain
<1>5. CASE Activated(r)
  BY <1>5, ActivatedFields DEF TypeOK, Becomes, Activated
<1>6. CASE UpsertStatus(r)
  BY <1>0, <1>6, StatusFields DEF TypeOK, Becomes, UpsertStatus, StatusDoc
<1>7. CASE Check(r)
  BY <1>7, CheckStep DEF TypeOK, Becomes, Check
<1>8. CASE Checked(r)
  BY <1>8, CheckedFields DEF TypeOK, Becomes, Checked
<1>9. CASE Resolve(r)
  BY <1>9, ResolveFields DEF TypeOK, Becomes, Resolve
<1>10. CASE ReadSettings(r)
  BY <1>10, ReadFields DEF TypeOK, Becomes, ReadSettings
<1>11. CASE WriteSettings(r)
  BY <1>11, WriteFields, RewrittenRow DEF TypeOK, Becomes, WriteSettings
<1>12. CASE Finish(r)
  BY <1>12, EndFields DEF TypeOK, Ends, Finish
<1>13. CASE Abort(r)
  <2>1. req' \in [Requests -> Request]
    BY <1>13, EndFields DEF Ends, Abort
  <2>2. late' \subseteq Channels \X Docs
    BY <1>0, <1>13 DEF TypeOK, Abort
  <2>3. QED BY <1>13, <2>1, <2>2 DEF TypeOK, Abort
<1>14. QED
  BY <1>1, <1>2, <1>3, <1>4, <1>5, <1>6, <1>7, <1>8, <1>9, <1>10, <1>11, <1>12, <1>13,
     BeginRequest DEF Step, Begins

LEMMA TypeLate == ASSUME TypeOK, LatePut PROVE TypeOK'
<1>1. PICK l \in late :
        /\ late' \subseteq late
        /\ \/ UNCHANGED <<secret, stored>>
           \/ secret' = [secret EXCEPT ![l[1]] = l[2]] /\ Keep(l[1], l[2])
  BY DEF LatePut
<1>2. l[1] \in Channels /\ l[2] \in Docs
  BY DEF TypeOK
<1>3. secret' \in [Channels -> Docs] /\ stored' \in [Channels -> SUBSET Credentials]
  BY <1>1, <1>2, KeepStored DEF TypeOK
<1>4. QED BY <1>1, <1>3 DEF TypeOK, LatePut

LEMMA TypeProvision == ASSUME TypeOK, Provision PROVE TypeOK'
<1>1. PICK d \in Credentials : secret' = [secret EXCEPT ![Webhook] = d] /\ Keep(Webhook, d)
  BY DEF Provision
<1>2. secret' \in [Channels -> Docs] /\ stored' \in [Channels -> SUBSET Credentials]
  BY <1>1, Domains, KeepStored DEF TypeOK
<1>3. QED BY <1>2 DEF TypeOK, Provision

LEMMA TypeNext == ASSUME TypeOK, [Next]_vars PROVE TypeOK'
<1>1. CASE UNCHANGED vars
  BY <1>1 DEF TypeOK, vars
<1>2. QED BY <1>1, TypeStep, TypeLate, TypeProvision DEF Next

\* The stores and the requests keep their types, the settings row among them.
THEOREM TypeCorrect == Spec => []TypeOK
<1>1. Init => TypeOK
  BY TypeInit
<1>2. TypeOK /\ [Next]_vars => TypeOK'
  BY TypeNext
<1>3. QED BY <1>1, <1>2, PTL DEF Spec

---------------------------------------------------------------------------
(* Stage.                                                                  *)

\* Every way for a request to move is one of these.
Moves(r) == \/ ReadExisting(r) \/ Put(r) \/ PutAgain(r) \/ Activated(r) \/ UpsertStatus(r)
            \/ Check(r) \/ Checked(r) \/ Resolve(r) \/ ReadSettings(r) \/ WriteSettings(r)

LEMMA StepCases ==
  ASSUME TypeOK, NEW r \in Requests, Step(r)
  PROVE  \/ \E q \in Request : Begin(r, q) /\ Fresh(q)
         \/ Moves(r) \/ Finish(r) \/ Abort(r)
BY BeginRequest DEF Step, Begins, Moves

LEMMA MoveFields ==
  ASSUME TypeOK, NEW r \in Requests, Moves(r)
  PROVE  \E p \in Pc : Becomes(r, p) /\ Running(req[r])
<1> USE DEF At, Running
<1>1. CASE ReadExisting(r) BY <1>1, ExistingFields DEF ReadExisting, Pc
<1>2. CASE Put(r) BY <1>2, PutFields DEF Put, Pc
<1>3. CASE PutAgain(r)
  <2>1. req' = req /\ req[r].pc = "activate" /\ "activate" \in Pc
    BY <1>3 DEF PutAgain, Pc
  <2>2. Becomes(r, "activate")
    BY <2>1 DEF Becomes, TypeOK
  <2>3. QED BY <2>1, <2>2
<1>4. CASE Activated(r) BY <1>4, ActivatedFields DEF Activated, Pc
<1>5. CASE UpsertStatus(r) BY <1>5, StatusFields DEF UpsertStatus, Pc
<1>6. CASE Check(r) BY <1>6, CheckStep DEF Check, Pc
<1>7. CASE Checked(r) BY <1>7, CheckedFields DEF Checked, Pc
<1>8. CASE Resolve(r) BY <1>8, ResolveFields DEF Resolve, Pc
<1>9. CASE ReadSettings(r) BY <1>9, ReadFields, AfterSettingsPlace DEF ReadSettings, Pc
<1>10. CASE WriteSettings(r) BY <1>10, WriteFields, AfterSettingsPlace DEF WriteSettings, Pc
<1>11. QED
  BY <1>1, <1>2, <1>3, <1>4, <1>5, <1>6, <1>7, <1>8, <1>9, <1>10 DEF Moves

LEMMA StageInit == Init => Stage
BY ChannelsAssumption DEF Init, Stage, StageOf, Idle

LEMMA StageStep ==
  ASSUME TypeOK, Stage, NEW r \in Requests, Step(r)
  PROVE  Stage'
<1> USE DEF At
<1>0. putBinding' = putBinding
  BY DEF Step, BeginUpdate, BeginRetainingUpdate, BeginRemove, BeginSave, BeginDeliver, Begin,
         ReadExisting, Put, PutAgain, Activated, UpsertStatus, Check, Checked, Resolve,
         ReadSettings, WriteSettings, Finish, Abort
<1> SUFFICES ASSUME NEW s \in Requests PROVE StageOf(req[s])'
  BY DEF Stage
<1>1. CASE \E q \in Request : Begin(r, q) /\ Fresh(q)
  <2>1. PICK q \in Request : Begin(r, q) /\ Fresh(q)
    BY <1>1
  <2>2. CASE s = r
    BY <1>0, <2>1, <2>2, BeginFields DEF Fresh, StageOf, SameButClean
  <2>3. CASE s # r
    <3>1. SameButClean(req'[s], req[s]) /\ StageOf(req[s])
      BY <2>1, <2>3, BeginFields DEF Stage
    <3>2. QED BY <1>0, <3>1 DEF StageOf, SameButClean
  <2>4. QED BY <2>2, <2>3
<1>2. CASE s # r /\ ~(\E q \in Request : Begin(r, q) /\ Fresh(q))
  <2>1. req'[s] = req[s]
    BY <1>2, StepCases, MoveFields, EndFields DEF Becomes, Ends, Finish, Abort
  <2>2. QED BY <1>0, <2>1 DEF Stage, StageOf
<1>3. CASE s = r /\ (Finish(r) \/ Abort(r))
  <2>1. req'[s] = Idle
    BY <1>3, EndFields DEF Ends, Finish, Abort
  <2>2. QED BY <2>1, ChannelsAssumption DEF StageOf, Idle
<1>4. CASE s = r /\ Moves(r)
  <2> USE <1>4 DEF Becomes, Same
  <2>0. StageOf(req[r])
    BY DEF Stage
  <2>1. CASE ReadExisting(r)
    <3>1. req[r].pc = "existing" /\ secret[req[r].channel] # Unset
      BY <2>1 DEF ReadExisting
    <3>2. Becomes(r, "put") /\ req'[r].doc = secret[req[r].channel]
      BY <2>1, ExistingFields
    <3>3. QED BY <1>0, <2>0, <3>1, <3>2 DEF StageOf
  <2>2. CASE Put(r)
    <3>1. req[r].pc = "put"
      BY <2>2 DEF Put
    <3>2. Becomes(r, IF req[r].channel = Webhook THEN "read" ELSE "activate") /\ Same(r)
      BY <2>2, PutFields
    <3>3. QED BY <1>0, <2>0, <3>1, <3>2 DEF StageOf
  <2>3. CASE PutAgain(r)
    BY <1>0, <2>0, <2>3 DEF StageOf, PutAgain
  <2>4. CASE Activated(r)
    BY <1>0, <2>0, <2>4, ActivatedFields DEF StageOf, Activated
  <2>5. CASE UpsertStatus(r)
    <3>1. req[r].pc = "status"
      BY <2>5 DEF UpsertStatus
    <3>2. Becomes(r, AfterStatus(r)) /\ Same(r)
      BY <2>5, StatusFields
    <3>3. QED BY <1>0, <2>0, <3>1, <3>2 DEF StageOf, AfterStatus, Is
  <2>6. CASE Check(r)
    BY <1>0, <2>0, <2>6, CheckStep DEF StageOf, Check
  <2>7. CASE Checked(r)
    BY <1>0, <2>0, <2>7, CheckedFields DEF StageOf, Checked
  <2>8. CASE Resolve(r)
    BY <1>0, <2>0, <2>8, ResolveFields DEF StageOf, Resolve
  <2>9. CASE ReadSettings(r)
    BY <1>0, <2>0, <2>9, ReadFields DEF StageOf, ReadSettings, AfterSettings
  <2>10. CASE WriteSettings(r)
    <3>1. req[r].pc = "write"
      BY <2>10 DEF WriteSettings
    <3>2. /\ Becomes(r, AfterSettings(r))
          /\ req'[r].doc = req[r].doc /\ req'[r].todo = req[r].todo
      BY <2>10, WriteFields
    <3>3. QED BY <1>0, <2>0, <3>1, <3>2 DEF StageOf, AfterSettings
  <2>11. QED
    BY <2>1, <2>2, <2>3, <2>4, <2>5, <2>6, <2>7, <2>8, <2>9, <2>10 DEF Moves
<1>5. QED BY <1>1, <1>2, <1>3, <1>4, StepCases

LEMMA StageNext == ASSUME TypeOK, Stage, [Next]_vars PROVE Stage'
<1>1. CASE UNCHANGED vars
  BY <1>1 DEF Stage, StageOf, vars
<1>2. CASE LatePut \/ Provision
  <2>1. UNCHANGED <<req, putBinding>>
    BY <1>2 DEF LatePut, Provision
  <2>2. QED BY <2>1 DEF Stage, StageOf
<1>3. QED BY <1>1, <1>2, StageStep DEF Next

---------------------------------------------------------------------------
(* History.                                                                *)

\* The documents that Secrets Store has held are not forgotten.
LEMMA StoredGrows ==
  ASSUME TypeOK, [Next]_vars
  PROVE  \A x \in Channels : stored[x] \subseteq stored'[x]
<1>1. ASSUME NEW r \in Requests, Put(r)
      PROVE  \A x \in Channels : stored[x] \subseteq stored'[x]
  <2>1. req[r] \in Request
    BY DEF TypeOK
  <2>2. req[r].channel \in Channels /\ req[r].doc \in Docs
    BY <2>1 DEF Request
  <2>3. QED BY <1>1, <2>2, KeepStored DEF Put
<1>2. ASSUME NEW r \in Requests, Step(r), ~Put(r)
      PROVE  stored' = stored
  BY <1>2 DEF Step, BeginUpdate, BeginRetainingUpdate, BeginRemove, BeginSave, BeginDeliver,
       Begin, ReadExisting, PutAgain, Activated, UpsertStatus, Check, Checked, Resolve,
       ReadSettings, WriteSettings, Finish, Abort
<1>3. ASSUME LatePut
      PROVE  \A x \in Channels : stored[x] \subseteq stored'[x]
  <2>1. PICK l \in late : UNCHANGED stored \/ Keep(l[1], l[2])
    BY <1>3 DEF LatePut
  <2>2. l[1] \in Channels /\ l[2] \in Docs
    BY DEF TypeOK
  <2>3. QED BY <2>1, <2>2, KeepStored
<1>4. ASSUME Provision
      PROVE  \A x \in Channels : stored[x] \subseteq stored'[x]
  BY <1>4, Domains, KeepStored DEF Provision
<1>5. CASE UNCHANGED vars
  BY <1>5 DEF vars
<1>6. QED BY <1>1, <1>2, <1>3, <1>4, <1>5 DEF Next

LEMMA HistoryInit == Init => History
<1>1. ASSUME Init PROVE \A r \in Requests : HistoryOf(req[r])
  BY <1>1 DEF Init, HistoryOf, KnownDoc, Idle, DefaultRow
<1>2. QED BY <1>1 DEF Init, History, KnownDoc, DefaultRow

\* What a request knows stays known.
LEMMA HistoryKept ==
  ASSUME TypeOK, TypeOK', NEW s \in Requests, HistoryOf(req[s]),
         \A x \in Channels : stored[x] \subseteq stored'[x],
         req'[s].channel = req[s].channel, req'[s].wanted = req[s].wanted,
         req'[s].doc = req[s].doc, req'[s].row = req[s].row, req'[s].todo = req[s].todo,
         req'[s].pc # "put" => req[s].pc # "put"
  PROVE  HistoryOf(req[s])'
<1>1. /\ req[s] \in Request /\ req[s].channel \in Channels /\ req[s].wanted \subseteq Channels
      /\ req[s].row.on \subseteq Channels
  BY DEF TypeOK, Request, Row
<1>2. Webhook \in Channels
  BY Domains
<1>3. QED BY <1>1, <1>2 DEF HistoryOf, KnownDoc

LEMMA HistoryStep ==
  ASSUME TypeOK, TypeOK', Stage, History, NEW r \in Requests, Step(r)
  PROVE  \A s \in Requests : HistoryOf(req[s])'
<1> SUFFICES ASSUME NEW s \in Requests PROVE HistoryOf(req[s])'
  OBVIOUS
<1> USE DEF At
<1>0. \A x \in Channels : stored[x] \subseteq stored'[x]
  BY StoredGrows DEF Next
<1>a. /\ req[s] \in Request /\ req[s].channel \in Channels /\ req[s].wanted \subseteq Channels
      /\ req[s].row.on \subseteq Channels /\ req[s].todo \subseteq Channels
      /\ Webhook \in Channels /\ HistoryOf(req[s])
  BY Domains DEF TypeOK, Request, Row, History
<1>1. CASE \E q \in Request : Begin(r, q) /\ Fresh(q)
  <2>1. PICK q \in Request : Begin(r, q) /\ Fresh(q)
    BY <1>1
  <2>2. CASE s = r
    BY <2>1, <2>2, BeginFields DEF Fresh, HistoryOf, KnownDoc, SameButClean, DefaultRow
  <2>3. CASE s # r
    <3>1. SameButClean(req'[s], req[s])
      BY <2>1, <2>3, BeginFields
    <3>2. QED BY <1>0, <1>a, <3>1, HistoryKept DEF SameButClean
  <2>4. QED BY <2>2, <2>3
<1>2. CASE s # r /\ ~(\E q \in Request : Begin(r, q) /\ Fresh(q))
  <2>1. req'[s] = req[s]
    BY <1>2, StepCases, MoveFields, EndFields DEF Becomes, Ends, Finish, Abort
  <2>2. QED BY <1>0, <1>a, <2>1, HistoryKept
<1>3. CASE s = r /\ (Finish(r) \/ Abort(r))
  <2>1. req'[s] = Idle
    BY <1>3, EndFields DEF Ends, Finish, Abort
  <2>2. QED BY <2>1 DEF HistoryOf, KnownDoc, Idle, DefaultRow
<1>4. CASE s = r /\ Moves(r)
  <2> USE <1>4
  <2>1. CASE ReadExisting(r)
    <3>1. /\ req'[s].pc = "put" /\ req'[s].row = req[s].row /\ req'[s].todo = req[s].todo
          /\ req'[s].wanted = req[s].wanted
      BY <2>1, ExistingFields DEF Becomes
    <3>2. QED BY <1>0, <1>a, <3>1 DEF HistoryOf, KnownDoc
  <2>2. CASE Put(r)
    <3>1. Becomes(r, IF req[r].channel = Webhook THEN "read" ELSE "activate") /\ Same(r)
      BY <2>2, PutFields
    <3>2. KnownDoc(req[r].doc, req[r].channel)'
      <4>1. req[r].doc \in Docs /\ Keep(req[r].channel, req[r].doc)
        BY <1>a, <2>2 DEF Put, Request
      <4>2. req[r].doc # Unset => req[r].doc \in stored'[req[r].channel]
        BY <1>a, <4>1, KeepStored
      <4>3. QED BY <3>1, <4>2 DEF KnownDoc, Becomes, Same
    <3>3. QED BY <1>0, <1>a, <3>1, <3>2 DEF HistoryOf, KnownDoc, Becomes, Same
  <2>3. CASE PutAgain(r) \/ Activated(r) \/ UpsertStatus(r) \/ Checked(r)
    <3>1. Same(r) /\ req'[r].channel = req[r].channel /\ req'[r].wanted = req[r].wanted
      BY <2>3, ActivatedFields, StatusFields, CheckedFields DEF PutAgain, Becomes, Same
    <3>2. req[r].pc # "put"
      BY <2>3 DEF PutAgain, Activated, UpsertStatus, Checked
    <3>3. QED BY <1>0, <1>a, <3>1, <3>2, HistoryKept DEF Same
  <2>4. CASE Check(r)
    <3>1. PICK c \in req[r].todo :
            /\ c \in Channels /\ secret[c] # Unset
            /\ Becomes(r, "check")
            /\ req'[r].doc = req[r].doc /\ req'[r].todo = req[r].todo \ {c}
            /\ req'[r].row = req[r].row
      BY <2>4, CheckStep
    <3>2. stored[c] # {}
      BY <3>1 DEF History, KnownDoc
    <3>3. req[r].pc = "check"
      BY <2>4 DEF Check
    <3>4. QED BY <1>0, <1>a, <3>1, <3>2, <3>3 DEF HistoryOf, KnownDoc, Becomes
  <2>5. CASE Resolve(r)
    <3>1. req[r].channel = Webhook /\ KnownDoc(secret[Webhook], Webhook)
      BY <1>a, <2>5 DEF Resolve, Stage, StageOf, History
    <3>2. /\ Becomes(r, "read")
          /\ req'[r].doc = secret[Webhook] /\ req'[r].todo = req[r].todo
          /\ req'[r].row = req[r].row
      BY <2>5, ResolveFields
    <3>3. QED BY <1>0, <1>a, <3>1, <3>2 DEF HistoryOf, KnownDoc, Becomes
  <2>6. CASE ReadSettings(r)
    <3>1. /\ req'[r].row = req[r].row \/ req'[r].row = settings
          /\ req'[r].doc = req[r].doc /\ req'[r].todo = req[r].todo
          /\ req'[r].channel = req[r].channel /\ req'[r].wanted = req[r].wanted
      BY <2>6, ReadFields DEF Becomes, Same
    <3>2. req[r].pc = "read" /\ KnownDoc(settings.host, Webhook)
          /\ \A c \in settings.on : stored[c] # {}
      BY <2>6 DEF ReadSettings, History
    <3>3. settings.on \subseteq Channels
      BY DEF TypeOK, Row
    <3>4. QED BY <1>0, <1>a, <3>1, <3>2, <3>3 DEF HistoryOf, KnownDoc
  <2>7. CASE WriteSettings(r)
    <3>1. /\ Becomes(r, AfterSettings(r))
          /\ req'[r].doc = req[r].doc /\ req'[r].todo = req[r].todo
          /\ req'[r].row = DefaultRow
      BY <2>7, WriteFields
    <3>2. req[r].pc = "write"
      BY <2>7 DEF WriteSettings
    <3>3. QED BY <1>0, <1>a, <3>1, <3>2 DEF HistoryOf, KnownDoc, Becomes, DefaultRow
  <2>8. QED BY <2>1, <2>2, <2>3, <2>4, <2>5, <2>6, <2>7 DEF Moves
<1>5. QED BY <1>1, <1>2, <1>3, <1>4, StepCases

\* What the stores hold.
Held == /\ \A c \in Channels : KnownDoc(secret[c], c) /\ KnownDoc(status[c], c)
        /\ KnownDoc(settings.host, Webhook)
        /\ \A c \in settings.on : stored[c] # {}
        /\ settings.exists \/ settings.on = {}

LEMMA HeldNext ==
  ASSUME TypeOK, TypeOK', Stage, History, [Next]_vars
  PROVE  Held'
<1> USE DEF At
<1>0. \A x \in Channels : stored[x] \subseteq stored'[x]
  BY StoredGrows
<1>a. Webhook \in Channels /\ settings.on \subseteq Channels /\ Held
  BY Domains DEF TypeOK, Row, History, Held
<1>1. CASE UNCHANGED <<secret, status, settings>>
  BY <1>0, <1>a, <1>1 DEF Held, KnownDoc
<1>2. ASSUME NEW r \in Requests, Put(r) \/ PutAgain(r)
      PROVE  Held'
  <2>1. /\ req[r] \in Request /\ HistoryOf(req[r])
        /\ req[r].channel \in Channels /\ req[r].doc \in Docs
    BY DEF TypeOK, Request, History
  <2>2. /\ secret' = [secret EXCEPT ![req[r].channel] = req[r].doc]
        /\ UNCHANGED <<status, settings>>
    BY <1>2 DEF Put, PutAgain
  <2>3. req[r].doc # Unset => req[r].doc \in stored'[req[r].channel]
    <3>1. CASE Put(r)
      BY <2>1, <3>1, KeepStored DEF Put
    <3>2. CASE PutAgain(r)
      BY <1>0, <2>1, <3>2 DEF PutAgain, HistoryOf, KnownDoc
    <3>3. QED BY <1>2, <3>1, <3>2
  <2>4. secret \in [Channels -> Docs]
    BY DEF TypeOK
  <2>5. QED BY <1>0, <1>a, <2>1, <2>2, <2>3, <2>4 DEF Held, KnownDoc
<1>3. ASSUME NEW r \in Requests, UpsertStatus(r)
      PROVE  Held'
  <2>1. /\ req[r] \in Request /\ HistoryOf(req[r]) /\ req[r].channel \in Channels
        /\ req[r].pc = "status" /\ status \in [Channels -> Docs]
    BY <1>3 DEF TypeOK, Request, History, UpsertStatus
  <2>2. /\ status' = [status EXCEPT ![req[r].channel] = req[r].doc]
        /\ UNCHANGED <<secret, settings>>
    BY <1>3 DEF UpsertStatus, StatusDoc
  <2>3. KnownDoc(req[r].doc, req[r].channel)
    BY <2>1 DEF HistoryOf
  <2>4. QED BY <1>0, <1>a, <2>1, <2>2, <2>3 DEF Held, KnownDoc
<1>4. ASSUME NEW r \in Requests, WriteSettings(r)
      PROVE  Held'
  <2>1. /\ req[r] \in Request /\ HistoryOf(req[r]) /\ StageOf(req[r])
        /\ req[r].pc = "write"
        /\ req[r].wanted \subseteq Channels /\ req[r].row.on \subseteq Channels
    BY <1>4 DEF TypeOK, Request, Row, History, Stage, WriteSettings
  <2>2. settings' = Rewritten(r) /\ UNCHANGED <<secret, status>>
    BY <1>4 DEF WriteSettings
  <2>3. settings'.exists /\ settings'.on \subseteq req[r].row.on \cup (req[r].wanted \ req[r].todo)
    <3>1. req[r].kind = "save" => req[r].todo = {}
      BY <2>1 DEF StageOf
    <3>2. QED BY <2>2, <3>1 DEF Rewritten
  <2>4. \A c \in settings'.on : stored'[c] # {}
    BY <1>0, <2>1, <2>3 DEF HistoryOf
  <2>5. KnownDoc(settings.host, Webhook)'
    <3>1. \/ settings'.host = req[r].row.host
          \/ settings'.host = req[r].doc /\ req[r].channel = Webhook
      BY <2>1, <2>2 DEF Rewritten, StageOf
    <3>2. KnownDoc(req[r].row.host, Webhook) /\ KnownDoc(req[r].doc, req[r].channel)
      BY <2>1 DEF HistoryOf
    <3>3. QED BY <1>0, <1>a, <3>1, <3>2 DEF KnownDoc
  <2>6. QED BY <1>0, <1>a, <2>2, <2>3, <2>4, <2>5 DEF Held, KnownDoc
<1>5. ASSUME NEW r \in Requests, Step(r),
             ~Put(r), ~PutAgain(r), ~UpsertStatus(r), ~WriteSettings(r)
      PROVE  UNCHANGED <<secret, status, settings>>
  BY <1>5 DEF Step, BeginUpdate, BeginRetainingUpdate, BeginRemove, BeginSave, BeginDeliver,
       Begin, ReadExisting, Activated, Check, Checked, Resolve, ReadSettings, Finish, Abort
<1>6. ASSUME LatePut PROVE Held'
  <2>1. PICK l \in late :
          \/ UNCHANGED <<secret, stored>>
          \/ secret' = [secret EXCEPT ![l[1]] = l[2]] /\ Keep(l[1], l[2])
    BY <1>6 DEF LatePut
  <2>2. /\ l[1] \in Channels /\ l[2] \in Docs /\ UNCHANGED <<status, settings>>
        /\ secret \in [Channels -> Docs]
    BY <1>6 DEF TypeOK, LatePut
  <2>3. CASE UNCHANGED <<secret, stored>>
    BY <1>1, <2>2, <2>3
  <2>4. CASE secret' = [secret EXCEPT ![l[1]] = l[2]] /\ Keep(l[1], l[2])
    <3>1. l[2] # Unset => l[2] \in stored'[l[1]]
      BY <2>2, <2>4, KeepStored
    <3>2. QED BY <1>0, <1>a, <2>2, <2>4, <3>1 DEF Held, KnownDoc
  <2>5. QED BY <2>1, <2>3, <2>4
<1>7. ASSUME Provision PROVE Held'
  <2>1. PICK d \in Credentials : secret' = [secret EXCEPT ![Webhook] = d] /\ Keep(Webhook, d)
    BY <1>7 DEF Provision
  <2>2. d \in stored'[Webhook] \/ d = Unset
    BY <1>a, <2>1, Domains, KeepStored
  <2>3. UNCHANGED <<status, settings>> /\ secret \in [Channels -> Docs]
    BY <1>7 DEF Provision, TypeOK
  <2>4. QED BY <1>0, <1>a, <2>1, <2>2, <2>3 DEF Held, KnownDoc
<1>8. QED BY <1>1, <1>2, <1>3, <1>4, <1>5, <1>6, <1>7 DEF Next, vars

LEMMA HistoryNext ==
  ASSUME TypeOK, Stage, History, [Next]_vars
  PROVE  History'
<1>0. TypeOK'
  BY TypeNext
<1>1. Held'
  BY <1>0, HeldNext
<1>2. \A r \in Requests : HistoryOf(req[r])'
  <2>1. CASE req' = req
    BY <1>0, <2>1, StoredGrows, HistoryKept DEF History
  <2>2. CASE \E r \in Requests : Step(r)
    BY <1>0, <2>2, HistoryStep
  <2>3. QED BY <2>1, <2>2 DEF Next, vars, LatePut, Provision
<1>3. QED BY <1>1, <1>2 DEF Held, History

---------------------------------------------------------------------------
(* Isolation.                                                              *)

LEMMA IsolatedInit == Init => Isolated
BY DEF Init, Isolated, Idle

LEMMA IsolatedStep ==
  ASSUME TypeOK, Isolated, NEW r \in Requests, Step(r)
  PROVE  Isolated'
<1> SUFFICES ASSUME NEW t \in Requests, req'[t].clean
             PROVE  /\ \A s \in Requests \ {t} : Running(req'[s]) => ~Conflict(req'[s], req'[t])
                    /\ \A l \in late' : l[1] \notin Concerns(req'[t])
  BY DEF Isolated
<1>1. CASE \E q \in Request : Begin(r, q) /\ Fresh(q)
  <2>1. PICK q \in Request : Begin(r, q)
    BY <1>1
  <2>2. late' = late
    BY <2>1 DEF Begin
  <2>3. CASE t = r
    <3>1. ASSUME NEW s \in Requests \ {t}, Running(req'[s])
          PROVE  ~Conflict(req'[s], req'[t])
      <4>1. SameButClean(req'[s], req[s]) /\ SameButClean(req'[r], q)
        BY <2>1, <2>3, BeginFields
      <4>2. Running(req[s])
        BY <3>1, <4>1 DEF Running, SameButClean
      <4>3. ~Conflict(req[s], q)
        BY <2>1, <2>3, <4>2, BeginFields
      <4>4. QED BY <2>3, <4>1, <4>3 DEF Conflict, WritesSettings, Concerns, SameButClean
    <3>2. \A l \in late : l[1] \notin Concerns(q)
      BY <2>1, <2>3, BeginFields
    <3>3. SameButClean(req'[r], q)
      BY <2>1, BeginFields
    <3>4. QED BY <2>2, <2>3, <3>1, <3>2, <3>3 DEF Concerns, SameButClean
  <2>4. CASE t # r
    <3>1. SameButClean(req'[t], req[t]) /\ req[t].clean /\ ~Conflict(req[t], q)
      BY <2>1, <2>4, BeginFields
    <3>2. ASSUME NEW s \in Requests \ {t}, Running(req'[s])
          PROVE  ~Conflict(req'[s], req'[t])
      <4>1. CASE s = r
        <5>1. SameButClean(req'[s], q)
          BY <2>1, <4>1, BeginFields
        <5>2. QED BY <3>1, <5>1 DEF Conflict, WritesSettings, Concerns, SameButClean
      <4>2. CASE s # r
        <5>1. SameButClean(req'[s], req[s])
          BY <2>1, <4>2, BeginFields
        <5>2. ~Conflict(req[s], req[t])
          BY <3>1, <3>2, <5>1 DEF Isolated, Running, SameButClean
        <5>3. QED BY <3>1, <5>1, <5>2 DEF Conflict, WritesSettings, Concerns, SameButClean
      <4>3. QED BY <4>1, <4>2
    <3>3. \A l \in late : l[1] \notin Concerns(req[t])
      BY <3>1 DEF Isolated
    <3>4. QED BY <2>2, <3>1, <3>2, <3>3 DEF Concerns, SameButClean
  <2>5. QED BY <2>3, <2>4
<1>2. CASE Moves(r)
  <2>1. PICK p \in Pc : Becomes(r, p) /\ Running(req[r])
    BY <1>2, MoveFields
  <2>2. late' = late
    BY <1>2 DEF Moves, ReadExisting, Put, PutAgain, Activated, UpsertStatus, Check, Checked,
             Resolve, ReadSettings, WriteSettings
  <2>3. ASSUME NEW s \in Requests
        PROVE  /\ req'[s].kind = req[s].kind /\ req'[s].channel = req[s].channel
               /\ req'[s].clean = req[s].clean
               /\ Running(req'[s]) => Running(req[s])
    BY <2>1 DEF Becomes
  <2>4. /\ \A s \in Requests \ {t} : Running(req[s]) => ~Conflict(req[s], req[t])
        /\ \A l \in late : l[1] \notin Concerns(req[t])
    BY <2>3 DEF Isolated
  <2>5. ASSUME NEW s \in Requests \ {t}, Running(req'[s])
        PROVE  ~Conflict(req'[s], req'[t])
    <3>1. ~Conflict(req[s], req[t])
      BY <2>3, <2>4, <2>5
    <3>2. QED BY <2>3, <3>1 DEF Conflict, WritesSettings, Concerns
  <2>6. Concerns(req'[t]) = Concerns(req[t])
    BY <2>3 DEF Concerns
  <2>7. QED BY <2>2, <2>4, <2>5, <2>6
<1>3. CASE Finish(r) \/ Abort(r)
  <2>1. Ends(r)
    BY <1>3, EndFields DEF Finish, Abort
  <2>2. t # r /\ req'[t] = req[t] /\ req[t].clean
    BY <2>1 DEF Ends, Idle
  <2>3. ASSUME NEW s \in Requests \ {t}, Running(req'[s])
        PROVE  ~Conflict(req'[s], req'[t])
    <3>1. s # r /\ req'[s] = req[s]
      BY <2>1, <2>3 DEF Ends, Idle, Running
    <3>2. QED BY <2>2, <2>3, <3>1 DEF Isolated
  <2>4. ASSUME NEW l \in late' PROVE l[1] \notin Concerns(req[t])
    <3>1. CASE l \in late
      BY <2>2, <3>1 DEF Isolated
    <3>2. CASE l \notin late
      <4>1. Running(req[r]) /\ l = <<req[r].channel, req[r].doc>>
        BY <1>3, <3>2 DEF Finish, Abort
      <4>2. ~Conflict(req[r], req[t])
        BY <2>2, <4>1 DEF Isolated
      <4>3. req[r].channel \in Concerns(req[r])
        <5>1. req[r] \in Request
          BY DEF TypeOK
        <5>2. QED BY <5>1 DEF Request, Concerns
      <4>4. QED BY <4>1, <4>2, <4>3 DEF Conflict
    <3>3. QED BY <3>1, <3>2
  <2>5. QED BY <2>2, <2>3, <2>4
<1>4. QED BY <1>1, <1>2, <1>3, StepCases

LEMMA IsolatedNext == ASSUME TypeOK, Isolated, [Next]_vars PROVE Isolated'
<1>1. CASE UNCHANGED vars
  BY <1>1 DEF Isolated, vars
<1>2. CASE LatePut \/ Provision
  <2>1. UNCHANGED req /\ late' \subseteq late
    BY <1>2 DEF LatePut, Provision
  <2>2. QED BY <2>1 DEF Isolated
<1>3. QED BY <1>1, <1>2, IsolatedStep DEF Next

---------------------------------------------------------------------------
(* Progress.                                                               *)

LEMMA ProgressInit == Init => Progress
BY DEF Init, Progress, Idle

\* What a request has achieved is kept while the stores that concern it are
\* left alone.
LEMMA ProgressKept ==
  ASSUME TypeOK, NEW s \in Requests, ProgressOf(req[s]),
         req'[s].kind = req[s].kind, req'[s].channel = req[s].channel,
         req'[s].doc = req[s].doc, req'[s].wanted = req[s].wanted,
         req'[s].todo = req[s].todo, req'[s].pc = req[s].pc,
         putBinding' = putBinding,
         \A c \in Concerns(req[s]) : secret'[c] = secret[c] /\ status'[c] = status[c],
         WritesSettings(req[s]) => settings' = settings
  PROVE  ProgressOf(req[s])'
<1>1. req[s] \in Request /\ req[s].wanted \subseteq Channels
  BY DEF TypeOK, Request
<1>2. CASE req[s].kind = "save"
  <2>1. settings' = settings /\ \A c \in Channels : secret'[c] = secret[c]
    BY <1>2 DEF WritesSettings, Concerns
  <2>2. QED BY <1>1, <1>2, <2>1 DEF ProgressOf
<1>3. CASE req[s].kind # "save"
  <2>1. /\ secret'[req[s].channel] = secret[req[s].channel]
        /\ status'[req[s].channel] = status[req[s].channel]
    BY <1>3 DEF Concerns
  <2>2. req[s].kind = "remove" \/ req[s].channel = Webhook => settings' = settings
    BY DEF WritesSettings
  <2>3. QED BY <1>3, <2>1, <2>2 DEF ProgressOf
<1>4. QED BY <1>2, <1>3

\* What the step of a request may change of the stores.
LEMMA StepReach ==
  ASSUME TypeOK, Stage, NEW r \in Requests, Moves(r)
  PROVE  /\ \A c \in Channels : c \notin Concerns(req[r])
               => secret'[c] = secret[c] /\ status'[c] = status[c]
         /\ ~WritesSettings(req[r]) => settings' = settings
<1> USE DEF At
<1>1. /\ req[r] \in Request /\ StageOf(req[r])
      /\ secret \in [Channels -> Docs] /\ status \in [Channels -> Docs]
      /\ req[r].channel \in Channels
  BY DEF TypeOK, Stage, Request
<1>2. CASE Put(r) \/ PutAgain(r)
  <2>1. /\ secret' = [secret EXCEPT ![req[r].channel] = req[r].doc]
        /\ UNCHANGED <<status, settings>> /\ req[r].pc \in {"put", "activate"}
    BY <1>2 DEF Put, PutAgain
  <2>2. QED BY <1>1, <2>1 DEF StageOf, Concerns
<1>3. CASE UpsertStatus(r)
  <2>1. /\ status' = [status EXCEPT ![req[r].channel] = req[r].doc]
        /\ UNCHANGED <<secret, settings>> /\ req[r].pc = "status"
    BY <1>3 DEF UpsertStatus, StatusDoc
  <2>2. QED BY <1>1, <2>1 DEF StageOf, Concerns
<1>4. CASE WriteSettings(r)
  <2>1. UNCHANGED <<secret, status>> /\ req[r].pc = "write"
    BY <1>4 DEF WriteSettings
  <2>2. QED BY <1>1, <2>1 DEF StageOf, WritesSettings
<1>5. CASE ~(Put(r) \/ PutAgain(r) \/ UpsertStatus(r) \/ WriteSettings(r))
  <2>1. UNCHANGED <<secret, status, settings>>
    BY <1>5 DEF Moves, ReadExisting, Activated, Check, Checked, Resolve, ReadSettings
  <2>2. QED BY <2>1
<1>6. QED BY <1>2, <1>3, <1>4, <1>5

LEMMA ProgressStep ==
  ASSUME TypeOK, Stage, History, Isolated, Progress, NEW r \in Requests, Step(r)
  PROVE  Progress'
<1> USE DEF At, Is
<1> SUFFICES ASSUME NEW s \in Requests, req'[s].clean PROVE ProgressOf(req[s])'
  BY DEF Progress
<1>0. putBinding' = putBinding
  BY DEF Step, BeginUpdate, BeginRetainingUpdate, BeginRemove, BeginSave, BeginDeliver, Begin,
         ReadExisting, Put, PutAgain, Activated, UpsertStatus, Check, Checked, Resolve,
         ReadSettings, WriteSettings, Finish, Abort
<1>a. /\ req[s] \in Request /\ req[s].channel \in Channels /\ req[s].doc \in Docs
      /\ secret \in [Channels -> Docs] /\ status \in [Channels -> Docs]
      /\ StageOf(req[s])
  BY DEF TypeOK, Request, Stage
<1>1. CASE \E q \in Request : Begin(r, q) /\ Fresh(q)
  <2>1. PICK q \in Request : Begin(r, q) /\ Fresh(q)
    BY <1>1
  <2>2. CASE s = r
    <3>1. SameButClean(req'[s], q)
      BY <2>1, <2>2, BeginFields
    <3>2. QED BY <1>0, <2>1, <3>1 DEF Fresh, ProgressOf, SameButClean
  <2>3. CASE s # r
    <3>1. SameButClean(req'[s], req[s]) /\ req[s].clean
      BY <2>1, <2>3, BeginFields
    <3>2. UNCHANGED <<secret, status, settings>> /\ ProgressOf(req[s])
      BY <2>1, <3>1 DEF Begin, Progress
    <3>3. QED BY <1>0, <3>1, <3>2, ProgressKept DEF SameButClean
  <2>4. QED BY <2>2, <2>3
<1>2. CASE Finish(r) \/ Abort(r)
  <2>1. s # r /\ req'[s] = req[s]
    BY <1>2, EndFields DEF Ends, Finish, Abort, Idle
  <2>2. UNCHANGED <<secret, status, settings>> /\ ProgressOf(req[s])
    BY <1>2, <2>1 DEF Finish, Abort, Progress
  <2>3. QED BY <1>0, <2>1, <2>2, ProgressKept
<1>3. CASE s # r /\ Moves(r)
  <2>1. req'[s] = req[s] /\ Running(req[r])
    BY <1>3, MoveFields DEF Becomes
  <2>2. ~Conflict(req[r], req[s]) /\ ProgressOf(req[s])
    BY <1>3, <2>1 DEF Isolated, Progress
  <2>3. Concerns(req[s]) \subseteq Channels
    BY <1>a DEF Concerns
  <2>4. QED BY <1>0, <1>3, <2>1, <2>2, <2>3, StepReach, ProgressKept DEF Conflict
<1>4. CASE s = r /\ Moves(r)
  <2> USE <1>4
  <2>0. req[r].clean /\ ProgressOf(req[r]) /\ StageOf(req[r])
    BY <1>a, MoveFields DEF Becomes, Progress
  <2>1. CASE ReadExisting(r)
    <3>1. req'[r].pc = "put" /\ req'[r].kind = "update"
      BY <1>a, <2>1, ExistingFields DEF Becomes, ReadExisting, StageOf
    <3>2. QED BY <3>1 DEF ProgressOf
  <2>2. CASE Put(r)
    <3>1. Becomes(r, IF req[r].channel = Webhook THEN "read" ELSE "activate") /\ Same(r)
      BY <2>2, PutFields
    <3>2. /\ secret' = [secret EXCEPT ![req[r].channel] = req[r].doc] /\ req[r].pc = "put"
          /\ UNCHANGED <<status, settings>>
      BY <2>2 DEF Put
    <3>3. secret'[req[r].channel] = req[r].doc
      BY <1>a, <3>2
    <3>4. QED BY <1>0, <1>a, <3>1, <3>2, <3>3 DEF ProgressOf, StageOf, Becomes, Same
  <2>3. CASE PutAgain(r)
    <3>1. /\ secret' = [secret EXCEPT ![req[r].channel] = req[r].doc] /\ req[r].pc = "activate"
          /\ UNCHANGED <<status, settings, req>>
      BY <2>3 DEF PutAgain
    <3>2. secret'[req[r].channel] = req[r].doc
      BY <1>a, <3>1
    <3>3. QED BY <1>0, <1>a, <2>0, <3>1, <3>2 DEF ProgressOf, StageOf
  <2>4. CASE Activated(r)
    <3>1. Becomes(r, "status") /\ Same(r)
      BY <2>4, ActivatedFields
    <3>2. req[r].pc = "activate" /\ UNCHANGED <<secret, status, settings>>
      BY <2>4 DEF Activated
    <3>3. QED BY <1>0, <1>a, <2>0, <3>1, <3>2 DEF ProgressOf, StageOf, Becomes, Same
  <2>5. CASE UpsertStatus(r)
    <3>1. Becomes(r, AfterStatus(r)) /\ Same(r)
      BY <2>5, StatusFields
    <3>2. /\ status' = [status EXCEPT ![req[r].channel] = req[r].doc] /\ req[r].pc = "status"
          /\ UNCHANGED <<secret, settings>>
      BY <2>5 DEF UpsertStatus, StatusDoc
    <3>3. status'[req[r].channel] = req[r].doc
      BY <1>a, <3>2
    <3>4. QED BY <1>0, <1>a, <2>0, <3>1, <3>2, <3>3
              DEF ProgressOf, StageOf, Becomes, Same, AfterStatus
  <2>6. CASE Check(r)
    <3>1. PICK c \in req[r].todo :
            /\ c \in Channels /\ secret[c] # Unset
            /\ Becomes(r, "check")
            /\ req'[r].doc = req[r].doc /\ req'[r].todo = req[r].todo \ {c}
            /\ req'[r].row = req[r].row
      BY <2>6, CheckStep
    <3>2. UNCHANGED <<secret, status, settings>> /\ req[r].kind = "save"
      BY <2>0, <2>6 DEF Check, StageOf
    <3>3. QED BY <2>0, <3>1, <3>2 DEF ProgressOf, Becomes
  <2>7. CASE Checked(r)
    <3>1. Becomes(r, "read") /\ Same(r)
      BY <2>7, CheckedFields
    <3>2. UNCHANGED <<secret, status, settings>> /\ req[r].kind = "save"
      BY <2>0, <2>7 DEF Checked, StageOf
    <3>3. QED BY <2>0, <3>1, <3>2 DEF ProgressOf, Becomes, Same
  <2>8. CASE Resolve(r)
    <3>1. req'[r].kind = "deliver"
      BY <2>0, <2>8, ResolveFields DEF Resolve, StageOf, Becomes
    <3>2. QED BY <3>1 DEF ProgressOf
  <2>9. CASE ReadSettings(r)
    <3>1. UNCHANGED <<secret, status, settings>> /\ req[r].pc = "read"
      BY <2>9 DEF ReadSettings
    <3>2. CASE /\ ~settings.exists /\ req[r].kind \in {"remove", "deliver"}
               /\ Becomes(r, AfterSettings(r)) /\ Same(r)
      <4>1. settings.on = {}
        BY <3>2 DEF History
      <4>2. QED BY <1>0, <2>0, <3>1, <3>2, <4>1
                DEF ProgressOf, StageOf, Becomes, Same, AfterSettings
    <3>3. CASE /\ Becomes(r, "write")
               /\ req'[r].doc = req[r].doc /\ req'[r].todo = req[r].todo
      BY <1>0, <2>0, <3>1, <3>3 DEF ProgressOf, StageOf, Becomes
    <3>4. QED BY <2>9, <3>2, <3>3, ReadFields
  <2>10. CASE WriteSettings(r)
    <3>1. /\ Becomes(r, AfterSettings(r))
          /\ req'[r].doc = req[r].doc /\ req'[r].todo = req[r].todo
      BY <2>10, WriteFields
    <3>2. /\ settings' = Rewritten(r) /\ req[r].pc = "write"
          /\ UNCHANGED <<secret, status>>
      BY <2>10 DEF WriteSettings
    <3>3. CASE req[r].kind = "update"
      <4>1. settings'.host = req[r].doc
        BY <3>2, <3>3 DEF Rewritten
      <4>2. QED BY <1>0, <2>0, <3>1, <3>2, <3>3, <4>1
                DEF ProgressOf, StageOf, Becomes, AfterSettings
    <3>4. CASE req[r].kind = "remove"
      <4>1. req[r].channel \notin settings'.on
        BY <3>2, <3>4 DEF Rewritten
      <4>2. QED BY <1>0, <2>0, <3>1, <3>2, <3>4, <4>1
                DEF ProgressOf, StageOf, Becomes, AfterSettings
    <3>5. CASE req[r].kind = "save"
      <4>1. settings'.on = req[r].wanted
        BY <3>2, <3>5 DEF Rewritten
      <4>2. QED BY <2>0, <3>1, <3>2, <3>5, <4>1 DEF ProgressOf, Becomes
    <3>6. CASE req[r].kind = "deliver"
      BY <3>1, <3>6 DEF ProgressOf, Becomes
    <3>7. QED BY <1>a, <3>3, <3>4, <3>5, <3>6 DEF Request, Kind
  <2>11. QED
    BY <2>1, <2>2, <2>3, <2>4, <2>5, <2>6, <2>7, <2>8, <2>9, <2>10 DEF Moves
<1>5. QED BY <1>1, <1>2, <1>3, <1>4, StepCases

LEMMA ProgressNext ==
  ASSUME TypeOK, Stage, History, Isolated, Progress, [Next]_vars
  PROVE  Progress'
<1>1. CASE \E r \in Requests : Step(r)
  BY <1>1, ProgressStep
<1>2. CASE UNCHANGED vars
  BY <1>2 DEF Progress, ProgressOf, vars
<1>3. CASE LatePut \/ Provision
  <2> SUFFICES ASSUME NEW s \in Requests, req'[s].clean PROVE ProgressOf(req[s])'
    BY DEF Progress
  <2>1. UNCHANGED <<putBinding, status, settings, req>>
    BY <1>3 DEF LatePut, Provision
  <2>2. /\ req[s] \in Request /\ req[s].channel \in Channels /\ req[s].clean
        /\ secret \in [Channels -> Docs] /\ ProgressOf(req[s]) /\ StageOf(req[s])
        /\ Concerns(req[s]) \subseteq Channels
    BY <2>1 DEF TypeOK, Request, Stage, Progress, Concerns
  <2>3. CASE LatePut
    <3>1. PICK l \in late : secret' = secret \/ secret' = [secret EXCEPT ![l[1]] = l[2]]
      BY <2>3 DEF LatePut
    <3>2. l[1] \notin Concerns(req[s])
      BY <2>2, <3>1 DEF Isolated
    <3>3. \A c \in Concerns(req[s]) : secret'[c] = secret[c]
      BY <2>2, <3>1, <3>2
    <3>4. QED BY <2>1, <2>2, <3>3, ProgressKept
  <2>4. CASE Provision
    <3>1. PICK d \in Credentials : ~putBinding /\ secret' = [secret EXCEPT ![Webhook] = d]
      BY <2>4 DEF Provision
    <3>2. d # Unset /\ secret'[Webhook] = d
      BY <2>2, <3>1, Domains, ChannelsAssumption
    <3>3. \A c \in Channels : c # Webhook => secret'[c] = secret[c]
      BY <2>2, <3>1
    <3>4. \A c \in Channels : secret[c] # Unset => secret'[c] # Unset
      BY <3>2, <3>3
    <3>5. CASE req[s].kind = "update"
      <4>1. req[s].channel # Webhook
        BY <2>2, <3>1, <3>5 DEF StageOf
      <4>2. QED BY <2>1, <2>2, <3>3, <3>5, <4>1 DEF ProgressOf
    <3>6. CASE req[s].kind = "remove"
      BY <2>1, <2>2, <3>1, <3>3, <3>6 DEF ProgressOf
    <3>7. CASE req[s].kind = "save"
      <4>1. req[s].wanted \subseteq Channels
        BY <2>2 DEF Request
      <4>2. QED BY <2>1, <2>2, <3>4, <3>7, <4>1 DEF ProgressOf
    <3>8. CASE req[s].kind = "deliver"
      BY <2>1, <3>8 DEF ProgressOf
    <3>9. QED BY <2>2, <3>5, <3>6, <3>7, <3>8 DEF Request, Kind
  <2>5. QED BY <1>3, <2>3, <2>4
<1>4. QED BY <1>1, <1>2, <1>3 DEF Next

---------------------------------------------------------------------------
(* The theorems.                                                           *)

LEMMA IInvInductive == /\ Init => IInv
                       /\ IInv /\ [Next]_vars => IInv'
<1>1. Init => IInv
  BY TypeInit, StageInit, HistoryInit, IsolatedInit, ProgressInit DEF IInv
<1>2. IInv /\ [Next]_vars => IInv'
  BY TypeNext, StageNext, HistoryNext, IsolatedNext, ProgressNext DEF IInv
<1>3. QED BY <1>1, <1>2

LEMMA Invariant == Spec => []IInv
<1>1. QED BY IInvInductive, PTL DEF Spec

\* No overlap of requests, no failure halfway and no stale rewrite of the
\* settings row enables a channel whose credentials were never configured.
THEOREM EnabledConfigured == Spec => []EnabledWasConfigured
<1>1. IInv => EnabledWasConfigured
  BY DEF IInv, History, EnabledWasConfigured
<1>2. QED BY <1>1, Invariant, PTL

\* The status rows and the masked webhook host only ever name credentials that
\* the secret has held.
THEOREM NamesStored == Spec => []NamesWereStored
<1>1. IInv => NamesWereStored
  BY DEF IInv, History, KnownDoc, NamesWereStored
<1>2. QED BY <1>1, Invariant, PTL

\* A credential update that succeeds on its own leaves Secrets Store, the status
\* row and the masked host agreeing, whatever failed before it.
THEOREM UpdatesHeal == Spec => []UpdateHeals
<1>1. ASSUME IInv, NEW r \in Requests, Succeeded(r, "update")
      PROVE  LET q == req[r] IN
             /\ secret[q.channel] = q.doc /\ status[q.channel] = q.doc /\ q.doc # Unset
             /\ q.channel = Webhook => settings.host = q.doc
  <2>1. req[r].pc = "done" /\ req[r].kind = "update" /\ ProgressOf(req[r]) /\ StageOf(req[r])
    BY <1>1 DEF IInv, Stage, Progress, Succeeded, At, Is
  <2>2. QED BY <2>1 DEF ProgressOf, StageOf
<1>2. IInv => UpdateHeals
  BY <1>1 DEF UpdateHeals
<1>3. QED BY <1>2, Invariant, PTL

\* A credential removal that succeeds on its own leaves no secret that the
\* Worker can clear, no claim of one, and the channel disabled.
THEOREM RemovalsHeal == Spec => []RemovalHeals
<1>1. ASSUME IInv, NEW r \in Requests, Succeeded(r, "remove")
      PROVE  LET c == req[r].channel IN
             /\ status[c] = Unset /\ c \notin settings.on
             /\ (c \in RpcChannels \/ putBinding) => secret[c] = Unset
  <2>1. req[r].pc = "done" /\ req[r].kind = "remove" /\ ProgressOf(req[r])
    BY <1>1 DEF IInv, Progress, Succeeded, At, Is
  <2>2. req[r].channel \in RpcChannels => req[r].channel # Webhook
    BY ChannelsAssumption
  <2>3. QED BY <2>1, <2>2 DEF ProgressOf
<1>2. IInv => RemovalHeals
  BY <1>1 DEF RemovalHeals
<1>3. QED BY <1>2, Invariant, PTL

\* Settings saved on their own are those asked for, and every channel that they
\* enable has its transport at that moment.
THEOREM SavesFailClosed == Spec => []SaveFailsClosed
<1>1. ASSUME IInv, NEW r \in Requests, Succeeded(r, "save")
      PROVE  settings.on = req[r].wanted /\ \A c \in settings.on : secret[c] # Unset
  <2>1. /\ req[r].pc = "done" /\ req[r].kind = "save"
        /\ ProgressOf(req[r]) /\ StageOf(req[r])
    BY <1>1 DEF IInv, Stage, Progress, Succeeded, At, Is
  <2>2. req[r].todo = {}
    BY <2>1 DEF StageOf
  <2>3. QED BY <2>1, <2>2 DEF ProgressOf
<1>2. IInv => SaveFailsClosed
  BY <1>1 DEF SaveFailsClosed
<1>3. QED BY <1>2, Invariant, PTL

---------------------------------------------------------------------------
(* What a request with nobody in conflict has read of the settings row is  *)
(* the row still.                                                          *)

RowCurrent == \A r \in Requests : req[r].clean /\ req[r].pc = "write" => req[r].row = settings

LEMMA RowStep ==
  ASSUME TypeOK, Stage, Isolated, RowCurrent, NEW r \in Requests, Step(r)
  PROVE  RowCurrent'
<1> USE DEF At
<1> SUFFICES ASSUME NEW s \in Requests, req'[s].clean, req'[s].pc = "write"
             PROVE  req'[s].row = settings'
  BY DEF RowCurrent
<1>1. CASE \E q \in Request : Begin(r, q) /\ Fresh(q)
  <2>1. PICK q \in Request : Begin(r, q) /\ Fresh(q)
    BY <1>1
  <2>2. settings' = settings
    BY <2>1 DEF Begin
  <2>3. s # r
    BY <2>1, BeginFields DEF Fresh, SameButClean
  <2>4. SameButClean(req'[s], req[s]) /\ req[s].clean
    BY <2>1, <2>3, BeginFields
  <2>5. QED BY <2>2, <2>4 DEF SameButClean, RowCurrent
<1>2. CASE Finish(r) \/ Abort(r)
  <2>1. Ends(r) /\ settings' = settings
    BY <1>2, EndFields DEF Finish, Abort
  <2>2. QED BY <2>1 DEF Ends, Idle, RowCurrent
<1>3. CASE Moves(r)
  <2>1. PICK p \in Pc : Becomes(r, p) /\ Running(req[r])
    BY <1>3, MoveFields
  <2>2. CASE s # r
    <3>1. req'[s] = req[s] /\ req[s].row = settings
      BY <2>1, <2>2 DEF Becomes, RowCurrent
    <3>2. WritesSettings(req[s]) /\ ~Conflict(req[r], req[s])
      BY <2>1, <2>2, <3>1 DEF Isolated, Stage, StageOf, WritesSettings
    <3>3. settings' = settings
      BY <1>3, <3>2, StepReach DEF Conflict
    <3>4. QED BY <3>1, <3>3
  <2>3. CASE s = r
    <3>1. CASE ReadSettings(r)
      <4>1. settings' = settings
        BY <3>1 DEF ReadSettings
      <4>2. QED BY <2>3, <3>1, <4>1, ReadFields, AfterSettingsPlace DEF Becomes
    <3>2. CASE ~ReadSettings(r)
      <4>1. p # "write"
        BY <1>3, <2>1, <3>2, ExistingFields, PutFields, ActivatedFields, StatusFields, CheckStep,
           CheckedFields, ResolveFields, WriteFields, AfterSettingsPlace
        DEF Moves, Becomes, PutAgain, Check, AfterStatus
      <4>2. QED BY <2>1, <2>3, <4>1 DEF Becomes
    <3>3. QED BY <3>1, <3>2
  <2>4. QED BY <2>2, <2>3
<1>4. QED BY <1>1, <1>2, <1>3, StepCases

LEMMA RowInductive == /\ Init => RowCurrent
                      /\ IInv /\ RowCurrent /\ [Next]_vars => RowCurrent'
<1>1. Init => RowCurrent
  BY DEF Init, Idle, RowCurrent
<1>2. ASSUME RowCurrent, LatePut \/ Provision \/ UNCHANGED vars PROVE RowCurrent'
  <2>1. UNCHANGED <<req, settings>>
    BY <1>2 DEF LatePut, Provision, vars
  <2>2. QED BY <1>2, <2>1 DEF RowCurrent
<1>3. QED BY <1>1, <1>2, RowStep DEF Next, IInv

\* Only a request that overlapped with another writer of the settings row can
\* enable a channel that the owner did not ask for, so that what a removal
\* disabled stays so unless requests race: no failure halfway, late PATCH or
\* retry does it.
THEOREM EnabledByOverlap == Spec => EnabledOnPurpose
<1> DEFINE Reason(c) == \E r \in Requests :
                          /\ At(r, "write")
                          /\ \/ Is(r, "save") /\ c \in req[r].wanted
                             \/ ~req[r].clean /\ c \in req[r].row.on
           OnPurpose == \A c \in settings'.on \ settings.on : Reason(c)
<1>1. ASSUME IInv, RowCurrent, Next, NEW c \in settings'.on \ settings.on PROVE Reason(c)
  <2>1. PICK r \in Requests : WriteSettings(r)
    <3>1. \A x : x \in settings'.on \ settings.on => settings' # settings
      OBVIOUS
    <3>2. settings' # settings
      BY <1>1, <3>1
    <3>3. PICK r \in Requests : Step(r)
      BY <1>1, <3>2 DEF Next, LatePut, Provision
    <3>4. CASE Moves(r)
      BY <3>2, <3>4 DEF Moves, ReadExisting, Put, PutAgain, Activated, UpsertStatus, Check,
                        Checked, Resolve, ReadSettings
    <3>5. CASE ~Moves(r)
      BY <1>1, <3>2, <3>3, <3>5, StepCases DEF IInv, Begin, Finish, Abort
    <3>6. QED BY <3>4, <3>5
  <2>2. At(r, "write") /\ settings' = Rewritten(r)
    BY <2>1 DEF WriteSettings
  <2>3. CASE Is(r, "save")
    BY <2>2, <2>3 DEF Rewritten, Is
  <2>4. CASE ~Is(r, "save")
    <3>1. c \in req[r].row.on
      BY <2>2, <2>4 DEF Rewritten, Is
    <3>2. ~req[r].clean
      BY <1>1, <2>2, <3>1 DEF RowCurrent, At
    <3>3. QED BY <2>2, <3>1, <3>2
  <2>5. QED BY <2>3, <2>4
<1>2. ASSUME IInv, RowCurrent, [Next]_vars PROVE [OnPurpose]_vars
  <2> HIDE DEF Reason
  <2> QED BY <1>1, <1>2
<1>3. QED BY <1>2, Invariant, RowInductive, PTL DEF Spec, EnabledOnPurpose

=============================================================================
