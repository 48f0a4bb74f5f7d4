------------------------------ MODULE Devices ------------------------------
(***************************************************************************)
(* Browser push: pages that register their browser                         *)
(* (public/features/browser-notifications.js) through the Worker's routes  *)
(* (worker/routes/webpush.js) into the table web_push_subscriptions, the   *)
(* dispatcher that pushes to a row and notes the outcome in it             *)
(* (worker/notifications/webpush.js), the owner who switches, renames or   *)
(* removes one, and the operator who replaces the application server's key *)
(* (scripts/webpush-setup.mjs).  The note and the owner's change read the  *)
(* row and write all of it back in a second statement.                     *)
(*                                                                         *)
(* A key pair is known by a number, 0 is none: the sentinel secret or an   *)
(* empty variable.  A browser keeps its subscription whatever becomes of   *)
(* the key.  Times, failure codes and the encryption keys of a             *)
(* subscription are left out, and so is a browser that refuses.            *)
(***************************************************************************)
EXTENDS Integers, FiniteSets

CONSTANTS
  Tabs,       \* pages that may register their browser
  Browsers,
  BrowserOf,  \* the browser of each tab
  Endpoints,  \* push endpoints, each given out once
  NoEndpoint, \* no subscription
  NoRow,      \* no row
  Names,      \* names given to devices
  NoName,     \* no name
  MaxDrawn,   \* bound: identifiers drawn for rows
  MaxKey,     \* bound: key pairs generated
  MaxBusy     \* bound: pages, notes and changes under way at a time

ASSUME DevicesAssumption ==
  /\ BrowserOf \in [Tabs -> Browsers]
  /\ NoEndpoint \notin Endpoints
  /\ MaxDrawn \in Nat /\ MaxKey \in Nat /\ MaxBusy \in Nat

VARIABLES
  subscription, \* what each browser's push manager holds
  madeFor,      \* the key that each endpoint was made for, 0 before it is given out
  device,       \* the table, by endpoint: the column is unique
  drawn,        \* identifiers drawn so far
  tab,          \* each page's registration, with the request that it makes
  note,         \* the dispatcher's note to write
  change,       \* the owner's PATCH
  vapid         \* the secret, the Worker's variable, the operator's command

devicesVars == <<subscription, madeFor, device, drawn, tab, note, change, vapid>>

Row == [id : 1..MaxDrawn, name : Names, enabled : BOOLEAN]

\* "said" is the outcome shown.  "truth" and "clear" are history: was the
\* endpoint's row enabled when the list was read, and was the device told from
\* all others: no other row had its name, no other page registered its endpoint?
\* "key" is history too: the public key that the Worker served at the beginning.
Tab == [pc : {"idle", "select", "upsert", "verify", "told"},
        endpoint : Endpoints \cup {NoEndpoint}, name : Names \cup {NoName}, id : 0..MaxDrawn, key : 0..MaxKey,
        waits : BOOLEAN, said : {"nothing", "enabled", "failed"}, truth : BOOLEAN, clear : BOOLEAN]

Outcome == {"accepted", "gone", "revoked", "later"}
Note == [pc : {"idle", "read", "write"}, id : 0..MaxDrawn, outcome : Outcome, enabled : BOOLEAN]
Change == [pc : {"idle", "write"}, id : 0..MaxDrawn, ask : {"enable", "disable", "rename"},
           name : Names \cup {NoName}, enabled : BOOLEAN]
Vapid == [secret : 0..MaxKey, public : 0..MaxKey, printed : 0..MaxKey, last : 0..MaxKey,
          waiting : BOOLEAN]

\* A page, the dispatcher and the owner with nothing under way.
IdleTab == [pc |-> "idle", endpoint |-> NoEndpoint, name |-> NoName, id |-> 0, key |-> 0, waits |-> FALSE,
            said |-> "nothing", truth |-> FALSE, clear |-> FALSE]
IdleNote == [pc |-> "idle", id |-> 0, outcome |-> "later", enabled |-> FALSE]
IdleChange == [pc |-> "idle", id |-> 0, ask |-> "rename", name |-> NoName, enabled |-> FALSE]

MayStart ==
  Cardinality({t \in Tabs : tab[t] # IdleTab}) + (IF note = IdleNote THEN 0 ELSE 1)
    + (IF change = IdleChange THEN 0 ELSE 1) < MaxBusy

RowOf(id) == {e \in Endpoints : device[e] # NoRow /\ device[e].id = id}

---------------------------------------------------------------------------
(* A page registers its browser. *)

\* An existing subscription is taken as it is; a new one is made for the key
\* that the Worker serves now.
ObtainSubscription(t) ==
  LET b == BrowserOf[t] IN
  /\ tab[t].pc = "idle" /\ MayStart
  /\ \/ /\ subscription[b] # NoEndpoint
        /\ UNCHANGED <<subscription, madeFor>>
     \/ /\ subscription[b] = NoEndpoint /\ vapid.public # 0
        /\ \E e \in Endpoints :
             /\ madeFor[e] = 0
             /\ madeFor' = [madeFor EXCEPT ![e] = vapid.public]
             /\ subscription' = [subscription EXCEPT ![b] = e]
  /\ LET e == subscription'[b]
         overlap == {u \in Tabs : tab[u].pc # "idle" /\ tab[u].endpoint = e}
     IN \E name \in Names :
          tab' = [u \in Tabs |->
                   IF u = t THEN [pc |-> "select", endpoint |-> e, name |-> name, id |-> 0,
                                  key |-> vapid.public, waits |-> TRUE, said |-> "nothing", truth |-> FALSE,
                                  clear |-> overlap = {}]
                   ELSE [tab[u] EXCEPT !.clear = @ /\ u \notin overlap]]
  /\ UNCHANGED <<device, drawn, note, change, vapid>>

\* The identifier of the endpoint's row, or a new one.
SelectExisting(t) ==
  /\ tab[t].pc = "select"
  /\ \/ /\ device[tab[t].endpoint] # NoRow
        /\ tab' = [tab EXCEPT ![t].pc = "upsert", ![t].id = device[tab[t].endpoint].id]
        /\ UNCHANGED drawn
     \/ /\ device[tab[t].endpoint] = NoRow /\ drawn < MaxDrawn
        /\ drawn' = drawn + 1
        /\ tab' = [tab EXCEPT ![t].pc = "upsert", ![t].id = drawn + 1]
  /\ UNCHANGED <<subscription, madeFor, device, note, change, vapid>>

\* ON CONFLICT(endpoint) keeps the identifier that the row has.
UpsertRow(t) ==
  LET e == tab[t].endpoint  row == device[e] IN
  /\ tab[t].pc = "upsert"
  /\ device' = [device EXCEPT ![e] = [name |-> tab[t].name, enabled |-> TRUE,
                  id |-> IF row = NoRow THEN tab[t].id ELSE row.id]]
  /\ tab' = [tab EXCEPT ![t] = IF tab[t].waits THEN [@ EXCEPT !.pc = "verify"] ELSE IdleTab]
  /\ UNCHANGED <<subscription, madeFor, drawn, note, change, vapid>>

\* The page times out, or is left; the Worker's request goes on.
GiveUp(t) ==
  /\ tab[t].pc \in {"select", "upsert"} /\ tab[t].waits
  /\ tab' = [tab EXCEPT ![t].waits = FALSE]
  /\ UNCHANGED <<subscription, madeFor, device, drawn, note, change, vapid>>

\* Bug: the device with the identifier is not looked for, any will do.
BadMatching(t) == {e \in Endpoints : device[e] # NoRow}

Matching(t) ==
  {e \in Endpoints : device[e] # NoRow /\ (device[e].id = tab[t].id \/ device[e].name = tab[t].name)}

\* The list comes in the order of creation; its first match decides.
VerifyRegistration(t) ==
  LET own == device[tab[t].endpoint]
      first == {e \in Matching(t) : \A f \in Matching(t) : device[e].id <= device[f].id}
  IN
  /\ tab[t].pc = "verify"
  /\ tab' = [tab EXCEPT ![t] = [tab[t] EXCEPT !.pc = "told", !.id = 0, !.name = NoName,
       !.said = IF \E e \in first : device[e].enabled THEN "enabled" ELSE "failed",
       !.truth = own # NoRow /\ own.enabled,
       !.clear = tab[t].clear /\ \A e \in Endpoints \ {tab[t].endpoint} :
                    device[e] # NoRow => device[e].name # tab[t].name]]
  /\ UNCHANGED <<subscription, madeFor, device, drawn, note, change, vapid>>

\* The message goes away; a page may also be left before it verifies.
Dismiss(t) ==
  /\ tab[t].pc \in {"verify", "told"}
  /\ tab' = [tab EXCEPT ![t] = IdleTab]
  /\ UNCHANGED <<subscription, madeFor, device, drawn, note, change, vapid>>

\* Site data cleared, or a subscription that expired.
Forget(b) ==
  /\ subscription[b] # NoEndpoint
  /\ subscription' = [subscription EXCEPT ![b] = NoEndpoint]
  /\ UNCHANGED <<madeFor, device, drawn, tab, note, change, vapid>>

---------------------------------------------------------------------------
(* The dispatcher pushes to a row, and notes what the push service answered. *)

\* What the push service says of a push signed with the secret: the endpoint is
\* gone, the key is not the one it was made for, not now, or yes.
Answers(e) ==
  {"later"} \cup
  (IF \A b \in Browsers : subscription[b] # e THEN {"gone"}
   ELSE IF vapid.secret # madeFor[e] \/ vapid.public # madeFor[e] THEN {"revoked"}
   ELSE {"accepted"})

Push(e) ==
  /\ note.pc = "idle" /\ MayStart
  /\ device[e] # NoRow /\ device[e].enabled
  /\ vapid.secret # 0 /\ vapid.public # 0
  /\ \E outcome \in Answers(e) :
       note' = [pc |-> "read", id |-> device[e].id, outcome |-> outcome, enabled |-> FALSE]
  /\ UNCHANGED <<subscription, madeFor, device, drawn, tab, change, vapid>>

\* A row that was removed meanwhile gets no note; the dispatcher may also die.
ReadForNote ==
  /\ note.pc = "read"
  /\ \/ \E e \in RowOf(note.id) :
          note' = [note EXCEPT !.pc = "write", !.enabled = device[e].enabled]
     \/ note' = IdleNote
  /\ UNCHANGED <<subscription, madeFor, device, drawn, tab, change, vapid>>

\* Bug: a push that was accepted shows that the device is enabled.
BadNotedEnabled == note.outcome = "accepted" \/ (note.enabled /\ note.outcome = "later")

\* Only an answer that the subscription is dead changes the flag that was read.
NotedEnabled == note.enabled /\ note.outcome \notin {"gone", "revoked"}

WriteNote ==
  /\ note.pc = "write"
  /\ device' = [e \in Endpoints |->
       IF e \in RowOf(note.id) THEN [device[e] EXCEPT !.enabled = NotedEnabled] ELSE device[e]]
  /\ note' = IdleNote
  /\ UNCHANGED <<subscription, madeFor, drawn, tab, change, vapid>>

---------------------------------------------------------------------------
(* The owner: PATCH reads the row and writes it back, DELETE is one statement. *)

ReadForChange(e) ==
  /\ change.pc = "idle" /\ MayStart /\ device[e] # NoRow
  /\ \E ask \in {"enable", "disable", "rename"} :
       \E name \in IF ask = "rename" THEN Names ELSE {device[e].name} :
         change' = [pc |-> "write", id |-> device[e].id, ask |-> ask, name |-> name,
                    enabled |-> device[e].enabled]
  /\ UNCHANGED <<subscription, madeFor, device, drawn, tab, note, vapid>>

\* The request may die instead, or its row be gone.
WriteChange ==
  /\ change.pc = "write"
  /\ \/ device' = [e \in Endpoints |->
           IF e \in RowOf(change.id)
           THEN [device[e] EXCEPT !.name = change.name,
                   !.enabled = change.ask = "enable" \/ (change.enabled /\ change.ask = "rename")]
           ELSE device[e]]
     \/ UNCHANGED device
  /\ change' = IdleChange
  /\ UNCHANGED <<subscription, madeFor, drawn, tab, note, vapid>>

DeleteRow(e) ==
  /\ device[e] # NoRow
  /\ device' = [device EXCEPT ![e] = NoRow]
  /\ UNCHANGED <<subscription, madeFor, drawn, tab, note, change, vapid>>

---------------------------------------------------------------------------
(* The operator: webpush-setup writes a new private key and waits for it to be *)
(* active; only then it prints the public key, which a redeployment serves.    *)

StoreKey ==
  /\ ~vapid.waiting /\ vapid.last < MaxKey
  /\ \E rest \in BOOLEAN :
       vapid' = [vapid EXCEPT !.last = @ + 1, !.secret = vapid.last + 1, !.waiting = rest]
  /\ UNCHANGED <<subscription, madeFor, device, drawn, tab, note, change>>

KeyActive ==
  /\ vapid.waiting
  /\ vapid' = [vapid EXCEPT !.waiting = FALSE, !.printed = vapid.last]
  /\ UNCHANGED <<subscription, madeFor, device, drawn, tab, note, change>>

ActivationTimeout ==
  /\ vapid.waiting
  /\ vapid' = [vapid EXCEPT !.waiting = FALSE]
  /\ UNCHANGED <<subscription, madeFor, device, drawn, tab, note, change>>

\* The operator sets the variable from the output and redeploys the Worker.
Redeploy ==
  /\ vapid.printed # vapid.public
  /\ vapid' = [vapid EXCEPT !.public = vapid.printed]
  /\ UNCHANGED <<subscription, madeFor, device, drawn, tab, note, change>>

---------------------------------------------------------------------------

DevicesInit ==
  /\ subscription = [b \in Browsers |-> NoEndpoint]
  /\ madeFor = [e \in Endpoints |-> 0]
  /\ device = [e \in Endpoints |-> NoRow]
  /\ drawn = 0
  /\ tab = [t \in Tabs |-> IdleTab] /\ note = IdleNote /\ change = IdleChange
  /\ vapid = [secret |-> 0, public |-> 0, printed |-> 0, last |-> 0, waiting |-> FALSE]

DevicesNext ==
  \/ \E t \in Tabs : \/ ObtainSubscription(t) \/ SelectExisting(t) \/ UpsertRow(t)
                     \/ GiveUp(t) \/ VerifyRegistration(t) \/ Dismiss(t)
  \/ \E b \in Browsers : Forget(b)
  \/ \E e \in Endpoints : Push(e) \/ ReadForChange(e) \/ DeleteRow(e)
  \/ ReadForNote \/ WriteNote \/ WriteChange
  \/ StoreKey \/ KeyActive \/ ActivationTimeout \/ Redeploy

DevicesSpec == DevicesInit /\ [][DevicesNext]_devicesVars

---------------------------------------------------------------------------

DevicesTypeOK ==
  /\ subscription \in [Browsers -> Endpoints \cup {NoEndpoint}]
  /\ madeFor \in [Endpoints -> 0..MaxKey]
  /\ device \in [Endpoints -> Row \cup {NoRow}]
  /\ drawn \in 0..MaxDrawn
  /\ tab \in [Tabs -> Tab]
  /\ note \in Note /\ change \in Change /\ vapid \in Vapid

\* What a page says of its registration, which it finds in the list by identifier
\* or by name, is what is stored, as long as no other device has that name and no
\* other page registered the same endpoint meanwhile.
VerdictFitsDevice ==
  \A t \in Tabs : tab[t].pc = "told" /\ tab[t].clear => (tab[t].said = "enabled" <=> tab[t].truth)

\* A device that was disabled, by the owner or because its subscription is dead,
\* is enabled again by a registration or by the owner's request to enable it; by
\* any other write only if that had read the row before it was disabled.
RevivedKnowingly ==
  [][\A e \in Endpoints :
       device[e] # NoRow /\ ~device[e].enabled /\ device'[e] # NoRow /\ device'[e].enabled =>
         \/ \E t \in Tabs : tab[t].endpoint = e /\ tab[t].pc = "upsert" /\ tab'[t].pc # "upsert"
         \/ change.pc = "write" /\ change'.pc = "idle" /\ change.id = device[e].id
              /\ (change.ask = "enable" \/ change.enabled)
         \/ note.pc = "write" /\ note'.pc = "idle" /\ note.id = device[e].id /\ note.enabled
    ]_devicesVars

\* What the operator of a rotation is told: "Retry Browser Push registration"
\* (scripts/webpush-setup.mjs).  A browser that does so while the Worker serves
\* the new key, and is told that it is enabled, has a subscription for that key.
RegisteredForCurrentKey ==
  \A t \in Tabs :
    /\ tab[t].pc = "told" /\ tab[t].said = "enabled" /\ tab[t].truth
    /\ tab[t].key = vapid.public /\ subscription[BrowserOf[t]] = tab[t].endpoint
    => madeFor[tab[t].endpoint] = vapid.public
=============================================================================
