--------------------------- MODULE DevicesProofs ---------------------------
(* Theorems about Devices, for any pages, browsers, endpoints and names,   *)
(* and any bounds.                                                         *)
EXTENDS Devices, TLAPS

---------------------------------------------------------------------------
(* The inductive invariant.                                                *)

\* A page that holds the identifier of its row, or the one it is to insert.
Holds(t) == tab[t].pc \in {"upsert", "verify"}

IdsDrawn ==
  /\ \A e \in Endpoints : device[e] # NoRow => device[e].id <= drawn
  /\ \A t \in Tabs : Holds(t) => tab[t].id <= drawn

\* An identifier belongs to one endpoint: in the table, in a page that is to
\* write it there, and between pages.
IdsDistinct ==
  /\ \A e \in Endpoints, f \in Endpoints :
       e # f /\ device[e] # NoRow /\ device[f] # NoRow => device[e].id # device[f].id
  /\ \A t \in Tabs, f \in Endpoints :
       Holds(t) /\ f # tab[t].endpoint /\ device[f] # NoRow => device[f].id # tab[t].id
  /\ \A t \in Tabs, u \in Tabs :
       Holds(t) /\ Holds(u) /\ tab[t].endpoint # tab[u].endpoint => tab[t].id # tab[u].id

\* A page that is told from all others is the only one at its endpoint, whose row
\* thus has the identifier that the page holds.
Alone ==
  \A t \in Tabs, u \in Tabs :
    t # u /\ tab[t].clear /\ tab[t].pc # "idle" /\ tab[u].pc # "idle" =>
      tab[t].endpoint # tab[u].endpoint

OwnRow ==
  \A t \in Tabs : Holds(t) /\ tab[t].clear /\ device[tab[t].endpoint] # NoRow =>
    device[tab[t].endpoint].id = tab[t].id

\* What a page has when it makes its request.
Asked ==
  \A t \in Tabs :
    /\ tab[t].pc # "idle" => tab[t].endpoint \in Endpoints
    /\ tab[t].pc \in {"select", "upsert"} => tab[t].name \in Names
    /\ tab[t].pc = "upsert" => tab[t].id \in 1..MaxDrawn

\* The owner's change has a name to write back.
ChangeNamed == change.pc = "write" => change.name \in Names

Identified == IdsDrawn /\ IdsDistinct /\ Alone /\ OwnRow /\ Asked

DevicesInv == DevicesTypeOK /\ Identified /\ ChangeNamed /\ VerdictFitsDevice

---------------------------------------------------------------------------

LEMMA Types ==
  ASSUME DevicesAssumption
  PROVE  /\ IdleTab \in Tab /\ IdleTab.pc = "idle" /\ ~IdleTab.clear
         /\ IdleNote \in Note /\ IdleChange \in Change
  BY DEF DevicesAssumption, IdleTab, Tab, IdleNote, Note, Outcome, IdleChange, Change

LEMMA DevicesInitInv == ASSUME DevicesAssumption, DevicesInit PROVE DevicesInv
<1>1. DevicesTypeOK
  BY Types DEF DevicesInit, DevicesTypeOK, DevicesAssumption, Vapid
<1>5. ChangeNamed
  BY DEF DevicesInit, ChangeNamed, IdleChange
<1>2. \A t \in Tabs : tab[t] = IdleTab
  BY DEF DevicesInit
<1>3. \A e \in Endpoints : device[e] = NoRow
  BY DEF DevicesInit
<1>4. Identified /\ VerdictFitsDevice
  BY <1>2, <1>3, Types
     DEF Identified, IdsDrawn, IdsDistinct, Alone, OwnRow, Asked, Holds, VerdictFitsDevice
<1> QED BY <1>1, <1>4, <1>5 DEF DevicesInv

\* Rows come to no endpoint and keep their identifiers; the pages are as before.
LEMMA RowsOnly ==
  ASSUME DevicesAssumption, DevicesInv, DevicesTypeOK', ChangeNamed', tab' = tab, drawn' = drawn,
         \A e \in Endpoints : device'[e] # NoRow => device[e] # NoRow /\ device'[e].id = device[e].id
  PROVE  DevicesInv'
<1>1. IdsDrawn' /\ IdsDistinct' /\ Alone' /\ OwnRow' /\ Asked'
  BY DEF DevicesInv, Identified, IdsDrawn, IdsDistinct, Alone, OwnRow, Asked, Holds
<1>2. VerdictFitsDevice'
  BY DEF DevicesInv, VerdictFitsDevice
<1> QED BY <1>1, <1>2 DEF DevicesInv, Identified

\* One page goes on without a write; it draws no identifier.
LEMMA PageOnly ==
  ASSUME DevicesAssumption, DevicesInv, DevicesTypeOK', change' = change, device' = device, drawn' = drawn,
         NEW t \in Tabs,
         \A u \in Tabs \ {t} : tab'[u] = tab[u],
         \/ tab'[t].pc = "idle"
         \/ /\ tab'[t].endpoint = tab[t].endpoint /\ tab[t].pc # "idle"
            /\ tab'[t].clear => tab[t].clear
            /\ Holds(t)' => Holds(t) /\ tab'[t].id = tab[t].id
            /\ tab'[t].pc \in {"select", "upsert"} => tab'[t].pc = tab[t].pc /\ tab'[t].name = tab[t].name,
         tab'[t].pc = "told" /\ tab'[t].clear => (tab'[t].said = "enabled" <=> tab'[t].truth)
  PROVE  DevicesInv'
<1>1. IdsDrawn' /\ IdsDistinct'
  BY DEF DevicesInv, Identified, IdsDrawn, IdsDistinct, Holds
<1>2. Alone' /\ OwnRow' /\ Asked'
  BY DEF DevicesInv, Identified, Alone, OwnRow, Asked, Holds
<1>3. VerdictFitsDevice'
  BY DEF DevicesInv, VerdictFitsDevice
<1>4. ChangeNamed'
  BY DEF DevicesInv, ChangeNamed
<1> QED BY <1>1, <1>2, <1>3, <1>4 DEF DevicesInv, Identified

LEMMA ObtainKeeps ==
  ASSUME DevicesAssumption, DevicesInv, NEW t \in Tabs, ObtainSubscription(t)
  PROVE  DevicesInv'
<1> DEFINE b == BrowserOf[t]
           e == subscription'[b]
           overlap == {u \in Tabs : tab[u].pc # "idle" /\ tab[u].endpoint = e}
<1>1. /\ tab[t].pc = "idle" /\ UNCHANGED <<device, drawn, note, change, vapid>>
      /\ b \in Browsers /\ vapid \in Vapid /\ tab \in [Tabs -> Tab]
      /\ subscription \in [Browsers -> Endpoints \cup {NoEndpoint}] /\ madeFor \in [Endpoints -> 0..MaxKey]
  BY DEF ObtainSubscription, DevicesInv, DevicesTypeOK, DevicesAssumption
<1>2. /\ subscription' \in [Browsers -> Endpoints \cup {NoEndpoint}]
      /\ madeFor' \in [Endpoints -> 0..MaxKey] /\ e \in Endpoints
  <2>1. CASE subscription[b] # NoEndpoint /\ UNCHANGED <<subscription, madeFor>>
    BY <1>1, <2>1
  <2>2. CASE \E x \in Endpoints : /\ madeFor' = [madeFor EXCEPT ![x] = vapid.public]
                                  /\ subscription' = [subscription EXCEPT ![b] = x]
    BY <1>1, <2>2 DEF Vapid
  <2> QED BY <2>1, <2>2 DEF ObtainSubscription
<1>3. PICK name \in Names :
        tab' = [u \in Tabs |->
                 IF u = t THEN [pc |-> "select", endpoint |-> e, name |-> name, id |-> 0,
                                key |-> vapid.public, waits |-> TRUE, said |-> "nothing", truth |-> FALSE,
                                clear |-> overlap = {}]
                 ELSE [tab[u] EXCEPT !.clear = @ /\ u \notin overlap]]
  BY DEF ObtainSubscription
<1> HIDE DEF b, e
<1>4. /\ tab'[t].pc = "select" /\ tab'[t].endpoint = e /\ tab'[t].name \in Names
      /\ tab'[t].clear => overlap = {}
  BY <1>3
<1>5. \A u \in Tabs \ {t} :
        /\ tab'[u].pc = tab[u].pc /\ tab'[u].endpoint = tab[u].endpoint /\ tab'[u].id = tab[u].id
        /\ tab'[u].said = tab[u].said /\ tab'[u].truth = tab[u].truth /\ tab'[u].name = tab[u].name
        /\ tab'[u].clear => tab[u].clear /\ u \notin overlap
  BY <1>1, <1>3 DEF Tab
<1>6. DevicesTypeOK'
  <2>1. tab'[t] \in Tab
    <3>1. (overlap = {}) \in BOOLEAN
      OBVIOUS
    <3>2. vapid.public \in 0..MaxKey /\ 0 \in 0..MaxDrawn
      BY <1>1 DEF Vapid, DevicesAssumption
    <3> HIDE DEF overlap
    <3> QED BY <1>2, <1>3, <3>1, <3>2 DEF Tab
  <2>2. \A u \in Tabs \ {t} : tab'[u] \in Tab
    <3> SUFFICES ASSUME NEW u \in Tabs \ {t} PROVE tab'[u] \in Tab
      OBVIOUS
    <3> DEFINE clear == tab[u].clear /\ u \notin overlap
    <3>1. clear \in BOOLEAN /\ tab[u] \in Tab
      BY <1>1
    <3>2. tab'[u] = [tab[u] EXCEPT !.clear = clear]
      BY <1>3
    <3> HIDE DEF clear
    <3> QED BY <3>1, <3>2 DEF Tab
  <2>3. tab' = [u \in Tabs |-> tab'[u]]
    BY <1>3
  <2>4. tab' \in [Tabs -> Tab]
    BY <2>1, <2>2, <2>3
  <2> QED BY <1>1, <1>2, <2>4 DEF DevicesInv, DevicesTypeOK
<1>7. IdsDrawn' /\ IdsDistinct' /\ OwnRow' /\ Asked'
  <2>1. ~Holds(t)' /\ \A u \in Tabs \ {t} : Holds(u)' <=> Holds(u)
    BY <1>4, <1>5 DEF Holds
  <2> QED BY <1>1, <1>2, <1>4, <1>5, <2>1 DEF DevicesInv, Identified, IdsDrawn, IdsDistinct, OwnRow, Asked
<1>8. Alone'
  <2> SUFFICES ASSUME NEW u \in Tabs, NEW v \in Tabs, u # v, tab'[u].clear, tab'[u].pc # "idle",
                      tab'[v].pc # "idle"
               PROVE  tab'[u].endpoint # tab'[v].endpoint
    BY DEF Alone
  <2>1. CASE u = t
    BY <1>4, <1>5, <2>1
  <2>2. CASE v = t
    BY <1>4, <1>5, <2>2
  <2>3. CASE u # t /\ v # t
    BY <1>5, <2>3 DEF DevicesInv, Identified, Alone
  <2> QED BY <2>1, <2>2, <2>3
<1>9. VerdictFitsDevice'
  BY <1>4, <1>5 DEF DevicesInv, VerdictFitsDevice
<1> QED BY <1>1, <1>6, <1>7, <1>8, <1>9 DEF DevicesInv, Identified, ChangeNamed

\* A page takes the identifier of its endpoint's row, or one never drawn before.
LEMMA SelectKeeps ==
  ASSUME DevicesAssumption, DevicesInv, NEW t \in Tabs, SelectExisting(t)
  PROVE  DevicesInv'
<1> DEFINE e == tab[t].endpoint
<1>1. /\ tab[t].pc = "select" /\ UNCHANGED <<subscription, madeFor, device, note, change, vapid>>
      /\ e \in Endpoints /\ tab \in [Tabs -> Tab] /\ device \in [Endpoints -> Row \cup {NoRow}]
      /\ drawn \in 0..MaxDrawn /\ MaxDrawn \in Nat
  BY DEF SelectExisting, DevicesInv, DevicesTypeOK, Identified, Asked, DevicesAssumption
<1>2. PICK id : /\ tab' = [tab EXCEPT ![t].pc = "upsert", ![t].id = id]
                /\ \/ device[e] # NoRow /\ id = device[e].id /\ drawn' = drawn
                   \/ device[e] = NoRow /\ drawn < MaxDrawn /\ id = drawn + 1 /\ drawn' = drawn + 1
  BY DEF SelectExisting
<1>3. /\ id \in 1..MaxDrawn /\ drawn' \in 0..MaxDrawn /\ drawn <= drawn' /\ id <= drawn'
      /\ \A f \in Endpoints : device[f] # NoRow => device[f].id \in 1..MaxDrawn
  BY <1>1, <1>2 DEF Row, DevicesInv, Identified, IdsDrawn
<1>4. \A u \in Tabs \ {t} : tab'[u] = tab[u]
  BY <1>1, <1>2
<1>5. /\ tab'[t].pc = "upsert" /\ tab'[t].id = id /\ tab'[t].clear = tab[t].clear
      /\ tab'[t].endpoint = e /\ tab'[t].endpoint = tab[t].endpoint /\ tab'[t].name = tab[t].name
  BY <1>1, <1>2 DEF Tab
<1>6. DevicesTypeOK'
  <2>1. tab' \in [Tabs -> Tab]
    <3> DEFINE q == [tab[t] EXCEPT !.pc = "upsert", !.id = id]
    <3>1. tab' = [tab EXCEPT ![t] = q]
      BY <1>1, <1>2
    <3>2. q \in Tab
      <4>1. id \in 0..MaxDrawn
        BY <1>1, <1>3
      <4> QED BY <1>1, <4>1 DEF Tab
    <3> HIDE DEF q
    <3> QED BY <1>1, <3>1, <3>2
  <2> QED BY <1>1, <1>3, <2>1 DEF DevicesInv, DevicesTypeOK
<1>7. IdsDrawn'
  <2>1. \A u \in Tabs : tab[u].id \in Nat
    BY <1>1 DEF Tab
  <2> QED BY <1>1, <1>3, <1>4, <1>5, <2>1 DEF DevicesInv, Identified, IdsDrawn, Holds
<1>8. /\ \A f \in Endpoints \ {e} : device[f] # NoRow => device[f].id # id
      /\ \A u \in Tabs : Holds(u) /\ tab[u].endpoint # e => tab[u].id # id
  <2>1. \A u \in Tabs : tab[u].id \in Nat
    BY <1>1 DEF Tab
  <2> QED BY <1>1, <1>2, <1>3, <2>1 DEF DevicesInv, Identified, IdsDrawn, IdsDistinct
<1> HIDE DEF e
<1>9. IdsDistinct'
  BY <1>1, <1>4, <1>5, <1>8 DEF DevicesInv, Identified, IdsDistinct, Holds
<1>10. OwnRow' /\ Asked'
  BY <1>1, <1>2, <1>3, <1>4, <1>5 DEF DevicesInv, Identified, OwnRow, Asked, Holds
<1>11. Alone' /\ VerdictFitsDevice'
  BY <1>1, <1>4, <1>5 DEF DevicesInv, Identified, Alone, VerdictFitsDevice
<1> QED BY <1>1, <1>6, <1>7, <1>9, <1>10, <1>11 DEF DevicesInv, Identified, ChangeNamed

\* The row that is written keeps its identifier, or has the page's.
LEMMA UpsertKeeps ==
  ASSUME DevicesAssumption, DevicesInv, NEW t \in Tabs, UpsertRow(t)
  PROVE  DevicesInv'
<1> DEFINE e == tab[t].endpoint
           row == [name |-> tab[t].name, enabled |-> TRUE,
                   id |-> IF device[e] = NoRow THEN tab[t].id ELSE device[e].id]
           q == IF tab[t].waits THEN [tab[t] EXCEPT !.pc = "verify"] ELSE IdleTab
<1>1. /\ tab[t].pc = "upsert" /\ UNCHANGED <<subscription, madeFor, drawn, note, change, vapid>>
      /\ e \in Endpoints /\ tab \in [Tabs -> Tab] /\ device \in [Endpoints -> Row \cup {NoRow}]
      /\ device' = [device EXCEPT ![e] = row] /\ tab' = [tab EXCEPT ![t] = q]
  BY DEF UpsertRow, DevicesInv, DevicesTypeOK, Identified, Asked
<1> HIDE DEF e
<1>2. row.id = IF device[e] = NoRow THEN tab[t].id ELSE device[e].id
  OBVIOUS
<1>3. /\ q.pc \in {"idle", "verify"}
      /\ q.pc = "verify" => q.endpoint = e /\ q.id = tab[t].id /\ q.clear = tab[t].clear
  BY <1>1, Types DEF Tab, e
<1> HIDE DEF row, q
<1>4. /\ \A u \in Tabs \ {t} : tab'[u] = tab[u]
      /\ \A f \in Endpoints \ {e} : device'[f] = device[f]
      /\ tab'[t] = q /\ device'[e] = row /\ Holds(t)
  BY <1>1 DEF Holds
<1>5. /\ tab[t].id \in Nat /\ tab[t].id <= drawn
      /\ \A f \in Endpoints : device[f] # NoRow => device[f].id \in 1..MaxDrawn /\ device[f].id <= drawn
      /\ \A f \in Endpoints \ {e} : device[f] # NoRow => device[f].id # row.id
      /\ \A u \in Tabs \ {t} : Holds(u) /\ tab[u].endpoint # e => tab[u].id # row.id
  <2>1. tab[t].id \in Nat /\ \A f \in Endpoints : device[f] # NoRow => device[f].id \in 1..MaxDrawn
    BY <1>1 DEF Tab, Row
  <2> QED BY <1>1, <1>2, <1>4, <2>1 DEF DevicesInv, Identified, IdsDrawn, IdsDistinct, e
<1>6. DevicesTypeOK'
  <2>1. tab[t].name \in Names /\ tab[t].id \in 1..MaxDrawn
    BY <1>1 DEF DevicesInv, Identified, Asked
  <2>2. row \in Row
    BY <1>1, <1>5, <2>1 DEF row, Row
  <2>3. q \in Tab
    BY <1>1, Types DEF q, Tab
  <2> QED BY <1>1, <2>2, <2>3 DEF DevicesInv, DevicesTypeOK
<1>7. IdsDrawn'
  BY <1>1, <1>2, <1>3, <1>4, <1>5 DEF DevicesInv, Identified, IdsDrawn, Holds
<1>8. IdsDistinct'
  <2>1. \A f \in Endpoints \ {e} : device'[f] # NoRow => device'[f].id # device'[e].id
    BY <1>4, <1>5
  <2>2. \A u \in Tabs : Holds(u)' => Holds(u) /\ tab'[u].endpoint = tab[u].endpoint /\ tab'[u].id = tab[u].id
    BY <1>3, <1>4 DEF Holds, e
  <2>3. ASSUME NEW u \in Tabs, NEW f \in Endpoints, Holds(u)', f # tab'[u].endpoint, device'[f] # NoRow
        PROVE  device'[f].id # tab'[u].id
    <3>1. CASE f = e
      <4>1. u # t
        BY <2>2, <2>3, <3>1 DEF e
      <4> QED BY <1>4, <1>5, <2>2, <2>3, <3>1, <4>1
    <3>2. CASE f # e
      BY <1>4, <2>2, <2>3, <3>2 DEF DevicesInv, Identified, IdsDistinct
    <3> QED BY <3>1, <3>2
  <2>4. \A f \in Endpoints, g \in Endpoints :
          f # g /\ device'[f] # NoRow /\ device'[g] # NoRow => device'[f].id # device'[g].id
    BY <1>1, <1>4, <2>1 DEF DevicesInv, Identified, IdsDistinct
  <2>5. \A u \in Tabs, v \in Tabs :
          Holds(u)' /\ Holds(v)' /\ tab'[u].endpoint # tab'[v].endpoint => tab'[u].id # tab'[v].id
    BY <2>2 DEF DevicesInv, Identified, IdsDistinct
  <2> QED BY <2>3, <2>4, <2>5 DEF IdsDistinct
<1>9. Alone'
  BY <1>1, <1>3, <1>4 DEF DevicesInv, Identified, Alone, e
<1>10. OwnRow'
  <2> SUFFICES ASSUME NEW u \in Tabs, Holds(u)', tab'[u].clear, device'[tab'[u].endpoint] # NoRow
               PROVE  device'[tab'[u].endpoint].id = tab'[u].id
    BY DEF OwnRow
  <2>1. CASE u = t
    BY <1>1, <1>2, <1>3, <1>4, <2>1 DEF DevicesInv, Identified, OwnRow, Holds, e
  <2>2. CASE u # t
    <3>1. tab[u].endpoint # e
      BY <1>4, <2>2 DEF DevicesInv, Identified, Alone, Holds, e
    <3> QED BY <1>4, <2>2, <3>1 DEF DevicesInv, Identified, OwnRow, Asked, Holds
  <2> QED BY <2>1, <2>2
<1>11. Asked' /\ VerdictFitsDevice'
  BY <1>1, <1>3, <1>4 DEF DevicesInv, Identified, Asked, VerdictFitsDevice
<1> QED BY <1>1, <1>6, <1>7, <1>8, <1>9, <1>10, <1>11 DEF DevicesInv, Identified, ChangeNamed

LEMMA VerifyKeeps ==
  ASSUME DevicesAssumption, DevicesInv, NEW t \in Tabs, VerifyRegistration(t)
  PROVE  DevicesInv'
<1> DEFINE e == tab[t].endpoint
           first == {f \in Matching(t) : \A g \in Matching(t) : device[f].id <= device[g].id}
           clear == tab[t].clear /\ \A f \in Endpoints \ {e} : device[f] # NoRow => device[f].name # tab[t].name
           said == IF \E f \in first : device[f].enabled THEN "enabled" ELSE "failed"
           truth == device[e] # NoRow /\ device[e].enabled
           q == [tab[t] EXCEPT !.pc = "told", !.id = 0, !.name = NoName,
                   !.said = said, !.truth = truth, !.clear = clear]
<1>1. /\ tab[t].pc = "verify" /\ UNCHANGED <<subscription, madeFor, device, drawn, note, change, vapid>>
      /\ tab \in [Tabs -> Tab] /\ device \in [Endpoints -> Row \cup {NoRow}] /\ e \in Endpoints
      /\ Holds(t)
  BY DEF VerifyRegistration, DevicesInv, DevicesTypeOK, Identified, Asked, Holds
<1>2. tab' = [tab EXCEPT ![t] = q]
  BY DEF VerifyRegistration
<1>3. ASSUME clear PROVE (\E f \in first : device[f].enabled) <=> truth
  <2>1. \A f \in Endpoints \ {e} : f \notin Matching(t)
    BY <1>1, <1>3 DEF Matching, DevicesInv, Identified, IdsDistinct
  <2>2. CASE device[e] = NoRow
    BY <2>1, <2>2 DEF Matching
  <2>3. CASE device[e] # NoRow
    <3>1. device[e].id = tab[t].id /\ device[e].id \in Nat
      BY <1>1, <1>3, <2>3 DEF DevicesInv, Identified, OwnRow, Row
    <3>2. Matching(t) = {e}
      BY <1>1, <2>1, <2>3, <3>1 DEF Matching
    <3>3. first = {e}
      BY <3>1, <3>2
    <3> QED BY <2>3, <3>3
  <2> QED BY <2>2, <2>3
<1>4. q \in Tab
  <2>1. said \in {"nothing", "enabled", "failed"} /\ 0 \in 0..MaxDrawn
    BY DEF DevicesAssumption
  <2>2. clear \in BOOLEAN
    BY <1>1 DEF Tab
  <2>3. truth \in BOOLEAN
    <3>1. CASE device[e] = NoRow
      BY <3>1
    <3>2. CASE device[e] # NoRow
      BY <1>1, <3>2 DEF Row
    <3> QED BY <3>1, <3>2
  <2>4. tab[t] \in Tab
    BY <1>1
  <2> HIDE DEF said, clear, truth
  <2> QED BY <2>1, <2>2, <2>3, <2>4 DEF Tab
<1>5. /\ q.pc = "told" /\ q.endpoint = e /\ q.clear = clear /\ q.said = said /\ q.truth = truth
  BY <1>1 DEF Tab
<1>6. q.clear => tab[t].clear /\ (q.said = "enabled" <=> q.truth)
  <2>1. said = "enabled" <=> \E f \in first : device[f].enabled
    OBVIOUS
  <2>2. clear => (said = "enabled" <=> truth)
    BY <1>3, <2>1
  <2>3. clear => tab[t].clear
    OBVIOUS
  <2> HIDE DEF q, clear, said, truth, first
  <2> QED BY <1>5, <2>2, <2>3
<1> HIDE DEF q, clear, said, truth, first
<1>7. DevicesTypeOK'
  BY <1>1, <1>2, <1>4 DEF DevicesInv, DevicesTypeOK
<1>8. tab'[t] = q /\ \A u \in Tabs \ {t} : tab'[u] = tab[u]
  BY <1>1, <1>2
<1> QED BY <1>1, <1>5, <1>6, <1>7, <1>8, PageOnly DEF Holds

LEMMA LeaveKeeps ==
  ASSUME DevicesAssumption, DevicesInv, NEW t \in Tabs, GiveUp(t) \/ Dismiss(t)
  PROVE  DevicesInv'
<1>1. /\ UNCHANGED <<subscription, madeFor, device, drawn, note, change, vapid>>
      /\ tab \in [Tabs -> Tab] /\ tab[t].pc # "idle"
  BY DEF GiveUp, Dismiss, DevicesInv, DevicesTypeOK
<1>2. CASE GiveUp(t)
  <2> DEFINE q == [tab[t] EXCEPT !.waits = FALSE]
  <2>1. tab' = [tab EXCEPT ![t] = q]
    BY <1>1, <1>2 DEF GiveUp
  <2>2. /\ q \in Tab /\ q.pc = tab[t].pc /\ q.pc \in {"select", "upsert"} /\ q.endpoint = tab[t].endpoint
        /\ q.clear = tab[t].clear /\ q.id = tab[t].id /\ q.name = tab[t].name
    BY <1>1, <1>2 DEF GiveUp, Tab
  <2> HIDE DEF q
  <2>3. DevicesTypeOK' /\ tab'[t] = q /\ \A u \in Tabs \ {t} : tab'[u] = tab[u]
    BY <1>1, <2>1, <2>2 DEF DevicesInv, DevicesTypeOK
  <2> QED BY <1>1, <2>2, <2>3, PageOnly DEF Holds
<1>3. CASE Dismiss(t)
  <2>1. DevicesTypeOK' /\ tab'[t] = IdleTab /\ \A u \in Tabs \ {t} : tab'[u] = tab[u]
    BY <1>1, <1>3, Types DEF Dismiss, DevicesInv, DevicesTypeOK
  <2> QED BY <1>1, <2>1, Types, PageOnly
<1> QED BY <1>2, <1>3

\* The dispatcher's note and the owner's change write what they read into the row
\* that has the identifier by then; a row may also go.
LEMMA TableKeeps ==
  ASSUME DevicesAssumption, DevicesInv,
         \/ \E e \in Endpoints : Push(e) \/ ReadForChange(e) \/ DeleteRow(e)
         \/ ReadForNote \/ WriteNote \/ WriteChange
  PROVE  DevicesInv'
<1>0. /\ device \in [Endpoints -> Row \cup {NoRow}] /\ note \in Note /\ change \in Change
      /\ UNCHANGED <<subscription, madeFor, drawn, tab, vapid>>
  BY DEF DevicesInv, DevicesTypeOK, Push, ReadForChange, DeleteRow, ReadForNote, WriteNote, WriteChange
<1>1. ASSUME NEW e \in Endpoints, Push(e) PROVE DevicesInv'
  <2>1. PICK outcome \in Answers(e) :
          note' = [pc |-> "read", id |-> device[e].id, outcome |-> outcome, enabled |-> FALSE]
    BY <1>1 DEF Push
  <2>2. outcome \in Outcome /\ device[e] \in Row /\ UNCHANGED <<device, change>>
    BY <1>0, <1>1 DEF Push, Answers, Outcome
  <2>3. note' \in Note
    BY <2>1, <2>2 DEF Note, Row
  <2> QED BY <1>0, <2>2, <2>3, RowsOnly DEF DevicesInv, DevicesTypeOK, ChangeNamed
<1>2. ASSUME NEW e \in Endpoints, ReadForChange(e) PROVE DevicesInv'
  <2>1. device[e] \in Row /\ UNCHANGED <<device, note>>
    BY <1>0, <1>2 DEF ReadForChange
  <2>2. PICK ask \in {"enable", "disable", "rename"}, name \in Names :
          change' = [pc |-> "write", id |-> device[e].id, ask |-> ask, name |-> name,
                     enabled |-> device[e].enabled]
    <3>1. PICK ask \in {"enable", "disable", "rename"} :
            \E name \in IF ask = "rename" THEN Names ELSE {device[e].name} :
              change' = [pc |-> "write", id |-> device[e].id, ask |-> ask, name |-> name,
                         enabled |-> device[e].enabled]
      BY <1>2 DEF ReadForChange
    <3>2. device[e].name \in Names
      BY <2>1 DEF Row
    <3> QED BY <3>1, <3>2
  <2>4. change' \in Change /\ change'.name \in Names
    BY <2>1, <2>2 DEF Change, Row
  <2> QED BY <1>0, <2>1, <2>4, RowsOnly DEF DevicesInv, DevicesTypeOK, ChangeNamed
<1>3. ASSUME NEW e \in Endpoints, DeleteRow(e) PROVE DevicesInv'
  BY <1>0, <1>3, RowsOnly DEF DeleteRow, DevicesInv, DevicesTypeOK, ChangeNamed
<1>4. CASE ReadForNote
  <2>1. UNCHANGED <<device, change>> /\ note' \in Note
    <3>1. CASE note' = IdleNote
      BY <1>4, <3>1, Types DEF ReadForNote
    <3>2. ASSUME NEW e \in RowOf(note.id), note' = [note EXCEPT !.pc = "write", !.enabled = device[e].enabled]
          PROVE  note' \in Note
      <4>1. device[e] \in Row /\ device[e].enabled \in BOOLEAN
        BY <1>0, <3>2 DEF RowOf, Row
      <4> QED BY <1>0, <3>2, <4>1 DEF Note
    <3> QED BY <1>4, <3>1, <3>2 DEF ReadForNote
  <2> QED BY <1>0, <2>1, RowsOnly DEF DevicesInv, DevicesTypeOK, ChangeNamed
<1>5. CASE WriteNote
  <2>1. NotedEnabled \in BOOLEAN
    BY <1>0 DEF NotedEnabled, Note
  <2>2. /\ change' = change /\ note' \in Note
        /\ device' = [e \in Endpoints |->
             IF e \in RowOf(note.id) THEN [device[e] EXCEPT !.enabled = NotedEnabled] ELSE device[e]]
    BY <1>5, Types DEF WriteNote
  <2>3. \A e \in Endpoints :
          /\ device'[e] \in Row \cup {NoRow}
          /\ device'[e] # NoRow => device[e] # NoRow /\ device'[e].id = device[e].id
    BY <1>0, <2>1, <2>2 DEF Row, RowOf
  <2>4. device' \in [Endpoints -> Row \cup {NoRow}]
    BY <2>2, <2>3
  <2> QED BY <1>0, <2>2, <2>3, <2>4, RowsOnly DEF DevicesInv, DevicesTypeOK, ChangeNamed
<1>6. CASE WriteChange
  <2> DEFINE on == change.ask = "enable" \/ (change.enabled /\ change.ask = "rename")
  <2>1. on \in BOOLEAN
    BY <1>0 DEF Change
  <2>2. note' = note /\ change' \in Change /\ change'.pc = "idle"
    BY <1>6, Types DEF WriteChange, IdleChange
  <2>3. change.name \in Names
    BY <1>6 DEF WriteChange, DevicesInv, ChangeNamed
  <2> HIDE DEF on
  <2>4. CASE device' = [e \in Endpoints |-> IF e \in RowOf(change.id)
                        THEN [device[e] EXCEPT !.name = change.name, !.enabled = on] ELSE device[e]]
    <3>1. \A e \in Endpoints :
            /\ device'[e] \in Row \cup {NoRow}
            /\ device'[e] # NoRow => device[e] # NoRow /\ device'[e].id = device[e].id
      BY <1>0, <2>1, <2>3, <2>4 DEF Row, RowOf
    <3>2. device' \in [Endpoints -> Row \cup {NoRow}]
      BY <2>4, <3>1
    <3> QED BY <1>0, <2>2, <3>1, <3>2, RowsOnly DEF DevicesInv, DevicesTypeOK, ChangeNamed
  <2>5. CASE device' = device
    BY <1>0, <2>2, <2>5, RowsOnly DEF DevicesInv, DevicesTypeOK, ChangeNamed
  <2> QED BY <1>6, <2>4, <2>5 DEF WriteChange, on
<1> QED BY <1>1, <1>2, <1>3, <1>4, <1>5, <1>6

LEMMA KeysKeep ==
  ASSUME DevicesAssumption, DevicesInv,
         (\E b \in Browsers : Forget(b)) \/ StoreKey \/ KeyActive \/ ActivationTimeout \/ Redeploy
  PROVE  DevicesInv'
<1>0. UNCHANGED <<madeFor, device, drawn, tab, note, change>>
  BY DEF Forget, StoreKey, KeyActive, ActivationTimeout, Redeploy
<1>1. subscription' \in [Browsers -> Endpoints \cup {NoEndpoint}]
  BY DEF DevicesInv, DevicesTypeOK, Forget, StoreKey, KeyActive, ActivationTimeout, Redeploy
<1>2. vapid' \in Vapid
  <2>1. vapid \in Vapid /\ MaxKey \in Nat
    BY DEF DevicesInv, DevicesTypeOK, DevicesAssumption
  <2>2. CASE StoreKey
    <3>1. PICK rest \in BOOLEAN :
            vapid' = [vapid EXCEPT !.last = @ + 1, !.secret = vapid.last + 1, !.waiting = rest]
      BY <2>2 DEF StoreKey
    <3>2. vapid.last + 1 \in 0..MaxKey
      <4>1. vapid.last \in 0..MaxKey /\ vapid.last < MaxKey
        BY <2>1, <2>2 DEF StoreKey, Vapid
      <4> QED BY <2>1, <4>1
    <3> QED BY <2>1, <3>1, <3>2 DEF Vapid
  <2>3. CASE KeyActive \/ ActivationTimeout \/ Redeploy
    BY <2>1, <2>3 DEF KeyActive, ActivationTimeout, Redeploy, Vapid
  <2> QED BY <2>1, <2>2, <2>3 DEF Forget
<1> QED BY <1>0, <1>1, <1>2, RowsOnly DEF DevicesInv, DevicesTypeOK, ChangeNamed

LEMMA DevicesNextInv ==
  ASSUME DevicesAssumption, DevicesInv, [DevicesNext]_devicesVars
  PROVE  DevicesInv'
<1>1. CASE UNCHANGED devicesVars
  BY <1>1, RowsOnly DEF devicesVars, DevicesInv, DevicesTypeOK, ChangeNamed
<1>2. CASE DevicesNext
  BY <1>2, ObtainKeeps, SelectKeeps, UpsertKeeps, VerifyKeeps, LeaveKeeps, TableKeeps, KeysKeep
     DEF DevicesNext
<1> QED BY <1>1, <1>2

LEMMA DevicesInvHolds == DevicesSpec => []DevicesInv
<1>1. DevicesInit => DevicesInv
  BY DevicesInitInv, DevicesAssumption
<1>2. DevicesInv /\ [DevicesNext]_devicesVars => DevicesInv'
  BY DevicesNextInv, DevicesAssumption
<1> QED BY <1>1, <1>2, PTL DEF DevicesSpec

---------------------------------------------------------------------------
(* What enables a device again.                                            *)

Revives(e) == device[e] # NoRow /\ ~device[e].enabled /\ device'[e] # NoRow /\ device'[e].enabled

Reviver(e) ==
  \/ \E t \in Tabs : tab[t].endpoint = e /\ tab[t].pc = "upsert" /\ tab'[t].pc # "upsert"
  \/ change.pc = "write" /\ change'.pc = "idle" /\ change.id = device[e].id
       /\ (change.ask = "enable" \/ change.enabled)
  \/ note.pc = "write" /\ note'.pc = "idle" /\ note.id = device[e].id /\ note.enabled

LEMMA RevivedBy ==
  ASSUME DevicesAssumption, DevicesInv, [DevicesNext]_devicesVars, NEW e \in Endpoints, Revives(e)
  PROVE  Reviver(e)
<1>0. /\ device \in [Endpoints -> Row \cup {NoRow}] /\ tab \in [Tabs -> Tab]
      /\ device'[e] # device[e]
  BY DEF DevicesInv, DevicesTypeOK, Revives
<1>1. device' # device
  BY <1>0
<1>2. ASSUME NEW t \in Tabs, UpsertRow(t) PROVE Reviver(e)
  <2>1. tab[t].endpoint = e
    BY <1>0, <1>2 DEF UpsertRow
  <2>2. tab'[t].pc # "upsert"
    <3>1. CASE tab[t].waits
      BY <1>0, <1>2, <3>1 DEF UpsertRow, Tab
    <3>2. CASE ~tab[t].waits
      BY <1>0, <1>2, <3>2, Types DEF UpsertRow
    <3> QED BY <3>1, <3>2
  <2> QED BY <1>2, <2>1, <2>2 DEF Reviver, UpsertRow
<1>3. CASE WriteNote
  <2>1. e \in RowOf(note.id) /\ device'[e] = [device[e] EXCEPT !.enabled = NotedEnabled]
    BY <1>0, <1>3 DEF WriteNote
  <2>2. device[e] \in Row /\ device[e].id = note.id
    BY <1>0, <2>1 DEF RowOf
  <2>3. NotedEnabled
    BY <2>1, <2>2 DEF Row, Revives
  <2> QED BY <1>3, <2>2, <2>3 DEF WriteNote, NotedEnabled, Reviver, IdleNote
<1>4. CASE WriteChange
  <2> DEFINE on == change.ask = "enable" \/ (change.enabled /\ change.ask = "rename")
  <2>1. e \in RowOf(change.id) /\ device'[e] = [device[e] EXCEPT !.name = change.name, !.enabled = on]
    BY <1>0, <1>4 DEF WriteChange
  <2>2. device[e] \in Row /\ device[e].id = change.id
    BY <1>0, <2>1 DEF RowOf
  <2>3. on
    <3> HIDE DEF on
    <3> QED BY <2>1, <2>2 DEF Row, Revives
  <2> QED BY <1>4, <2>2, <2>3 DEF WriteChange, Reviver, IdleChange
<1>5. ASSUME NEW f \in Endpoints, DeleteRow(f) PROVE FALSE
  BY <1>0, <1>5 DEF DeleteRow, Revives
<1> QED
  BY <1>1, <1>2, <1>3, <1>4, <1>5
     DEF DevicesNext, devicesVars, ObtainSubscription, SelectExisting, GiveUp, VerifyRegistration,
         Dismiss, Forget, Push, ReadForChange, ReadForNote, StoreKey, KeyActive, ActivationTimeout, Redeploy

---------------------------------------------------------------------------

\* Subscriptions, rows, pages, notes, changes and keys keep their types.
THEOREM DevicesTypeCorrect == DevicesSpec => []DevicesTypeOK
<1>1. DevicesInv => DevicesTypeOK
  BY DEF DevicesInv
<1> QED BY <1>1, DevicesInvHolds, PTL

\* A page that no other page or device can be confused with tells the truth about
\* its registration, whatever the owner and the dispatcher did to the row.
THEOREM VerdictsFit == DevicesSpec => []VerdictFitsDevice
<1>1. DevicesInv => VerdictFitsDevice
  BY DEF DevicesInv
<1> QED BY <1>1, DevicesInvHolds, PTL

\* A disabled device comes back only by a registration, by the owner's wish, or by
\* a write that had read the row when it was enabled.
THEOREM RevivalsKnown == DevicesSpec => RevivedKnowingly
<1>1. DevicesInv /\ [DevicesNext]_devicesVars =>
        [\A e \in Endpoints : Revives(e) => Reviver(e)]_devicesVars
  BY RevivedBy, DevicesAssumption
<1>2. DevicesInv /\ [DevicesNext]_devicesVars =>
        [\A e \in Endpoints :
           device[e] # NoRow /\ ~device[e].enabled /\ device'[e] # NoRow /\ device'[e].enabled =>
             \/ \E t \in Tabs : tab[t].endpoint = e /\ tab[t].pc = "upsert" /\ tab'[t].pc # "upsert"
             \/ change.pc = "write" /\ change'.pc = "idle" /\ change.id = device[e].id
                  /\ (change.ask = "enable" \/ change.enabled)
             \/ note.pc = "write" /\ note'.pc = "idle" /\ note.id = device[e].id /\ note.enabled
        ]_devicesVars
  BY <1>1 DEF Revives, Reviver
<1> QED BY <1>2, DevicesInvHolds, PTL DEF DevicesSpec, RevivedKnowingly
=============================================================================
