-------------------------- MODULE ChannelsAudit --------------------------
(***************************************************************************)
(* Channels with the memory of which channels were last removed: their     *)
(* removal succeeded and left them disabled, and no settings that enable   *)
(* them were saved since.                                                  *)
(***************************************************************************)
EXTENDS Channels

VARIABLE removed

AuditInit == Init /\ removed = {}

JustRemoved == {req[r].channel : r \in {s \in Requests :
                  Is(s, "remove") /\ Running(req[s]) /\ req'[s].pc = "done"}} \ settings'.on

JustEnabled == UNION {req[r].wanted : r \in {s \in Requests :
                  Is(s, "save") /\ At(s, "write") /\ req'[s].pc = "done"}}

AuditNext == Next /\ removed' = (removed \cup JustRemoved) \ JustEnabled

AuditSpec == AuditInit /\ [][AuditNext]_<<vars, removed>>

\* "Disable a notification channel when its credentials are removed" (db.js):
\* a channel whose removal has succeeded stays disabled until the owner saves
\* settings that enable it.
RemovedStaysOff == removed \cap settings.on = {}
=============================================================================
