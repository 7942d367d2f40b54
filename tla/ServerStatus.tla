---------------------------- MODULE ServerStatus ----------------------------
(***************************************************************************)
(* The status of servers, from the statements that write it to the         *)
(* dashboard that shows it: every writer of servers.status, the status     *)
(* that the queries derive from it, the stream of /workspaces/{id}/events, *)
(* and the overview page, which merges the stream into what it polls.      *)
(*                                                                         *)
(* Each statement is one step.  Which verdict the open incidents give is   *)
(* left open here (AlertLifecycle has it), and so is which agents may      *)
(* still report (Enrollment).  last_seen_at is "recent" for two minutes.   *)
(* One page of one workspace; a batch of the stream is merged or lost      *)
(* before the next is read, fifteen seconds later.                         *)
(***************************************************************************)
EXTENDS Naturals

CONSTANTS
    Servers,
    Verdicts,   \* what open incidents make of a server that is seen
    None        \* a server that a result does not list; no result

Shown == {"unknown", "online", "warning", "degraded", "offline", "maintenance"}

ASSUME StatusAssumption ==
    /\ Verdicts \subseteq {"online", "warning", "degraded"} /\ "online" \in Verdicts
    /\ None \notin Shown

VARIABLES
    status,     \* servers.status; "new" before and "gone" after the row
    seen,       \* servers.last_seen_at
    kept,       \* history: put into maintenance by a request, and no request
                \* has ended that since
    old,        \* the access token of the page has expired
    stream,     \* the handler of the page's event stream
    batch,      \* what it has sent and the page has not merged, or None
    poll,       \* the page's request for the list of servers
    view,       \* what the page shows
    page        \* visible; opened: a stream was asked for with this token

dbVars == <<status, seen, kept>>
streamVars == <<stream, batch>>
pageVars == <<poll, view, page, old>>
statusVars == <<dbVars, streamVars, pageVars>>

-----------------------------------------------------------------------------
Result == [Servers -> Shown \cup {None}]

StatusTypeOK ==
    /\ status \in [Servers -> Shown \cup {"new", "gone"}]
    /\ seen \in [Servers -> {"never", "recent", "old"}]
    /\ kept \in [Servers -> BOOLEAN]
    /\ old \in BOOLEAN
    /\ stream \in [pc: {"off", "query", "wait"}, ticked: BOOLEAN]
    /\ batch \in Result \cup {None}
    /\ poll \in [pc: {"idle", "sent", "refused", "read"}, rows: Result \cup {None}]
    /\ view \in Result
    /\ page \in [visible: BOOLEAN, opened: BOOLEAN]

NoPoll == [pc |-> "idle", rows |-> None]
Off == [pc |-> "off", ticked |-> FALSE]

StatusInit ==
    /\ status = [s \in Servers |-> "new"]
    /\ seen = [s \in Servers |-> "never"]
    /\ kept = [s \in Servers |-> FALSE]
    /\ old = FALSE
    /\ stream = Off /\ batch = None
    /\ poll = NoPoll
    /\ view = [s \in Servers |-> None]
    /\ page = [visible |-> FALSE, opened |-> FALSE]

-----------------------------------------------------------------------------
(* The writers of servers.status. *)

Row(s) == status[s] \in Shown

Keep(s, new) == IF status[s] = "maintenance" THEN "maintenance" ELSE new

Set(s, new) == status' = [status EXCEPT ![s] = new]

(* A request for maintenance, or one that ends it. *)
Order(s, on) == kept' = [kept EXCEPT ![s] = on]

Enroll(s) ==
    /\ status[s] = "new"
    /\ Set(s, "unknown")
    /\ UNCHANGED <<seen, kept, streamVars, pageVars>>

(* A heartbeat, or a sample, which does not look at incidents. *)
Seen(s, verdict) ==
    /\ Row(s)
    /\ Set(s, Keep(s, verdict))
    /\ seen' = [seen EXCEPT ![s] = "recent"]
    /\ UNCHANGED <<kept, streamVars, pageVars>>

(* syncServerStatus of the alert engine. *)
Sync(s, verdict) ==
    /\ Row(s)
    /\ Set(s, Keep(s, CASE seen[s] = "never" -> "unknown"
                        [] seen[s] = "old" -> "offline"
                        [] OTHER -> verdict))
    /\ UNCHANGED <<seen, kept, streamVars, pageVars>>

Overdue_Any(s) == seen[s] = "old" /\ Row(s) /\ status[s] # "unknown"
Overdue(s) == seen[s] = "old" /\ Row(s) /\ status[s] \notin {"maintenance", "unknown"}

MarkOffline ==
    /\ status' = [s \in Servers |-> IF Overdue(s) THEN "offline" ELSE status[s]]
    /\ UNCHANGED <<seen, kept, streamVars, pageVars>>

SetMaintenance(s, on) ==
    /\ Row(s)
    /\ Set(s, IF on THEN "maintenance" ELSE IF seen[s] = "recent" THEN "online" ELSE "offline")
    /\ Order(s, on)
    /\ UNCHANGED <<seen, streamVars, pageVars>>

(* Disconnect, and UnregisterAgent, write over anything. *)
Disconnect(s) ==
    /\ Row(s)
    /\ Set(s, "offline") /\ Order(s, FALSE)
    /\ UNCHANGED <<seen, streamVars, pageVars>>

Delete(s) ==
    /\ Row(s)
    /\ Set(s, "gone") /\ Order(s, FALSE)
    /\ UNCHANGED <<seen, streamVars, pageVars>>

(* Two minutes pass. *)
Lapse(s) ==
    /\ Row(s) /\ seen[s] = "recent"
    /\ seen' = [seen EXCEPT ![s] = "old"]
    /\ UNCHANGED <<status, kept, streamVars, pageVars>>

-----------------------------------------------------------------------------
(* The CASE of List, Get and Statuses. *)

Status(s) ==
    CASE ~Row(s) -> None
      [] status[s] \in {"maintenance", "unknown"} -> status[s]
      [] Row(s) /\ status[s] \notin {"maintenance", "unknown"} ->
             IF seen[s] = "recent" THEN status[s] ELSE "offline"

List == [s \in Servers |-> Status(s)]
Statuses_Raw == [s \in Servers |-> IF Row(s) THEN status[s] ELSE None]
Statuses == List

-----------------------------------------------------------------------------
(* events: a batch at once and one for each tick, until the token expires. *)

(* The page asks for a stream once for each token that it gets. *)
Opens ==
    /\ ~page.opened
    /\ page' = [page EXCEPT !.opened = TRUE]
    /\ stream' = IF old THEN Off ELSE [pc |-> "query", ticked |-> FALSE]
    /\ UNCHANGED <<dbVars, batch, poll, view, old>>

Sends ==
    /\ stream.pc = "query" /\ batch = None
    /\ batch' = Statuses
    /\ stream' = [stream EXCEPT !.pc = "wait"]
    /\ UNCHANGED <<dbVars, pageVars>>

(* The ticker holds one tick while nobody waits for it. *)
Ticks ==
    /\ stream.pc # "off"
    /\ stream' = [stream EXCEPT !.ticked = TRUE]
    /\ UNCHANGED <<dbVars, batch, pageVars>>

(* select takes any channel that is ready. *)
GoesOn ==
    /\ stream.pc = "wait" /\ stream.ticked
    /\ stream' = [pc |-> "query", ticked |-> FALSE]
    /\ UNCHANGED <<dbVars, batch, pageVars>>

AtExpiry_WhenQuiet == old /\ ~stream.ticked
AtExpiry == old

Ends ==
    /\ stream.pc = "wait" /\ AtExpiry
    /\ stream' = Off
    /\ UNCHANGED <<dbVars, batch, pageVars>>

(* A query fails, the connection breaks or the API stops; the page does    *)
(* not open another stream for that.                                       *)
Breaks ==
    /\ stream.pc # "off"
    /\ stream' = Off /\ batch' \in {batch, None}
    /\ UNCHANGED <<dbVars, pageVars>>

-----------------------------------------------------------------------------
(* The overview page. *)

Expires ==
    /\ ~old /\ old' = TRUE
    /\ UNCHANGED <<dbVars, streamVars, poll, view, page>>

(* A batch changes the servers that the page has, and adds none. *)
Merges ==
    /\ batch # None /\ batch' = None
    /\ view' = [s \in Servers |-> IF view[s] = None \/ batch[s] = None THEN view[s]
                                  ELSE batch[s]]
    /\ UNCHANGED <<dbVars, stream, poll, page, old>>

(* Every twenty seconds, in a window that can be seen. *)
Polls ==
    /\ page.visible /\ poll.pc = "idle"
    /\ poll' = [NoPoll EXCEPT !.pc = "sent"]
    /\ UNCHANGED <<dbVars, streamVars, view, page, old>>

PollIsRead ==
    /\ poll.pc = "sent" /\ ~old
    /\ poll' = [pc |-> "read", rows |-> List]
    /\ UNCHANGED <<dbVars, streamVars, view, page, old>>

PollIsRefused ==
    /\ poll.pc = "sent" /\ old
    /\ poll' = [NoPoll EXCEPT !.pc = "refused"]
    /\ UNCHANGED <<dbVars, streamVars, view, page, old>>

(* The answer replaces what the page shows, also batches younger than it. *)
PollArrives ==
    /\ poll.pc = "read"
    /\ view' = poll.rows /\ poll' = NoPoll
    /\ UNCHANGED <<dbVars, streamVars, page, old>>

(* A refused request gets a new token and is sent again; the new token     *)
(* closes the stream of the old one.                                       *)
Refreshes ==
    /\ poll.pc = "refused"
    /\ poll' = [NoPoll EXCEPT !.pc = "sent"]
    /\ old' = FALSE /\ page' = [page EXCEPT !.opened = FALSE]
    /\ stream' = Off /\ batch' = None
    /\ UNCHANGED <<dbVars, view>>

PollFails ==
    /\ poll.pc # "idle" /\ poll' = NoPoll
    /\ UNCHANGED <<dbVars, streamVars, view, page, old>>

Hides ==
    /\ page' = [page EXCEPT !.visible = ~@]
    /\ UNCHANGED <<dbVars, streamVars, poll, view, old>>

-----------------------------------------------------------------------------
ByOperator(s) ==
    Disconnect(s) \/ Delete(s) \/ \E on \in BOOLEAN : SetMaintenance(s, on)

StatusNext ==
    \/ \E s \in Servers :
          \/ Enroll(s) \/ Lapse(s) \/ ByOperator(s)
          \/ \E v \in Verdicts : Seen(s, v) \/ Sync(s, v)
    \/ MarkOffline
    \/ Opens \/ Sends \/ Ticks \/ GoesOn \/ Ends \/ Breaks
    \/ Expires \/ Merges
    \/ Polls \/ PollIsRead \/ PollIsRefused \/ PollArrives \/ Refreshes \/ PollFails \/ Hides

StatusSpec == StatusInit /\ [][StatusNext]_statusVars

(* The page's timer goes on, what arrives is handled, and select does not  *)
(* pass over the expiry for ever; requests may fail, but not every time,   *)
(* nor does a new token expire every time before its use.                  *)
StatusFairness ==
    /\ WF_statusVars(Sends) /\ WF_statusVars(Merges) /\ SF_statusVars(Ends)
    /\ WF_statusVars(Polls) /\ SF_statusVars(PollIsRead) /\ SF_statusVars(PollIsRefused)
    /\ SF_statusVars(PollArrives) /\ SF_statusVars(Refreshes)

StatusFairSpec == StatusSpec /\ StatusFairness

-----------------------------------------------------------------------------
(* A server is listed as in maintenance from the request that puts it      *)
(* there to the request that ends it: whatever is reported, evaluated or   *)
(* found overdue in between, in any order, and however long the server is  *)
(* silent (enrollment/service.go:185, 245, metrics/service.go:135,         *)
(* alerts/service.go:306, servers/service.go:94, 215).                     *)
MaintenanceKept == \A s \in Servers : kept[s] <=> Status(s) = "maintenance"

(* A page that stays visible comes to show the status of a server that     *)
(* stops changing, and then keeps showing it, whatever batches and polls   *)
(* overtake each other on their way, and also when the stream is gone      *)
(* (page.tsx:29-64).                                                       *)
ViewCatchesUp ==
    \A s \in Servers :
        <>[][Status(s)' = Status(s)]_statusVars /\ <>[]page.visible
            => <>[](view[s] = Status(s))

(* A stream ends after its access token expires though the client stays    *)
(* and ticks keep coming (servers/handler.go:162-168).                     *)
StreamEnds == old ~> (stream.pc = "off" \/ ~old)
=============================================================================
