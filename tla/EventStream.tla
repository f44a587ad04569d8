---------------------------- MODULE EventStream ----------------------------
(***************************************************************************)
(* What a user is told of: notifications (shared/notifications.py) and the *)
(* leads of his shop (dead_stock_app/views/leads.py and its signal), each a *)
(* row and then a message on the user's Redis channel; the event stream    *)
(* that reads the channel (shared/views/sse_views.py); and what his client *)
(* asks of the rows (notification_views.py).                               *)
(*                                                                         *)
(* The user has one client.  Every row commits by itself.  Redis keeps no  *)
(* message of a channel: who is not subscribed misses it.                  *)
(***************************************************************************)
EXTENDS Naturals, Sequences, SequencesExt

CONSTANTS
  Notices,     \* bound: notifications of the user
  Leads,       \* bound: leads of his shop
  InboxLimit,  \* LeadInboxView shows so many leads, 100
  StreamLimit  \* bound: times the client opens the stream or loses it

ASSUME InboxAssumption == InboxLimit \in Nat \ {0} /\ Notices \cap Leads = {}

VARIABLES
  sent,    \* where the sender of each notification or lead is
  notices, \* rows of the notifications
  seen,    \* those of them marked seen
  leads,   \* rows of the leads, oldest first
  stream,  \* the stream of the client, and what waits in its subscription
  gap,     \* the subscription of the stream was lost and perhaps taken again
  knows,   \* what the client was ever shown
  listed,  \* the lists it fetched since it opened its stream
  editing,  \* a PATCH between its read and its write
  marked,  \* notifications that a bulk request marked seen, the last of them
  patched  \* notifications that were saved by a PATCH

eventVars == <<sent, notices, seen, leads, stream, gap, knows, listed, editing, marked,
               patched>>

-----------------------------------------------------------------------------
NoStream == [at |-> "closed", queue |-> <<>>, used |-> 0]
NoSaving == [of |-> {}, seen |-> FALSE]

EventsInit ==
  /\ sent = [e \in Notices \cup Leads |-> "idle"]
  /\ notices = {} /\ seen = {} /\ leads = <<>>
  /\ stream = NoStream /\ gap = FALSE /\ knows = {} /\ listed = {}
  /\ editing = NoSaving /\ marked = {} /\ patched = {}

SentTo(e, label) == sent' = [sent EXCEPT ![e] = label]

-----------------------------------------------------------------------------
(* The senders                                                             *)

InsertNotice(e) ==
  /\ e \in Notices /\ sent[e] = "idle"
  /\ notices' = notices \cup {e}
  /\ SentTo(e, "inserted")
  /\ UNCHANGED <<seen, leads, stream, gap, knows, listed, editing, marked, patched>>

\* A lead may be refused: no such shop, an item of another, no phone.
InsertLead(e) ==
  /\ e \in Leads /\ sent[e] = "idle"
  /\ \/ leads' = Append(leads, e) /\ SentTo(e, "inserted")
     \/ SentTo(e, "refused") /\ UNCHANGED leads
  /\ UNCHANGED <<notices, seen, stream, gap, knows, listed, editing, marked, patched>>

\* The message of an event on the user's channel.
Deliver(e) ==
  stream' = IF stream.at = "open" THEN [stream EXCEPT !.queue = Append(@, e)] ELSE stream

\* Mutant: what is not committed, and then is not, has been published.
PublishUncommitted(e) ==
  /\ sent[e] \in {"idle", "inserted"}
  /\ SentTo(e, "published")
  /\ Deliver(e)
  /\ UNCHANGED <<notices, seen, leads, gap, knows, listed, editing, marked, patched>>

Publish(e) ==
  /\ sent[e] = "inserted"
  /\ SentTo(e, "published")
  /\ Deliver(e)
  /\ UNCHANGED <<notices, seen, leads, gap, knows, listed, editing, marked, patched>>

\* Redis fails, or the process dies.  A notification's sender gets the exception;
\* that of a lead is caught, and the buyer is answered as ever.
FailPublish(e) ==
  /\ sent[e] = "inserted"
  /\ SentTo(e, "unpublished")
  /\ UNCHANGED <<notices, seen, leads, stream, gap, knows, listed, editing, marked,
                 patched>>

-----------------------------------------------------------------------------
(* The stream                                                              *)

OpenStream ==
  /\ stream.at = "closed" /\ stream.used < StreamLimit
  /\ stream' = [at |-> "open", queue |-> <<>>, used |-> stream.used + 1]
  /\ UNCHANGED <<sent, notices, seen, leads, gap, knows, listed, editing, marked, patched>>

ReceiveEvent ==
  /\ stream.queue # <<>>
  /\ knows' = knows \cup {Head(stream.queue)}
  /\ stream' = [stream EXCEPT !.queue = Tail(@)]
  /\ UNCHANGED <<sent, notices, seen, leads, gap, listed, editing, marked, patched>>

\* The connection to Redis is lost: get_message raises and the stream ends, or
\* it connects and subscribes again while the client sees heartbeats.
DropSubscription ==
  /\ stream.at = "open" /\ stream.used < StreamLimit
  /\ stream' = [at |-> "dropped", queue |-> <<>>, used |-> stream.used + 1]
  /\ gap' = TRUE
  /\ UNCHANGED <<sent, notices, seen, leads, knows, listed, editing, marked, patched>>

SubscribeAgain ==
  /\ stream.at = "dropped"
  /\ stream' = [stream EXCEPT !.at = "open"]
  /\ UNCHANGED <<sent, notices, seen, leads, gap, knows, listed, editing, marked, patched>>

EndStream ==
  /\ stream.at \in {"open", "dropped"}
  /\ stream' = [stream EXCEPT !.at = "closed", !.queue = <<>>]
  /\ gap' = FALSE /\ listed' = {}
  /\ UNCHANGED <<sent, notices, seen, leads, knows, editing, marked, patched>>

-----------------------------------------------------------------------------
(* The client                                                              *)

ListNotices ==
  /\ knows' = knows \cup notices
  /\ listed' = IF stream.at = "closed" THEN {} ELSE listed \cup {"notices"}
  /\ UNCHANGED <<sent, notices, seen, leads, stream, gap, editing, marked, patched>>

Inbox == {leads[i] : i \in {j \in DOMAIN leads : j + InboxLimit > Len(leads)}}

ListLeads ==
  /\ knows' = knows \cup Inbox
  /\ listed' = IF stream.at = "closed" THEN {} ELSE listed \cup {"leads"}
  /\ UNCHANGED <<sent, notices, seen, leads, stream, gap, editing, marked, patched>>

\* POST makes a row like any other, and publishes nothing.
PostNotice(e) ==
  /\ e \in Notices /\ sent[e] = "idle"
  /\ SentTo(e, "posted")
  /\ notices' = notices \cup {e} /\ knows' = knows \cup {e}
  /\ UNCHANGED <<seen, leads, stream, gap, listed, editing, marked, patched>>

\* The bulk request.  An empty list of ids is as good as none: all rows are meant.
Bulk ==
  \E ids \in SUBSET (knows \cap Notices), value \in BOOLEAN :
    LET meant == IF ids = {} THEN notices ELSE notices \cap ids
    IN /\ seen' = IF value THEN seen \cup meant ELSE seen \ meant
       /\ marked' = IF value THEN marked \cup meant ELSE marked \ meant
       /\ UNCHANGED <<sent, notices, leads, stream, gap, knows, listed, editing, patched>>

ReadForSaving ==
  /\ editing.of = {}
  /\ \E e \in notices \cap knows : editing' = [of |-> {e}, seen |-> e \in seen]
  /\ UNCHANGED <<sent, notices, seen, leads, stream, gap, knows, listed, marked, patched>>

\* A PATCH of another field saves the whole row as it was read; a row deleted
\* meanwhile is inserted again.
SaveNotice ==
  /\ editing.of # {}
  /\ notices' = notices \cup editing.of
  /\ seen' = IF editing.seen THEN seen \cup editing.of ELSE seen \ editing.of
  /\ patched' = patched \cup editing.of
  /\ editing' = NoSaving
  /\ UNCHANGED <<sent, leads, stream, gap, knows, listed, marked>>

DeleteNotice ==
  /\ \E e \in notices \cap knows :
       notices' = notices \ {e} /\ seen' = seen \ {e} /\ marked' = marked \ {e}
  /\ UNCHANGED <<sent, leads, stream, gap, knows, listed, editing, patched>>

EventsNext ==
  \/ \E e \in Notices \cup Leads :
       InsertNotice(e) \/ InsertLead(e) \/ Publish(e) \/ FailPublish(e) \/ PostNotice(e)
  \/ OpenStream \/ ReceiveEvent \/ DropSubscription \/ SubscribeAgain \/ EndStream
  \/ ListNotices \/ ListLeads \/ Bulk \/ ReadForSaving \/ SaveNotice \/ DeleteNotice

EventsSpec == EventsInit /\ [][EventsNext]_eventVars

-----------------------------------------------------------------------------
Listed(e) == (IF e \in Notices THEN "notices" ELSE "leads") \in listed

\* A client that opens its stream and then fetches its lists misses no event that
\* was published, however the two interleave with the senders, as long as the
\* subscription is not lost: only an old lead that the inbox leaves out.  No lead
\* is announced that is not there.  And a notification that was marked seen is
\* shown unseen again only if a PATCH saved it.
EventsReachClient ==
  /\ stream.at = "open" /\ ~gap =>
       \A e \in Notices \cup Leads : sent[e] = "published" /\ Listed(e) =>
         \/ e \in knows \cup ToSet(stream.queue)
         \/ e \in ToSet(leads) \ Inbox
  /\ \A e \in Leads \cap (knows \cup ToSet(stream.queue)) : e \in ToSet(leads)
  /\ marked \cap notices \subseteq seen \cup patched
=============================================================================
