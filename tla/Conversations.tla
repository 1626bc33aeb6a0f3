--------------------------- MODULE Conversations ---------------------------
(***************************************************************************)
(* Talking to people: the chat of a customer with a store                  *)
(* (chats.service.ts) and a support ticket (support.service.ts).           *)
(*                                                                         *)
(* One customer, one store and one ticket.  Message ids are handed out     *)
(* when an insert starts and become visible when it ends, so ids can show  *)
(* up out of order.  Membership does not change here; the notice to the    *)
(* other members follows the send and changes nothing.                     *)
(***************************************************************************)
EXTENDS Naturals, FiniteSets, FiniteSetsExt

CONSTANTS Talkers,      \* concurrent HTTP handlers
          PageSize,     \* messages of a page (limit, at most 15)
          MaxMessages,  \* bound: messages sent
          MaxTalks      \* bound: other requests

\* A page holds at least one message (limit is at least 1).
ASSUME ConversationsAssumption == PageSize \in Nat \ {0} /\ {MaxMessages, MaxTalks} \subseteq Nat

VARIABLES threads,   \* ChatConversation rows of this customer and store
          sent,      \* ids of the messages that can be read
          lastId,    \* last id handed out
          latest,    \* lastMessageAt, as the id of the message it comes from
          talker,    \* what each handler has read and does next
          reader,    \* a member who pages back through the messages
          ticket,    \* the SupportTicket row
          talks,     \* other requests so far (bound)
          overlaps   \* history: which steps of two handlers overlapped

conversationVars == <<threads, sent, lastId, latest, talker, reader, ticket, talks, overlaps>>

Silent == [step |-> "silent", id |-> 0, late |-> FALSE]
\* `start' is what could be read when the paging began, `twice' what came back
\* a second time.
NoReader == [cursor |-> 0, start |-> {}, seen |-> {}, twice |-> {}, state |-> "none"]

ConversationsInit ==
  /\ threads = 0 /\ sent = {} /\ lastId = 0 /\ latest = 0
  /\ talker = [t \in Talkers |-> Silent]
  /\ reader = NoReader
  /\ ticket = "none"
  /\ talks = 0 /\ overlaps = {}

Say(t, rec) == talker[t] = Silent /\ talker' = [talker EXCEPT ![t] = rec]
Hush(t) == talker' = [talker EXCEPT ![t] = Silent]
Talk == talks < MaxTalks /\ talks' = talks + 1
During(t, step) == \E u \in Talkers \ {t} : talker[u].step = step

-----------------------------------------------------------------------------
(* Chats.                                                                  *)

FaultyFound == FALSE
\* create looks for the conversation first.
Found == threads > 0

CreateChatRead(t) ==
  /\ Talk
  /\ IF Found THEN UNCHANGED talker ELSE Say(t, [Silent EXCEPT !.step = "open"])
  /\ UNCHANGED <<threads, sent, lastId, latest, reader, ticket, overlaps>>

CreateChat(t) ==
  /\ talker[t].step = "open"
  /\ threads' = threads + 1
  /\ overlaps' = IF During(t, "open") THEN overlaps \cup {"open"} ELSE overlaps
  /\ Hush(t)
  /\ UNCHANGED <<sent, lastId, latest, reader, ticket, talks>>

\* send, after assertMember: the insert takes the next id ...
SendStart(t) ==
  /\ threads > 0 /\ lastId < MaxMessages
  /\ lastId' = lastId + 1
  /\ Say(t, [Silent EXCEPT !.step = "insert", !.id = lastId'])
  /\ UNCHANGED <<threads, sent, latest, reader, ticket, talks, overlaps>>

\* ... and ends ...
SendInsert(t) ==
  /\ talker[t].step = "insert"
  /\ sent' = sent \cup {talker[t].id}
  /\ talker' = [talker EXCEPT ![t].step = "touch"]
  /\ UNCHANGED <<threads, lastId, latest, reader, ticket, talks, overlaps>>

FaultyTouched(id) == latest
Touched(id) == id

\* ... and the conversation takes the time of this message, newest or not.
SendTouch(t) ==
  /\ talker[t].step = "touch"
  /\ latest' = Touched(talker[t].id)
  /\ overlaps' = IF During(t, "insert") \/ During(t, "touch") THEN overlaps \cup {"send"} ELSE overlaps
  /\ Hush(t)
  /\ UNCHANGED <<threads, sent, lastId, reader, ticket, talks>>

\* messages: the newest PageSize below the cursor (0: from the end).
Below(cursor) == {m \in sent : cursor = 0 \/ m < cursor}
Page(cursor) ==
  {m \in Below(cursor) : Cardinality({n \in Below(cursor) : n > m}) < PageSize}

FaultyNextCursor(page) == Max(page)
\* items[0] once the page has been turned around: the oldest message.
NextCursor(page) == Min(page)

Messages ==
  /\ reader.state # "done" /\ threads > 0
  /\ LET page == Page(reader.cursor)
         full == Cardinality(page) = PageSize IN
     reader' = [cursor |-> IF full THEN NextCursor(page) ELSE 0,
                start  |-> IF reader.state = "none" THEN sent ELSE reader.start,
                seen   |-> reader.seen \cup page,
                twice  |-> reader.twice \cup (reader.seen \cap page),
                state  |-> IF full THEN "more" ELSE "done"]
  /\ UNCHANGED <<threads, sent, lastId, latest, talker, ticket, talks, overlaps>>

-----------------------------------------------------------------------------
(* Support tickets.                                                        *)

\* Opened by a customer, or by a rider about a delivery of theirs.
CreateSupportTicket ==
  /\ ticket = "none" /\ ticket' = "OPEN"
  /\ UNCHANGED <<threads, sent, lastId, latest, talker, reader, talks, overlaps>>
CreateRiderTicket == CreateSupportTicket

FaultyReplyable == ticket # "none"
\* reply: "Support ticket is closed."
Replyable == ticket \notin {"none", "CLOSED"}

ReplyRead(t) ==
  /\ Replyable /\ Talk
  /\ Say(t, [Silent EXCEPT !.step = "reply"])
  /\ UNCHANGED <<threads, sent, lastId, latest, reader, ticket, overlaps>>

\* The reply is stored, then the status, without a second look.
Reply(t) ==
  /\ talker[t].step = "reply"
  /\ ticket' = "OPEN"
  /\ Hush(t)
  /\ UNCHANGED <<threads, sent, lastId, latest, reader, talks, overlaps>>

\* updateTicket by staff: to any status.
UpdateTicket(status) ==
  /\ ticket # "none" /\ Talk
  /\ ticket' = status
  /\ talker' = [t \in Talkers |-> IF talker[t].step = "reply" /\ status = "CLOSED"
                                  THEN [talker[t] EXCEPT !.late = TRUE] ELSE talker[t]]
  /\ UNCHANGED <<threads, sent, lastId, latest, reader, overlaps>>

\* adminReply: also on a closed ticket.
AdminReply ==
  /\ ticket # "none" /\ Talk
  /\ ticket' = "IN_PROGRESS"
  /\ UNCHANGED <<threads, sent, lastId, latest, talker, reader, overlaps>>

ConversationsNext ==
  \/ \E t \in Talkers :
       \/ CreateChatRead(t) \/ CreateChat(t)
       \/ SendStart(t) \/ SendInsert(t) \/ SendTouch(t)
       \/ ReplyRead(t) \/ Reply(t)
  \/ Messages
  \/ CreateSupportTicket \/ CreateRiderTicket \/ AdminReply
  \/ \E status \in {"OPEN", "RESOLVED", "CLOSED"} : UpdateTicket(status)

ConversationsSpec == ConversationsInit /\ [][ConversationsNext]_conversationVars

-----------------------------------------------------------------------------
(* Properties.                                                             *)

\* Paging back with nextCursor while others write shows every message that
\* was there when the paging began, and none of them twice.
PagingIsComplete ==
  /\ reader.twice = {}
  /\ reader.state = "done" => reader.start \subseteq reader.seen

\* The list of chats is sorted by lastMessageAt: at rest that is the newest
\* message, unless two messages were being written at the same time.
ListShowsNewest ==
  (\A t \in Talkers : talker[t].step \notin {"insert", "touch"}) =>
    "send" \in overlaps \/ sent = {} \/ latest = Max(sent)

\* create returns the existing conversation: a customer has a second one with
\* the same store only if two requests looked for the first before either
\* wrote it.
OneConversation == threads > 1 => "open" \in overlaps

\* "Support ticket is closed": a customer's message reopens a closed ticket
\* only if it was accepted before the ticket was closed.
ClosedTicketStays ==
  ticket = "CLOSED" /\ ticket' = "OPEN" =>
    (talks' # talks \/ \E t \in Talkers : talker[t].late /\ talker'[t] = Silent)

\* No message, page, new chat or ticket reply disturbs what others read and
\* decided, beyond the overlaps named above.
ConversationsAreSound ==
  [][ClosedTicketStays /\ PagingIsComplete' /\ ListShowsNewest' /\ OneConversation']_conversationVars
=============================================================================
