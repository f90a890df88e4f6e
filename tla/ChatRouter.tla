----------------------------- MODULE ChatRouter -----------------------------
(***************************************************************************)
(* A message's way from the messenger to an agent run: the Telegram        *)
(* adapter's poll loop (agent/channels/telegram.py), ChannelRouter's       *)
(* commands, pairing and per-chat queue (agent/channels/router.py), the    *)
(* tables behind them (agent/channels/store.py) and the endpoints that     *)
(* issue codes and revoke bindings (agent/main.py).  The cards of a run    *)
(* are in Confirmations, its life in RunRegistry.                          *)
(*                                                                         *)
(* Telegram accepts private chats only, so a person is a chat.             *)
(***************************************************************************)
EXTENDS Integers, FiniteSets, SequencesExt

CONSTANTS
    People,         \* external accounts that write to the bot
    BoundUsers,          \* NimoOS users
    MaxPending,     \* MAX_PENDING
    MaxSent,        \* bound on messages people send
    MaxCodes,       \* bound on pairing codes issued
    MaxRevokes,     \* bound on revocations
    MaxSessions,    \* bound on sessions created
    MaxBoots        \* bound on restarts of the adapter

Codes    == 1..MaxCodes
ChatSessions == 1..MaxSessions
\* A "file" is a photo or document without a caption.
Said     == [person : People, what : {"text", "file", "new", "stop"}, code : {0}]
            \cup [person : People, what : {"pair"}, code : Codes]

VARIABLES
    sent,       \* every message ever sent; its index is its update_id
    confirmed,  \* update ids the server has dropped: those up to this one
    nextId,     \* TelegramAdapter._offset: the next id it will ask for
    batch,      \* ids of the poll's answer not yet looked at
    hand,       \* the id being turned into a message, 0 for none
    code,       \* [Codes -> Code]: channel_pairing_codes
    bind,       \* [People -> BoundUsers \cup {"none"}]: live channel_bindings
    chat,       \* [People -> ChatSessions \cup {0}]: channel_chats
    owner,      \* [ChatSessions -> BoundUsers \cup {"none"}]: sessions rows
    queue,      \* [People -> Seq(Handler)]: handlers in the chat's lock, in order
    pending,    \* [People -> Nat]: ChannelRouter._pending
    run,        \* sessions whose run is alive
    boots, revokes,
    handled,    \* ghost: ids given to the router
    unread,     \* ghost: ids given up since their file could not be downloaded
    redeemed,   \* ghost: [Codes -> SUBSET People]: who paired with a code
    ran         \* ghost: <<person, user>> for whom a run was started

chatVars == <<sent, confirmed, nextId, batch, hand, code, bind, chat, owner, queue,
              pending, run, boots, revokes, handled, unread, redeemed, ran>>
platform == <<sent, confirmed, nextId, batch, hand, boots, handled, unread>>
tables   == <<code, bind, redeemed, revokes>>

\* "live": usable; "used" and "late" (expired) are not.
NoCode == [user |-> "none", state |-> "none"]
Ids    == 1..Len(sent)

ChatInit ==
    /\ sent = <<>> /\ confirmed = 0 /\ nextId = 0 /\ batch = <<>> /\ hand = 0
    /\ code = [c \in Codes |-> NoCode]
    /\ bind = [p \in People |-> "none"] /\ chat = [p \in People |-> 0]
    /\ owner = [s \in ChatSessions |-> "none"]
    /\ queue = [p \in People |-> <<>>] /\ pending = [p \in People |-> 0]
    /\ run = {} /\ boots = 0 /\ revokes = 0
    /\ handled = {} /\ unread = {} /\ redeemed = [c \in Codes |-> {}] /\ ran = {}

(***************************************************************************)
(* The messenger and the poll loop.                                        *)
(***************************************************************************)
SayTo(m) ==
    /\ Len(sent) < MaxSent
    /\ m.code # 0 => code[m.code] # NoCode
    /\ sent' = Append(sent, m)
    /\ UNCHANGED <<confirmed, nextId, batch, hand, chat, owner, queue, pending, run,
                   boots, handled, unread, ran>>
    /\ UNCHANGED tables

\* getUpdates: the nextId confirms every earlier id, the rest is the answer.
Poll ==
    /\ batch = <<>> /\ hand = 0
    /\ LET gone == IF nextId = 0 THEN confirmed ELSE nextId - 1 IN
       /\ gone < Len(sent)
       /\ confirmed' = gone
       /\ batch' = [k \in 1..(Len(sent) - gone) |-> gone + k]
    /\ UNCHANGED <<sent, nextId, hand, chat, owner, queue, pending, run, boots,
                   handled, unread, ran>>
    /\ UNCHANGED tables

\* The loop takes the next update: its id is passed before the message is built,
\* of which downloading a file is a part.
Take ==
    /\ batch # <<>> /\ hand = 0
    /\ hand' = Head(batch) /\ batch' = Tail(batch)
    /\ nextId' = IF Head(batch) + 1 > nextId THEN Head(batch) + 1 ELSE nextId
    /\ UNCHANGED <<sent, confirmed, chat, owner, queue, pending, run, boots, handled, unread, ran>>
    /\ UNCHANGED tables

\* _extract_attachments gives up a file that cannot be had or is too large, and a
\* message that has neither file nor text is none: it is passed over.
DownloadFails ==
    /\ hand # 0 /\ sent[hand].what = "file"
    /\ hand' = 0 /\ unread' = unread \cup {hand}
    /\ UNCHANGED <<sent, confirmed, nextId, batch, chat, owner, queue, pending, run, boots,
                   handled, ran>>
    /\ UNCHANGED tables

OffsetKept == nextId

\* A new adapter object asks from the start: the server still has what was
\* never confirmed.
OffsetFresh == 0

\* The adapter is stopped, wherever its loop is, and one is started anew; the
\* handlers it has spawned go on.
AdapterRestarts ==
    /\ boots < MaxBoots /\ boots' = boots + 1
    /\ nextId' = OffsetFresh /\ batch' = <<>> /\ hand' = 0
    /\ UNCHANGED <<sent, confirmed, chat, owner, queue, pending, run, handled, unread, ran>>
    /\ UNCHANGED tables

(***************************************************************************)
(* ChannelRouter._handle: everything up to its first await.                *)
(***************************************************************************)
RedeemedAgain(c) == code
Redeemed(c) == [code EXCEPT ![c].state = "used"]

\* /pair: an unused, unexpired code binds the sender to the user who asked for
\* it, whatever the sender was bound to.
CmdPair(p, c) ==
    /\ IF code[c].state = "live"
       THEN /\ code' = Redeemed(c)
            /\ bind' = [bind EXCEPT ![p] = code[c].user]
            /\ redeemed' = [redeemed EXCEPT ![c] = @ \cup {p}]
       ELSE UNCHANGED <<code, bind, redeemed>>
    /\ UNCHANGED <<chat, owner, queue, pending, run>>

FreeSession == CHOOSE s \in ChatSessions : owner[s] = "none"
HasRoom     == \E s \in ChatSessions : owner[s] = "none"

CmdNew(p) ==
    /\ HasRoom
    /\ owner' = [owner EXCEPT ![FreeSession] = bind[p]]
    /\ chat' = [chat EXCEPT ![p] = FreeSession]
    /\ UNCHANGED <<code, bind, redeemed, queue, pending, run>>

\* /stop cancels the run of the chat's session; it does not wait for the lock.
CmdStop(p) ==
    /\ run' = run \ {chat[p]}
    /\ UNCHANGED <<code, bind, redeemed, chat, owner, queue, pending>>

\* _run_serialized: refused when the chat has MaxPending messages in hand, else
\* the handler waits for the chat's lock with the binding it has just read.
RunSerialized(p) ==
    /\ IF pending[p] >= MaxPending THEN UNCHANGED <<pending, queue>>
       ELSE /\ pending' = [pending EXCEPT ![p] = @ + 1]
            /\ queue' = [queue EXCEPT ![p] = Append(@, [user |-> bind[p], at |-> "waits",
                                                        session |-> 0])]
    /\ UNCHANGED <<code, bind, redeemed, chat, owner, run>>

\* The update reaches the router in a task of its own; its handler runs to its
\* first await.  An unpaired sender gets a hint, at most every ten minutes.
Dispatch ==
    /\ hand # 0
    /\ hand' = 0 /\ handled' = handled \cup {hand}
    /\ LET p == sent[hand].person   w == sent[hand].what IN
       \/ w = "pair" /\ CmdPair(p, sent[hand].code)
       \/ /\ w # "pair" /\ bind[p] = "none"
          /\ UNCHANGED <<code, bind, redeemed, chat, owner, queue, pending, run>>
       \/ w = "new" /\ bind[p] # "none" /\ CmdNew(p)
       \/ w = "stop" /\ bind[p] # "none" /\ CmdStop(p)
       \/ w \in {"text", "file"} /\ bind[p] # "none" /\ RunSerialized(p)
    /\ UNCHANGED <<sent, confirmed, nextId, batch, boots, revokes, unread, ran>>

(***************************************************************************)
(* The chat's queue: only the first handler holds the lock.                *)
(***************************************************************************)
AtHead(p, at) == queue[p] # <<>> /\ Head(queue[p]).at = at
Steps(p, h)   == queue' = [queue EXCEPT ![p] = <<h>> \o Tail(@)]

ReleaseIfDone(p) == pending' = IF Head(queue[p]).at = "driving"
                               THEN [pending EXCEPT ![p] = @ - 1] ELSE pending

\* The finally clause; it runs when _process raises, too.
Release(p) == pending' = [pending EXCEPT ![p] = @ - 1]

\* _process begins: with a model chosen it asks for the credentials.
ProcessBegins(p) ==
    /\ AtHead(p, "waits")
    /\ Steps(p, [Head(queue[p]) EXCEPT !.at = "creds"])
    /\ UNCHANGED <<chat, owner, pending, run, ran>>
    /\ UNCHANGED platform /\ UNCHANGED tables

\* The chat row is read, or made with a new session of the binding's user; the
\* attachments are saved and the run starts in that session.
ProcessRuns(p) ==
    LET h == Head(queue[p])
        s == IF chat[p] # 0 THEN chat[p] ELSE FreeSession IN
    /\ AtHead(p, "creds") /\ (chat[p] = 0 => HasRoom)
    /\ owner' = IF chat[p] = 0 THEN [owner EXCEPT ![s] = h.user] ELSE owner
    /\ chat' = [chat EXCEPT ![p] = s]
    /\ run' = run \cup {s}
    /\ Steps(p, [h EXCEPT !.at = "driving", !.session = s])
    /\ ran' = ran \cup {<<p, h.user>>}
    /\ UNCHANGED pending
    /\ UNCHANGED platform /\ UNCHANGED tables

\* The handler is over: no model, no credentials, nothing to run, an exception
\* from the adapter (a closed client), the run's end, or the driver's deadline,
\* which leaves the run going.
ProcessEnds(p) ==
    /\ queue[p] # <<>>
    /\ queue' = [queue EXCEPT ![p] = Tail(@)]
    /\ Release(p)
    /\ UNCHANGED <<chat, owner, run, ran>>
    /\ UNCHANGED platform /\ UNCHANGED tables

RunEnds(s) ==
    /\ s \in run /\ run' = run \ {s}
    /\ UNCHANGED <<chat, owner, queue, pending, ran>>
    /\ UNCHANGED platform /\ UNCHANGED tables

(***************************************************************************)
(* The settings page.                                                      *)
(***************************************************************************)
IssueCode(u) ==
    /\ \E c \in Codes :
         /\ code[c] = NoCode /\ \A d \in 1..(c - 1) : code[d] # NoCode
         /\ code' = [code EXCEPT ![c] = [user |-> u, state |-> "live"]]
    /\ UNCHANGED <<bind, redeemed, revokes, chat, owner, queue, pending, run, ran>>
    /\ UNCHANGED platform

\* PAIRING_TTL_MS passes.
CodeExpires(c) ==
    /\ code[c].state = "live"
    /\ code' = [code EXCEPT ![c].state = "late"]
    /\ UNCHANGED <<bind, redeemed, revokes, chat, owner, queue, pending, run, ran>>
    /\ UNCHANGED platform

RevokeBinding(u, p) ==
    /\ bind[p] = u /\ revokes < MaxRevokes
    /\ revokes' = revokes + 1
    /\ bind' = [bind EXCEPT ![p] = "none"]
    /\ UNCHANGED <<code, redeemed, chat, owner, queue, pending, run, ran>>
    /\ UNCHANGED platform

ChatNext ==
    \/ \E m \in Said : SayTo(m)
    \/ Poll \/ Take \/ DownloadFails \/ Dispatch \/ AdapterRestarts
    \/ \E p \in People : ProcessBegins(p) \/ ProcessRuns(p) \/ ProcessEnds(p)
    \/ \E s \in ChatSessions : RunEnds(s)
    \/ \E u \in BoundUsers : IssueCode(u) \/ \E p \in People : RevokeBinding(u, p)
    \/ \E c \in Codes : CodeExpires(c)

(***************************************************************************)
(* Properties.                                                             *)
(***************************************************************************)
\* A run is only ever started for a user whose pairing code its sender has
\* redeemed, and a code pairs one account, whatever is queued, re-paired,
\* revoked, delivered twice or typed by several people.
RunsForThePaired ==
    /\ \A x \in ran : \E c \in Codes : code[c].user = x[2] /\ x[1] \in redeemed[c]
    /\ \A c \in Codes : Cardinality(redeemed[c]) <= 1

\* No message with a text is lost between the messenger and the router: an update
\* the server may forget has been handled, wherever the adapter was restarted.  A
\* file without a caption is lost if its download fails, and only then: the offset
\* has passed it (telegram.py, _poll_once and _extract_attachments).
NoUpdateLost ==
    \A n \in 1..confirmed : n \in handled \/ (sent[n].what = "file" /\ n \in unread)

\* The counter that makes a chat refuse messages is exact: a chat whose handlers
\* have ended, by whatever exception, is never left refusing.
PendingExact == \A p \in People : pending[p] = Len(queue[p])

\* A message is handled, refused, or a file that could not be had; and it is
\* refused only while the chat is full.
NoMessageLost == NoUpdateLost /\ PendingExact
=============================================================================
