------------------------------- MODULE Server -------------------------------
(****************************************************************************)
(* The server: one worker thread per connection (server.py), each serving   *)
(* one request (request_handler.py) with calls to the two managers that all *)
(* workers share (client_manager.py, message_manager.py).                   *)
(*                                                                          *)
(* A worker is inside one do_sql call at a time, and steps of workers       *)
(* interleave at these calls.  What a call may do is the contract of module *)
(* SqlStore, which module Manager implements: a write takes effect or not,  *)
(* at one instant, and any write may be refused (full disk, locked file,    *)
(* duplicate key).  Only when calls of one manager overlap may a lookup     *)
(* raise, a write report success for nothing, or raise after all (Manager:  *)
(* UndisturbedExact).                                                       *)
(*                                                                          *)
(* uuid4 is taken not to repeat: the client that worker w registers has id  *)
(* w.  A message stands for its content: `by' is the worker that stored it, *)
(* or the founder an old message came from.                                 *)
(****************************************************************************)
EXTENDS FiniteSets

CONSTANTS
  Workers,    \* the connections accepted, over all lives of the server
  Founders,   \* clients that were registered earlier
  Names,
  MsgIds,
  Draws,      \* Draws[w]: the message ids random.randint may give worker w
  OldMail,    \* messages that earlier runs may have left in server.db
  Asked,      \* the requests clients send
  NoReply, NoMsg, NoReq

Ids == Workers \cup Founders

\* Everything that can ever be in table messages.
Messages == OldMail \cup {m \in [id : MsgIds, to : Ids, by : Workers] : m.id \in Draws[m.by]}

Requests ==
  [code : {"register"}, name : Names]
    \cup [code : {"list", "send", "key", "fetch"}, who : Ids]

\* The codes of responses: 2000 to 2004 and 9000 (response.py).
Codes == {"registered", "list", "sent", "key", "mail", "error"}

ASSUME ServerAssumption ==
  /\ Workers \cap Founders = {}
  /\ Asked \subseteq Requests
  /\ Draws \in [Workers -> SUBSET MsgIds]
  /\ OldMail \subseteq [id : MsgIds, to : Founders, by : Founders]
  /\ \A m, n \in OldMail : m.id = n.id => m = n
  /\ NoMsg \notin Messages
  /\ NoReq \notin Requests
  /\ NoReply \notin Codes

VARIABLES
  clients,    \* table clients: records of id and name
  messages,   \* table messages
  pc,         \* the do_sql call each worker is in, or where it is between
  req,        \* the request it serves
  disturbed,  \* whether its call overlaps another call of the same manager
  rows,       \* messages its fetch has selected and not copied yet
  cur,        \* the message it has copied and is deleting
  payload,    \* the payload of its response
  reply,      \* the code of its response
  before,     \* history: the workers that had ended when it got a registration
  accepted    \* history: all messages ever committed to the table

worker == <<pc, disturbed, req, rows, cur, payload, reply, before>>
vars == <<clients, messages, accepted, worker>>

ClientCalls == {"count", "exists", "add", "all", "valid", "key"}
MessageCalls == {"insert", "select", "delete"}
Ended == {"done", "dead"}
PCs == ClientCalls \cup MessageCalls \cup Ended \cup {"new", "receive", "loop", "reply"}

TypeOK ==
  /\ clients \in SUBSET [id : Ids, name : Names]
  /\ messages \in SUBSET Messages
  /\ pc \in [Workers -> PCs]
  /\ req \in [Workers -> Requests \cup {NoReq}]
  /\ disturbed \in [Workers -> BOOLEAN]
  /\ rows \in [Workers -> SUBSET Messages]
  /\ cur \in [Workers -> Messages \cup {NoMsg}]
  /\ payload \in [Workers -> SUBSET (Ids \cup Messages)]
  /\ reply \in [Workers -> Codes \cup {NoReply}]
  /\ before \in [Workers -> SUBSET Workers]
  /\ accepted \in SUBSET Messages

\* server.db as earlier runs may have left it.
Init ==
  /\ clients \in {cs \in SUBSET [id : Founders, name : Names] :
                    /\ \A f \in Founders : \E c \in cs : c.id = f
                    /\ \A c, d \in cs : c.id = d.id \/ c.name = d.name => c = d}
  /\ messages \in SUBSET OldMail
  /\ accepted = messages
  /\ pc = [w \in Workers |-> "new"]
  /\ req = [w \in Workers |-> NoReq]
  /\ disturbed = [w \in Workers |-> FALSE]
  /\ rows = [w \in Workers |-> {}]
  /\ cur = [w \in Workers |-> NoMsg]
  /\ payload = [w \in Workers |-> {}]
  /\ reply = [w \in Workers |-> NoReply]
  /\ before = [w \in Workers |-> {}]
-----------------------------------------------------------------------------
ClientIds == {c.id : c \in clients}

Named(n) == {c \in clients : c.name = n}

MailFor(id) == {m \in messages : m.to = id}

\* Both points are calls of the same manager.
Together(p, q) == {p, q} \subseteq ClientCalls \/ {p, q} \subseteq MessageCalls

\* Worker w goes on to p; if p is a call, it disturbs the calls it meets and is
\* disturbed by them.
Goto(w, p) ==
  /\ pc' = [pc EXCEPT ![w] = p]
  /\ disturbed' =
       [u \in Workers |->
         IF u = w THEN \E v \in Workers \ {w} : Together(pc[v], p)
                  ELSE disturbed[u] \/ Together(pc[u], p)]

\* The handler returns a response, which the worker has yet to send.
Respond(w, code, body) ==
  /\ Goto(w, "reply")
  /\ reply' = [reply EXCEPT ![w] = code]
  /\ payload' = [payload EXCEPT ![w] = body]
  /\ UNCHANGED <<req, rows, cur, before>>

\* An exception nobody catches: the worker ends without an answer.
Die(w) ==
  /\ Goto(w, "dead")
  /\ rows' = [rows EXCEPT ![w] = {}]
  /\ cur' = [cur EXCEPT ![w] = NoMsg]
  /\ UNCHANGED <<req, payload, reply, before>>

Proceed(w, p) ==
  /\ Goto(w, p)
  /\ UNCHANGED <<req, rows, cur, payload, reply, before>>

tables == <<clients, messages, accepted>>
-----------------------------------------------------------------------------
\* accept, spawn; the worker first counts the clients for its log.
Accept(w) ==
  /\ pc[w] = "new"
  /\ Proceed(w, "count")
  /\ UNCHANGED tables

\* number_of_clients catches what its call raises.
NumberOfClients(w) ==
  /\ pc[w] = "count"
  /\ Proceed(w, "receive")
  /\ UNCHANGED tables

FirstCall(code) ==
  CASE code = "register" -> "exists"
    [] code = "list"     -> "all"
    [] code = "send"     -> "valid"
    [] code = "key"      -> "key"
    [] OTHER             -> "select"

\* A well-formed request has arrived and is handed to its handler.
Receive(w, r) ==
  /\ pc[w] = "receive"
  /\ Goto(w, FirstCall(r.code))
  /\ req' = [req EXCEPT ![w] = r]
  /\ before' = [before EXCEPT ![w] =
                   IF r.code = "register" THEN {u \in Workers : pc[u] \in Ended} ELSE {}]
  /\ UNCHANGED <<rows, cur, payload, reply, tables>>

\* A malformed one is answered with an error before any call.
ReceiveMalformed(w) ==
  /\ pc[w] = "receive"
  /\ Respond(w, "error", {})
  /\ UNCHANGED tables

\* The client left, or a name cannot be decoded.
ReceiveNothing(w) ==
  /\ pc[w] = "receive"
  /\ Die(w)
  /\ UNCHANGED tables

\* Fault: the name is not looked up.
NameUnchecked(w) ==
  /\ pc[w] = "exists"
  /\ Proceed(w, "add")
  /\ UNCHANGED tables

\* A name that is taken is refused; decoding the public key may raise.
IsClientExist(w) ==
  /\ pc[w] = "exists"
  /\ IF Named(req[w].name) = {} THEN Proceed(w, "add") \/ Die(w) ELSE Respond(w, "error", {})
  /\ UNCHANGED tables

\* add_client swallows every exception, so the registration succeeds whatever
\* became of the INSERT.
AddClient(w) ==
  /\ pc[w] = "add"
  /\ \/ clients' = clients \cup {[id |-> w, name |-> req[w].name]}
     \/ UNCHANGED clients
  /\ Respond(w, "registered", {w})
  /\ UNCHANGED <<messages, accepted>>

\* fetch_all answers a lookup that raised with no rows.
FetchAll(w) ==
  /\ pc[w] = "all"
  /\ \/ Respond(w, "list", ClientIds \ {req[w].who})
     \/ disturbed[w] /\ Respond(w, "list", {})
  /\ UNCHANGED tables

GetPubKey(w) ==
  /\ pc[w] = "key"
  /\ Respond(w, "key", ClientIds \cap {req[w].who})
  /\ UNCHANGED tables

\* Fault: the addressee is not looked up.
IdUnchecked(w) ==
  /\ pc[w] = "valid"
  /\ Proceed(w, "insert")
  /\ UNCHANGED tables

\* A message to nobody is refused, and one with a wrong content size or type.
IsIdValid(w) ==
  /\ pc[w] = "valid"
  /\ \/ req[w].who \in ClientIds /\ Proceed(w, "insert")
     \/ Respond(w, "error", {})
  /\ UNCHANGED tables

\* is_client_exist, is_id_valid and get_pub_key catch nothing.  Rows of fetch_all
\* on a connection whose text_factory was not set yet, or was set on another one,
\* hold names that are no bytes, and __list_clients raises.
LookupRaises(w) ==
  /\ pc[w] \in {"exists", "valid", "key", "all"}
  /\ disturbed[w]
  /\ Die(w)
  /\ UNCHANGED tables

\* Fault: the first two values of the INSERT are swapped.
ValuesSwapped(w) ==
  /\ pc[w] = "insert"
  /\ \E id \in Draws[w] :
       LET m == [id |-> req[w].who, to |-> id, by |-> w]
       IN  messages' = messages \cup {m} /\ accepted' = accepted \cup {m}
  /\ Respond(w, "sent", {})
  /\ UNCHANGED clients

\* The row is committed, although the call may yet raise on its way out.
MessageStored(w) ==
  /\ pc[w] = "insert"
  /\ \E id \in Draws[w] :
       /\ \A m \in messages : m.id # id
       /\ LET m == [id |-> id, to |-> req[w].who, by |-> w]
          IN  messages' = messages \cup {m} /\ accepted' = accepted \cup {m}
  /\ \/ Respond(w, "sent", {})
     \/ disturbed[w] /\ Respond(w, "error", {})
  /\ UNCHANGED clients

\* The row is not committed: refused, or lost by a call that saw no error.
MessageNotStored(w) ==
  /\ pc[w] = "insert"
  /\ \/ Respond(w, "error", {})
     \/ disturbed[w] /\ Respond(w, "sent", {})
  /\ UNCHANGED tables

\* Fault: no WHERE clause.
FetchEverything(w) ==
  /\ pc[w] = "select"
  /\ Goto(w, "loop")
  /\ rows' = [rows EXCEPT ![w] = messages]
  /\ UNCHANGED <<req, cur, payload, reply, before, tables>>

FetchMessages(w) ==
  /\ pc[w] = "select"
  /\ Goto(w, "loop")
  /\ \/ rows' = [rows EXCEPT ![w] = MailFor(req[w].who)]
     \/ disturbed[w] /\ UNCHANGED rows
  /\ UNCHANGED <<req, cur, payload, reply, before, tables>>

\* Fault: the row is deleted first and copied when the DELETE has returned.
CopyAfterwards(w) ==
  /\ pc[w] = "loop"
  /\ \E m \in rows[w] :
       /\ rows' = [rows EXCEPT ![w] = @ \ {m}]
       /\ cur' = [cur EXCEPT ![w] = m]
       /\ payload' = [payload EXCEPT ![w] =
                        @ \cup {x \in accepted \ messages : x.to = req[w].who}]
  /\ Goto(w, "delete")
  /\ UNCHANGED <<req, reply, before, tables>>

\* The loop copies a row into the payload and then asks for its deletion.
NextMessage(w) ==
  /\ pc[w] = "loop"
  /\ \E m \in rows[w] :
       /\ rows' = [rows EXCEPT ![w] = @ \ {m}]
       /\ cur' = [cur EXCEPT ![w] = m]
       /\ payload' = [payload EXCEPT ![w] = @ \cup {m}]
  /\ Goto(w, "delete")
  /\ UNCHANGED <<req, reply, before, tables>>

\* Fault: DELETE ... WHERE ToClient = ?.
DeleteAllMail(w) ==
  /\ pc[w] = "delete"
  /\ messages' = {m \in messages : m.to # cur[w].to}
  /\ cur' = [cur EXCEPT ![w] = NoMsg]
  /\ Goto(w, "loop")
  /\ UNCHANGED <<clients, accepted, req, rows, payload, reply, before>>

\* DELETE ... WHERE ID = ?; delete_message swallows every exception.
DeleteMessage(w) ==
  /\ pc[w] = "delete"
  /\ \/ messages' = {m \in messages : m.id # cur[w].id}
     \/ UNCHANGED messages
  /\ cur' = [cur EXCEPT ![w] = NoMsg]
  /\ Goto(w, "loop")
  /\ UNCHANGED <<clients, accepted, req, rows, payload, reply, before>>

EndOfMail(w) ==
  /\ pc[w] = "loop"
  /\ rows[w] = {}
  /\ Respond(w, "mail", payload[w])
  /\ UNCHANGED tables

\* The response is handed to the socket.
Send(w) ==
  /\ pc[w] = "reply"
  /\ Proceed(w, "done")
  /\ UNCHANGED tables

\* The client is gone: send raises.
SendRaises(w) ==
  /\ pc[w] = "reply"
  /\ Die(w)
  /\ UNCHANGED tables

\* The process is killed and started again; server.db keeps what is committed.
Crash ==
  /\ \E w \in Workers : pc[w] \notin Ended \cup {"new"}
  /\ pc' = [w \in Workers |-> IF pc[w] = "new" THEN "new" ELSE
                              IF pc[w] = "done" THEN "done" ELSE "dead"]
  /\ disturbed' = [w \in Workers |-> FALSE]
  /\ rows' = [w \in Workers |-> {}]
  /\ cur' = [w \in Workers |-> NoMsg]
  /\ UNCHANGED <<req, payload, reply, before, tables>>

Register(w) == IsClientExist(w) \/ AddClient(w)

Fetch(w) == FetchMessages(w) \/ NextMessage(w) \/ DeleteMessage(w) \/ EndOfMail(w)

SendMsg(w) == IsIdValid(w) \/ MessageStored(w) \/ MessageNotStored(w)

Handle(w) ==
  \/ Register(w) \/ FetchAll(w) \/ GetPubKey(w) \/ SendMsg(w) \/ Fetch(w)
  \/ LookupRaises(w)

Next ==
  \/ \E w \in Workers :
       \/ Accept(w) \/ NumberOfClients(w)
       \/ \E r \in Asked : Receive(w, r)
       \/ ReceiveMalformed(w) \/ ReceiveNothing(w)
       \/ Handle(w)
       \/ Send(w) \/ SendRaises(w)
  \/ Crash

Spec == Init /\ [][Next]_vars
-----------------------------------------------------------------------------
(****************************************************************************)
(* Properties                                                               *)
(****************************************************************************)

\* What add_message assumes: "low probability for msg with same id"
\* (message_manager.py:46).
FreshDraws ==
  /\ \A w, u \in Workers : w # u => Draws[w] \cap Draws[u] = {}
  /\ \A w \in Workers, m \in OldMail : m.id \notin Draws[w]

Fetches(w, id) == req[w] # NoReq /\ req[w].code = "fetch" /\ req[w].who = id

\* Every stored message is addressed to a client the server knows, although the
\* check and the INSERT are separate calls and a crash may fall between them
\* (request_handler.py:111, :140).
MessagesHaveRecipients == \A m \in messages : m.to \in ClientIds

\* Two clients have the same name only if they registered at the same time: a
\* name taken by a registration that had ended, or in an earlier run, is never
\* given again (request_handler.py:54, :65).
RacedNamesOnly ==
  \A c, d \in clients :
    c # d /\ c.name = d.name =>
      /\ c.id \in Workers /\ d.id \in Workers
      /\ c.id \notin before[d.id] /\ d.id \notin before[c.id]

\* A message that was committed is still in its box, or a worker that serves a
\* fetch of its addressee has copied it into its response.  No crash, refused
\* DELETE or overlapping fetch removes a message nobody has copied
\* (request_handler.py:176-188).
MailKept ==
  \A m \in accepted :
    m \in messages \/ \E w \in Workers : m \in payload[w] /\ Fetches(w, m.to)

\* The response to a fetch holds mail of the client that asked and of nobody
\* else, and only mail that was committed.
OwnMailOnly ==
  \A w \in Workers : reply[w] = "mail" =>
    payload[w] \subseteq {m \in accepted : Fetches(w, m.to)}

\* The copies workers hold for the collectors of mail.
Taken ==
  [w \in Workers |->
    IF req[w] # NoReq /\ req[w].code = "fetch" THEN payload[w] ELSE {}]

Box == INSTANCE Mailbox WITH
  Collectors <- Workers, Mail <- Messages, To <- [m \in Messages |-> m.to],
  waiting <- messages, taken <- Taken

\* The tables and the workers together keep the promises of Mailbox.
RefinesMailbox == Box!Spec

\* "Return error response if client exists" (request_handler.py:53): no two
\* clients have the same name.
UniqueNames == \A c, d \in clients : c.name = d.name => c = d

\* A client that was answered CODE_SUCCESSFUL_REGISTRATION is registered.
RegisteredIsStored ==
  \A w \in Workers : pc[w] = "done" /\ reply[w] = "registered" => w \in ClientIds
-----------------------------------------------------------------------------
(****************************************************************************)
(* The inductive invariants behind the safety properties.                   *)
(****************************************************************************)

Handles(w, code) == req[w] \in Requests /\ req[w].code = code

\* Each point of a handler is reached by requests of its kind only, and a
\* worker without a request has done nothing.
ReqInv ==
  \A w \in Workers :
    /\ pc[w] \in {"new", "count", "receive"} => req[w] = NoReq /\ payload[w] = {}
    /\ pc[w] \in {"exists", "add"} => Handles(w, "register")
    /\ pc[w] \in {"valid", "insert"} => Handles(w, "send")
    /\ pc[w] \in {"select", "loop", "delete"} => Handles(w, "fetch")
    /\ pc[w] = "all" => Handles(w, "list")
    /\ pc[w] = "key" => Handles(w, "key")
    /\ pc[w] = "delete" <=> cur[w] # NoMsg
    /\ reply[w] = "mail" => Handles(w, "fetch")
    /\ reply[w] # NoReply => pc[w] \in Ended \cup {"reply"}

RecipientInv ==
  /\ MessagesHaveRecipients
  /\ \A w \in Workers : pc[w] = "insert" => req[w].who \in ClientIds

\* A worker adds at most its own client, under a name that was free when it
\* looked.
NameInv ==
  /\ RacedNamesOnly
  /\ \A w \in Workers : \A u \in before[w] : pc[u] \in Ended
  /\ \A c \in clients : c.id \in Workers => pc[c.id] \in Ended \cup {"reply"}
  /\ \A w \in Workers : pc[w] = "add" =>
       \A c \in Named(req[w].name) :
         c.id \in Workers /\ c.id \notin before[w] /\ w \notin before[c.id]

\* What workers select and copy is committed mail of the client they serve.
CopyInv ==
  /\ messages \subseteq accepted
  /\ \A w \in Workers :
       /\ rows[w] \subseteq {m \in accepted : Fetches(w, m.to)}
       /\ Taken[w] \subseteq {m \in accepted : Fetches(w, m.to)}
       /\ cur[w] # NoMsg => cur[w] \in payload[w]

\* With fresh ids, an id names one message for ever.
IdInv ==
  /\ \A m \in accepted : m.by \in Workers => pc[m.by] \in Ended \cup {"reply"}
  /\ \A m, n \in accepted : m.id = n.id => m = n

KeptInv == CopyInv /\ IdInv /\ MailKept
=============================================================================
