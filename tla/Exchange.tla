------------------------------ MODULE Exchange ------------------------------
(****************************************************************************)
(* One connection: the client sends a request and reads the response        *)
(* (client/operation.cpp, client/response.cpp), a worker reads the request, *)
(* has it handled and sends the response (server.py, request.py).           *)
(*                                                                          *)
(* Only lengths matter here: how many bytes each side has read, and where   *)
(* it stops.  A recv returns at least one byte of what is on its way and at *)
(* most as many as it asked for; TCP does not keep the pieces that were     *)
(* sent together.  It returns 0 when the other end is closed.               *)
(****************************************************************************)
EXTENDS Integers, FiniteSets, Sequences

CONSTANTS
  ReqHeader,   \* HEADER_SIZE, 23
  MaxPacket,   \* MAX_PACKET_SIZE, 512
  RespHeader,  \* MIN_RESPONSE_SIZE, 7
  MsgHeader,   \* MIN_MSG_RESPONSE_SIZE, 25
  MaxPayload,  \* MAX_PAYLOAD_SIZE, 65536
  Calls        \* the operations a user may ask for and what they would return

\* The operations by the way they read the response: one recv with the validity
\* check of class Response (register, get public key, send text), one recv
\* without it (the two symmetric key operations), or header first.
Kinds == {"checked", "unchecked", "list", "fetch"}

\* The payload of a fetch consists of its messages: message i ends at P[i].
Layout(c, P) ==
  /\ P[0] = 0 /\ P[Len(c.mail)] = c.body
  /\ \A i \in 1 .. Len(c.mail) : P[i] = P[i - 1] + MsgHeader + c.mail[i]

\* size: of the request's payload; body: of the payload of the successful
\* response; mail: the contents' sizes of the messages that a fetch returns.
ASSUME ExchangeAssumption ==
  /\ {ReqHeader, MaxPacket, RespHeader, MsgHeader} \subseteq Nat \ {0}
  /\ MaxPayload \in Nat
  /\ \A c \in Calls :
       /\ c \in [kind : Kinds, size : Nat, body : Nat, mail : Seq(Nat)]
       /\ c.kind = "checked" \/ c.kind = "unchecked" => c.body > 0
       /\ c.kind = "fetch" => \E P \in [0 .. Len(c.mail) -> 0 .. c.body] : Layout(c, P)

VARIABLES
  call,      \* the operation, fixed when the client connects
  cpc,       \* where the client is, or how its operation ended
  up,        \* bytes of the request on their way
  spc,       \* where the worker is
  got,       \* bytes the worker has read: len(payload)
  counted,   \* its variable message_size
  reply,     \* what the worker answers
  held,      \* the accept loop's variable still refers to the socket
  down,      \* bytes of the response on their way
  want,      \* the payload size the client read from the header
  received,  \* its variable received_data_size
  read,      \* bytes of the payload it has really read
  shown,     \* how many messages it has displayed
  split      \* history: some recv of the worker got only part of what was sent

client == <<cpc, want, received, read, shown>>
server == <<spc, got, counted, reply, held, split>>
vars == <<call, client, server, up, down>>

\* An operation ends well, is refused, throws, or reads bytes at the wrong
\* place ("lost": what it does from there on depends on their values).
Final == {"ok", "error", "skipped", "failed", "gone", "lost"}
Replies == {"none", "success", "error", "malformed"}

TypeOK ==
  /\ call \in Calls
  /\ cpc \in {"prompt", "one", "header", "list", "mail", "content"} \cup Final
  /\ spc \in {"header", "payload", "decode", "handle", "send", "ended"}
  /\ reply \in Replies
  /\ {up, got, counted, down, want, received, read, shown} \subseteq Nat
  /\ held \in BOOLEAN
  /\ split \in BOOLEAN

\* The client connects before it asks the user for an operation.
Init ==
  /\ call \in Calls
  /\ cpc = "prompt" /\ spc = "header"
  /\ up = 0 /\ got = 0 /\ counted = 0 /\ down = 0
  /\ reply = "none"
  /\ held = TRUE
  /\ want = 0 /\ received = 0 /\ read = 0 /\ shown = 0
  /\ split = FALSE

Smaller(m, n) == IF m <= n THEN m ELSE n

\* The results of recv(k) when n bytes are on their way.
Parts(k, n) == 1 .. Smaller(k, n)

\* The worker's socket is closed when nothing refers to it any more.
Closed == spc = "ended" /\ ~held
-----------------------------------------------------------------------------
\* The client.

\* The operation ends so.
Finish(result) ==
  /\ cpc' = result
  /\ UNCHANGED <<want, received, read, shown>>

Total == ReqHeader + call.size

SendRequest ==
  /\ cpc = "prompt"
  /\ up' = Total
  /\ cpc' = IF call.kind \in {"checked", "unchecked"} THEN "one" ELSE "header"
  /\ UNCHANGED <<call, server, down, want, received, read, shown>>

\* The program is killed while it sends.
SendPart ==
  /\ cpc = "prompt"
  /\ up' \in 1 .. Total - 1
  /\ Finish("gone")
  /\ UNCHANGED <<call, server, down>>

\* Fault: the loop adds SOCKET_ERROR, which is -1, to what it has received.
RecvNothingUnchecked ==
  /\ cpc \in {"one", "header", "list", "mail", "content"}
  /\ down = 0 /\ Closed
  /\ IF cpc = "list" THEN received' = received - 1 /\ UNCHANGED <<cpc, want, read, shown>>
                     ELSE Finish("failed")
  /\ UNCHANGED <<call, server, up, down>>

\* recv fails or finds the connection closed: the operation throws.
RecvNothing ==
  /\ cpc \in {"one", "header", "list", "mail", "content"}
  /\ down = 0 /\ Closed
  /\ Finish("failed")
  /\ UNCHANGED <<call, server, up, down>>

\* Fault: the code of the response is not compared with CODE_ERROR.
RecvOneUnchecked ==
  /\ cpc = "one"
  /\ \E n \in Parts(RespHeader + call.body, down) :
       /\ down' = down - n
       /\ Finish(IF n = RespHeader + call.body \/ n = RespHeader THEN "ok" ELSE "error")
  /\ UNCHANGED <<call, server, up>>

\* One recv is to return the whole response.  A part of it is an error, or makes
\* the operation throw; with less than the header the code is not even set.
RecvOne ==
  /\ cpc = "one"
  /\ \E n \in Parts(RespHeader + call.body, down) :
       /\ down' = down - n
       /\ \/ n = RespHeader + call.body /\ Finish("ok")
          \/ n < RespHeader + call.body /\ call.kind = "checked" /\ Finish("error")
          \/ n = RespHeader /\ reply # "success" /\ Finish("error")
          \/ /\ call.kind = "unchecked"
             /\ \/ n < RespHeader /\ (Finish("error") \/ Finish("failed"))
                \/ RespHeader <= n /\ n < RespHeader + call.body /\ reply = "success"
                   /\ Finish("failed")
  /\ UNCHANGED <<call, server, up>>

\* List and fetch read the header first; short of a header, code and size are
\* whatever was in memory.
RecvHeader ==
  /\ cpc = "header"
  /\ \E n \in Parts(RespHeader, down) :
       /\ down' = down - n
       /\ IF n < RespHeader THEN Finish("error") \/ Finish("skipped") \/ Finish("lost")
          ELSE IF reply # "success" THEN Finish("error")
          ELSE IF call.body > MaxPayload THEN Finish("skipped")
          ELSE /\ cpc' = IF call.kind = "list" THEN "list" ELSE "mail"
               /\ want' = call.body
               /\ UNCHANGED <<received, read, shown>>
  /\ UNCHANGED <<call, server, up>>

\* Fault: the loop goes on while received <= want.
RecvListLate ==
  /\ cpc = "list"
  /\ IF received <= want
     THEN \E n \in Parts(RespHeader, down) :
            /\ down' = down - n
            /\ received' = received + n
            /\ read' = read + n
            /\ UNCHANGED <<cpc, want, shown>>
     ELSE Finish("ok") /\ UNCHANGED down
  /\ UNCHANGED <<call, server, up>>

\* The loop of ListUserOperation, in pieces of at most a header's size.
RecvList ==
  /\ cpc = "list"
  /\ IF received < want
     THEN \E n \in Parts(RespHeader, down) :
            /\ down' = down - n
            /\ received' = received + n
            /\ read' = read + n
            /\ UNCHANGED <<cpc, want, shown>>
     ELSE Finish("ok") /\ UNCHANGED down
  /\ UNCHANGED <<call, server, up>>

\* _fetch_massages reads the header of a message.  Without content the message
\* is displayed at once, and result is added to received_data_size again.
RecvMessage ==
  /\ cpc = "mail" /\ received < want
  /\ \E n \in Parts(MsgHeader, down) :
       /\ down' = down - n
       /\ read' = read + n
       /\ IF n < MsgHeader
          THEN /\ cpc' = "lost"
               /\ received' = received + n
               /\ UNCHANGED shown
          ELSE IF call.mail[shown + 1] > 0
          THEN /\ cpc' = "content"
               /\ received' = received + n
               /\ UNCHANGED shown
          ELSE /\ shown' = shown + 1
               /\ received' = received + 2 * n
               /\ UNCHANGED cpc
  /\ UNCHANGED <<call, server, up, want>>

\* Fault: the content is counted twice.
RecvContentTwice ==
  /\ cpc = "content"
  /\ \E n \in Parts(call.mail[shown + 1], down) :
       /\ down' = down - n
       /\ read' = read + n
       /\ received' = received + 2 * n
       /\ cpc' = IF n = call.mail[shown + 1] THEN "mail" ELSE "lost"
  /\ shown' = shown + 1
  /\ UNCHANGED <<call, server, up, want>>

\* One recv is to return the content; the message is displayed with the part of
\* it that came.
RecvContent ==
  /\ cpc = "content"
  /\ \E n \in Parts(call.mail[shown + 1], down) :
       /\ down' = down - n
       /\ read' = read + n
       /\ received' = received + n
       /\ cpc' = IF n = call.mail[shown + 1] THEN "mail" ELSE "lost"
  /\ shown' = shown + 1
  /\ UNCHANGED <<call, server, up, want>>

\* The headers were read into an array that is four bytes too short, which the
\* compiled program may or may not notice when the function returns.
EndOfMail ==
  /\ cpc = "mail" /\ received >= want
  /\ \/ Finish("ok")
     \/ shown > 0 /\ Finish("failed")
  /\ UNCHANGED <<call, server, up, down>>

\* The user exits at the prompt, or the program is killed.
Leave ==
  /\ cpc \notin Final
  /\ Finish("gone")
  /\ UNCHANGED <<call, server, up, down>>
-----------------------------------------------------------------------------
\* The worker.

\* One recv is to return the whole header.
DecodeHeader ==
  /\ spc = "header"
  /\ \E n \in Parts(ReqHeader, up) :
       /\ up' = up - n
       /\ got' = n
       /\ counted' = n
       /\ split' = (n < Smaller(ReqHeader, up))
       /\ IF n < ReqHeader THEN spc' = "send" /\ reply' = "malformed"
                           ELSE spc' = "payload" /\ UNCHANGED reply
  /\ UNCHANGED <<call, client, down, held>>

\* The client closed the connection before it sent anything.
RecvHeaderNothing ==
  /\ spc = "header" /\ up = 0 /\ cpc = "gone"
  /\ spc' = "ended"
  /\ UNCHANGED <<call, client, up, down, got, counted, reply, held, split>>

\* Fault: the header is not counted in what is to come.
RecvPayloadEarly ==
  /\ spc = "payload"
  /\ IF counted < call.size
     THEN \E n \in Parts(MaxPacket, up) :
            /\ up' = up - n
            /\ got' = got + n
            /\ split' = (split \/ n < Smaller(MaxPacket, up))
            /\ IF n < MaxPacket THEN spc' = "decode" /\ UNCHANGED counted
                                ELSE counted' = counted + n /\ UNCHANGED spc
     ELSE spc' = "decode" /\ UNCHANGED <<up, got, counted, split>>
  /\ UNCHANGED <<call, client, down, reply, held>>

\* Fault: the sizes are compared with <=.
RecvPayloadLate ==
  /\ spc = "payload"
  /\ IF counted <= Total
     THEN \E n \in Parts(MaxPacket, up) :
            /\ up' = up - n
            /\ got' = got + n
            /\ split' = (split \/ n < Smaller(MaxPacket, up))
            /\ IF n < MaxPacket THEN spc' = "decode" /\ UNCHANGED counted
                                ELSE counted' = counted + n /\ UNCHANGED spc
     ELSE spc' = "decode" /\ UNCHANGED <<up, got, counted, split>>
  /\ UNCHANGED <<call, client, down, reply, held>>

\* The loop reads until the payload is complete, or a piece is shorter than a
\* packet; it leaves the loop before that piece is counted.
RecvPayload ==
  /\ spc = "payload"
  /\ IF counted < Total
     THEN \E n \in Parts(MaxPacket, up) :
            /\ up' = up - n
            /\ got' = got + n
            /\ split' = (split \/ n < Smaller(MaxPacket, up))
            /\ IF n < MaxPacket THEN spc' = "decode" /\ UNCHANGED counted
                                ELSE counted' = counted + n /\ UNCHANGED spc
     ELSE spc' = "decode" /\ UNCHANGED <<up, got, counted, split>>
  /\ UNCHANGED <<call, client, down, reply, held>>

\* The connection was closed after a part of the request: an empty piece.
RecvPayloadNothing ==
  /\ spc = "payload" /\ counted < Total /\ up = 0 /\ cpc = "gone"
  /\ spc' = "decode"
  /\ UNCHANGED <<call, client, up, down, got, counted, reply, held, split>>

\* ConnectionResetError: the worker returns.
RecvReset ==
  /\ spc \in {"header", "payload"} /\ cpc = "gone"
  /\ spc' = "ended"
  /\ UNCHANGED <<call, client, up, down, got, counted, reply, held, split>>

\* Fault: the size of the payload is not compared with the header.
DecodeUnchecked ==
  /\ spc = "decode"
  /\ spc' = "handle" /\ UNCHANGED reply
  /\ UNCHANGED <<call, client, up, down, got, counted, held, split>>

DecodePayload ==
  /\ spc = "decode"
  /\ IF got = Total THEN spc' = "handle" /\ UNCHANGED reply
                    ELSE spc' = "send" /\ reply' = "malformed"
  /\ UNCHANGED <<call, client, up, down, got, counted, held, split>>

\* RequestHandler.handle (module Server): a response, or an exception.
Handle ==
  /\ spc = "handle"
  /\ \/ spc' = "send" /\ reply' \in {"success", "error"}
     \/ spc' = "ended" /\ UNCHANGED reply
  /\ UNCHANGED <<call, client, up, down, got, counted, held, split>>

\* The response is sent; send may raise when the client is gone.
Send ==
  /\ spc = "send"
  /\ spc' = "ended"
  /\ \/ down' = RespHeader + (IF reply = "success" THEN call.body ELSE 0)
     \/ cpc = "gone" /\ UNCHANGED down
  /\ UNCHANGED <<call, client, up, got, counted, reply, held, split>>

\* The next connection is accepted: the variable gets another value.
NextAccept ==
  /\ held
  /\ held' = FALSE
  /\ UNCHANGED <<call, client, up, down, spc, got, counted, reply, split>>

\* The server's process is killed.  What it sent may still arrive.
Crash ==
  /\ ~Closed
  /\ spc' = "ended" /\ held' = FALSE
  /\ down' \in {down, 0}
  /\ UNCHANGED <<call, client, up, got, counted, reply, split>>

Client ==
  \/ RecvNothing \/ RecvOne \/ RecvHeader \/ RecvList
  \/ RecvMessage \/ RecvContent \/ EndOfMail

Worker ==
  \/ DecodeHeader \/ RecvHeaderNothing \/ RecvPayload \/ RecvPayloadNothing
  \/ RecvReset \/ DecodePayload \/ Handle \/ Send

Next == SendRequest \/ SendPart \/ Client \/ Leave \/ Worker \/ NextAccept \/ Crash

Spec == Init /\ [][Next]_vars

\* Both threads run.  Nothing makes the user answer the prompt, a client leave
\* or another connection come.
FairSpec == Spec /\ WF_vars(Client) /\ WF_vars(Worker)
-----------------------------------------------------------------------------
(****************************************************************************)
(* Properties                                                               *)
(****************************************************************************)

\* A request reaches its handler only when every byte of it has been read,
\* however the connection cuts it and wherever the client is killed
\* (request.py:110).
HandlesWholeRequest ==
  spc = "handle" \/ reply \in {"success", "error"} => got = Total /\ up = 0

\* A complete request is called malformed only if the connection delivered it
\* in smaller pieces than the worker asked for: with full packets the loop of
\* server.py:91 stops exactly at the end, for sizes at and around a packet too.
MalformedOnlyIfSplit == reply = "malformed" => split \/ cpc = "gone"

\* An operation that reports success was carried out by the server, although a
\* part of a response leaves fields of class Response unset (response.cpp:11)
\* and the operations check different things (operation.cpp:97, :362, :501).
ConfirmedIsHandled == cpc = "ok" => reply = "success"

\* What _fetch_massages leaves unread is at most one header for every message
\* without content that it displayed (operation.cpp:592, :628); without such
\* messages nothing is left.
UnreadBound ==
  cpc = "ok" /\ call.kind = "fetch" =>
    call.body - read <= MsgHeader * Cardinality({i \in 1 .. shown : call.mail[i] = 0})

\* The worker of a client that has sent its request ends: neither side waits
\* for bytes that the other never sends (server.py:91).
WorkerEnds == cpc # "prompt" ~> spc = "ended"

\* A client whose worker sent an answer, or whose socket is closed, gets to the
\* end of its operation (operation.cpp:166, :587).
ClientReleased ==
  cpc # "prompt" /\ spc = "ended" /\ (reply # "none" \/ ~held) ~> cpc \in Final

\* "No more data to receive (its a stateless protocol!)" (server.py:101): after
\* a piece shorter than a packet nothing of the request is left.
NoMoreData == spc = "decode" => up = 0
=============================================================================
