-------------------------------- MODULE Wire --------------------------------
(****************************************************************************)
(* What the client writes and the server reads: messages, requests and      *)
(* responses as their lengths and the numbers in their headers, in the      *)
(* sizes of the program (client/message.cpp, client/request.cpp,            *)
(* request.py, request_handler.py, response.py).  A size is sent in four     *)
(* bytes, which is enough for all that the client can build.                *)
(****************************************************************************)
EXTENDS Naturals

REQUEST_HEADER == 23       \* id 16, version 1, code 2, payload size 4
MIN_MESSAGE_SIZE == 21     \* id 16, type 1, content size 4
MIN_MSG_RESPONSE_SIZE == 25  \* the same and a message id of 4
CLIENT_ID_SIZE == 16
NAME_SIZE == 255
PUBLIC_KEY_SIZE == 160
SYMMETRIC_KEY_SIZE == 64
MAX_PAYLOAD_SIZE == 65536  \* of the client
MAX_REQUEST == 2147483647  \* MAX_PAYLOAD_SIZE of the server

Codes == {"register", "list", "key", "send", "fetch"}

Types == {"request_sym_key", "send_sym_key", "send_txt", "send_file"}
-----------------------------------------------------------------------------
\* The client.

\* get_txt_msg asks again until the text is short enough.
Typable(n) == n <= MAX_PAYLOAD_SIZE - MIN_MESSAGE_SIZE

\* Message(id, type, content); set_content throws if a request has content.
Messages(Texts) ==
  {[type |-> "request_sym_key", content |-> 0],
   [type |-> "send_sym_key", content |-> SYMMETRIC_KEY_SIZE]}
  \cup {[type |-> "send_txt", content |-> n] : n \in {x \in Texts : Typable(x)}}

BuildMsg(msg) ==
  [size |-> MIN_MESSAGE_SIZE + msg.content, type |-> msg.type,
   content_size |-> msg.content]

\* class Request: _payload_size follows the payload.
Request(code, size) == [code |-> code, payload_size |-> size]

\* build_request, with the id of sixteen bytes that every client has.
BuildRequest(req) ==
  [code |-> req.code, payload_size |-> req.payload_size,
   length |-> REQUEST_HEADER + req.payload_size]

\* What the operations put into a request, apart from messages.
PayloadSize ==
  [register |-> NAME_SIZE + PUBLIC_KEY_SIZE, list |-> 0, key |-> CLIENT_ID_SIZE, fetch |-> 0]
-----------------------------------------------------------------------------
\* The server.

\* Fault: the size in the header is taken to include the header.
DecodePayloadAll(req) == req.length = req.payload_size

DecodePayload(req) ==
  req.length <= MAX_REQUEST /\ req.length - REQUEST_HEADER = req.payload_size

Decodes(req) ==
  /\ req.length >= REQUEST_HEADER /\ req.code \in Codes
  /\ req.payload_size <= MAX_REQUEST
  /\ DecodePayload(req)

\* The checks of __send_msg on a payload that holds msg as built.
SendMsgAccepts(built) ==
  /\ built.size >= MIN_MESSAGE_SIZE
  /\ built.size - MIN_MESSAGE_SIZE = built.content_size
  /\ built.type \in Types

\* The lengths the other handlers insist on; list and fetch do not look.
HandlerAccepts(code, size) ==
  /\ code = "register" => size = NAME_SIZE + PUBLIC_KEY_SIZE
  /\ code = "key" => size = CLIENT_ID_SIZE

\* A message in the payload of a response to fetch.
PackedSize(content) == MIN_MSG_RESPONSE_SIZE + content
=============================================================================
