---------------------------- MODULE ServerProofs ----------------------------
(****************************************************************************)
(* Theorems about the server for any number of workers, clients, names and  *)
(* message ids.                                                             *)
(****************************************************************************)
EXTENDS Server, TLAPS

\* What a step that takes worker w to p does to the program counters.
LEMMA GotoPc ==
  ASSUME TypeOK, NEW w \in Workers, NEW p \in PCs, Goto(w, p)
  PROVE  /\ pc' \in [Workers -> PCs]
         /\ disturbed' \in [Workers -> BOOLEAN]
         /\ \A u \in Workers : pc'[u] = IF u = w THEN p ELSE pc[u]
<1>1. pc' \in [Workers -> PCs] /\ \A u \in Workers : pc'[u] = IF u = w THEN p ELSE pc[u]
  BY DEF Goto, TypeOK
<1>2. \A u \in Workers :
        (IF u = w THEN \E v \in Workers \ {w} : Together(pc[v], p)
                  ELSE disturbed[u] \/ Together(pc[u], p)) \in BOOLEAN
  BY DEF TypeOK
<1>3. disturbed' \in [Workers -> BOOLEAN]
  BY <1>2 DEF Goto
<1> QED
  BY <1>1, <1>3

\* A request starts the handler of its kind.
LEMMA FirstCalls ==
  ASSUME NEW r \in Requests
  PROVE  /\ r.code = "register" => FirstCall(r.code) = "exists"
         /\ r.code = "list" => FirstCall(r.code) = "all"
         /\ r.code = "send" => FirstCall(r.code) = "valid"
         /\ r.code = "key" => FirstCall(r.code) = "key"
         /\ r.code = "fetch" => FirstCall(r.code) = "select"
         /\ r.code \in {"register", "list", "send", "key", "fetch"}
<1>1. r.code \in {"register", "list", "send", "key", "fetch"}
  BY DEF Requests
<1> QED
  BY <1>1 DEF FirstCall

\* The three ways on from a point of a handler keep the types of the locals.
LEMMA ProceedType ==
  ASSUME TypeOK, NEW w \in Workers, NEW q \in PCs, Proceed(w, q)
  PROVE  /\ UNCHANGED <<req, rows, cur, payload, reply, before>>
         /\ pc' \in [Workers -> PCs] /\ disturbed' \in [Workers -> BOOLEAN]
         /\ \A u \in Workers : pc'[u] = IF u = w THEN q ELSE pc[u]
  BY GotoPc DEF Proceed

LEMMA RespondType ==
  ASSUME TypeOK, NEW w \in Workers, NEW code \in Codes,
         NEW body \in SUBSET (Ids \cup Messages), Respond(w, code, body)
  PROVE  /\ UNCHANGED <<req, rows, cur, before>>
         /\ pc' \in [Workers -> PCs] /\ disturbed' \in [Workers -> BOOLEAN]
         /\ payload' \in [Workers -> SUBSET (Ids \cup Messages)]
         /\ reply' \in [Workers -> Codes \cup {NoReply}]
         /\ \A u \in Workers : pc'[u] = IF u = w THEN "reply" ELSE pc[u]
         /\ \A u \in Workers : payload'[u] = IF u = w THEN body ELSE payload[u]
         /\ \A u \in Workers : reply'[u] = IF u = w THEN code ELSE reply[u]
<1>1. "reply" \in PCs /\ Goto(w, "reply")
  BY DEF PCs, Respond
<1> QED
  BY <1>1, GotoPc DEF Respond, TypeOK

LEMMA DieType ==
  ASSUME TypeOK, NEW w \in Workers, Die(w)
  PROVE  /\ UNCHANGED <<req, payload, reply, before>>
         /\ pc' \in [Workers -> PCs] /\ disturbed' \in [Workers -> BOOLEAN]
         /\ rows' \in [Workers -> SUBSET Messages] /\ cur' \in [Workers -> Messages \cup {NoMsg}]
         /\ \A u \in Workers : pc'[u] = IF u = w THEN "dead" ELSE pc[u]
         /\ \A u \in Workers : rows'[u] = IF u = w THEN {} ELSE rows[u]
         /\ \A u \in Workers : cur'[u] = IF u = w THEN NoMsg ELSE cur[u]
<1>1. "dead" \in PCs /\ Goto(w, "dead")
  BY DEF PCs, Die, Ended
<1> QED
  BY <1>1, GotoPc DEF Die, TypeOK
-----------------------------------------------------------------------------
\* The steps of worker w by the way they end.
Ends(w) ==
  \/ \E code \in Codes, body \in SUBSET (Ids \cup Messages) :
       /\ Respond(w, code, body)
       /\ code = "mail" => pc[w] = "loop" /\ body = payload[w]
       /\ Handles(w, "fetch") => pc[w] = "loop" /\ body = payload[w]
  \/ Die(w)
  \/ pc[w] = "new" /\ Proceed(w, "count")
  \/ pc[w] = "count" /\ Proceed(w, "receive")
  \/ pc[w] = "exists" /\ Proceed(w, "add")
  \/ pc[w] = "valid" /\ Proceed(w, "insert")
  \/ pc[w] = "reply" /\ Proceed(w, "done")

\* Every step of a worker other than those of the mail loop and the arrival of
\* a request ends in one of these ways.
LEMMA StepEnds ==
  ASSUME TypeOK, ReqInv, NEW w \in Workers,
         \/ Accept(w) \/ NumberOfClients(w) \/ ReceiveMalformed(w) \/ ReceiveNothing(w)
         \/ Register(w) \/ FetchAll(w) \/ GetPubKey(w) \/ SendMsg(w) \/ LookupRaises(w)
         \/ EndOfMail(w) \/ Send(w) \/ SendRaises(w)
  PROVE  pc[w] \notin Ended /\ Ends(w)
<1> USE DEF Codes
<1>1. ASSUME NEW code \in Codes, NEW body \in SUBSET (Ids \cup Messages), Respond(w, code, body),
             code # "mail", ~Handles(w, "fetch")
      PROVE  Ends(w)
  BY <1>1 DEF Ends
<1>2. CASE Accept(w) \/ NumberOfClients(w) \/ Send(w) \/ ReceiveNothing(w) \/ SendRaises(w) \/ LookupRaises(w)
  BY <1>2 DEF Accept, NumberOfClients, Send, ReceiveNothing, SendRaises, LookupRaises, Ends, Ended
<1>3. CASE ReceiveMalformed(w)
  <2>1. ~Handles(w, "fetch") /\ pc[w] = "receive" /\ Respond(w, "error", {})
    BY <1>3, ServerAssumption DEF ReceiveMalformed, ReqInv, Handles
  <2> QED
    BY <1>1, <2>1 DEF Ended
<1>4. CASE Register(w)
  <2>1. pc[w] \in {"exists", "add"} /\ ~Handles(w, "fetch")
    BY <1>4 DEF Register, IsClientExist, AddClient, ReqInv, Handles
  <2>2. \/ pc[w] = "exists" /\ Proceed(w, "add")
        \/ Die(w) \/ Respond(w, "error", {}) \/ Respond(w, "registered", {w})
    BY <1>4 DEF Register, IsClientExist, AddClient
  <2>3. {w} \in SUBSET (Ids \cup Messages)
    BY DEF Ids
  <2> QED
    BY <1>1, <2>1, <2>2, <2>3 DEF Ended, Ends
<1>5. CASE FetchAll(w) \/ GetPubKey(w)
  <2>1. pc[w] \in {"all", "key"} /\ ~Handles(w, "fetch")
    BY <1>5 DEF FetchAll, GetPubKey, ReqInv, Handles
  <2>2. ClientIds \in SUBSET (Ids \cup Messages)
    BY DEF ClientIds, TypeOK
  <2>3. \/ Respond(w, "list", ClientIds \ {req[w].who}) \/ Respond(w, "list", {})
        \/ Respond(w, "key", ClientIds \cap {req[w].who})
    BY <1>5 DEF FetchAll, GetPubKey
  <2> QED
    BY <1>1, <2>1, <2>2, <2>3 DEF Ended
<1>6. CASE SendMsg(w)
  <2>1. pc[w] \in {"valid", "insert"} /\ ~Handles(w, "fetch")
    BY <1>6 DEF SendMsg, IsIdValid, MessageStored, MessageNotStored, ReqInv, Handles
  <2>2. \/ pc[w] = "valid" /\ Proceed(w, "insert")
        \/ Respond(w, "error", {}) \/ Respond(w, "sent", {})
    BY <1>6 DEF SendMsg, IsIdValid, MessageStored, MessageNotStored
  <2> QED
    BY <1>1, <2>1, <2>2 DEF Ended, Ends
<1>7. CASE EndOfMail(w)
  <2>1. pc[w] = "loop" /\ Respond(w, "mail", payload[w]) /\ payload[w] \in SUBSET (Ids \cup Messages)
    BY <1>7 DEF EndOfMail, TypeOK
  <2> QED
    BY <2>1 DEF Ends, Ended
<1> QED
  BY <1>2, <1>3, <1>4, <1>5, <1>6, <1>7

\* The other steps, with what they do to the program counters.
LEMMA ReceiveShape ==
  ASSUME TypeOK, NEW w \in Workers, NEW r \in Asked, Receive(w, r)
  PROVE  /\ pc[w] = "receive" /\ r \in Requests /\ UNCHANGED <<rows, cur, payload, reply, tables>>
         /\ req' = [req EXCEPT ![w] = r]
         /\ FirstCall(r.code) \in PCs
         /\ pc' \in [Workers -> PCs] /\ disturbed' \in [Workers -> BOOLEAN]
         /\ \A u \in Workers : pc'[u] = IF u = w THEN FirstCall(r.code) ELSE pc[u]
<1>1. r \in Requests
  BY ServerAssumption
<1>2. FirstCall(r.code) \in PCs
  BY <1>1, FirstCalls DEF PCs, ClientCalls, MessageCalls
<1> QED
  BY <1>1, <1>2, GotoPc DEF Receive

LEMMA MailLoopShape ==
  ASSUME TypeOK, NEW w \in Workers, FetchMessages(w) \/ NextMessage(w) \/ DeleteMessage(w)
  PROVE  /\ UNCHANGED <<req, reply, before, clients, accepted>>
         /\ pc' \in [Workers -> PCs] /\ disturbed' \in [Workers -> BOOLEAN]
         /\ \A u \in Workers :
              pc'[u] = IF u = w THEN (IF pc[w] = "loop" THEN "delete" ELSE "loop") ELSE pc[u]
         /\ pc[w] \in {"select", "loop", "delete"}
<1>1. "loop" \in PCs /\ "delete" \in PCs
  BY DEF PCs, MessageCalls
<1>2. CASE FetchMessages(w)
  BY <1>1, <1>2, GotoPc DEF FetchMessages, tables
<1>3. CASE NextMessage(w)
  BY <1>1, <1>3, GotoPc DEF NextMessage, tables
<1>4. CASE DeleteMessage(w)
  BY <1>1, <1>4, GotoPc DEF DeleteMessage
<1> QED
  BY <1>2, <1>3, <1>4

\* The variables keep their types.
LEMMA TypeStep ==
  ASSUME TypeOK, ReqInv, [Next]_vars
  PROVE  TypeOK'
<1>1. CASE UNCHANGED vars
  BY <1>1 DEF vars, worker, TypeOK
<1>2. ASSUME NEW w \in Workers, Ends(w)
      PROVE  /\ pc' \in [Workers -> PCs] /\ disturbed' \in [Workers -> BOOLEAN]
             /\ req' \in [Workers -> Requests \cup {NoReq}]
             /\ rows' \in [Workers -> SUBSET Messages] /\ cur' \in [Workers -> Messages \cup {NoMsg}]
             /\ payload' \in [Workers -> SUBSET (Ids \cup Messages)]
             /\ reply' \in [Workers -> Codes \cup {NoReply}]
             /\ before' \in [Workers -> SUBSET Workers]
  <2>1. CASE \E code \in Codes, body \in SUBSET (Ids \cup Messages) : Respond(w, code, body)
    BY <2>1, RespondType DEF TypeOK
  <2>2. CASE Die(w)
    BY <2>2, DieType DEF TypeOK
  <2>3. CASE \E q \in {"count", "receive", "add", "insert", "done"} : Proceed(w, q)
    <3>1. {"count", "receive", "add", "insert", "done"} \subseteq PCs
      BY DEF PCs, ClientCalls, MessageCalls, Ended
    <3> QED
      BY <2>3, <3>1, ProceedType DEF TypeOK
  <2> QED
    BY <1>2, <2>1, <2>2, <2>3 DEF Ends
<1>3. ASSUME NEW w \in Workers,
             \/ Accept(w) \/ NumberOfClients(w) \/ ReceiveMalformed(w) \/ ReceiveNothing(w)
             \/ Register(w) \/ FetchAll(w) \/ GetPubKey(w) \/ SendMsg(w) \/ LookupRaises(w)
             \/ EndOfMail(w) \/ Send(w) \/ SendRaises(w)
      PROVE  TypeOK'
  <2>1. clients' \in SUBSET [id : Ids, name : Names]
    <3>1. CASE AddClient(w)
      <4>1. req[w].name \in Names
        BY <3>1 DEF AddClient, ReqInv, Handles, Requests
      <4> QED
        BY <3>1, <4>1 DEF AddClient, TypeOK, Ids
    <3>2. CASE ~AddClient(w)
      BY <1>3, <3>2 DEF Accept, NumberOfClients, ReceiveMalformed, ReceiveNothing, Register,
           IsClientExist, FetchAll, GetPubKey, SendMsg, IsIdValid, MessageStored, MessageNotStored,
           LookupRaises, EndOfMail, Send, SendRaises, tables, TypeOK
    <3> QED
      BY <3>1, <3>2
  <2>2. messages' \in SUBSET Messages /\ accepted' \in SUBSET Messages
    <3>1. CASE MessageStored(w)
      <4>1. PICK id \in Draws[w] :
              LET m == [id |-> id, to |-> req[w].who, by |-> w]
              IN  messages' = messages \cup {m} /\ accepted' = accepted \cup {m}
        BY <3>1 DEF MessageStored
      <4>2. req[w].who \in Ids
        BY <3>1 DEF MessageStored, ReqInv, Handles, Requests
      <4>3. [id |-> id, to |-> req[w].who, by |-> w] \in Messages
        BY <4>1, <4>2, ServerAssumption DEF Messages
      <4> QED
        BY <4>1, <4>3 DEF TypeOK
    <3>2. CASE ~MessageStored(w)
      BY <1>3, <3>2 DEF Accept, NumberOfClients, ReceiveMalformed, ReceiveNothing, Register,
           IsClientExist, AddClient, FetchAll, GetPubKey, SendMsg, IsIdValid, MessageNotStored,
           LookupRaises, EndOfMail, Send, SendRaises, tables, TypeOK
    <3> QED
      BY <3>1, <3>2
  <2>3. Ends(w)
    BY <1>3, StepEnds
  <2> QED
    BY <1>2, <2>1, <2>2, <2>3 DEF TypeOK
<1>4. ASSUME NEW w \in Workers, NEW r \in Asked, Receive(w, r)
      PROVE  TypeOK'
  <2>1. before' \in [Workers -> SUBSET Workers]
    BY <1>4 DEF Receive, TypeOK
  <2> QED
    BY <1>4, <2>1, ReceiveShape DEF TypeOK, tables
<1>5. ASSUME NEW w \in Workers, FetchMessages(w) \/ NextMessage(w) \/ DeleteMessage(w)
      PROVE  TypeOK'
  <2>1. /\ rows' \in [Workers -> SUBSET Messages] /\ cur' \in [Workers -> Messages \cup {NoMsg}]
        /\ payload' \in [Workers -> SUBSET (Ids \cup Messages)]
        /\ messages' \in SUBSET Messages
    <3>1. CASE FetchMessages(w)
      BY <3>1 DEF FetchMessages, MailFor, tables, TypeOK
    <3>2. CASE NextMessage(w)
      BY <3>2 DEF NextMessage, tables, TypeOK
    <3>3. CASE DeleteMessage(w)
      BY <3>3 DEF DeleteMessage, TypeOK
    <3> QED
      BY <1>5, <3>1, <3>2, <3>3
  <2> QED
    BY <1>5, <2>1, MailLoopShape DEF TypeOK
<1>6. CASE Crash
  <2>1. pc' \in [Workers -> PCs] /\ disturbed' \in [Workers -> BOOLEAN]
    BY <1>6 DEF Crash, PCs, Ended
  <2> QED
    BY <1>6, <2>1 DEF Crash, tables, TypeOK
<1> QED
  BY <1>1, <1>3, <1>4, <1>5, <1>6 DEF Next, Handle, Fetch

\* Crash ends the workers that run.
LEMMA CrashShape ==
  ASSUME Crash
  PROVE  /\ UNCHANGED <<req, payload, reply, before, tables>>
         /\ rows' = [w \in Workers |-> {}] /\ cur' = [w \in Workers |-> NoMsg]
         /\ \A w \in Workers : \/ pc'[w] = "new" /\ pc[w] = "new"
                               \/ pc'[w] = "done" /\ pc[w] = "done"
                               \/ pc'[w] = "dead" /\ pc[w] # "new"
  BY DEF Crash

\* Points of a handler are reached by requests of its kind only.
LEMMA ReqStep ==
  ASSUME TypeOK, ReqInv, [Next]_vars
  PROVE  ReqInv'
<1> USE DEF Handles
<1>1. CASE UNCHANGED vars
  BY <1>1 DEF vars, worker, ReqInv
<1>2. ASSUME NEW w \in Workers, Ends(w), pc[w] \notin Ended
      PROVE  ReqInv'
  <2>1. ASSUME NEW code \in Codes, NEW body \in SUBSET (Ids \cup Messages), Respond(w, code, body),
               code = "mail" => pc[w] = "loop", Handles(w, "fetch") => pc[w] = "loop"
        PROVE  ReqInv'
    BY <1>2, <2>1, RespondType DEF ReqInv, Ended
  <2>2. CASE Die(w)
    BY <1>2, <2>2, DieType DEF ReqInv, Ended
  <2>3. ASSUME NEW q \in {"count", "receive", "add", "insert", "done"}, Proceed(w, q),
               \/ pc[w] = "new" /\ q = "count"
               \/ pc[w] = "count" /\ q = "receive"
               \/ pc[w] = "exists" /\ q = "add"
               \/ pc[w] = "valid" /\ q = "insert"
               \/ pc[w] = "reply" /\ q = "done"
        PROVE  ReqInv'
    <3>1. q \in PCs
      BY DEF PCs, ClientCalls, MessageCalls, Ended
    <3> QED
      BY <1>2, <2>3, <3>1, ProceedType DEF ReqInv, Ended
  <2> QED
    BY <1>2, <2>1, <2>2, <2>3 DEF Ends
<1>3. ASSUME NEW w \in Workers, NEW r \in Asked, Receive(w, r)
      PROVE  ReqInv'
  <2>1. req'[w] = r /\ \A u \in Workers : u # w => req'[u] = req[u]
    BY <1>3, ReceiveShape DEF TypeOK
  <2>2. cur[w] = NoMsg /\ reply[w] = NoReply
    BY <1>3 DEF Receive, ReqInv, Ended
  <2>3. /\ r \in Requests
        /\ \/ r.code = "register" /\ pc'[w] = "exists"
           \/ r.code = "list" /\ pc'[w] = "all"
           \/ r.code = "send" /\ pc'[w] = "valid"
           \/ r.code = "key" /\ pc'[w] = "key"
           \/ r.code = "fetch" /\ pc'[w] = "select"
    BY <1>3, ReceiveShape, FirstCalls
  <2>4. UNCHANGED <<cur, payload, reply>> /\ \A u \in Workers : u # w => pc'[u] = pc[u]
    BY <1>3, ReceiveShape
  <2> QED
    BY <2>1, <2>2, <2>3, <2>4, ServerAssumption DEF ReqInv, Codes
<1>4. ASSUME NEW w \in Workers, FetchMessages(w) \/ NextMessage(w) \/ DeleteMessage(w)
      PROVE  ReqInv'
  <2>1. /\ \A u \in Workers : u # w => cur'[u] = cur[u] /\ payload'[u] = payload[u]
        /\ cur'[w] # NoMsg <=> pc[w] = "loop"
    <3>1. CASE FetchMessages(w)
      BY <3>1 DEF FetchMessages, ReqInv
    <3>2. CASE NextMessage(w)
      BY <3>2, ServerAssumption DEF NextMessage, TypeOK
    <3>3. CASE DeleteMessage(w)
      BY <3>3 DEF DeleteMessage, TypeOK
    <3> QED
      BY <1>4, <3>1, <3>2, <3>3
  <2> QED
    BY <1>4, <2>1, MailLoopShape DEF ReqInv, Ended
<1>5. CASE Crash
  BY <1>5, CrashShape DEF ReqInv, Ended
<1> QED
  BY <1>1, <1>2, <1>3, <1>4, <1>5, StepEnds DEF Next, Handle, Fetch

\* The addressee of a message is, and remains, a registered client.
LEMMA RecipientStep ==
  ASSUME TypeOK, ReqInv, RecipientInv, [Next]_vars
  PROVE  RecipientInv'
<1>1. clients \subseteq clients'
  BY DEF Next, Accept, NumberOfClients, Receive, ReceiveMalformed, ReceiveNothing, Handle, Register,
     IsClientExist, AddClient, FetchAll, GetPubKey, SendMsg, IsIdValid, MessageStored,
     MessageNotStored, Fetch, FetchMessages, NextMessage, DeleteMessage, EndOfMail, LookupRaises,
     Send, SendRaises, Crash, tables, vars
<1>2. ClientIds \subseteq ClientIds'
  BY <1>1 DEF ClientIds
<1>3. ASSUME NEW m \in messages', m \notin messages
      PROVE  \E w \in Workers : pc[w] = "insert" /\ m.to = req[w].who
  <2>1. PICK w \in Workers : MessageStored(w)
    BY <1>3 DEF Next, Accept, NumberOfClients, Receive, ReceiveMalformed, ReceiveNothing, Handle,
       Register, IsClientExist, AddClient, FetchAll, GetPubKey, SendMsg, IsIdValid,
       MessageNotStored, Fetch, FetchMessages, NextMessage, DeleteMessage, EndOfMail,
       LookupRaises, Send, SendRaises, Crash, tables, vars
  <2> QED
    BY <1>3, <2>1 DEF MessageStored
<1>4. (\A m \in messages : m.to \in ClientIds)'
  BY <1>2, <1>3 DEF RecipientInv, MessagesHaveRecipients
<1>5. ASSUME NEW w \in Workers, pc'[w] = "insert"
      PROVE  req'[w].who \in ClientIds'
  <2>1. CASE pc[w] = "insert" /\ req'[w] = req[w]
    BY <1>2, <2>1 DEF RecipientInv
  <2>2. CASE IsIdValid(w)
    BY <1>2, <1>5, <2>2, RespondType DEF IsIdValid, Proceed, Codes
  <2>3. CASE UNCHANGED vars
    BY <1>5, <2>1, <2>3 DEF vars, worker
  <2>4. ASSUME NEW u \in Workers, Ends(u), pc[u] \notin Ended, ~IsIdValid(w), u = w => pc[u] # "valid"
        PROVE  pc[w] = "insert" /\ req'[w] = req[w]
    <3>1. {"count", "receive", "add", "insert", "done"} \subseteq PCs
      BY DEF PCs, ClientCalls, MessageCalls, Ended
    <3> QED
      BY <1>5, <2>4, <3>1, RespondType, DieType, ProceedType DEF Ends
  <2>5. ASSUME NEW u \in Workers, NEW r \in Asked, Receive(u, r)
        PROVE  pc[w] = "insert" /\ req'[w] = req[w]
    BY <1>5, <2>5, ReceiveShape, FirstCalls DEF TypeOK
  <2>6. ASSUME NEW u \in Workers, FetchMessages(u) \/ NextMessage(u) \/ DeleteMessage(u)
        PROVE  pc[w] = "insert" /\ req'[w] = req[w]
    BY <1>5, <2>6, MailLoopShape
  <2>7. ~Crash
    BY <1>5, CrashShape
  <2>8. ASSUME ~IsIdValid(w),
               \/ Accept(w) \/ NumberOfClients(w) \/ ReceiveMalformed(w) \/ ReceiveNothing(w)
               \/ Register(w) \/ FetchAll(w) \/ GetPubKey(w) \/ SendMsg(w) \/ LookupRaises(w)
               \/ EndOfMail(w) \/ Send(w) \/ SendRaises(w)
        PROVE  pc[w] # "valid"
    BY <1>5, <2>8, DieType DEF Accept, NumberOfClients, ReceiveMalformed, ReceiveNothing, Register, IsClientExist,
       AddClient, FetchAll, GetPubKey, SendMsg, MessageStored, MessageNotStored, LookupRaises,
       EndOfMail, Send, SendRaises
  <2> QED
    BY <2>1, <2>2, <2>3, <2>4, <2>5, <2>6, <2>7, <2>8, StepEnds DEF Next, Handle, Fetch
<1> QED
  BY <1>4, <1>5 DEF RecipientInv, MessagesHaveRecipients
-----------------------------------------------------------------------------
\* A worker that has ended stays so; one that has its response only sends it.
LEMMA Finished ==
  ASSUME TypeOK, ReqInv, [Next]_vars, NEW u \in Workers
  PROVE  /\ pc[u] \in Ended => pc'[u] \in Ended
         /\ pc[u] \in Ended \cup {"reply"} => pc'[u] \in Ended \cup {"reply"}
<1>1. CASE UNCHANGED vars
  BY <1>1 DEF vars, worker
<1>2. ASSUME NEW w \in Workers, Ends(w), pc[w] \notin Ended
      PROVE  /\ pc[u] \in Ended => pc'[u] \in Ended
             /\ pc[u] \in Ended \cup {"reply"} => pc'[u] \in Ended \cup {"reply"}
  <2>1. {"count", "receive", "add", "insert", "done"} \subseteq PCs
    BY DEF PCs, ClientCalls, MessageCalls, Ended
  <2> QED
    BY <1>2, <2>1, RespondType, DieType, ProceedType DEF Ends, Ended
<1>3. ASSUME NEW w \in Workers, NEW r \in Asked, Receive(w, r)
      PROVE  pc[u] \in Ended \cup {"reply"} => pc'[u] = pc[u]
  BY <1>3, ReceiveShape DEF Ended
<1>4. ASSUME NEW w \in Workers, FetchMessages(w) \/ NextMessage(w) \/ DeleteMessage(w)
      PROVE  pc[u] \in Ended \cup {"reply"} => pc'[u] = pc[u]
  BY <1>4, MailLoopShape DEF Ended
<1>5. CASE Crash
  BY <1>5, CrashShape DEF Ended
<1> QED
  BY <1>1, <1>2, <1>3, <1>4, <1>5, StepEnds DEF Next, Handle, Fetch

\* Names are safe in every step that neither adds a client nor looks one up.
LEMMA NameFrame ==
  ASSUME TypeOK, ReqInv, NameInv, [Next]_vars, UNCHANGED <<clients, before>>,
         \A u \in Workers : pc'[u] = "add" => pc[u] = "add" /\ req'[u] = req[u]
  PROVE  NameInv'
<1>1. RacedNamesOnly'
  BY DEF NameInv, RacedNamesOnly
<1>2. (\A w \in Workers : \A u \in before[w] : pc[u] \in Ended)'
  BY Finished DEF NameInv, TypeOK, Ended
<1>3. (\A c \in clients : c.id \in Workers => pc[c.id] \in Ended \cup {"reply"})'
  BY Finished DEF NameInv, Ended
<1>4. (\A w \in Workers : pc[w] = "add" =>
         \A c \in Named(req[w].name) :
           c.id \in Workers /\ c.id \notin before[w] /\ w \notin before[c.id])'
  BY DEF NameInv, Named
<1> QED
  BY <1>1, <1>2, <1>3, <1>4 DEF NameInv

\* Names are given twice only by registrations that overlap.
LEMMA NameStep ==
  ASSUME TypeOK, ReqInv, NameInv, [Next]_vars
  PROVE  NameInv'
<1>1. CASE UNCHANGED vars
  BY <1>1, NameFrame DEF vars, worker
<1>2. ASSUME NEW w \in Workers, AddClient(w)
      PROVE  NameInv'
  <2> DEFINE new == [id |-> w, name |-> req[w].name]
  <2>1. /\ pc[w] = "add" /\ UNCHANGED <<req, before>>
        /\ clients' = clients \cup {new} \/ clients' = clients
        /\ \A u \in Workers : pc'[u] = IF u = w THEN "reply" ELSE pc[u]
    <3>1. {w} \in SUBSET (Ids \cup Messages) /\ "registered" \in Codes
      BY DEF Ids, Codes
    <3> QED
      BY <1>2, <3>1, RespondType DEF AddClient
  <2>2. CASE clients' = clients
    BY <2>1, <2>2, NameFrame
  <2>3. CASE clients' = clients \cup {new}
    <3>1. \A c \in clients : c.name = req[w].name =>
            c.id \in Workers /\ c.id \notin before[w] /\ w \notin before[c.id]
      BY <2>1 DEF NameInv, Named
    <3>2. RacedNamesOnly'
      BY <2>1, <2>3, <3>1 DEF NameInv, RacedNamesOnly
    <3>3. (\A x \in Workers : \A u \in before[x] : pc[u] \in Ended)'
      BY <2>1, Finished DEF NameInv, TypeOK, Ended
    <3>4. (\A c \in clients : c.id \in Workers => pc[c.id] \in Ended \cup {"reply"})'
      BY <2>1, <2>3 DEF NameInv
    <3>5. (\A x \in Workers : pc[x] = "add" =>
             \A c \in Named(req[x].name) :
               c.id \in Workers /\ c.id \notin before[x] /\ x \notin before[c.id])'
      <4> SUFFICES ASSUME NEW x \in Workers, pc'[x] = "add", NEW c \in clients',
                          c.name = req[x].name
                   PROVE  c.id \in Workers /\ c.id \notin before[x] /\ x \notin before[c.id]
        BY <2>1 DEF Named
      <4>1. pc[x] = "add" /\ x # w
        BY <2>1
      <4>2. CASE c \in clients
        BY <4>1, <4>2 DEF NameInv, Named
      <4>3. CASE c = new
        BY <2>1, <4>1, <4>3 DEF NameInv, Ended
      <4> QED
        BY <2>3, <4>2, <4>3
    <3> QED
      BY <3>2, <3>3, <3>4, <3>5 DEF NameInv
  <2> QED
    BY <2>1, <2>2, <2>3
<1>3. ASSUME NEW w \in Workers, IsClientExist(w)
      PROVE  NameInv'
  <2>1. UNCHANGED <<req, before, clients>>
    BY <1>3 DEF IsClientExist, Proceed, Die, Respond, tables
  <2>2. CASE Named(req[w].name) = {} /\ Proceed(w, "add")
    <3>1. \A u \in Workers : pc'[u] = IF u = w THEN "add" ELSE pc[u]
      BY <2>2, ProceedType DEF PCs, ClientCalls
    <3>2. (\A x \in Workers : pc[x] = "add" =>
             \A c \in Named(req[x].name) :
               c.id \in Workers /\ c.id \notin before[x] /\ x \notin before[c.id])'
      BY <2>1, <2>2, <3>1 DEF NameInv, Named
    <3>3. (\A x \in Workers : \A u \in before[x] : pc[u] \in Ended)'
      BY <2>1, Finished DEF NameInv, TypeOK, Ended
    <3>4. (\A c \in clients : c.id \in Workers => pc[c.id] \in Ended \cup {"reply"})'
      BY <2>1, Finished DEF NameInv, Ended
    <3> QED
      BY <2>1, <3>2, <3>3, <3>4 DEF NameInv, RacedNamesOnly
  <2>3. CASE Named(req[w].name) # {}
    BY <1>3, <2>1, <2>3, NameFrame, RespondType DEF IsClientExist, Codes
  <2>4. CASE Die(w)
    BY <2>1, <2>4, NameFrame, DieType
  <2> QED
    BY <1>3, <2>2, <2>3, <2>4 DEF IsClientExist
<1>4. ASSUME NEW w \in Workers, NEW r \in Asked, Receive(w, r)
      PROVE  NameInv'
  <2>1. /\ pc[w] = "receive" /\ UNCHANGED clients
        /\ \A u \in Workers : u # w => pc'[u] = pc[u] /\ req'[u] = req[u] /\ before'[u] = before[u]
        /\ pc'[w] # "add"
        /\ \A u \in before'[w] : pc[u] \in Ended
    BY <1>4, ReceiveShape, FirstCalls DEF Receive, tables, TypeOK
  <2>2. \A c \in clients : c.id # w
    BY <2>1 DEF NameInv, Ended
  <2>3. RacedNamesOnly'
    BY <2>1, <2>2 DEF NameInv, RacedNamesOnly
  <2>4. (\A x \in Workers : \A u \in before[x] : pc[u] \in Ended)'
    <3>1. \A u \in Workers : pc[u] \in Ended => pc'[u] \in Ended
      BY Finished
    <3>2. before' \in [Workers -> SUBSET Workers]
      BY TypeStep DEF TypeOK
    <3> QED
      BY <2>1, <3>1, <3>2 DEF NameInv, Ended
  <2>5. (\A c \in clients : c.id \in Workers => pc[c.id] \in Ended \cup {"reply"})'
    BY <2>1, Finished DEF NameInv, Ended
  <2>6. (\A x \in Workers : pc[x] = "add" =>
           \A c \in Named(req[x].name) :
             c.id \in Workers /\ c.id \notin before[x] /\ x \notin before[c.id])'
    BY <2>1, <2>2 DEF NameInv, Named
  <2> QED
    BY <2>3, <2>4, <2>5, <2>6 DEF NameInv
<1>5. ASSUME NEW w \in Workers, Ends(w), pc[w] # "exists", UNCHANGED clients
      PROVE  NameInv'
  <2>1. {"count", "receive", "add", "insert", "done"} \subseteq PCs
    BY DEF PCs, ClientCalls, MessageCalls, Ended
  <2>2. UNCHANGED <<req, before>> /\ \A u \in Workers : pc'[u] = "add" => pc[u] = "add"
    BY <1>5, <2>1, RespondType, DieType, ProceedType DEF Ends
  <2> QED
    BY <1>5, <2>2, NameFrame
<1>6. ASSUME NEW w \in Workers, FetchMessages(w) \/ NextMessage(w) \/ DeleteMessage(w)
      PROVE  NameInv'
  BY <1>6, MailLoopShape, NameFrame
<1>7. CASE Crash
  BY <1>7, CrashShape, NameFrame DEF tables
<1>8. ASSUME NEW w \in Workers, LookupRaises(w)
      PROVE  NameInv'
  <2>1. UNCHANGED <<clients, before, req>> /\ \A u \in Workers : pc'[u] = "add" => pc[u] = "add"
    BY <1>8, DieType DEF LookupRaises, tables
  <2> QED
    BY <2>1, NameFrame
<1>9. ASSUME NEW w \in Workers,
             \/ Accept(w) \/ NumberOfClients(w) \/ ReceiveMalformed(w) \/ ReceiveNothing(w)
             \/ FetchAll(w) \/ GetPubKey(w) \/ SendMsg(w)
             \/ EndOfMail(w) \/ Send(w) \/ SendRaises(w)
      PROVE  pc[w] # "exists" /\ UNCHANGED clients
  BY <1>9 DEF Accept, NumberOfClients, ReceiveMalformed, ReceiveNothing, FetchAll, GetPubKey,
     SendMsg, IsIdValid, MessageStored, MessageNotStored, EndOfMail, Send, SendRaises, tables
<1> QED
  BY <1>1, <1>2, <1>3, <1>4, <1>5, <1>6, <1>7, <1>8, <1>9, StepEnds
     DEF Next, Handle, Register, Fetch
-----------------------------------------------------------------------------
\* A worker fetches mail as soon as it has such a request, and until it ends.
LEMMA FetchesHandles ==
  ASSUME TypeOK, NEW w \in Workers
  PROVE  /\ Handles(w, "fetch") <=> Fetches(w, req[w].who)
         /\ Taken[w] = IF Handles(w, "fetch") THEN payload[w] ELSE {}
         /\ Fetches(w, req[w].who) \/ \A id : ~Fetches(w, id)
  BY ServerAssumption DEF Handles, Fetches, Taken, TypeOK

\* Only the mail loop adds to the copies workers hold, and nothing takes a copy
\* away.
LEMMA TakenFrame ==
  ASSUME TypeOK, ReqInv, [Next]_vars, \A w \in Workers : ~NextMessage(w)
  PROVE  /\ \A u \in Workers : \A id : Fetches(u, id) => Fetches(u, id)'
         /\ \A u \in Workers : UNCHANGED Taken[u]
<1>1. CASE UNCHANGED <<req, payload>>
  BY <1>1 DEF Fetches, Taken
<1>2. ASSUME NEW w \in Workers, Ends(w)
      PROVE  /\ UNCHANGED req
             /\ \A u \in Workers : UNCHANGED Taken[u]
  <2>1. ASSUME NEW code \in Codes, NEW body \in SUBSET (Ids \cup Messages), Respond(w, code, body),
               Handles(w, "fetch") => body = payload[w]
        PROVE  /\ UNCHANGED req
               /\ \A u \in Workers : UNCHANGED Taken[u]
    BY <2>1, RespondType, FetchesHandles, ServerAssumption DEF Taken, Handles, TypeOK
  <2>2. CASE UNCHANGED <<req, payload>>
    BY <2>2 DEF Taken
  <2>3. Die(w) \/ (\E q : Proceed(w, q)) => UNCHANGED <<req, payload>>
    BY DEF Die, Proceed
  <2> QED
    BY <1>2, <2>1, <2>2, <2>3 DEF Ends
<1>3. ASSUME NEW w \in Workers, NEW r \in Asked, Receive(w, r)
      PROVE  /\ \A u \in Workers : \A id : Fetches(u, id) => Fetches(u, id)'
             /\ \A u \in Workers : UNCHANGED Taken[u]
  <2>1. req[w] = NoReq /\ payload[w] = {} /\ UNCHANGED payload
    BY <1>3, ReceiveShape DEF ReqInv
  <2>2. \A u \in Workers : u # w => req'[u] = req[u]
    BY <1>3, ReceiveShape DEF TypeOK
  <2> QED
    BY <2>1, <2>2 DEF Fetches, Taken
<1>4. ASSUME NEW w \in Workers, FetchMessages(w) \/ DeleteMessage(w)
      PROVE  UNCHANGED <<req, payload>>
  BY <1>4 DEF FetchMessages, DeleteMessage
<1>5. Crash \/ UNCHANGED vars => UNCHANGED <<req, payload>>
  BY CrashShape DEF vars, worker
<1>6. UNCHANGED req => \A u \in Workers : \A id : Fetches(u, id) => Fetches(u, id)'
  BY DEF Fetches
<1> QED
  BY <1>1, <1>2, <1>3, <1>4, <1>5, <1>6, StepEnds DEF Next, Handle, Fetch

\* The loop takes one more copy, of a message for the client it serves.
LEMMA TakenNext ==
  ASSUME TypeOK, ReqInv, CopyInv, NEW w \in Workers, NextMessage(w)
  PROVE  \E m \in rows[w] :
           /\ m \in accepted /\ m \in Messages /\ Fetches(w, m.to)
           /\ rows' = [rows EXCEPT ![w] = @ \ {m}]
           /\ cur' = [cur EXCEPT ![w] = m]
           /\ payload' = [payload EXCEPT ![w] = @ \cup {m}]
           /\ Taken' = [Taken EXCEPT ![w] = @ \cup {m}]
           /\ UNCHANGED <<req, tables>>
<1>1. PICK m \in rows[w] :
        /\ rows' = [rows EXCEPT ![w] = @ \ {m}]
        /\ cur' = [cur EXCEPT ![w] = m]
        /\ payload' = [payload EXCEPT ![w] = @ \cup {m}]
        /\ UNCHANGED <<req, tables>>
  BY DEF NextMessage
<1>2. m \in accepted /\ m \in Messages /\ Fetches(w, m.to)
  BY <1>1 DEF CopyInv, TypeOK
<1>3. Taken[w] = payload[w] /\ Taken'[w] = payload'[w]
  BY <1>1, <1>2 DEF Fetches, Taken
<1>4. \A u \in Workers : u # w => Taken'[u] = Taken[u]
  BY <1>1 DEF Taken, TypeOK
<1>5. Taken' = [Taken EXCEPT ![w] = @ \cup {m}]
  BY <1>1, <1>3, <1>4 DEF Taken, TypeOK
<1> QED
  BY <1>1, <1>2, <1>5

\* Messages are stored by MessageStored only, and deleted by DeleteMessage only.
LEMMA TablesFrame ==
  ASSUME [Next]_vars
  PROVE  /\ (\A w \in Workers : ~MessageStored(w)) => UNCHANGED accepted /\ messages' \subseteq messages
         /\ (\A w \in Workers : ~DeleteMessage(w)) => messages \subseteq messages'
         /\ (\A w \in Workers : ~MessageStored(w) /\ ~DeleteMessage(w)) => UNCHANGED messages
<1> USE DEF Next, Accept, NumberOfClients, Receive, ReceiveMalformed, ReceiveNothing, Handle, Register,
     IsClientExist, AddClient, FetchAll, GetPubKey, SendMsg, IsIdValid,
     MessageNotStored, Fetch, FetchMessages, NextMessage, EndOfMail, LookupRaises,
     Send, SendRaises, Crash, tables, vars
<1>1. ASSUME \A w \in Workers : ~MessageStored(w)
      PROVE  UNCHANGED accepted /\ messages' \subseteq messages
  BY <1>1 DEF DeleteMessage
<1>2. ASSUME \A w \in Workers : ~DeleteMessage(w)
      PROVE  messages \subseteq messages'
  BY <1>2 DEF MessageStored
<1>3. ASSUME \A w \in Workers : ~MessageStored(w) /\ ~DeleteMessage(w)
      PROVE  UNCHANGED messages
  BY <1>3
<1> QED
  BY <1>1, <1>2, <1>3

\* Other steps forget rows and the current message, or select rows.
LEMMA RowsFrame ==
  ASSUME TypeOK, ReqInv, [Next]_vars, \A w \in Workers : ~NextMessage(w), NEW u \in Workers
  PROVE  /\ cur'[u] \in {cur[u], NoMsg}
         /\ \/ rows'[u] \subseteq rows[u]
            \/ FetchMessages(u) /\ rows'[u] = MailFor(req[u].who)
<1>1. CASE UNCHANGED <<rows, cur>>
  BY <1>1
<1>2. ASSUME NEW w \in Workers, Ends(w)
      PROVE  cur'[u] \in {cur[u], NoMsg} /\ rows'[u] \subseteq rows[u]
  <2>1. CASE Die(w)
    BY <2>1, DieType
  <2> QED
    BY <1>2, <2>1 DEF Ends, Respond, Proceed
<1>3. ASSUME NEW w \in Workers, FetchMessages(w)
      PROVE  /\ UNCHANGED cur
             /\ u # w => UNCHANGED rows[u]
             /\ u = w => rows'[u] = rows[u] \/ rows'[u] = MailFor(req[u].who)
  BY <1>3 DEF FetchMessages, TypeOK
<1>4. ASSUME NEW w \in Workers, DeleteMessage(w)
      PROVE  UNCHANGED rows /\ cur'[u] \in {cur[u], NoMsg}
  BY <1>4 DEF DeleteMessage, TypeOK
<1>5. Crash => cur'[u] = NoMsg /\ rows'[u] = {}
  BY CrashShape
<1>6. \A w \in Workers, r \in Asked : Receive(w, r) => UNCHANGED <<rows, cur>>
  BY DEF Receive
<1>7. UNCHANGED vars => UNCHANGED <<rows, cur>>
  BY DEF vars, worker
<1> QED
  BY <1>1, <1>2, <1>3, <1>4, <1>5, <1>6, <1>7, StepEnds DEF Next, Handle, Fetch

\* Workers only ever hold committed mail of the client they serve.
LEMMA CopyStep ==
  ASSUME TypeOK, ReqInv, CopyInv, [Next]_vars
  PROVE  CopyInv'
<1>1. messages' \subseteq accepted' /\ accepted \subseteq accepted'
  <2>1. ASSUME NEW w \in Workers, MessageStored(w)
        PROVE  messages' \subseteq accepted' /\ accepted \subseteq accepted'
    BY <2>1 DEF MessageStored, CopyInv
  <2> QED
    BY <2>1, TablesFrame DEF CopyInv
<1>2. ASSUME NEW w \in Workers, NextMessage(w)
      PROVE  CopyInv'
  <2>1. PICK m \in rows[w] :
          /\ m \in accepted /\ m \in Messages /\ Fetches(w, m.to)
          /\ rows' = [rows EXCEPT ![w] = @ \ {m}]
          /\ cur' = [cur EXCEPT ![w] = m]
          /\ payload' = [payload EXCEPT ![w] = @ \cup {m}]
          /\ Taken' = [Taken EXCEPT ![w] = @ \cup {m}]
          /\ UNCHANGED <<req, tables>>
    BY <1>2, TakenNext
  <2>2. \A u \in Workers : \A id : Fetches(u, id)' = Fetches(u, id)
    BY <2>1 DEF Fetches
  <2>3. \A u \in Workers : rows'[u] \subseteq {x \in accepted : Fetches(u, x.to)}
    BY <2>1 DEF CopyInv, TypeOK
  <2>4. \A u \in Workers : Taken'[u] \subseteq {x \in accepted : Fetches(u, x.to)}
    BY <2>1 DEF CopyInv, Taken
  <2>5. \A u \in Workers : cur'[u] # NoMsg => cur'[u] \in payload'[u]
    BY <2>1 DEF CopyInv, TypeOK
  <2>6. UNCHANGED accepted
    BY <2>1 DEF tables
  <2> QED
    BY <1>1, <2>2, <2>3, <2>4, <2>5, <2>6 DEF CopyInv
<1>3. ASSUME \A w \in Workers : ~NextMessage(w), NEW u \in Workers
      PROVE  /\ rows'[u] \subseteq {m \in accepted' : Fetches(u, m.to)'}
             /\ Taken'[u] \subseteq {m \in accepted' : Fetches(u, m.to)'}
             /\ cur'[u] # NoMsg => cur'[u] \in payload'[u]
  <2>1. (\A id : Fetches(u, id) => Fetches(u, id)') /\ UNCHANGED Taken[u]
    BY <1>3, TakenFrame
  <2>2. Taken'[u] \subseteq {m \in accepted' : Fetches(u, m.to)'}
    BY <1>1, <2>1 DEF CopyInv
  <2>3. ASSUME rows'[u] \subseteq rows[u]
        PROVE  rows'[u] \subseteq {m \in accepted' : Fetches(u, m.to)'}
    BY <1>1, <2>1, <2>3 DEF CopyInv
  <2>4. ASSUME FetchMessages(u), rows'[u] = MailFor(req[u].who)
        PROVE  rows'[u] \subseteq {m \in accepted' : Fetches(u, m.to)'}
    <3>1. Fetches(u, req[u].who)
      BY <2>4, FetchesHandles DEF FetchMessages, ReqInv
    <3>2. \A m \in MailFor(req[u].who) : m \in accepted' /\ Fetches(u, m.to)'
      BY <1>1, <2>1, <3>1 DEF MailFor, CopyInv
    <3> QED
      BY <2>4, <3>2
  <2>5. rows'[u] \subseteq {m \in accepted' : Fetches(u, m.to)'}
    BY <1>3, <2>3, <2>4, RowsFrame
  <2>6. ASSUME cur'[u] # NoMsg
        PROVE  cur'[u] \in payload'[u]
    <3>1. cur'[u] = cur[u] /\ cur[u] # NoMsg
      BY <1>3, <2>6, RowsFrame
    <3>2. Fetches(u, req[u].who)
      BY <3>1, FetchesHandles DEF ReqInv
    <3>3. Taken[u] = payload[u] /\ Taken'[u] = payload'[u]
      BY <2>1, <3>2 DEF Taken, Fetches
    <3> QED
      BY <2>1, <3>1, <3>3 DEF CopyInv
  <2> QED
    BY <2>2, <2>5, <2>6
<1> QED
  BY <1>1, <1>2, <1>3 DEF CopyInv

\* With fresh ids a new message has an id no message ever had.
LEMMA IdStep ==
  ASSUME FreshDraws, TypeOK, ReqInv, IdInv, [Next]_vars
  PROVE  IdInv'
<1>1. CASE \A w \in Workers : ~MessageStored(w)
  <2>1. UNCHANGED accepted
    BY <1>1, TablesFrame
  <2> QED
    BY <2>1, Finished DEF IdInv, Ended
<1>2. ASSUME NEW w \in Workers, MessageStored(w)
      PROVE  IdInv'
  <2>1. PICK id \in Draws[w] :
          accepted' = accepted \cup {[id |-> id, to |-> req[w].who, by |-> w]}
    BY <1>2 DEF MessageStored
  <2>2. pc[w] = "insert" /\ \A u \in Workers : pc'[u] = IF u = w THEN "reply" ELSE pc[u]
    BY <1>2, RespondType DEF MessageStored, Codes
  <2>3. ASSUME NEW m \in accepted
        PROVE  m.id # id
    <3>1. CASE m \in OldMail
      BY <3>1 DEF FreshDraws
    <3>2. CASE m \notin OldMail
      <4>1. m.by \in Workers /\ m.id \in Draws[m.by]
        BY <2>3, <3>2 DEF TypeOK, Messages
      <4>2. m.by # w
        BY <2>2, <2>3, <4>1 DEF IdInv, Ended
      <4> QED
        BY <4>1, <4>2 DEF FreshDraws
    <3> QED
      BY <3>1, <3>2
  <2>4. (\A m, n \in accepted : m.id = n.id => m = n)'
    BY <2>1, <2>3 DEF IdInv
  <2>5. (\A m \in accepted : m.by \in Workers => pc[m.by] \in Ended \cup {"reply"})'
    BY <2>1, <2>2 DEF IdInv
  <2> QED
    BY <2>4, <2>5 DEF IdInv
<1> QED
  BY <1>1, <1>2

\* A message that leaves the table has been copied by the worker that deletes
\* it.
LEMMA KeptStep ==
  ASSUME FreshDraws, TypeOK, ReqInv, KeptInv, [Next]_vars
  PROVE  MailKept'
<1> DEFINE Copied(m) == \E u \in Workers : m \in Taken[u] /\ Fetches(u, m.to)
<1>1. ASSUME NEW m PROVE (\E u \in Workers : m \in payload[u] /\ Fetches(u, m.to)) <=> Copied(m)
  BY DEF Fetches, Taken
<1>2. ASSUME NEW m PROVE (\E u \in Workers : m \in payload'[u] /\ Fetches(u, m.to)') <=> Copied(m)'
  BY DEF Fetches, Taken
<1>3. ASSUME NEW m, Copied(m) PROVE Copied(m)'
  <2>1. ASSUME NEW w \in Workers, NextMessage(w)
        PROVE  Copied(m)'
    <3>1. PICK x \in rows[w] : UNCHANGED req /\ Taken' = [Taken EXCEPT ![w] = @ \cup {x}]
      BY <2>1, TakenNext DEF KeptInv
    <3>2. \A u \in Workers : Taken[u] \subseteq Taken'[u]
      BY <3>1 DEF Taken
    <3> QED
      BY <1>3, <3>1, <3>2 DEF Fetches
  <2>2. CASE \A w \in Workers : ~NextMessage(w)
    <3>1. PICK u \in Workers : m \in Taken[u] /\ Fetches(u, m.to)
      BY <1>3
    <3>2. m \in Taken'[u] /\ Fetches(u, m.to)'
      BY <2>2, <3>1, TakenFrame
    <3> QED
      BY <3>2
  <2> QED
    BY <2>1, <2>2
<1>4. ASSUME NEW m \in accepted, m \in messages, m \notin messages'
      PROVE  Copied(m)
  <2>1. PICK w \in Workers : DeleteMessage(w)
    BY <1>4, TablesFrame
  <2>2. pc[w] = "delete" /\ m.id = cur[w].id
    BY <1>4, <2>1 DEF DeleteMessage
  <2>3. cur[w] \in payload[w] /\ Fetches(w, req[w].who)
    BY <2>2, FetchesHandles DEF KeptInv, CopyInv, ReqInv
  <2>4. cur[w] \in Taken[w]
    BY <2>3 DEF Taken, Fetches
  <2>5. cur[w] \in accepted /\ Fetches(w, cur[w].to)
    BY <2>4 DEF KeptInv, CopyInv
  <2>6. m = cur[w]
    BY <1>4, <2>2, <2>5 DEF KeptInv, IdInv
  <2> QED
    BY <2>4, <2>5, <2>6
<1>5. ASSUME NEW m \in accepted', m \notin accepted
      PROVE  m \in messages'
  <2>1. PICK w \in Workers : MessageStored(w)
    BY <1>5, TablesFrame
  <2> QED
    BY <1>5, <2>1 DEF MessageStored
<1>6. ASSUME NEW m \in accepted', m \notin messages'
      PROVE  Copied(m)'
  <2>1. m \in accepted
    BY <1>5, <1>6
  <2>2. CASE m \in messages
    BY <1>3, <1>4, <1>6, <2>1, <2>2
  <2>3. CASE m \notin messages
    BY <1>1, <1>3, <2>1, <2>3 DEF KeptInv, MailKept
  <2> QED
    BY <2>2, <2>3
<1>7. \A m \in accepted' : m \in messages' \/ \E u \in Workers : m \in payload'[u] /\ Fetches(u, m.to)'
  BY <1>2, <1>6
<1> QED
  BY <1>7 DEF MailKept, Fetches
-----------------------------------------------------------------------------
\* The parts of the invariants that need no assumption on message ids.
SafeInv == TypeOK /\ ReqInv /\ RecipientInv /\ NameInv /\ CopyInv

LEMMA InitSafe == Init => SafeInv
<1> SUFFICES ASSUME Init PROVE SafeInv
  OBVIOUS
<1>1. TypeOK
  <2>1. OldMail \subseteq Messages /\ Founders \subseteq Ids /\ "new" \in PCs
    BY DEF Messages, Ids, PCs
  <2>2. clients \in SUBSET [id : Ids, name : Names]
    BY <2>1 DEF Init
  <2> QED
    BY <2>1, <2>2 DEF Init, TypeOK
<1>2. ReqInv
  BY ServerAssumption DEF Init, ReqInv, Codes
<1>3. RecipientInv
  BY ServerAssumption DEF Init, RecipientInv, MessagesHaveRecipients, ClientIds
<1>4. NameInv
  BY ServerAssumption DEF Init, NameInv, RacedNamesOnly
<1>5. CopyInv
  BY DEF Init, CopyInv, Taken
<1> QED
  BY <1>1, <1>2, <1>3, <1>4, <1>5 DEF SafeInv

LEMMA StepSafe == SafeInv /\ [Next]_vars => SafeInv'
  BY TypeStep, ReqStep, RecipientStep, NameStep, CopyStep DEF SafeInv

\* SafeInv holds in every reachable state, whatever ids are drawn.
THEOREM SafeInvariance == Spec => []SafeInv
  BY InitSafe, StepSafe, PTL DEF Spec

\* The variables keep their types.
THEOREM ServerTypeCorrect == Spec => []TypeOK
  BY SafeInvariance, PTL DEF SafeInv

\* Every stored message has a registered addressee (request_handler.py:111).
THEOREM RecipientsExist == Spec => []MessagesHaveRecipients
  BY SafeInvariance, PTL DEF SafeInv, RecipientInv

\* A name is given twice only by registrations that overlap
\* (request_handler.py:54, :65).
THEOREM NamesRaceOnly == Spec => []RacedNamesOnly
  BY SafeInvariance, PTL DEF SafeInv, NameInv

\* A fetch is answered with committed mail of the client that asked.
THEOREM OwnMail == Spec => []OwnMailOnly
<1>1. SafeInv => OwnMailOnly
  <2> SUFFICES ASSUME SafeInv, NEW w \in Workers, reply[w] = "mail"
               PROVE  payload[w] \subseteq {m \in accepted : Fetches(w, m.to)}
    BY DEF OwnMailOnly
  <2>1. Taken[w] = payload[w]
    BY FetchesHandles DEF SafeInv, ReqInv
  <2> QED
    BY <2>1 DEF SafeInv, CopyInv
<1> QED
  BY <1>1, SafeInvariance, PTL
-----------------------------------------------------------------------------
\* With fresh ids, initial mail is kept mail.
LEMMA InitKept == Init => KeptInv
<1> SUFFICES ASSUME Init PROVE KeptInv
  OBVIOUS
<1>1. CopyInv
  BY InitSafe DEF SafeInv
<1>2. accepted \subseteq OldMail /\ messages = accepted
  BY DEF Init
<1>3. IdInv
  BY <1>2, ServerAssumption DEF IdInv
<1> QED
  BY <1>1, <1>2, <1>3 DEF KeptInv, MailKept

\* KeptInv holds in every reachable state when no message id repeats.
THEOREM KeptInvariance ==
  ASSUME FreshDraws
  PROVE  Spec => [](SafeInv /\ KeptInv)
<1>1. Init => SafeInv /\ KeptInv
  BY InitSafe, InitKept
<1>2. SafeInv /\ KeptInv /\ [Next]_vars => (SafeInv /\ KeptInv)'
  <2> SUFFICES ASSUME SafeInv, KeptInv, [Next]_vars PROVE (SafeInv /\ KeptInv)'
    OBVIOUS
  <2>1. SafeInv' /\ MailKept'
    BY StepSafe, KeptStep DEF SafeInv
  <2>2. IdInv'
    BY IdStep DEF SafeInv, KeptInv
  <2> QED
    BY <2>1, <2>2 DEF SafeInv, KeptInv
<1> QED
  BY <1>1, <1>2, PTL DEF Spec

\* No committed message leaves the table before a worker has copied it for its
\* addressee (request_handler.py:176-188), if message ids do not repeat.
THEOREM MailIsKept ==
  ASSUME FreshDraws
  PROVE  Spec => []MailKept
<1>1. SafeInv /\ KeptInv => MailKept
  BY DEF KeptInv
<1> QED
  BY <1>1, KeptInvariance, PTL

\* A message some worker may copy is waiting, or another has copied it before.
LEMMA StillThere ==
  ASSUME KeptInv, NEW m \in accepted
  PROVE  m \in messages \/ \E u \in Workers : m \in Taken[u]
<1>1. \A u \in Workers : m \in payload[u] /\ Fetches(u, m.to) => m \in Taken[u]
  BY DEF Fetches, Taken
<1> QED
  BY <1>1 DEF KeptInv, MailKept

\* Every step of the server is a step of Mailbox or changes no mail.
LEMMA BoxStep ==
  ASSUME FreshDraws, SafeInv, KeptInv, [Next]_vars
  PROVE  [Box!Next]_Box!vars
<1> USE DEF Box!vars
<1>1. TypeOK /\ ReqInv /\ CopyInv
  BY DEF SafeInv
<1>2. (\A w \in Workers : ~NextMessage(w)) => UNCHANGED Taken
  BY <1>1, TakenFrame DEF Taken
<1>3. ASSUME NEW w \in Workers, MessageStored(w)
      PROVE  \E m \in Messages : Box!Deposit(m)
  <2>1. PICK id \in Draws[w] :
          /\ \A m \in messages : m.id # id
          /\ messages' = messages \cup {[id |-> id, to |-> req[w].who, by |-> w]}
    BY <1>3 DEF MessageStored
  <2>2. [id |-> id, to |-> req[w].who, by |-> w] \in Messages
    BY <1>1, <2>1, TypeStep DEF TypeOK
  <2>3. messages' # messages
    <3> DEFINE new == [id |-> id, to |-> req[w].who, by |-> w]
    <3>1. new.id = id
      OBVIOUS
    <3>2. new \notin messages
      BY <2>1, <3>1
    <3>3. new \in messages'
      BY <2>1
    <3> QED
      BY <3>2, <3>3
  <2>4. \A u \in Workers : ~NextMessage(u)
    BY <2>3 DEF NextMessage, tables
  <2> QED
    BY <1>2, <2>1, <2>2, <2>4 DEF Box!Deposit
<1>4. ASSUME NEW w \in Workers, NextMessage(w)
      PROVE  \E m \in Messages : Box!Take(w, m)
  <2>1. PICK m \in rows[w] :
          /\ m \in accepted /\ m \in Messages /\ Fetches(w, m.to)
          /\ Taken' = [Taken EXCEPT ![w] = @ \cup {m}]
          /\ UNCHANGED tables
    BY <1>1, <1>4, TakenNext
  <2>2. m \in messages \/ \E u \in Workers : m \in Taken[u]
    BY <2>1, StillThere
  <2>3. \A x \in Taken[w] : x \in Messages /\ x.to = m.to
    BY <1>1, <2>1 DEF CopyInv, Fetches, TypeOK
  <2>4. \A x \in Taken[w] : [y \in Messages |-> y.to][x] = [y \in Messages |-> y.to][m]
    BY <2>1, <2>3
  <2> QED
    BY <2>1, <2>2, <2>4 DEF Box!Take, tables
<1>5. ASSUME NEW w \in Workers, DeleteMessage(w)
      PROVE  UNCHANGED messages \/ \E m \in Messages : Box!Remove(m)
  <2>1. pc[w] = "delete" /\ UNCHANGED <<req, payload>>
    BY <1>5 DEF DeleteMessage
  <2>2. cur[w] \in Taken[w] /\ cur[w] \in accepted /\ cur[w] \in Messages
    BY <1>1, <2>1, FetchesHandles DEF CopyInv, ReqInv, TypeOK
  <2>3. UNCHANGED Taken
    BY <2>1 DEF Taken
  <2>4. CASE messages' = {m \in messages : m.id # cur[w].id}
    <3>1. \A m \in messages : m.id = cur[w].id <=> m = cur[w]
      BY <2>2 DEF KeptInv, CopyInv, IdInv
    <3>2. messages' = messages \ {cur[w]}
      BY <2>4, <3>1
    <3> QED
      BY <2>2, <2>3, <3>2 DEF Box!Remove
  <2> QED
    BY <1>5, <2>4 DEF DeleteMessage
<1>6. CASE \A w \in Workers : ~MessageStored(w) /\ ~NextMessage(w) /\ ~DeleteMessage(w)
  BY <1>2, <1>6, TablesFrame
<1>7. ASSUME NEW w \in Workers, DeleteMessage(w)
      PROVE  UNCHANGED Taken
  BY <1>7 DEF DeleteMessage, Taken
<1> QED
  BY <1>3, <1>4, <1>5, <1>6, <1>7 DEF Box!Next

\* The server keeps the promises of Mailbox for any number of workers, as long
\* as message ids do not repeat (message_manager.py:46).
THEOREM MailboxRefined ==
  ASSUME FreshDraws
  PROVE  Spec => RefinesMailbox
<1>1. Init => Box!Init
  BY InitSafe DEF Init, Box!Init, Taken, SafeInv, TypeOK
<1>2. SafeInv /\ KeptInv /\ [Next]_vars => [Box!Next]_Box!vars
  BY BoxStep
<1> QED
  BY <1>1, <1>2, KeptInvariance, PTL DEF Spec, RefinesMailbox, Box!Spec
=============================================================================
