--------------------------- MODULE ExchangeProofs ---------------------------
(****************************************************************************)
(* Theorems about one connection for all sizes of headers, packets,         *)
(* requests, responses and messages, the program's own among them.  The     *)
(* invariants count the bytes of each direction: those on their way and     *)
(* those read.                                                              *)
(****************************************************************************)
EXTENDS Exchange, TLAPS, FiniteSetTheorems

\* The bytes that the client has sent.
SentBytes == up + got

\* The request: what is on its way and what the worker has read.
RequestInv ==
  /\ cpc = "prompt" => up = 0 /\ got = 0 /\ reply = "none" /\ spc \in {"header", "ended"}
  /\ SentBytes <= Total
  /\ cpc \notin {"prompt", "gone"} => SentBytes = Total
  /\ spc = "header" => got = 0
  /\ spc = "payload" => counted = got
  /\ spc = "decode" => got = Total \/ split \/ cpc = "gone"
  /\ spc \in {"header", "payload", "decode", "handle"} => reply = "none"
  /\ spc = "handle" \/ reply \in {"success", "error"} => got = Total
  /\ MalformedOnlyIfSplit

\* The response: how much of it can be on its way, and who reads its payload.
RespBytes == RespHeader + (IF reply = "success" THEN call.body ELSE 0)

ResponseInv ==
  /\ down <= RespBytes
  /\ down > 0 => spc = "ended"
  /\ cpc = "one" => call.kind \in {"checked", "unchecked"}
  /\ cpc = "header" => call.kind \in {"list", "fetch"}
  /\ cpc = "list" => call.kind = "list"
  /\ cpc \in {"mail", "content"} => call.kind = "fetch" /\ want = call.body
  /\ cpc \in {"list", "mail", "content", "ok"} => reply = "success" /\ spc = "ended"

\* Where the messages of the response end, and how many of the first k are empty.
Ends == CHOOSE P \in [0 .. Len(call.mail) -> Nat] : Layout(call, P)

Empties(mail, k) == Cardinality({i \in 1 .. k : mail[i] = 0})

\* What the client's loop should have counted, what it has, and the content that
\* comes next.
TextStart == Ends[shown] + MsgHeader
Ahead == read + MsgHeader * Empties(call.mail, shown)
NextSize == call.mail[shown + 1]

\* The mail: the loop is at the start of a message, and its own count is ahead of
\* what it has read by one header for every empty message before.
MailInv ==
  call.kind = "fetch" =>
    /\ cpc \in {"prompt", "header"} => read = 0 /\ received = 0 /\ shown = 0
    /\ cpc = "mail" =>
         shown <= Len(call.mail) /\ read = Ends[shown] /\ received = Ahead
    /\ cpc = "content" =>
         /\ shown < Len(call.mail) /\ NextSize > 0
         /\ read = TextStart /\ received = Ahead
    /\ UnreadBound

IInv == TypeOK /\ RequestInv /\ ResponseInv /\ MailInv
-----------------------------------------------------------------------------
\* The sizes of a call.
LEMMA Sizes ==
  ASSUME TypeOK
  PROVE  /\ ReqHeader \in Nat /\ ReqHeader > 0 /\ MaxPacket \in Nat /\ MaxPacket > 0
         /\ RespHeader \in Nat /\ RespHeader > 0 /\ MsgHeader \in Nat /\ MsgHeader > 0
         /\ call.kind \in Kinds /\ call.size \in Nat /\ call.body \in Nat
         /\ call.mail \in Seq(Nat) /\ Len(call.mail) \in Nat
         /\ \A i \in 1 .. Len(call.mail) : call.mail[i] \in Nat
         /\ call.kind \in {"checked", "unchecked"} => call.body > 0
         /\ Total \in Nat /\ Total >= ReqHeader
<1>1. call \in [kind : Kinds, size : Nat, body : Nat, mail : Seq(Nat)]
  BY ExchangeAssumption DEF TypeOK
<1>2. call.kind \in {"checked", "unchecked"} => call.body > 0
  BY ExchangeAssumption DEF TypeOK
<1> QED
  BY <1>1, <1>2, ExchangeAssumption DEF Total

\* The variables that count are numbers.
LEMMA Counts ==
  ASSUME TypeOK
  PROVE  /\ up \in Nat /\ got \in Nat /\ counted \in Nat /\ down \in Nat
         /\ want \in Nat /\ received \in Nat /\ read \in Nat /\ shown \in Nat
  BY DEF TypeOK

\* What recv returns.
LEMMA PartsRange ==
  ASSUME NEW k \in Nat, NEW n \in Nat, NEW x \in Parts(k, n)
  PROVE  /\ x \in Nat /\ 1 <= x /\ x <= k /\ x <= n
         /\ Smaller(k, n) \in {k, n} /\ x <= Smaller(k, n)
         /\ n - x \in Nat
  BY DEF Parts, Smaller

\* Bytes that are read are no longer on their way.
LEMMA Moved ==
  ASSUME NEW u \in Nat, NEW g \in Nat, NEW n \in Nat, n <= u
  PROVE  /\ u - n \in Nat /\ g + n \in Nat
         /\ (u - n) + (g + n) = u + g
         /\ n = u => g + n = u + g
  OBVIOUS

LEMMA NoneRead ==
  ASSUME NEW u \in Nat, NEW g \in Nat, g = 0
  PROVE  u + g = u
  OBVIOUS

LEMMA FirstRead ==
  ASSUME NEW u \in Nat, NEW g \in Nat, NEW n \in Nat, n <= u, g = 0
  PROVE  (u - n) + n = u + g
  OBVIOUS

\* A fetch has the ends of its messages.
LEMMA EndsOfMessages ==
  ASSUME TypeOK, call.kind = "fetch"
  PROVE  /\ Ends[0] = 0 /\ Ends[Len(call.mail)] = call.body
         /\ \A k \in 0 .. Len(call.mail) : Ends[k] \in Nat
         /\ \A k \in Nat : k < Len(call.mail) =>
              Ends[k + 1] = Ends[k] + MsgHeader + call.mail[k + 1]
<1>1. PICK P \in [0 .. Len(call.mail) -> 0 .. call.body] : Layout(call, P)
  BY ExchangeAssumption DEF TypeOK
<1>2. P \in [0 .. Len(call.mail) -> Nat]
  BY <1>1, Sizes
<1>3. Ends \in [0 .. Len(call.mail) -> Nat] /\ Layout(call, Ends)
  BY <1>1, <1>2 DEF Ends
<1>4. ASSUME NEW k \in Nat, k < Len(call.mail)
      PROVE  Ends[k + 1] = Ends[k] + MsgHeader + call.mail[k + 1]
  <2>1. k + 1 \in 1 .. Len(call.mail) /\ (k + 1) - 1 = k
    BY <1>4, Sizes
  <2> QED
    BY <1>3, <2>1 DEF Layout
<1> QED
  BY <1>3, <1>4 DEF Layout

\* One message more has one empty message more or none.
LEMMA EmptiesNext ==
  ASSUME NEW mail, NEW k \in Nat
  PROVE  /\ Empties(mail, k) \in Nat
         /\ Empties(mail, 0) = 0
         /\ mail[k + 1] = 0 => Empties(mail, k + 1) = Empties(mail, k) + 1
         /\ mail[k + 1] # 0 => Empties(mail, k + 1) = Empties(mail, k)
<1> DEFINE S(j) == {i \in 1 .. j : mail[i] = 0}
<1>1. \A j \in Nat : IsFiniteSet(S(j)) /\ Cardinality(S(j)) \in Nat
  <2> TAKE j \in Nat
  <2>1. IsFiniteSet(1 .. j)
    BY FS_Interval
  <2>2. IsFiniteSet(S(j))
    BY <2>1, FS_Subset
  <2> QED
    BY <2>2, FS_CardinalityType
<1>2. S(0) = {}
  OBVIOUS
<1>3. mail[k + 1] # 0 => S(k + 1) = S(k)
  OBVIOUS
<1>4. mail[k + 1] = 0 => S(k + 1) = S(k) \cup {k + 1} /\ k + 1 \notin S(k)
  OBVIOUS
<1>5. mail[k + 1] = 0 => Cardinality(S(k + 1)) = Cardinality(S(k)) + 1
  BY <1>1, <1>4, FS_AddElement
<1>6. Cardinality(S(0)) = 0
  BY <1>2, FS_EmptySet
<1> QED
  BY <1>1, <1>3, <1>5, <1>6 DEF Empties

\* The count that is ahead by h for each of e messages.
LEMMA CountAhead ==
  ASSUME NEW r \in Nat, NEW h \in Nat, NEW e \in Nat
  PROVE  /\ r + h * e \in Nat /\ r <= r + h * e
         /\ \A n \in Nat : (r + n) + h * e = (r + h * e) + n
         /\ (r + h) + h * (e + 1) = (r + h * e) + 2 * h
         /\ \A b \in Nat : r + h * e >= b => b - r <= h * e
         /\ r = 0 /\ e = 0 => r + h * e = 0
<1> DEFINE x == h * e
<1>1. x \in Nat
  OBVIOUS
<1>2. h * (e + 1) = x + h
  OBVIOUS
<1>3. e = 0 => x = 0
  OBVIOUS
<1> HIDE DEF x
<1>4. /\ r + x \in Nat /\ r <= r + x
      /\ \A n \in Nat : (r + n) + x = (r + x) + n
      /\ (r + h) + (x + h) = (r + x) + 2 * h
      /\ \A b \in Nat : r + x >= b => b - r <= x
      /\ r = 0 /\ x = 0 => r + x = 0
  BY <1>1
<1> QED
  BY <1>2, <1>3, <1>4 DEF x
-----------------------------------------------------------------------------
\* The initial state.
LEMMA InitIInv == Init => IInv
<1> SUFFICES ASSUME Init PROVE IInv
  OBVIOUS
<1>1. TypeOK
  <2>1. {up, got, counted, down, want, received, read, shown} \subseteq Nat
    BY DEF Init
  <2> QED
    BY <2>1 DEF Init, TypeOK, Replies
<1>2. RequestInv
  BY <1>1, Sizes DEF Init, RequestInv, SentBytes, MalformedOnlyIfSplit
<1>3. ResponseInv
  BY <1>1, Sizes DEF Init, ResponseInv, RespBytes
<1>4. MailInv
  BY DEF Init, MailInv, UnreadBound
<1> QED
  BY <1>1, <1>2, <1>3, <1>4 DEF IInv

\* A client that has sent its request goes on or ends and lets the worker alone.
LEMMA ClientStep ==
  ASSUME TypeOK, Client \/ Leave
  PROVE  /\ UNCHANGED <<call, server, up>>
         /\ cpc \notin Final /\ cpc' # "prompt"
         /\ cpc = "prompt" => cpc' = "gone"
<1>1. ASSUME RecvNothing \/ Leave
      PROVE  UNCHANGED <<call, server, up>> /\ cpc \notin Final /\ cpc' # "prompt"
               /\ (cpc = "prompt" => cpc' = "gone")
  BY <1>1 DEF RecvNothing, Leave, Finish, Final
<1>2. ASSUME RecvOne \/ RecvHeader \/ RecvList
      PROVE  UNCHANGED <<call, server, up>> /\ cpc \in {"one", "header", "list"} /\ cpc' # "prompt"
  BY <1>2 DEF RecvOne, RecvHeader, RecvList, Finish
<1>3. ASSUME RecvMessage \/ RecvContent \/ EndOfMail
      PROVE  UNCHANGED <<call, server, up>> /\ cpc \in {"mail", "content"} /\ cpc' # "prompt"
  BY <1>3 DEF RecvMessage, RecvContent, EndOfMail, Finish
<1> QED
  BY <1>1, <1>2, <1>3 DEF Client, Final

\* What the worker's steps leave alone.
LEMMA WorkerStep ==
  ASSUME Worker \/ NextAccept \/ Crash
  PROVE  UNCHANGED <<call, client>>
  BY DEF Worker, NextAccept, Crash, DecodeHeader, RecvHeaderNothing, RecvPayload,
         RecvPayloadNothing, RecvReset, DecodePayload, Handle, Send
-----------------------------------------------------------------------------
\* The types, for every step.
LEMMA TypeStep ==
  ASSUME TypeOK, ResponseInv, MailInv, [Next]_vars
  PROVE  TypeOK'
<1> DEFINE Numbers == {up, got, counted, down, want, received, read, shown} \subseteq Nat
<1>a. /\ up \in Nat /\ got \in Nat /\ counted \in Nat /\ down \in Nat
      /\ want \in Nat /\ received \in Nat /\ read \in Nat /\ shown \in Nat
  BY Counts
<1>b. /\ RespHeader \in Nat /\ MsgHeader \in Nat /\ call.body \in Nat
      /\ RespHeader + call.body \in Nat /\ Total \in Nat /\ RespHeader > 0
  BY Sizes
<1> USE <1>a, <1>b
<1>1. CASE UNCHANGED vars
  BY <1>1 DEF vars, client, server, TypeOK
<1>2. CASE SendRequest
  <2>1. Numbers'
    BY <1>2 DEF SendRequest, server
  <2> QED
    BY <1>2, <2>1 DEF SendRequest, server, TypeOK
<1>3. CASE SendPart
  <2>1. up' \in Nat
    BY <1>3 DEF SendPart
  <2>2. Numbers'
    BY <1>3, <2>1 DEF SendPart, server, Finish
  <2> QED
    BY <1>3, <2>2 DEF SendPart, Finish, server, TypeOK, Final
<1>4. CASE RecvNothing \/ Leave \/ EndOfMail
  BY <1>4 DEF RecvNothing, Leave, EndOfMail, Finish, server, TypeOK, Final
<1>5. CASE RecvOne
  <2>1. PICK n \in Parts(RespHeader + call.body, down) : down' = down - n
    BY <1>5 DEF RecvOne
  <2>2. down' \in Nat
    BY <2>1, PartsRange
  <2>3. cpc' \in Final /\ UNCHANGED <<call, server, up, want, received, read, shown>>
    BY <1>5 DEF RecvOne, Finish, Final
  <2>4. Numbers'
    BY <2>2, <2>3 DEF server
  <2> QED
    BY <2>3, <2>4 DEF server, TypeOK
<1>6. CASE RecvHeader
  <2>1. PICK n \in Parts(RespHeader, down) :
          /\ down' = down - n
          /\ cpc' \in {"list", "mail"} \cup Final
          /\ want' \in {want, call.body}
    BY <1>6 DEF RecvHeader, Finish, Final
  <2>2. down' \in Nat
    BY <2>1, PartsRange
  <2>3. UNCHANGED <<call, server, up, received, read, shown>>
    BY <1>6 DEF RecvHeader, Finish
  <2>4. Numbers'
    BY <2>1, <2>2, <2>3 DEF server
  <2> QED
    BY <2>1, <2>3, <2>4 DEF server, TypeOK
<1>7. CASE RecvList
  <2>1. CASE received < want
    <3>1. PICK n \in Parts(RespHeader, down) :
            /\ down' = down - n /\ received' = received + n /\ read' = read + n
            /\ UNCHANGED <<cpc, want, shown>>
      BY <1>7, <2>1 DEF RecvList
    <3>2. down' \in Nat /\ received' \in Nat /\ read' \in Nat
      BY <3>1, PartsRange
    <3>3. Numbers'
      BY <1>7, <3>1, <3>2 DEF RecvList, server
    <3> QED
      BY <1>7, <3>1, <3>3 DEF RecvList, server, TypeOK
  <2>2. CASE ~(received < want)
    BY <1>7, <2>2 DEF RecvList, Finish, server, TypeOK, Final
  <2> QED
    BY <2>1, <2>2
<1>8. CASE RecvMessage
  <2>1. PICK n \in Parts(MsgHeader, down) :
          /\ down' = down - n /\ read' = read + n
          /\ received' \in {received + n, received + 2 * n}
          /\ shown' \in {shown, shown + 1} /\ cpc' \in {cpc, "lost", "content"}
    BY <1>8 DEF RecvMessage
  <2>2. n \in Nat /\ down' \in Nat
    BY <2>1, PartsRange
  <2>3. received' \in Nat /\ read' \in Nat /\ shown' \in Nat
    BY <2>1, <2>2
  <2>4. Numbers'
    BY <1>8, <2>2, <2>3 DEF RecvMessage, server
  <2> QED
    BY <1>8, <2>1, <2>4 DEF RecvMessage, server, TypeOK, Final
<1>9. CASE RecvContent
  <2>1. PICK n \in Parts(call.mail[shown + 1], down) :
          /\ down' = down - n /\ read' = read + n /\ received' = received + n
          /\ cpc' \in {"mail", "lost"}
    BY <1>9 DEF RecvContent
  <2>2. n \in Nat /\ down' \in Nat
    <3>0. cpc = "content" /\ call.kind = "fetch"
      BY <1>9 DEF RecvContent, ResponseInv
    <3>1. shown < Len(call.mail) /\ Len(call.mail) \in Nat
      BY <3>0, Sizes DEF MailInv
    <3>a. shown + 1 \in 1 .. Len(call.mail)
      BY <3>1
    <3>2. call.mail[shown + 1] \in Nat
      BY <3>a, Sizes
    <3> QED
      BY <2>1, <3>2, PartsRange
  <2>3. received' \in Nat /\ read' \in Nat /\ shown' \in Nat
    BY <1>9, <2>1, <2>2 DEF RecvContent
  <2>4. Numbers'
    BY <1>9, <2>2, <2>3 DEF RecvContent, server
  <2> QED
    BY <1>9, <2>1, <2>4 DEF RecvContent, server, TypeOK, Final
<1>10. CASE Worker \/ NextAccept \/ Crash
  <2>1. CASE DecodeHeader
    <3>1. PICK n \in Parts(ReqHeader, up) : up' = up - n /\ got' = n /\ counted' = n
      BY <1>10, <2>1 DEF DecodeHeader
    <3>2. up' \in Nat /\ n \in Nat
      BY <3>1, PartsRange, Sizes
    <3>3. Numbers'
      BY <2>1, <3>1, <3>2 DEF DecodeHeader, client
    <3>4. split' \in BOOLEAN
      BY <2>1 DEF DecodeHeader
    <3> QED
      BY <2>1, <3>3, <3>4 DEF DecodeHeader, client, TypeOK, Replies
  <2>2. CASE RecvPayload
    <3>1. CASE counted < Total
      <4>1. PICK n \in Parts(MaxPacket, up) :
              /\ up' = up - n /\ got' = got + n /\ counted' \in {counted, counted + n}
              /\ split' = (split \/ n < Smaller(MaxPacket, up)) /\ spc' \in {spc, "decode"}
        BY <2>2, <3>1 DEF RecvPayload
      <4>2. up' \in Nat /\ n \in Nat
        BY <4>1, PartsRange, Sizes
      <4>3. Numbers'
        BY <2>2, <4>1, <4>2 DEF RecvPayload, client
      <4> QED
        BY <2>2, <4>1, <4>3 DEF RecvPayload, client, TypeOK
    <3>2. CASE ~(counted < Total)
      BY <2>2, <3>2 DEF RecvPayload, client, TypeOK
    <3> QED
      BY <3>1, <3>2
  <2>3. CASE RecvHeaderNothing \/ RecvPayloadNothing \/ RecvReset \/ DecodePayload \/ Handle \/ NextAccept
    BY <2>3 DEF RecvHeaderNothing, RecvPayloadNothing, RecvReset, DecodePayload, Handle,
       NextAccept, client, TypeOK, Replies
  <2>4. CASE Send \/ Crash
    <3>1. down' \in Nat
      BY <2>4 DEF Send, Crash
    <3>2. Numbers'
      BY <2>4, <3>1 DEF Send, Crash, client
    <3> QED
      BY <2>4, <3>2 DEF Send, Crash, client, TypeOK
  <2> QED
    BY <1>10, <2>1, <2>2, <2>3, <2>4 DEF Worker
<1> QED
  BY <1>1, <1>2, <1>3, <1>4, <1>5, <1>6, <1>7, <1>8, <1>9, <1>10 DEF Next, Client

\* The bytes of the request.
LEMMA RequestStep ==
  ASSUME TypeOK, RequestInv, [Next]_vars
  PROVE  RequestInv'
<1> USE DEF RequestInv, MalformedOnlyIfSplit
<1>a. up \in Nat /\ got \in Nat /\ counted \in Nat
  BY Counts
<1>b. /\ Total \in Nat /\ ReqHeader \in Nat /\ MaxPacket \in Nat
      /\ ReqHeader > 0 /\ MaxPacket > 0 /\ Total >= ReqHeader
  BY Sizes
<1>c. call' = call => Total' = Total
  BY DEF Total
<1>d. UNCHANGED <<up, got>> => SentBytes' = SentBytes
  BY DEF SentBytes
<1> USE <1>a, <1>b, <1>c, <1>d
<1>1. CASE UNCHANGED vars
  BY <1>1 DEF vars, client, server
<1>2. CASE SendRequest
  <2>1. up' = Total /\ got' = got /\ got = 0 /\ Total' = Total /\ UNCHANGED <<spc, reply>>
    BY <1>2 DEF SendRequest, server
  <2>2. SentBytes' = Total'
    BY <2>1, NoneRead DEF SentBytes
  <2>3. cpc = "prompt" /\ cpc' \in {"one", "header"}
    BY <1>2 DEF SendRequest
  <2> QED
    BY <2>1, <2>2, <2>3
<1>3. CASE SendPart
  <2>1. PICK k \in 1 .. Total - 1 : up' = k
    BY <1>3 DEF SendPart
  <2>2. cpc = "prompt" /\ cpc' = "gone" /\ UNCHANGED <<call, spc, got, reply>>
    BY <1>3 DEF SendPart, server, Finish
  <2>3. k + got = k
    BY <2>1, <2>2, NoneRead
  <2>4. SentBytes' <= Total'
    BY <2>1, <2>2, <2>3 DEF SentBytes
  <2> QED
    BY <2>2, <2>4
<1>4. CASE Client \/ Leave
  <2>1. CASE Client
    <3>1. UNCHANGED <<call, server, up>> /\ cpc # "gone" /\ cpc' # "prompt"
      BY <2>1, ClientStep DEF Final
    <3>2. cpc # "prompt"
      BY <2>1 DEF Client, RecvNothing, RecvOne, RecvHeader, RecvList, RecvMessage, RecvContent, EndOfMail
    <3> QED
      BY <3>1, <3>2 DEF server
  <2>2. CASE Leave
    BY <2>2 DEF Leave, Finish, server
  <2> QED
    BY <1>4, <2>1, <2>2
<1>5. CASE DecodeHeader
  <2>1. PICK n \in Parts(ReqHeader, up) :
          /\ up' = up - n /\ got' = n /\ counted' = n
          /\ split' = (n < Smaller(ReqHeader, up))
          /\ IF n < ReqHeader THEN spc' = "send" /\ reply' = "malformed"
                              ELSE spc' = "payload" /\ UNCHANGED reply
    BY <1>5 DEF DecodeHeader
  <2>2. n \in Nat /\ 1 <= n /\ n <= ReqHeader /\ n <= up
    BY <2>1, PartsRange
  <2>3. spc = "header" /\ UNCHANGED <<call, cpc>> /\ got = 0 /\ cpc # "prompt"
    BY <1>5, <2>2 DEF DecodeHeader, client
  <2>4. SentBytes' = SentBytes
    BY <2>1, <2>2, <2>3, FirstRead DEF SentBytes
  <2>5. CASE n < ReqHeader
    <3>1. up = SentBytes
      BY <2>3, NoneRead DEF SentBytes
    <3>2. ASSUME cpc # "gone" PROVE split'
      <4>1. Smaller(ReqHeader, up) = ReqHeader
        BY <2>3, <3>1, <3>2 DEF Smaller
      <4> QED
        BY <2>1, <2>5, <4>1
    <3>3. got' = n /\ reply' = "malformed" /\ spc' = "send"
      BY <2>1, <2>5
    <3> QED
      BY <2>3, <2>4, <3>2, <3>3
  <2>6. CASE ~(n < ReqHeader)
    BY <2>1, <2>3, <2>4, <2>6
  <2> QED
    BY <2>5, <2>6
<1>6. CASE RecvPayload
  <2>1. spc = "payload" /\ UNCHANGED <<call, cpc, reply>> /\ reply = "none" /\ cpc # "prompt"
    BY <1>6 DEF RecvPayload, client
  <2>2. CASE counted < Total
    <3>1. PICK n \in Parts(MaxPacket, up) :
            /\ up' = up - n /\ got' = got + n
            /\ split' = (split \/ n < Smaller(MaxPacket, up))
            /\ IF n < MaxPacket THEN spc' = "decode" /\ UNCHANGED counted
                                ELSE counted' = counted + n /\ UNCHANGED spc
      BY <1>6, <2>2 DEF RecvPayload
    <3>2. n \in Nat /\ 1 <= n /\ n <= MaxPacket /\ n <= up
      BY <3>1, PartsRange
    <3>3. SentBytes' = SentBytes
      BY <3>1, <3>2, Moved DEF SentBytes
    <3>4. CASE n < MaxPacket
      <4>1. ASSUME n # up PROVE split'
        <5>1. n < Smaller(MaxPacket, up)
          BY <3>2, <3>4, <4>1 DEF Smaller
        <5> QED
          BY <3>1, <5>1
      <4>2. n = up => got' = SentBytes
        BY <3>1, <3>2, Moved DEF SentBytes
      <4>3. split' \/ cpc' = "gone" \/ got' = Total'
        BY <2>1, <4>1, <4>2
      <4>4. spc' = "decode"
        BY <3>1, <3>4
      <4> QED
        BY <2>1, <3>3, <4>3, <4>4
    <3>5. CASE ~(n < MaxPacket)
      BY <2>1, <3>1, <3>3, <3>5
    <3> QED
      BY <3>4, <3>5
  <2>3. CASE ~(counted < Total)
    <3>1. got = Total
      BY <2>1, <2>3 DEF SentBytes
    <3> QED
      BY <1>6, <2>1, <2>3, <3>1 DEF RecvPayload
  <2> QED
    BY <2>2, <2>3
<1>7. CASE RecvHeaderNothing \/ RecvPayloadNothing \/ RecvReset \/ NextAccept
  BY <1>7 DEF RecvHeaderNothing, RecvPayloadNothing, RecvReset, NextAccept, client
<1>8. CASE DecodePayload \/ Handle \/ Send \/ Crash
  BY <1>8 DEF DecodePayload, Handle, Send, Crash, client
<1> QED
  BY <1>1, <1>2, <1>3, <1>4, <1>5, <1>6, <1>7, <1>8 DEF Next, Worker

\* The bytes of the response, and what the client takes them for.
LEMMA ResponseStep ==
  ASSUME TypeOK, RequestInv, ResponseInv, [Next]_vars
  PROVE  ResponseInv'
<1> USE DEF ResponseInv
<1>a. down \in Nat
  BY Counts
<1>b. /\ RespHeader \in Nat /\ RespHeader > 0 /\ MsgHeader \in Nat /\ call.body \in Nat
      /\ call.kind \in Kinds /\ RespBytes \in Nat /\ RespHeader + call.body \in Nat
      /\ call.kind \in {"checked", "unchecked"} => call.body > 0
  BY Sizes DEF RespBytes
<1>c. UNCHANGED <<call, reply>> => RespBytes' = RespBytes
  BY DEF RespBytes
<1> USE <1>a, <1>b, <1>c
<1>1. CASE UNCHANGED vars
  BY <1>1 DEF vars, client, server
<1>2. CASE SendRequest \/ SendPart
  BY <1>2 DEF SendRequest, SendPart, Finish, server, Kinds
<1>3. CASE RecvNothing \/ Leave \/ EndOfMail
  BY <1>3 DEF RecvNothing, Leave, EndOfMail, Finish, server
\* A client that receives n bytes.
<1>4. ASSUME NEW k \in Nat, NEW n \in Parts(k, down), down' = down - n,
             UNCHANGED <<call, spc, reply>>
      PROVE  /\ n \in Nat /\ n <= k /\ n <= down /\ spc = "ended"
             /\ down' <= RespBytes' /\ (down' > 0 => spc' = "ended")
  <2>1. n \in Nat /\ 1 <= n /\ n <= k /\ n <= down
    BY <1>4, PartsRange
  <2>2. down - n <= RespBytes
    BY <2>1
  <2> QED
    BY <1>4, <2>1, <2>2
<1>5. CASE RecvOne
  <2>1. PICK n \in Parts(RespHeader + call.body, down) :
          /\ down' = down - n
          /\ cpc' = "ok" => n = RespHeader + call.body
          /\ cpc' \in Final
    BY <1>5 DEF RecvOne, Finish, Final
  <2>2. cpc = "one" /\ UNCHANGED <<call, spc, reply, want>>
    BY <1>5 DEF RecvOne, Finish, server
  <2>3. n \in Nat /\ n <= down /\ spc = "ended" /\ down' <= RespBytes' /\ (down' > 0 => spc' = "ended")
    BY <1>4, <2>1, <2>2
  <2>4. cpc' = "ok" => reply = "success"
    BY <2>1, <2>2, <2>3 DEF RespBytes
  <2> QED
    BY <2>1, <2>2, <2>3, <2>4 DEF Final
<1>6. CASE RecvHeader
  <2>1. PICK n \in Parts(RespHeader, down) :
          /\ down' = down - n
          /\ cpc' \in {"list", "mail"} =>
               /\ reply = "success" /\ want' = call.body
               /\ cpc' = IF call.kind = "list" THEN "list" ELSE "mail"
          /\ cpc' \in {"list", "mail", "error", "skipped", "lost"}
    BY <1>6 DEF RecvHeader, Finish
  <2>2. cpc = "header" /\ UNCHANGED <<call, spc, reply>>
    BY <1>6 DEF RecvHeader, server
  <2>3. spc = "ended" /\ down' <= RespBytes' /\ (down' > 0 => spc' = "ended")
    BY <1>4, <2>1, <2>2
  <2> QED
    BY <2>1, <2>2, <2>3
<1>7. CASE RecvList
  <2>1. cpc = "list" /\ cpc' \in {"list", "ok"} /\ UNCHANGED <<call, spc, reply>>
    BY <1>7 DEF RecvList, Finish, server
  <2>2. CASE received < want
    <3>1. PICK n \in Parts(RespHeader, down) : down' = down - n
      BY <1>7, <2>2 DEF RecvList
    <3> QED
      BY <1>4, <2>1, <3>1
  <2>3. CASE ~(received < want)
    BY <1>7, <2>1, <2>3 DEF RecvList
  <2> QED
    BY <2>2, <2>3
<1>8. CASE RecvMessage
  <2>1. PICK n \in Parts(MsgHeader, down) : down' = down - n
    BY <1>8 DEF RecvMessage
  <2>2. cpc = "mail" /\ cpc' \in {"mail", "content", "lost"} /\ UNCHANGED <<call, spc, reply, want>>
    BY <1>8 DEF RecvMessage, server
  <2> QED
    BY <1>4, <2>1, <2>2
<1>9. CASE RecvContent
  <2>1. PICK n \in Parts(call.mail[shown + 1], down) : down' = down - n
    BY <1>9 DEF RecvContent
  <2>2. cpc = "content" /\ cpc' \in {"mail", "lost"} /\ UNCHANGED <<call, spc, reply, want>>
    BY <1>9 DEF RecvContent, server
  <2>3. n \in Nat /\ down - n <= RespBytes
    BY <2>1 DEF Parts, Smaller
  <2> QED
    BY <2>1, <2>2, <2>3
<1>10. CASE DecodeHeader \/ RecvHeaderNothing \/ RecvPayload \/ RecvPayloadNothing \/ RecvReset
  <2>1. UNCHANGED <<call, client, down>> /\ spc \in {"header", "payload"}
    BY <1>10 DEF DecodeHeader, RecvHeaderNothing, RecvPayload, RecvPayloadNothing, RecvReset, client
  <2>2. down = 0 /\ down' = 0 /\ cpc \notin {"list", "mail", "content", "ok"}
    BY <2>1
  <2>3. RespBytes' \in Nat
    BY <2>1 DEF RespBytes
  <2> QED
    BY <2>1, <2>2, <2>3 DEF client
<1>11. CASE DecodePayload \/ Handle
  <2>1. UNCHANGED <<call, client, down>> /\ spc \in {"decode", "handle"}
    BY <1>11 DEF DecodePayload, Handle, client
  <2>2. down = 0 /\ down' = 0 /\ cpc \notin {"list", "mail", "content", "ok"}
    BY <2>1
  <2>3. RespBytes' \in Nat
    BY <2>1 DEF RespBytes
  <2> QED
    BY <2>1, <2>2, <2>3 DEF client
<1>12. CASE Send
  <2>1. spc = "send" /\ spc' = "ended" /\ UNCHANGED <<call, client, reply>>
    BY <1>12 DEF Send, client
  <2>2. down' = RespBytes \/ down' = down
    BY <1>12 DEF Send, RespBytes
  <2> QED
    BY <2>1, <2>2 DEF client
<1>13. CASE NextAccept
  BY <1>13 DEF NextAccept, client
<1>14. CASE Crash
  <2>1. spc' = "ended" /\ UNCHANGED <<call, client, reply>> /\ down' \in {down, 0}
    BY <1>14 DEF Crash
  <2> QED
    BY <2>1 DEF client
<1> QED
  BY <1>1, <1>2, <1>3, <1>5, <1>6, <1>7, <1>8, <1>9, <1>10, <1>11, <1>12, <1>13, <1>14
  DEF Next, Client, Worker

\* The mail of a fetch.
LEMMA MailStep ==
  ASSUME TypeOK, ResponseInv, MailInv, [Next]_vars
  PROVE  MailInv'
<1> SUFFICES ASSUME call.kind = "fetch", call' = call
             PROVE  MailInv'
  <2>1. call' = call
    <3>1. Client \/ Leave => call' = call
      BY ClientStep
    <3> QED
      BY <3>1, WorkerStep DEF Next, vars, client, server, SendRequest, SendPart
  <2> QED
    BY <2>1 DEF MailInv
<1> USE DEF MailInv
<1>a. /\ received \in Nat /\ read \in Nat /\ shown \in Nat /\ down \in Nat
      /\ MsgHeader \in Nat /\ MsgHeader > 0 /\ call.body \in Nat /\ Len(call.mail) \in Nat
  BY Counts, Sizes
<1>b. Ends' = Ends
  BY DEF Ends
<1>c. UNCHANGED <<read, shown>> => UNCHANGED <<TextStart, Ahead, NextSize>>
  BY <1>b DEF TextStart, Ahead, NextSize
<1>d. Empties(call.mail, shown) \in Nat
  BY <1>a, EmptiesNext
<1>e. ASSUME cpc' # "ok"
      PROVE  UnreadBound'
  BY <1>e DEF UnreadBound
<1>1. CASE UNCHANGED <<client, call>>
  <2>1. UnreadBound => UnreadBound'
    BY <1>1 DEF client, UnreadBound
  <2> QED
    BY <1>1, <1>b, <1>c, <2>1 DEF client
<1>2. CASE SendRequest
  BY <1>2, <1>e DEF SendRequest
<1>3. CASE SendPart \/ RecvNothing \/ Leave
  BY <1>3, <1>e DEF SendPart, RecvNothing, Leave, Finish
<1>4. CASE RecvOne \/ RecvList
  BY <1>4 DEF RecvOne, RecvList, ResponseInv
<1>5. CASE RecvHeader
  <2>1. UNCHANGED <<received, read, shown>> /\ cpc' \in Final \cup {"mail"} /\ cpc' # "ok" /\ cpc = "header"
    BY <1>5 DEF RecvHeader, Finish, Final
  <2>2. read = Ends[shown] /\ received = Ahead
    <3>1. read = 0 /\ received = 0 /\ shown = 0
      BY <2>1
    <3>2. Empties(call.mail, shown) = 0
      BY <3>1, EmptiesNext
    <3>3. Ahead = 0
      BY <1>a, <1>d, <3>1, <3>2, CountAhead DEF Ahead
    <3> QED
      BY <3>1, <3>3, EndsOfMessages
  <2>3. received' = Ahead' /\ read' = Ends'[shown']
    BY <1>b, <1>c, <2>1, <2>2
  <2>4. shown' <= Len(call'.mail)
    BY <1>a, <2>1
  <2> QED
    BY <1>e, <2>1, <2>3, <2>4 DEF Final
<1>6. CASE RecvMessage
  <2>1. cpc = "mail" /\ received < want
    BY <1>6 DEF RecvMessage
  <2>2. shown < Len(call.mail)
    <3>1. read <= Ahead
      BY <1>a, <1>d, CountAhead DEF Ahead
    <3>2. Ends[shown] < Ends[Len(call.mail)]
      BY <1>a, <2>1, <3>1, EndsOfMessages DEF ResponseInv
    <3> QED
      BY <1>a, <2>1, <3>2, EndsOfMessages
  <2>3. PICK n \in Parts(MsgHeader, down) :
          /\ read' = read + n
          /\ IF n < MsgHeader THEN cpc' = "lost"
             ELSE IF NextSize > 0
             THEN cpc' = "content" /\ received' = received + n /\ UNCHANGED shown
             ELSE shown' = shown + 1 /\ received' = received + 2 * n /\ UNCHANGED cpc
    BY <1>6 DEF RecvMessage, NextSize
  <2>4. n \in Nat /\ n <= MsgHeader
    BY <1>a, <2>3, PartsRange
  <2>5. cpc' # "ok" /\ cpc' \notin {"prompt", "header"}
    BY <2>1, <2>3
  <2>6. NextSize \in Nat
    BY <1>a, <2>2, Sizes DEF NextSize
  <2>7. CASE n < MsgHeader
    BY <1>e, <2>3, <2>7
  <2>8. CASE n = MsgHeader /\ NextSize > 0
    <3>a. ~(n < MsgHeader)
      BY <1>a, <2>8
    <3>1. read' = read + MsgHeader /\ received' = received + MsgHeader /\ shown' = shown /\ cpc' = "content"
      BY <2>3, <2>8, <3>a
    <3>2. read' = TextStart'
      BY <1>b, <2>1, <3>1 DEF TextStart
    <3>3. Ahead' = (read + MsgHeader) + MsgHeader * Empties(call.mail, shown)
      BY <3>1 DEF Ahead
    <3>4. Ahead' = Ahead + MsgHeader
      BY <1>a, <1>d, <3>3, CountAhead DEF Ahead
    <3>5. NextSize' = NextSize
      BY <3>1 DEF NextSize
    <3> QED
      BY <1>a, <1>e, <2>1, <2>2, <2>8, <3>1, <3>2, <3>4, <3>5
  <2>9. CASE n = MsgHeader /\ ~(NextSize > 0)
    <3>a. ~(n < MsgHeader)
      BY <1>a, <2>9
    <3>1. read' = read + MsgHeader /\ received' = received + 2 * MsgHeader
            /\ shown' = shown + 1 /\ cpc' = "mail"
      BY <2>1, <2>3, <2>9, <3>a
    <3>2. NextSize = 0
      BY <2>6, <2>9
    <3>3. Empties(call.mail, shown + 1) = Empties(call.mail, shown) + 1
      BY <1>a, <3>2, EmptiesNext DEF NextSize
    <3>4. Ahead' = (read + MsgHeader) + MsgHeader * (Empties(call.mail, shown) + 1)
      BY <3>1, <3>3 DEF Ahead
    <3>5. Ahead' = Ahead + 2 * MsgHeader
      BY <1>a, <1>d, <3>4, CountAhead DEF Ahead
    <3>6. Ends[shown + 1] = Ends[shown] + MsgHeader
      <4>1. Ends[shown + 1] = Ends[shown] + MsgHeader + NextSize /\ Ends[shown] \in Nat
        BY <1>a, <2>2, EndsOfMessages DEF NextSize
      <4> QED
        BY <1>a, <3>2, <4>1
    <3>7. read' = Ends'[shown']
      BY <1>b, <2>1, <3>1, <3>6
    <3>8. shown + 1 <= Len(call.mail)
      BY <1>a, <2>2
    <3> QED
      BY <1>e, <2>1, <3>1, <3>5, <3>7, <3>8
  <2> QED
    BY <1>a, <2>4, <2>7, <2>8, <2>9
<1>7. CASE RecvContent
  <2>1. cpc = "content" /\ shown' = shown + 1
    BY <1>7 DEF RecvContent
  <2>2. PICK n \in Parts(NextSize, down) :
          /\ read' = read + n /\ received' = received + n
          /\ cpc' = IF n = NextSize THEN "mail" ELSE "lost"
    BY <1>7 DEF RecvContent, NextSize
  <2>3. NextSize \in Nat /\ NextSize > 0
    <3>1. NextSize > 0 /\ shown < Len(call.mail)
      BY <1>a, <2>1
    <3>2. shown + 1 \in 1 .. Len(call.mail)
      BY <1>a, <3>1
    <3>3. \A i \in 1 .. Len(call.mail) : call.mail[i] \in Nat
      BY Sizes
    <3> QED
      BY <3>1, <3>2, <3>3 DEF NextSize
  <2>4. CASE n = NextSize
    <3>1. Empties(call.mail, shown + 1) = Empties(call.mail, shown)
      BY <1>a, <2>3, EmptiesNext DEF NextSize
    <3>2. Ahead' = (read + n) + MsgHeader * Empties(call.mail, shown)
      BY <2>1, <2>2, <3>1 DEF Ahead
    <3>3. Ahead' = Ahead + n
      BY <1>a, <1>d, <2>3, <2>4, <3>2, CountAhead DEF Ahead
    <3>4. Ends[shown + 1] = TextStart + n
      BY <1>a, <2>1, <2>4, EndsOfMessages DEF NextSize, TextStart
    <3>5. read' = Ends'[shown']
      BY <1>b, <2>1, <2>2, <3>4
    <3>6. shown + 1 <= Len(call.mail)
      BY <1>a, <2>1
    <3>7. cpc' = "mail" /\ received' = received + n
      BY <2>2, <2>4
    <3> QED
      BY <1>e, <2>1, <3>3, <3>5, <3>6, <3>7
  <2>5. CASE n # NextSize
    BY <1>e, <2>2, <2>5
  <2> QED
    BY <2>4, <2>5
<1>8. CASE EndOfMail
  <2>1. cpc = "mail" /\ received >= want /\ UNCHANGED <<read, shown>> /\ cpc' \in {"ok", "failed"}
    BY <1>8 DEF EndOfMail, Finish
  <2>2. call.body - read <= MsgHeader * Empties(call.mail, shown)
    BY <1>a, <1>d, <2>1, CountAhead DEF Ahead, ResponseInv
  <2>3. UnreadBound'
    BY <2>1, <2>2 DEF UnreadBound, Empties
  <2> QED
    BY <2>1, <2>3
<1> QED
  BY <1>1, <1>2, <1>3, <1>4, <1>5, <1>6, <1>7, <1>8, WorkerStep DEF Next, Client, vars, client
-----------------------------------------------------------------------------
\* The invariant holds in every reachable state.
THEOREM ExchangeInvariance == Spec => []IInv
<1>1. IInv /\ [Next]_vars => IInv'
  BY TypeStep, RequestStep, ResponseStep, MailStep DEF IInv
<1> QED
  BY InitIInv, <1>1, PTL DEF Spec

\* The variables keep their types; the counts of bytes are never negative.
THEOREM ExchangeTypeCorrect == Spec => []TypeOK
<1>1. IInv => TypeOK
  BY DEF IInv
<1> QED
  BY ExchangeInvariance, <1>1, PTL

\* Only whole requests reach a handler (request.py:110).
THEOREM WholeRequests == Spec => []HandlesWholeRequest
<1>1. IInv => HandlesWholeRequest
  <2> SUFFICES ASSUME IInv, spc = "handle" \/ reply \in {"success", "error"}
               PROVE  got = Total /\ up = 0
    BY DEF HandlesWholeRequest
  <2>1. got = Total /\ SentBytes <= Total /\ TypeOK
    BY DEF IInv, RequestInv
  <2>2. up \in Nat /\ got \in Nat
    BY <2>1, Counts
  <2> QED
    BY <2>1, <2>2 DEF SentBytes
<1> QED
  BY ExchangeInvariance, <1>1, PTL

\* A whole request that arrives in full packets is never refused (server.py:91).
THEOREM MalformedWereSplit == Spec => []MalformedOnlyIfSplit
<1>1. IInv => MalformedOnlyIfSplit
  BY DEF IInv, RequestInv
<1> QED
  BY ExchangeInvariance, <1>1, PTL

\* Success is reported only of what the server has carried out (response.cpp:11).
THEOREM ConfirmedWereHandled == Spec => []ConfirmedIsHandled
<1>1. IInv => ConfirmedIsHandled
  BY DEF IInv, ResponseInv, ConfirmedIsHandled
<1> QED
  BY ExchangeInvariance, <1>1, PTL

\* A fetch leaves unread at most one header for every empty message that it
\* displayed (operation.cpp:628).
THEOREM UnreadIsBound == Spec => []UnreadBound
<1>1. IInv => UnreadBound
  BY DEF IInv, MailInv, UnreadBound
<1> QED
  BY ExchangeInvariance, <1>1, PTL
=============================================================================
