------------------------------ MODULE Delivery ------------------------------
(****************************************************************************)
(* Mail from the prompt of one user to the screen of another: the clients'  *)
(* operations, the handlers of the server and the table between them, with  *)
(* the sizes of the program (module Wire).                                  *)
(*                                                                          *)
(* Module Server has the table under every interleaving of manager calls,   *)
(* module Exchange has one connection in bytes.  Here a send is one step, a *)
(* fetch is copied and deleted message by message, and what arrives is cut  *)
(* where Exchange may cut it.  Message ids do not repeat.                   *)
(****************************************************************************)
EXTENDS Wire, Sequences, SequencesExt, FiniteSets

CONSTANTS
  Users,
  Workers,      \* bound: one worker for every fetch
  Texts,        \* the lengths of what the users type
  MaxMessages,  \* bound: how many messages are sent
  None

ASSUME DeliveryAssumption ==
  /\ None \notin Users \cup Workers
  /\ Texts \subseteq Nat
  /\ MaxMessages \in Nat

VARIABLES
  sent,     \* sent[i]: message i, its addressee and the size of its content
  table,    \* the rows of the table messages, in the order of insertion
  fetcher,  \* fetcher[w]: whose fetch worker w handles
  batch,    \* batch[w]: what its SELECT returned
  copied,   \* copied[w]: how many of them are in the payload
  stage,    \* stage[w]: where __fetch_messages is, or how the fetch ended
  client,   \* client[u]: the worker that u's program waits for
  shown,    \* shown[w]: how many messages of w's response were displayed
  screen,   \* screen[u]: the messages displayed to u
  refused,  \* refused[i]: how many times a DELETE of i failed
  malformed \* the server has refused a request for its form

vars ==
  <<sent, table, fetcher, batch, copied, stage, client, shown, screen, refused, malformed>>

server == <<table, fetcher, batch, copied, stage, refused>>

Ids == 1 .. MaxMessages
Active == {"copy", "delete"}

\* dead: the worker died; gone: the program had left; skipped: "Payload too
\* big"; cut: the connection or the program ended in _fetch_massages.
Ended == {"dead", "gone", "skipped", "cut", "done"}

TypeOK ==
  /\ sent \in Seq([to : Users, size : Nat]) /\ Len(sent) <= MaxMessages
  /\ table \in Seq(1 .. Len(sent))
  /\ fetcher \in [Workers -> Users \cup {None}]
  /\ batch \in [Workers -> Seq(1 .. Len(sent))]
  /\ copied \in [Workers -> Nat] /\ shown \in [Workers -> Nat]
  /\ stage \in [Workers -> {"idle"} \cup Active \cup Ended]
  /\ client \in [Users -> Workers \cup {None}]
  /\ screen \in [Users -> Seq(1 .. Len(sent))]
  /\ refused \in [Ids -> Nat] /\ malformed \in BOOLEAN
  /\ \A w \in Workers : shown[w] <= copied[w] /\ copied[w] <= Len(batch[w])

Init ==
  /\ sent = <<>> /\ table = <<>>
  /\ fetcher = [w \in Workers |-> None] /\ batch = [w \in Workers |-> <<>>]
  /\ copied = [w \in Workers |-> 0] /\ shown = [w \in Workers |-> 0]
  /\ stage = [w \in Workers |-> "idle"]
  /\ client = [u \in Users |-> None] /\ screen = [u \in Users |-> <<>>]
  /\ refused = [i \in Ids |-> 0] /\ malformed = FALSE
-----------------------------------------------------------------------------
\* The elements of s that are in S, in their order: what SELECT and DELETE leave.
Keep(s, S) ==
  LET kept[n \in 0 .. Len(s)] ==
        IF n = 0 THEN <<>>
        ELSE IF s[n] \in S THEN Append(kept[n - 1], s[n]) ELSE kept[n - 1]
  IN  kept[Len(s)]

\* The sums of the first 0, 1, ... elements of s.
Sums(s) ==
  LET sum[n \in 0 .. Len(s)] == IF n = 0 THEN 0 ELSE sum[n - 1] + s[n]
  IN  sum

\* Sizes[i] for a batch b: what fetch_messages has to display, in order.
Sizes(b) == [i \in DOMAIN b |-> sent[b[i]].size]

Total(b) == Sums([i \in DOMAIN b |-> PackedSize(Sizes(b)[i])])[Len(b)]

\* Fault: the header counts again, whatever follows it.
CountedAgain(size) == 2 * MIN_MSG_RESPONSE_SIZE + size

\* What a message adds to received_data_size: its header's recv and then result
\* once more, which is still the header's when there is no content.
CountedFor(size) ==
  MIN_MSG_RESPONSE_SIZE + IF size > 0 THEN size ELSE MIN_MSG_RESPONSE_SIZE

Received(b, i) == Sums([j \in DOMAIN b |-> CountedFor(Sizes(b)[j])])[i]

\* Fault: the loop runs until one message before the end.
DisplayedButLast(b) ==
  Cardinality({i \in DOMAIN b : Received(b, i) < Total(b)})

\* The loop shows message i while the count before it is short of the payload.
Displayed(b) == Cardinality({i \in DOMAIN b : Received(b, i - 1) < Total(b)})
-----------------------------------------------------------------------------
\* Sending: the text is typed, sent, checked and stored.  A send whose statement
\* fails leaves everything as it was.
SendMsg(u, msg) ==
  LET built == BuildMsg(msg)
      ok == Decodes(BuildRequest(Request("send", built.size))) /\ SendMsgAccepts(built) IN
  /\ Len(sent) < MaxMessages
  /\ malformed' = (malformed \/ ~ok)
  /\ sent' = IF ok THEN Append(sent, [to |-> u, size |-> built.content_size]) ELSE sent
  /\ table' = IF ok THEN Append(table, Len(sent) + 1) ELSE table
  /\ UNCHANGED <<fetcher, batch, copied, stage, client, shown, screen, refused>>

\* The other operations leave the mail alone.
Ask(code) ==
  /\ malformed' =
       (malformed \/ ~(Decodes(BuildRequest(Request(code, PayloadSize[code])))
                        /\ HandlerAccepts(code, PayloadSize[code])))
  /\ UNCHANGED <<sent, server, client, shown, screen>>

MailFor(u) == {i \in DOMAIN sent : sent[i].to = u}

\* Fault: the newest message comes first.
SelectNewest(u) == Reverse(Keep(table, MailFor(u)))

\* The primary key is not the rowid, so the table is read as it was written.
Select(u) == Keep(table, MailFor(u))

\* A SELECT that raises is swallowed and counts as no mail.
Fetch(u, w) ==
  /\ client[u] = None /\ stage[w] = "idle"
  /\ client' = [client EXCEPT ![u] = w]
  /\ fetcher' = [fetcher EXCEPT ![w] = u]
  /\ \E b \in {Select(u), <<>>} : batch' = [batch EXCEPT ![w] = b]
  /\ stage' = [stage EXCEPT ![w] = "copy"]
  /\ UNCHANGED <<sent, table, copied, shown, screen, refused, malformed>>

\* Fault: one message more than there are.
CopyOneMore(w) ==
  /\ stage[w] = "copy" /\ copied[w] <= Len(batch[w])
  /\ copied' = [copied EXCEPT ![w] = @ + 1]
  /\ stage' = [stage EXCEPT ![w] = "delete"]
  /\ UNCHANGED <<sent, table, fetcher, batch, client, shown, screen, refused, malformed>>

Copy(w) ==
  /\ stage[w] = "copy" /\ copied[w] < Len(batch[w])
  /\ copied' = [copied EXCEPT ![w] = @ + 1]
  /\ stage' = [stage EXCEPT ![w] = "delete"]
  /\ UNCHANGED <<sent, table, fetcher, batch, client, shown, screen, refused, malformed>>

\* Fault: nothing is deleted.
DeleteNothing(w) ==
  /\ stage[w] = "delete"
  /\ stage' = [stage EXCEPT ![w] = "copy"]
  /\ UNCHANGED <<sent, table, fetcher, batch, copied, client, shown, screen, refused, malformed>>

\* Fault: the whole box is emptied.
DeleteBox(w) ==
  /\ stage[w] = "delete"
  /\ stage' = [stage EXCEPT ![w] = "copy"]
  /\ table' = Keep(table, DOMAIN sent \ MailFor(fetcher[w]))
  /\ UNCHANGED <<sent, fetcher, batch, copied, client, shown, screen, refused, malformed>>

\* A DELETE that raises is swallowed.
Delete(w) ==
  LET id == batch[w][copied[w]] IN
  /\ stage[w] = "delete"
  /\ stage' = [stage EXCEPT ![w] = "copy"]
  /\ \/ table' = Keep(table, DOMAIN sent \ {id}) /\ UNCHANGED refused
     \/ refused' = [refused EXCEPT ![id] = @ + 1] /\ UNCHANGED table
  /\ UNCHANGED <<sent, fetcher, batch, copied, client, shown, screen, malformed>>

\* The worker or the whole server ends; u's program sees the end.
Die(w) ==
  /\ stage[w] \in Active
  /\ stage' = [stage EXCEPT ![w] = "dead"]
  /\ client' = [u \in Users |-> IF client[u] = w THEN None ELSE client[u]]
  /\ UNCHANGED <<sent, table, fetcher, batch, copied, shown, screen, refused, malformed>>

\* The program is killed while it waits.
GiveUp(u) ==
  /\ client[u] # None
  /\ client' = [client EXCEPT ![u] = None]
  /\ UNCHANGED <<sent, server, shown, screen, malformed>>

Finished(w) == stage[w] = "copy" /\ copied[w] = Len(batch[w])

AnswerNobody(w) ==
  /\ Finished(w) /\ client[fetcher[w]] # w
  /\ stage' = [stage EXCEPT ![w] = "gone"]
  /\ UNCHANGED <<sent, table, fetcher, batch, copied, client, shown, screen, refused, malformed>>

\* The client displays the first n messages and leaves with this end.
Display(w, n, end) ==
  /\ Finished(w) /\ client[fetcher[w]] = w
  /\ stage' = [stage EXCEPT ![w] = end]
  /\ shown' = [shown EXCEPT ![w] = n]
  /\ screen' = [screen EXCEPT ![fetcher[w]] = @ \o SubSeq(batch[w], 1, n)]
  /\ client' = [client EXCEPT ![fetcher[w]] = None]
  /\ UNCHANGED <<sent, table, fetcher, batch, copied, refused, malformed>>

TooBig(w) == Total(batch[w]) > MAX_PAYLOAD_SIZE

DisplayNothing(w) == TooBig(w) /\ Display(w, 0, "skipped")

DisplayAll(w) == ~TooBig(w) /\ Display(w, Displayed(batch[w]), "done")

DisplayPart(w) ==
  ~TooBig(w) /\ \E n \in 0 .. Displayed(batch[w]) - 1 : Display(w, n, "cut")

Next ==
  \/ \E u \in Users, msg \in Messages(Texts) : SendMsg(u, msg)
  \/ \E code \in DOMAIN PayloadSize : Ask(code)
  \/ \E u \in Users, w \in Workers : Fetch(u, w)
  \/ \E u \in Users : GiveUp(u)
  \/ \E w \in Workers :
       \/ Copy(w) \/ Delete(w) \/ Die(w) \/ AnswerNobody(w)
       \/ DisplayNothing(w) \/ DisplayAll(w) \/ DisplayPart(w)

Spec == Init /\ [][Next]_vars
-----------------------------------------------------------------------------
(****************************************************************************)
(* Properties                                                               *)
(****************************************************************************)

\* Every request that the client builds is one that the server decodes and that
\* its handler does not refuse for its form, texts of the greatest length
\* included (client/request.cpp:48, request.py:96, request_handler.py:106).
Understood == ~malformed

CopiedBy(w) == SubSeq(batch[w], 1, copied[w])

\* A fetch that was answered, awaited and within the limit hides a message only
\* behind a message without content (client/operation.cpp:628).
LostBy(w, i) ==
  \/ stage[w] \in {"dead", "gone", "cut"}
  \/ stage[w] = "skipped" /\ TooBig(w)
  \/ stage[w] = "done" /\ \E k, l \in DOMAIN batch[w] :
       k < l /\ batch[w][l] = i /\ Sizes(batch[w])[k] = 0

\* A stored message waits in the table, is on its way or on its addressee's
\* screen, or a fetch of its addressee has lost it, for one of the reasons above
\* (request_handler.py:188, client/operation.cpp:561, :628).
LostForReason ==
  \A i \in DOMAIN sent :
    \/ i \in ToSet(table) \cup ToSet(screen[sent[i].to])
    \/ \E w \in Workers :
         /\ fetcher[w] = sent[i].to
         /\ i \in ToSet(CopiedBy(w))
         /\ stage[w] \in Active \/ LostBy(w, i)

\* A fetch that ends well hides at most as many messages as it displays messages
\* without content: every one of them is counted for one header too many
\* (client/operation.cpp:592, :628).
HiddenByEmpties ==
  \A w \in Workers : stage[w] = "done" =>
    Len(batch[w]) - shown[w]
      <= Cardinality({i \in 1 .. shown[w] : Sizes(batch[w])[i] = 0})

\* A message is displayed again only if a DELETE of it has failed, although
\* workers whose client has left fetch beside later ones (request_handler.py:188).
ShownOnce ==
  \A u \in Users : \A i \in ToSet(screen[u]) :
    Cardinality({k \in DOMAIN screen[u] : screen[u][k] = i}) <= 1 + refused[i]

\* A user sees no message for the first time after one that was stored later,
\* whatever failed or overlapped (message_manager.py:74, request_handler.py:176).
FirstSeenInOrder ==
  \A u \in Users : \A k, l \in DOMAIN screen[u] :
    k < l /\ screen[u][k] > screen[u][l] =>
      \E j \in 1 .. k : screen[u][j] = screen[u][l]

Mail == [id : Ids, to : Users, size : {BuildMsg(msg).content_size : msg \in Messages(Texts)}]

AsMail(ids) == {[id |-> i, to |-> sent[i].to, size |-> sent[i].size] : i \in ids}

Box == INSTANCE Mailbox WITH
  Collectors <- Workers, To <- [m \in Mail |-> m.to],
  waiting <- AsMail(ToSet(table)),
  taken <- [w \in Workers |-> AsMail(ToSet(CopiedBy(w)))]

\* With the clients' side added the promises of Mailbox are kept still.
RefinesMailbox == Box!Spec
=============================================================================
