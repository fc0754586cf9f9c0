---------------------------- MODULE DeliveryProofs ----------------------------
(****************************************************************************)
(* Theorems about mail from prompt to screen, for any users, any number of  *)
(* messages and overlapping fetches, and texts of any length.               *)
(****************************************************************************)
EXTENDS DeliveryLemmas

(****************************************************************************)
(* The inductive invariant.                                                 *)
(****************************************************************************)

Contents == {BuildMsg(msg).content_size : msg \in Messages(Texts)}

Stored == \A i \in DOMAIN sent : sent[i].size \in Contents

Ordered == Ascending(table) /\ \A w \in Workers : Ascending(batch[w])

FetchOf(w) ==
  /\ stage[w] = "idle" => copied[w] = 0
  /\ stage[w] # "idle" =>
       fetcher[w] \in Users /\ ToSet(batch[w]) \subseteq MailFor(fetcher[w])
  /\ stage[w] = "delete" => copied[w] >= 1

Fetching == \A w \in Workers : FetchOf(w)

\* A program waits for a worker that is at work for it.
Waiting ==
  \A u \in Users : client[u] # None =>
    fetcher[client[u]] = u /\ stage[client[u]] \in Active

Screens == \A u \in Users : ToSet(screen[u]) \subseteq MailFor(u)

\* A message still in the table was displayed no more often than a DELETE failed.
Allowed ==
  \A u \in Users, i \in Ids :
    IF i \in ToSet(table) THEN Times(screen[u], i) <= refused[i]
    ELSE Times(screen[u], i) <= 1 + refused[i]

\* How many of its messages the worker has tried to delete.
Handled(w) == IF stage[w] = "delete" THEN copied[w] - 1 ELSE copied[w]

\* u may be shown what w brings, and may then be shown again what w has not
\* managed to delete.
MayShow(u, w) ==
  \A j \in DOMAIN batch[w] :
    /\ Times(screen[u], batch[w][j]) <= refused[batch[w][j]]
    /\ j <= Handled(w) /\ batch[w][j] \in ToSet(table) =>
         Times(screen[u], batch[w][j]) < refused[batch[w][j]]

Wanted == \A u \in Users : client[u] # None => MayShow(u, client[u])

\* The fetch that u waits for has all that is older than any message of its own.
SelectedFor(u, w) ==
  \A y \in ToSet(table) \cap MailFor(u), x \in ToSet(batch[w]) :
    y < x => y \in ToSet(batch[w])

Selected == \A u \in Users : client[u] # None => SelectedFor(u, client[u])

\* What may still come is behind nothing newer, unless it was displayed before.
Ahead ==
  \A u \in Users :
    /\ \A y \in ToSet(table) \cap MailFor(u) : Before(screen[u], y)
    /\ client[u] # None => \A y \in ToSet(batch[client[u]]) : Before(screen[u], y)

\* What a worker is still to copy waits in the table or somebody has a copy.
Held ==
  \A w \in Workers : stage[w] \in Active =>
    \A i \in ToSet(batch[w]) :
      i \in ToSet(table) \/ \E v \in Workers : i \in ToSet(CopiedBy(v))

Mails == Stored /\ Ordered /\ Fetching /\ Waiting /\ Screens

Repeats == Allowed /\ Wanted

Order == Selected /\ Ahead /\ FirstSeenInOrder

Losses == Held /\ LostForReason /\ HiddenByEmpties

IInv == TypeOK /\ Mails /\ Repeats /\ Order /\ Losses
-----------------------------------------------------------------------------
(****************************************************************************)
(* What a step does.                                                        *)
(****************************************************************************)

Quiet == UNCHANGED <<sent, server, client, shown, screen>> /\ malformed' \in BOOLEAN

Stores(u, size) ==
  /\ Len(sent) < MaxMessages /\ size \in Contents
  /\ sent' = Append(sent, [to |-> u, size |-> size])
  /\ table' = Append(table, Len(sent) + 1)
  /\ UNCHANGED <<fetcher, batch, copied, stage, client, shown, screen, refused>>
  /\ malformed' \in BOOLEAN

Displays(w, n, end) ==
  /\ Display(w, n, end) /\ end \in Ended
  /\ end \notin {"dead", "gone", "cut"} =>
       \/ end = "skipped" /\ TooBig(w)
       \/ end = "done" /\ n = Displayed(batch[w])

Steps ==
  \/ Quiet
  \/ \E u \in Users, size \in Nat : Stores(u, size)
  \/ \E u \in Users, w \in Workers : Fetch(u, w)
  \/ \E u \in Users : GiveUp(u)
  \/ \E w \in Workers : Copy(w) \/ Delete(w) \/ Die(w) \/ AnswerNobody(w)
  \/ \E w \in Workers, end \in Ended : \E n \in 0 .. Len(batch[w]) : Displays(w, n, end)

LEMMA ContentsNat == Contents \subseteq Nat
<1>1. \A msg \in Messages(Texts) : msg.content \in Nat
  BY DeliveryAssumption DEF Messages, SYMMETRIC_KEY_SIZE
<1> QED
  BY <1>1 DEF Contents, BuildMsg

LEMMA SentOf ==
  ASSUME TypeOK
  PROVE  /\ Len(sent) \in Nat /\ DOMAIN sent = 1 .. Len(sent) /\ Len(sent) <= MaxMessages
         /\ \A i \in 1 .. Len(sent) : sent[i].to \in Users /\ sent[i].size \in Nat
<1> DEFINE R == [to : Users, size : Nat]
<1>1. sent \in Seq(R) /\ Len(sent) <= MaxMessages
  BY DEF TypeOK
<1>2. \A r \in R : r.to \in Users /\ r.size \in Nat
  OBVIOUS
<1> HIDE DEF R
<1>3. Len(sent) \in Nat /\ DOMAIN sent = 1 .. Len(sent) /\ \A i \in 1 .. Len(sent) : sent[i] \in R
  BY <1>1, LenProperties, ElementOfSeq
<1> QED
  BY <1>1, <1>2, <1>3

\* The messages of a batch have sizes, and what is displayed of them is a part.
LEMMA BatchSizes ==
  ASSUME TypeOK, NEW b \in Seq(1 .. Len(sent))
  PROVE  /\ Sizes(b) \in Seq(Nat) /\ Len(Sizes(b)) = Len(b)
         /\ \A i \in 1 .. Len(b) : Sizes(b)[i] = sent[b[i]].size
         /\ Displayed(b) = ShownOf(Sizes(b))
         /\ Displayed(b) \in 0 .. Len(b)
<1>1. DOMAIN b = 1 .. Len(b) /\ Len(b) \in Nat /\ \A i \in 1 .. Len(b) : b[i] \in 1 .. Len(sent)
  BY LenProperties
<1>2. \A i \in 1 .. Len(sent) : sent[i].size \in Nat
  BY SentOf
<1> DEFINE z == Sizes(b)
<1>3. \A i \in 1 .. Len(b) : z[i] = sent[b[i]].size
  BY <1>1 DEF Sizes
<1>4. z \in [1 .. Len(b) -> Nat]
  BY <1>1, <1>2 DEF Sizes
<1> HIDE DEF z
<1>5. z \in Seq(Nat) /\ Len(z) = Len(b) /\ DOMAIN z = DOMAIN b
  BY <1>1, <1>4, IsASeq, LenProperties
<1>6. \A n : Received(b, n) = CountedSums(z)[n]
  <2> TAKE n
  <2>1. [j \in DOMAIN b |-> CountedFor(z[j])] = [j \in DOMAIN z |-> CountedFor(z[j])]
    BY <1>5
  <2> QED
    BY <2>1 DEF Received, CountedSums, z
<1>7. Total(b) = PackedSums(z)[Len(z)]
  BY <1>5 DEF Total, PackedSums, z
<1>8. Displayed(b) = ShownOf(z)
  BY <1>1, <1>5, <1>6, <1>7 DEF Displayed, ShownOf
<1>9. ShownOf(z) \in 0 .. Len(z)
  BY <1>5, ShownUpToEmpties
<1> QED
  BY <1>3, <1>5, <1>8, <1>9 DEF z

LEMMA StepsOf ==
  ASSUME TypeOK, [Next]_vars
  PROVE  Steps
<1> USE DEF Steps
<1>1. ASSUME NEW u \in Users, NEW msg \in Messages(Texts), SendMsg(u, msg)
      PROVE  Steps
  <2> DEFINE built == BuildMsg(msg)
             ok == Decodes(BuildRequest(Request("send", built.size))) /\ SendMsgAccepts(built)
             size == built.content_size
  <2>1. size \in Contents /\ size \in Nat
    BY ContentsNat DEF Contents
  <2>2. malformed' \in BOOLEAN
    BY <1>1 DEF SendMsg
  <2>3. CASE ok
    <3>1. Stores(u, size)
      BY <1>1, <2>1, <2>2, <2>3 DEF SendMsg, Stores
    <3> QED
      BY <2>1, <3>1
  <2>4. CASE ~ok
    <3>1. Quiet
      BY <1>1, <2>2, <2>4 DEF SendMsg, Quiet, server
    <3> QED
      BY <3>1
  <2> QED
    BY <2>3, <2>4
<1>2. ASSUME NEW code \in DOMAIN PayloadSize, Ask(code)
      PROVE  Steps
  BY <1>2 DEF Ask, Quiet
<1>3. ASSUME NEW w \in Workers, DisplayNothing(w) \/ DisplayAll(w) \/ DisplayPart(w)
      PROVE  Steps
  <2>1. batch[w] \in Seq(1 .. Len(sent)) /\ Len(batch[w]) \in Nat
    BY LenProperties DEF TypeOK
  <2>2. Displayed(batch[w]) \in 0 .. Len(batch[w])
    BY <2>1, BatchSizes
  <2>3. PICK n \in 0 .. Len(batch[w]), end \in Ended : Displays(w, n, end)
    BY <1>3, <2>1, <2>2 DEF DisplayNothing, DisplayAll, DisplayPart, Displays, Ended
  <2> QED
    BY <2>3
<1>4. CASE UNCHANGED vars
  BY <1>4 DEF vars, server, Quiet, TypeOK
<1> QED
  BY <1>1, <1>2, <1>3, <1>4 DEF Next
-----------------------------------------------------------------------------
(****************************************************************************)
(* Types.                                                                   *)
(****************************************************************************)

\* A stored message has the next id, and the others are what they were.
LEMMA GrowsBy ==
  ASSUME TypeOK, NEW u \in Users, NEW size \in Nat, Stores(u, size)
  PROVE  /\ Len(sent') = Len(sent) + 1 /\ DOMAIN sent' = 1 .. Len(sent) + 1
         /\ 1 .. Len(sent) \subseteq 1 .. Len(sent')
         /\ \A i \in 1 .. Len(sent) : sent'[i] = sent[i]
         /\ sent'[Len(sent) + 1] = [to |-> u, size |-> size]
         /\ sent' \in Seq([to : Users, size : Nat])
         /\ \A v \in Users : MailFor(v) \subseteq MailFor(v)'
         /\ \A v \in Users, i \in 1 .. Len(sent) : i \in MailFor(v)' <=> i \in MailFor(v)
<1> DEFINE R == [to : Users, size : Nat]
           r == [to |-> u, size |-> size]
           N == Len(sent)
<1>1. sent \in Seq(R) /\ r \in R /\ sent' = Append(sent, r)
  BY DEF TypeOK, Stores
<1>2. N \in Nat /\ DOMAIN sent = 1 .. N
  BY SentOf
<1> HIDE DEF R, r, N
<1>3. /\ sent' \in Seq(R) /\ Len(sent') = N + 1
      /\ \A i \in 1 .. N : sent'[i] = sent[i]
      /\ sent'[N + 1] = r
  BY <1>1, AppendProperties DEF N
<1>4. DOMAIN sent' = 1 .. N + 1
  BY <1>3, LenProperties
<1>5. 1 .. N \subseteq 1 .. Len(sent')
  BY <1>2, <1>3
<1>6. \A v \in Users, i \in 1 .. N : i \in MailFor(v)' <=> i \in MailFor(v)
  BY <1>2, <1>3, <1>4 DEF MailFor
<1>7. \A v \in Users : MailFor(v) \subseteq MailFor(v)'
  BY <1>2, <1>6 DEF MailFor
<1> QED
  BY <1>3, <1>4, <1>5, <1>6, <1>7 DEF R, r, N

\* What the invariant says of a worker's batch.
LEMMA BatchOf ==
  ASSUME TypeOK, NEW w \in Workers
  PROVE  /\ batch[w] \in Seq(1 .. Len(sent)) /\ batch[w] \in Seq(Nat)
         /\ DOMAIN batch[w] = 1 .. Len(batch[w]) /\ Len(batch[w]) \in Nat
         /\ \A j \in 1 .. Len(batch[w]) : batch[w][j] \in 1 .. Len(sent) /\ batch[w][j] \in Ids
         /\ ToSet(batch[w]) \subseteq 1 .. Len(sent)
         /\ \A i : i \in ToSet(batch[w]) <=> \E j \in 1 .. Len(batch[w]) : batch[w][j] = i
         /\ copied[w] \in 0 .. Len(batch[w])
         /\ \A i : i \in ToSet(CopiedBy(w)) <=> \E j \in 1 .. copied[w] : batch[w][j] = i
         /\ copied[w] = Len(batch[w]) => ToSet(CopiedBy(w)) = ToSet(batch[w])
<1>1. batch[w] \in Seq(1 .. Len(sent)) /\ copied[w] \in Nat /\ copied[w] <= Len(batch[w])
  BY DEF TypeOK
<1>2. Len(sent) \in Nat /\ Len(sent) <= MaxMessages /\ MaxMessages \in Nat
  BY SentOf, DeliveryAssumption
<1>3. DOMAIN batch[w] = 1 .. Len(batch[w]) /\ Len(batch[w]) \in Nat
  BY <1>1, LenProperties
<1>4. \A j \in 1 .. Len(batch[w]) : batch[w][j] \in 1 .. Len(sent)
  BY <1>1, ElementOfSeq
<1>5. /\ ToSet(batch[w]) \subseteq 1 .. Len(sent)
      /\ \A i : i \in ToSet(batch[w]) <=> \E j \in 1 .. Len(batch[w]) : batch[w][j] = i
  BY <1>1, InToSet
<1>6. copied[w] \in 0 .. Len(batch[w])
  BY <1>1, <1>3
<1>7. \A i : i \in ToSet(CopiedBy(w)) <=> \E j \in 1 .. copied[w] : batch[w][j] = i
  <2> DEFINE t == SubSeq(batch[w], 1, copied[w])
             c == copied[w]
  <2>1. t \in Seq(1 .. Len(sent)) /\ Len(t) = c /\ \A k \in 1 .. c : t[k] = batch[w][k]
    BY <1>1, <1>6, FirstOf
  <2> HIDE DEF t
  <2>2. \A i : i \in ToSet(t) <=> \E k \in 1 .. Len(t) : t[k] = i
    BY <2>1, InToSet
  <2> QED
    BY <2>1, <2>2 DEF CopiedBy, t
<1>8. batch[w] \in Seq(Nat)
  <2>1. 1 .. Len(sent) \subseteq Nat
    BY <1>2
  <2> QED
    BY <1>1, <2>1, SeqWider
<1>9. copied[w] = Len(batch[w]) => ToSet(CopiedBy(w)) = ToSet(batch[w])
  BY <1>5, <1>7
<1> QED
  BY <1>1, <1>2, <1>3, <1>4, <1>5, <1>6, <1>7, <1>8, <1>9 DEF Ids

\* What the invariant says of the table and of a screen.
LEMMA IdsOf ==
  ASSUME TypeOK
  PROVE  /\ table \in Seq(Nat) /\ ToSet(table) \subseteq 1 .. Len(sent)
         /\ \A u \in Users : /\ screen[u] \in Seq(Nat) /\ ToSet(screen[u]) \subseteq 1 .. Len(sent)
                             /\ DOMAIN screen[u] = 1 .. Len(screen[u]) /\ Len(screen[u]) \in Nat
         /\ 1 .. Len(sent) \subseteq Nat /\ 1 .. Len(sent) \subseteq Ids
<1>1. Len(sent) \in Nat /\ Len(sent) <= MaxMessages /\ MaxMessages \in Nat
  BY SentOf, DeliveryAssumption
<1>2. 1 .. Len(sent) \subseteq Nat /\ 1 .. Len(sent) \subseteq Ids
  BY <1>1 DEF Ids
<1>3. table \in Seq(1 .. Len(sent)) /\ \A u \in Users : screen[u] \in Seq(1 .. Len(sent))
  BY DEF TypeOK
<1>4. table \in Seq(Nat) /\ ToSet(table) \subseteq 1 .. Len(sent)
  BY <1>2, <1>3, SeqWider, InToSet
<1>5. ASSUME NEW u \in Users
      PROVE  /\ screen[u] \in Seq(Nat) /\ ToSet(screen[u]) \subseteq 1 .. Len(sent)
             /\ DOMAIN screen[u] = 1 .. Len(screen[u]) /\ Len(screen[u]) \in Nat
  BY <1>2, <1>3, SeqWider, InToSet
<1> QED
  BY <1>2, <1>4, <1>5

\* SELECT and DELETE.
LEMMA TableKept ==
  ASSUME TypeOK, Ordered, NEW S
  PROVE  /\ Keep(table, S) \in Seq(1 .. Len(sent))
         /\ Ascending(Keep(table, S))
         /\ ToSet(Keep(table, S)) = ToSet(table) \cap S
<1> DEFINE T == 1 .. Len(sent)
<1>1. T \in SUBSET Nat /\ table \in Seq(T) /\ Ascending(table)
  BY IdsOf DEF TypeOK, Ordered
<1> HIDE DEF T
<1>2. Keep(table, S) \in Seq(T) /\ Ascending(Keep(table, S)) /\ ToSet(Keep(table, S)) = ToSet(table) \cap S
  BY <1>1, Kept
<1> QED
  BY <1>2 DEF T

LEMMA DisplaysTypes ==
  ASSUME TypeOK, Fetching, NEW w \in Workers, NEW end \in Ended, NEW n \in 0 .. Len(batch[w]), Displays(w, n, end)
  PROVE  /\ fetcher[w] \in Users /\ client[fetcher[w]] = w
         /\ stage[w] = "copy" /\ copied[w] = Len(batch[w])
         /\ \A u \in Users : screen'[u] = IF u = fetcher[w] THEN screen[u] \o SubSeq(batch[w], 1, n) ELSE screen[u]
         /\ SubSeq(batch[w], 1, n) \in Seq(1 .. Len(sent))
         /\ screen' \in [Users -> Seq(1 .. Len(sent))]
<1>1. Display(w, n, end) /\ batch[w] \in Seq(1 .. Len(sent))
  BY DEF Displays, TypeOK
<1>2. fetcher[w] \in Users
  BY <1>1 DEF Display, Finished, Fetching, FetchOf
<1> DEFINE t == SubSeq(batch[w], 1, n)
<1>3. t \in Seq(1 .. Len(sent))
  BY <1>1, FirstOf
<1>4. screen' = [screen EXCEPT ![fetcher[w]] = @ \o t]
  BY <1>1 DEF Display
<1> HIDE DEF t
<1>5. screen[fetcher[w]] \o t \in Seq(1 .. Len(sent))
  BY <1>2, <1>3, ConcatProperties DEF TypeOK
<1>6. screen' \in [Users -> Seq(1 .. Len(sent))]
  BY <1>4, <1>5 DEF TypeOK
<1>7. \A u \in Users : screen'[u] = IF u = fetcher[w] THEN screen[u] \o t ELSE screen[u]
  BY <1>2, <1>4 DEF TypeOK
<1> QED
  BY <1>1, <1>2, <1>3, <1>6, <1>7 DEF Display, Finished, t

LEMMA TypesStep ==
  ASSUME TypeOK, Ordered, Fetching, Steps
  PROVE  TypeOK'
<1>1. Len(sent) \in Nat /\ Len(sent) <= MaxMessages /\ MaxMessages \in Nat
  BY SentOf, DeliveryAssumption
<1>2. CASE Quiet
  BY <1>2 DEF Quiet, server, TypeOK
<1>3. ASSUME NEW u \in Users, NEW size \in Nat, Stores(u, size)
      PROVE  TypeOK'
  <2> DEFINE N == Len(sent)
             M == Len(sent')
  <2>1. sent' \in Seq([to : Users, size : Nat]) /\ M = N + 1 /\ 1 .. N \subseteq 1 .. M
    BY <1>3, GrowsBy
  <2>2. M <= MaxMessages
    BY <1>1, <1>3, <2>1 DEF Stores
  <2> HIDE DEF M, N
  <2>3. \A s : s \in Seq(1 .. N) => s \in Seq(1 .. M)
    BY <2>1, SeqWider
  <2>4. table' \in Seq(1 .. M)
    <3>1. table \in Seq(1 .. M) /\ N + 1 \in 1 .. M /\ table' = Append(table, N + 1)
      BY <1>1, <1>3, <2>1, <2>3 DEF TypeOK, Stores, N
    <3> QED
      BY <3>1, AppendProperties
  <2>5. batch' \in [Workers -> Seq(1 .. M)]
    BY <1>3, <2>3 DEF TypeOK, Stores, N
  <2>6. screen' \in [Users -> Seq(1 .. M)]
    BY <1>3, <2>3 DEF TypeOK, Stores, N
  <2> QED
    BY <1>3, <2>1, <2>2, <2>4, <2>5, <2>6 DEF TypeOK, Stores, M
<1>4. ASSUME NEW u \in Users, NEW w \in Workers, Fetch(u, w)
      PROVE  TypeOK'
  <2>1. PICK b \in {Select(u), <<>>} : batch' = [batch EXCEPT ![w] = b]
    BY <1>4 DEF Fetch
  <2>2. b \in Seq(1 .. Len(sent))
    <3> DEFINE S == MailFor(u)
    <3>1. b = Keep(table, S) \/ b = <<>>
      BY <2>1 DEF Select
    <3> HIDE DEF S
    <3>2. Keep(table, S) \in Seq(1 .. Len(sent))
      BY TableKept
    <3> QED
      BY <3>1, <3>2, EmptySeq
  <2>3. batch' \in [Workers -> Seq(1 .. Len(sent))]
    BY <2>1, <2>2 DEF TypeOK
  <2>4. copied[w] = 0
    BY <1>4 DEF Fetch, Fetching, FetchOf
  <2>5. \A v \in Workers : shown[v] <= copied[v] /\ copied[v] <= Len(batch'[v])
    <3> TAKE v \in Workers
    <3>1. Len(b) \in Nat /\ 0 <= Len(b)
      BY <2>2, LenProperties
    <3>2. batch'[v] = IF v = w THEN b ELSE batch[v]
      BY <2>1 DEF TypeOK
    <3> QED
      BY <2>4, <3>1, <3>2 DEF TypeOK
  <2> QED
    BY <1>4, <2>3, <2>5 DEF TypeOK, Fetch, Active
<1>5. ASSUME NEW u \in Users, GiveUp(u)
      PROVE  TypeOK'
  BY <1>5 DEF GiveUp, server, TypeOK
<1>6. ASSUME NEW w \in Workers, Copy(w)
      PROVE  TypeOK'
  <2>1. copied[w] \in Nat /\ shown[w] \in Nat /\ Len(batch[w]) \in Nat /\ copied[w] < Len(batch[w])
    BY <1>6, BatchOf DEF Copy, TypeOK
  <2>2. copied' \in [Workers -> Nat]
    BY <1>6, <2>1 DEF Copy, TypeOK
  <2>3. \A v \in Workers : shown[v] <= copied'[v] /\ copied'[v] <= Len(batch[v])
    <3> TAKE v \in Workers
    <3>1. copied'[v] = IF v = w THEN copied[v] + 1 ELSE copied[v]
      BY <1>6 DEF Copy, TypeOK
    <3>2. shown[v] <= copied[v] /\ copied[v] <= Len(batch[v])
      BY DEF TypeOK
    <3> QED
      BY <2>1, <3>1, <3>2
  <2> QED
    BY <1>6, <2>2, <2>3 DEF Copy, TypeOK, Active
<1>7. ASSUME NEW w \in Workers, Delete(w)
      PROVE  TypeOK'
  <2> DEFINE id == batch[w][copied[w]]
  <2>1. id \in Ids
    <3>1. copied[w] \in 1 .. Len(batch[w])
      BY <1>7, BatchOf DEF Delete, Fetching, FetchOf
    <3> QED
      BY <3>1, BatchOf
  <2>2. \/ table' = Keep(table, DOMAIN sent \ {id}) /\ refused' = refused
        \/ refused' = [refused EXCEPT ![id] = @ + 1] /\ table' = table
    BY <1>7 DEF Delete
  <2> HIDE DEF id
  <2> DEFINE S == DOMAIN sent \ {id}
  <2>5. table' = Keep(table, S) \/ table' = table
    BY <2>2
  <2> HIDE DEF S
  <2>6. table' \in Seq(1 .. Len(sent))
    BY <2>5, TableKept DEF TypeOK
  <2>7. refused' \in [Ids -> Nat]
    <3>1. refused \in [Ids -> Nat]
      BY DEF TypeOK
    <3>2. refused' = refused \/ refused' = [refused EXCEPT ![id] = @ + 1]
      BY <2>2
    <3>3. refused[id] + 1 \in Nat
      BY <2>1, <3>1
    <3> QED
      BY <2>1, <3>1, <3>2, <3>3
  <2>3. table' \in Seq(1 .. Len(sent)) /\ refused' \in [Ids -> Nat]
    BY <2>6, <2>7
  <2>4. /\ stage' = [stage EXCEPT ![w] = "copy"]
        /\ UNCHANGED <<sent, fetcher, batch, copied, client, shown, screen, malformed>>
    BY <1>7 DEF Delete
  <2> QED
    BY <2>3, <2>4 DEF TypeOK, Active
<1>8. ASSUME NEW w \in Workers, Die(w) \/ AnswerNobody(w)
      PROVE  TypeOK'
  BY <1>8 DEF Die, AnswerNobody, TypeOK, Active, Ended
<1>9. ASSUME NEW w \in Workers, NEW end \in Ended, NEW n \in 0 .. Len(batch[w]), Displays(w, n, end)
      PROVE  TypeOK'
  <2>1. /\ screen' \in [Users -> Seq(1 .. Len(sent))] /\ fetcher[w] \in Users
        /\ copied[w] = Len(batch[w])
    BY <1>9, DisplaysTypes
  <2>2. Display(w, n, end)
    BY <1>9 DEF Displays
  <2>3. n \in Nat /\ n <= Len(batch[w])
    BY BatchOf
  <2>4. shown' \in [Workers -> Nat] /\ \A v \in Workers : shown'[v] <= copied[v]
    BY <2>1, <2>2, <2>3 DEF Display, TypeOK
  <2> QED
    BY <2>1, <2>2, <2>4 DEF Display, TypeOK
<1> QED
  BY <1>2, <1>3, <1>4, <1>5, <1>6, <1>7, <1>8, <1>9 DEF Steps
-----------------------------------------------------------------------------
(****************************************************************************)
(* Who waits for whom, and whose messages are where.                        *)
(****************************************************************************)

LEMMA OrderedStep ==
  ASSUME TypeOK, Ordered, Steps
  PROVE  Ordered'
<1>1. ASSUME NEW u \in Users, NEW size \in Nat, Stores(u, size)
      PROVE  Ordered'
  <2> DEFINE N == Len(sent)
  <2>1. N \in Nat /\ N + 1 \in Nat /\ table \in Seq(Nat) /\ ToSet(table) \subseteq 1 .. N
    BY SentOf, IdsOf
  <2>2. \A i \in DOMAIN table : table[i] < N + 1
    <3>1. \A i \in DOMAIN table : table[i] \in 1 .. N
      BY <2>1 DEF ToSet
    <3> HIDE DEF N
    <3> QED
      BY <2>1, <3>1
  <2> HIDE DEF N
  <2>3. Ascending(Append(table, N + 1))
    BY <2>1, <2>2, AscendingAppend DEF Ordered
  <2> QED
    BY <1>1, <2>3 DEF Stores, Ordered, Ascending, N
<1>2. ASSUME NEW u \in Users, NEW w \in Workers, Fetch(u, w)
      PROVE  Ordered'
  <2>1. PICK b \in {Select(u), <<>>} : batch' = [batch EXCEPT ![w] = b]
    BY <1>2 DEF Fetch
  <2>2. Ascending(b)
    BY TableKept DEF Select, Ascending
  <2>3. table' = table
    BY <1>2 DEF Fetch
  <2>4. \A v \in Workers : batch'[v] = IF v = w THEN b ELSE batch[v]
    BY <2>1 DEF TypeOK
  <2>5. \A v \in Workers : Ascending(batch'[v])
    BY <2>2, <2>4 DEF Ordered
  <2> QED
    BY <2>3, <2>5 DEF Ordered, Ascending
<1>3. ASSUME NEW w \in Workers, Delete(w)
      PROVE  Ordered'
  <2>1. batch' = batch /\ \E S : table' = table \/ table' = Keep(table, S)
    BY <1>3 DEF Delete
  <2>2. Ascending(table')
    BY <2>1, TableKept DEF Ordered
  <2> QED
    BY <2>1, <2>2 DEF Ordered, Ascending
<1>4. CASE UNCHANGED <<table, batch>>
  BY <1>4 DEF Ordered, Ascending
<1>5. ASSUME NEW w \in Workers, Copy(w) \/ Die(w) \/ AnswerNobody(w)
      PROVE  UNCHANGED <<table, batch>>
  BY <1>5 DEF Copy, Die, AnswerNobody
<1>6. ASSUME NEW w \in Workers, NEW end \in Ended, NEW n \in 0 .. Len(batch[w]), Displays(w, n, end)
      PROVE  UNCHANGED <<table, batch>>
  BY <1>6 DEF Displays, Display
<1>7. CASE Quiet \/ \E u \in Users : GiveUp(u)
  BY <1>4, <1>7 DEF Quiet, GiveUp, server
<1> QED
  BY <1>1, <1>2, <1>3, <1>4, <1>5, <1>6, <1>7 DEF Steps

LEMMA StoredStep ==
  ASSUME TypeOK, Stored, Steps
  PROVE  Stored'
<1>1. ASSUME NEW u \in Users, NEW size \in Nat, Stores(u, size)
      PROVE  Stored'
  <2> DEFINE N == Len(sent)
  <2>1. /\ DOMAIN sent' = 1 .. N + 1 /\ sent'[N + 1] = [to |-> u, size |-> size]
        /\ \A i \in 1 .. N : sent'[i] = sent[i]
    BY <1>1, GrowsBy
  <2>2. N \in Nat /\ DOMAIN sent = 1 .. N
    BY SentOf
  <2>3. size \in Contents
    BY <1>1 DEF Stores
  <2>4. sent'[N + 1].size \in Contents
    BY <2>1, <2>3
  <2> HIDE DEF N
  <2>5. \A i \in 1 .. N + 1 : i \in 1 .. N \/ i = N + 1
    BY <2>2
  <2>6. \A i \in DOMAIN sent' : sent'[i].size \in Contents
    BY <2>1, <2>2, <2>4, <2>5 DEF Stored
  <2> QED
    BY <2>6 DEF Stored, Contents
<1>2. CASE UNCHANGED sent
  BY <1>2 DEF Stored, Contents
<1>3. ASSUME NEW w \in Workers, Copy(w) \/ Delete(w) \/ Die(w) \/ AnswerNobody(w)
      PROVE  UNCHANGED sent
  BY <1>3 DEF Copy, Delete, Die, AnswerNobody
<1>4. ASSUME NEW w \in Workers, NEW end \in Ended, NEW n \in 0 .. Len(batch[w]), Displays(w, n, end)
      PROVE  UNCHANGED sent
  BY <1>4 DEF Displays, Display
<1>5. ASSUME Quiet \/ (\E u \in Users : GiveUp(u)) \/ \E u \in Users, w \in Workers : Fetch(u, w)
      PROVE  UNCHANGED sent
  BY <1>5 DEF Quiet, GiveUp, Fetch
<1> QED
  BY <1>1, <1>2, <1>3, <1>4, <1>5 DEF Steps

\* SELECT returns messages of the user, from the table.
LEMMA FetchedOf ==
  ASSUME TypeOK, Ordered, Fetching, NEW u \in Users, NEW w \in Workers, Fetch(u, w)
  PROVE  /\ client[u] = None /\ stage[w] = "idle" /\ copied[w] = 0 /\ UNCHANGED <<sent, table, copied, screen, refused>>
         /\ \A v \in Users : client'[v] = IF v = u THEN w ELSE client[v]
         /\ \A v \in Workers : v # w => /\ batch'[v] = batch[v] /\ stage'[v] = stage[v]
                                        /\ fetcher'[v] = fetcher[v]
         /\ fetcher'[w] = u /\ stage'[w] = "copy"
         /\ \/ ToSet(batch'[w]) = ToSet(table) \cap MailFor(u)
            \/ ToSet(batch'[w]) = {}
<1>1. PICK b \in {Select(u), <<>>} : batch' = [batch EXCEPT ![w] = b]
  BY DEF Fetch
<1>2. ToSet(b) = ToSet(table) \cap MailFor(u) \/ ToSet(b) = {}
  <2> DEFINE S == MailFor(u)
  <2>1. b = Keep(table, S) \/ b = <<>>
    BY <1>1 DEF Select
  <2> HIDE DEF S
  <2>2. ToSet(Keep(table, S)) = ToSet(table) \cap S
    BY TableKept
  <2>3. ToSet(<<>>) = {}
    BY DEF ToSet
  <2> QED
    BY <2>1, <2>2, <2>3 DEF S
<1>3. batch'[w] = b /\ \A v \in Workers : v # w => batch'[v] = batch[v]
  BY <1>1 DEF TypeOK
<1>4. copied[w] = 0
  BY DEF Fetch, Fetching, FetchOf
<1> QED
  BY <1>2, <1>3, <1>4 DEF Fetch, TypeOK

LEMMA FetchingStep ==
  ASSUME TypeOK, Ordered, Fetching, Steps
  PROVE  Fetching'
<1> SUFFICES ASSUME NEW v \in Workers
             PROVE  FetchOf(v)'
  BY DEF Fetching
<1>0. FetchOf(v)
  BY DEF Fetching
<1>1. CASE Quiet
  BY <1>0, <1>1 DEF Quiet, server, FetchOf, MailFor
<1>2. ASSUME NEW u \in Users, NEW size \in Nat, Stores(u, size)
      PROVE  FetchOf(v)'
  <2>1. \A x \in Users : MailFor(x) \subseteq MailFor(x)'
    BY <1>2, GrowsBy
  <2>2. UNCHANGED <<fetcher, batch, copied, stage>>
    BY <1>2 DEF Stores
  <2>3. CASE stage[v] = "idle"
    BY <1>0, <2>2, <2>3 DEF FetchOf
  <2>4. CASE stage[v] # "idle"
    <3>1. PICK f \in Users : f = fetcher[v] /\ ToSet(batch[v]) \subseteq MailFor(f)
      BY <1>0, <2>4 DEF FetchOf
    <3>2. ToSet(batch[v]) \subseteq MailFor(f)'
      BY <2>1, <3>1
    <3> QED
      BY <1>0, <2>2, <2>4, <3>1, <3>2 DEF FetchOf, MailFor
  <2> QED
    BY <2>3, <2>4
<1>3. ASSUME NEW u \in Users, NEW w \in Workers, Fetch(u, w)
      PROVE  FetchOf(v)'
  <2>1. CASE v = w
    <3>1. /\ fetcher'[w] = u /\ stage'[w] = "copy" /\ sent' = sent
          /\ ToSet(batch'[w]) \subseteq MailFor(u)
      BY <1>3, FetchedOf
    <3> QED
      BY <2>1, <3>1 DEF FetchOf, MailFor
  <2>2. CASE v # w
    <3>1. /\ batch'[v] = batch[v] /\ stage'[v] = stage[v] /\ fetcher'[v] = fetcher[v]
          /\ copied' = copied /\ sent' = sent
      BY <1>3, <2>2, FetchedOf
    <3> QED
      BY <1>0, <3>1 DEF FetchOf, MailFor
  <2> QED
    BY <2>1, <2>2
<1>4. ASSUME NEW u \in Users, GiveUp(u)
      PROVE  FetchOf(v)'
  BY <1>0, <1>4 DEF GiveUp, server, FetchOf, MailFor
<1>5. ASSUME NEW w \in Workers, Copy(w) \/ Delete(w) \/ Die(w) \/ AnswerNobody(w)
      PROVE  FetchOf(v)'
  <2>1. UNCHANGED <<sent, fetcher, batch>>
    BY <1>5 DEF Copy, Delete, Die, AnswerNobody
  <2>2. copied[v] \in Nat /\ copied[v] + 1 >= 1
    BY DEF TypeOK
  <2>3. /\ stage[v] = "idle" => stage'[v] = "idle" /\ copied'[v] = copied[v]
        /\ stage[v] # "idle" => stage'[v] # "idle"
        /\ stage'[v] = "delete" => copied'[v] >= 1
    <3>1. CASE Copy(w)
      BY <1>0, <2>2, <3>1 DEF Copy, FetchOf, TypeOK
    <3>2. CASE ~Copy(w)
      BY <1>0, <1>5, <3>2 DEF Delete, Die, AnswerNobody, Finished, FetchOf, TypeOK, Active
    <3> QED
      BY <3>1, <3>2
  <2> QED
    BY <1>0, <2>1, <2>3 DEF FetchOf, MailFor
<1>6. ASSUME NEW w \in Workers, NEW end \in Ended, NEW n \in 0 .. Len(batch[w]), Displays(w, n, end)
      PROVE  FetchOf(v)'
  BY <1>0, <1>6 DEF Displays, Display, Finished, FetchOf, MailFor, Ended, TypeOK
<1> QED
  BY <1>1, <1>2, <1>3, <1>4, <1>5, <1>6 DEF Steps

LEMMA WaitingStep ==
  ASSUME TypeOK, Ordered, Fetching, Waiting, Steps
  PROVE  Waiting'
<1> SUFFICES ASSUME NEW u \in Users, client'[u] # None
             PROVE  fetcher'[client'[u]] = u /\ stage'[client'[u]] \in Active
  BY DEF Waiting
<1>0. client[u] # None => client[u] \in Workers /\ fetcher[client[u]] = u /\ stage[client[u]] \in Active
  BY DEF Waiting, TypeOK
<1>1. CASE UNCHANGED <<fetcher, client, stage>>
  BY <1>0, <1>1
<1>2. ASSUME NEW x \in Users, NEW w \in Workers, Fetch(x, w)
      PROVE  fetcher'[client'[u]] = u /\ stage'[client'[u]] \in Active
  <2>1. CASE u = x
    <3>1. client'[u] = w /\ fetcher'[w] = u /\ stage'[w] = "copy"
      BY <1>2, <2>1, FetchedOf
    <3> QED
      BY <3>1 DEF Active
  <2>2. CASE u # x
    <3>1. client'[u] = client[u] /\ client[u] \in Workers /\ stage[client[u]] \in Active
      BY <1>0, <1>2, <2>2, FetchedOf
    <3>2. client[u] # w
      BY <1>2, <3>1, FetchedOf DEF Active
    <3>3. stage'[client[u]] = stage[client[u]] /\ fetcher'[client[u]] = fetcher[client[u]]
      BY <1>2, <3>1, <3>2, FetchedOf
    <3> QED
      BY <1>0, <3>1, <3>3
  <2> QED
    BY <2>1, <2>2
<1>3. ASSUME NEW x \in Users, GiveUp(x)
      PROVE  fetcher'[client'[u]] = u /\ stage'[client'[u]] \in Active
  BY <1>0, <1>3 DEF GiveUp, server, TypeOK
<1>4. ASSUME NEW w \in Workers, Copy(w) \/ Delete(w)
      PROVE  fetcher'[client'[u]] = u /\ stage'[client'[u]] \in Active
  BY <1>0, <1>4 DEF Copy, Delete, TypeOK, Active
<1>5. ASSUME NEW w \in Workers, Die(w)
      PROVE  fetcher'[client'[u]] = u /\ stage'[client'[u]] \in Active
  BY <1>0, <1>5 DEF Die, TypeOK
<1>6. ASSUME NEW w \in Workers, AnswerNobody(w)
      PROVE  fetcher'[client'[u]] = u /\ stage'[client'[u]] \in Active
  BY <1>0, <1>6 DEF AnswerNobody, TypeOK
<1>7. ASSUME NEW w \in Workers, NEW end \in Ended, NEW n \in 0 .. Len(batch[w]), Displays(w, n, end)
      PROVE  fetcher'[client'[u]] = u /\ stage'[client'[u]] \in Active
  <2>1. fetcher[w] \in Users
    BY <1>7, DisplaysTypes
  <2> QED
    BY <1>0, <1>7, <2>1 DEF Displays, Display, TypeOK
<1>8. ASSUME Quiet \/ \E x \in Users, size \in Nat : Stores(x, size)
      PROVE  UNCHANGED <<fetcher, client, stage>>
  BY <1>8 DEF Quiet, Stores, server
<1> QED
  BY <1>1, <1>2, <1>3, <1>4, <1>5, <1>6, <1>7, <1>8 DEF Steps

\* What a fetch adds to the screen.
ShowsTo(u, w, t, n) ==
  /\ u = fetcher[w] /\ client[u] = w /\ client' = [client EXCEPT ![u] = None]
  /\ screen'[u] = screen[u] \o t
  /\ \A v \in Users : v # u => screen'[v] = screen[v]
  /\ Ascending(t) /\ Len(t) = n /\ \A k \in 1 .. n : t[k] = batch[w][k]
  /\ ToSet(t) \subseteq ToSet(batch[w]) /\ ToSet(batch[w]) \subseteq MailFor(u)

LEMMA DisplayedOf ==
  ASSUME TypeOK, Ordered, Fetching, NEW w \in Workers, NEW end \in Ended,
         NEW n \in 0 .. Len(batch[w]), Displays(w, n, end)
  PROVE  \E u \in Users, t \in Seq(Nat) : ShowsTo(u, w, t, n)
<1> DEFINE t == SubSeq(batch[w], 1, n)
           u == fetcher[w]
<1>1. /\ u \in Users /\ client[u] = w /\ stage[w] = "copy"
      /\ screen'[u] = screen[u] \o t
      /\ \A v \in Users : v # u => screen'[v] = screen[v]
  <2>1. /\ u \in Users /\ client[u] = w /\ stage[w] = "copy"
        /\ \A v \in Users : screen'[v] = IF v = u THEN screen[v] \o t ELSE screen[v]
    BY DisplaysTypes
  <2> HIDE DEF u, t
  <2> QED
    BY <2>1
<1>2. batch[w] \in Seq(Nat) /\ Ascending(batch[w])
  BY BatchOf DEF Ordered
<1>3. /\ t \in Seq(Nat) /\ Ascending(t) /\ Len(t) = n /\ \A k \in 1 .. n : t[k] = batch[w][k]
      /\ ToSet(t) \subseteq ToSet(batch[w])
  BY <1>2, FirstOf
<1>4. ToSet(batch[w]) \subseteq MailFor(u)
  BY <1>1 DEF Fetching, FetchOf
<1>5. client' = [client EXCEPT ![u] = None]
  BY DEF Displays, Display
<1>6. u = fetcher[w]
  OBVIOUS
<1> HIDE DEF t, u
<1>7. ShowsTo(u, w, t, n)
  BY <1>1, <1>3, <1>4, <1>5, <1>6 DEF ShowsTo
<1> QED
  BY <1>1, <1>3, <1>7

LEMMA ScreensStep ==
  ASSUME TypeOK, Ordered, Fetching, Screens, Steps
  PROVE  Screens'
<1> SUFFICES ASSUME NEW v \in Users
             PROVE  ToSet(screen'[v]) \subseteq MailFor(v)'
  BY DEF Screens, ToSet
<1>0. ToSet(screen[v]) \subseteq MailFor(v)
  BY DEF Screens
<1>1. ASSUME NEW u \in Users, NEW size \in Nat, Stores(u, size)
      PROVE  ToSet(screen'[v]) \subseteq MailFor(v)'
  <2>1. MailFor(v) \subseteq MailFor(v)' /\ screen' = screen
    BY <1>1, GrowsBy DEF Stores
  <2> QED
    BY <1>0, <2>1
<1>2. ASSUME NEW w \in Workers, NEW end \in Ended, NEW n \in 0 .. Len(batch[w]), Displays(w, n, end)
      PROVE  ToSet(screen'[v]) \subseteq MailFor(v)'
  <2>1. MailFor(v)' = MailFor(v)
    BY <1>2 DEF Displays, Display, MailFor
  <2>5. PICK u \in Users, t \in Seq(Nat) : ShowsTo(u, w, t, n)
    BY <1>2, DisplayedOf
  <2>2. /\ screen'[u] = screen[u] \o t /\ ToSet(t) \subseteq MailFor(u)
        /\ \A x \in Users : x # u => screen'[x] = screen[x]
    BY <2>5 DEF ShowsTo
  <2>3. CASE v = u
    <3>1. screen[v] \in Seq(Nat)
      BY IdsOf
    <3>2. ToSet(screen[v] \o t) = ToSet(screen[v]) \cup ToSet(t)
      BY <3>1, ConcatOf
    <3> QED
      BY <1>0, <2>1, <2>2, <2>3, <3>2
  <2>4. CASE v # u
    BY <1>0, <2>1, <2>2, <2>4
  <2> QED
    BY <2>3, <2>4
<1>3. CASE UNCHANGED <<sent, screen>>
  BY <1>0, <1>3 DEF MailFor
<1>4. ASSUME NEW w \in Workers, Copy(w) \/ Delete(w) \/ Die(w) \/ AnswerNobody(w)
      PROVE  UNCHANGED <<sent, screen>>
  BY <1>4 DEF Copy, Delete, Die, AnswerNobody
<1>5. ASSUME Quiet \/ (\E u \in Users : GiveUp(u)) \/ \E u \in Users, w \in Workers : Fetch(u, w)
      PROVE  UNCHANGED <<sent, screen>>
  BY <1>5 DEF Quiet, GiveUp, Fetch
<1> QED
  BY <1>1, <1>2, <1>3, <1>4, <1>5 DEF Steps

LEMMA MailsStep ==
  ASSUME TypeOK, Mails, Steps
  PROVE  Mails'
<1> QED
  BY StoredStep, OrderedStep, FetchingStep, WaitingStep, ScreensStep DEF Mails
-----------------------------------------------------------------------------
(****************************************************************************)
(* What is displayed again.                                                 *)
(****************************************************************************)

LEMMA TableGrows ==
  ASSUME TypeOK, NEW u \in Users, NEW size \in Nat, Stores(u, size)
  PROVE  ToSet(table') = ToSet(table) \cup {Len(sent) + 1}
<1> DEFINE N == Len(sent) + 1
<1>1. table \in Seq(Nat) /\ ToSet(table) \subseteq 1 .. Len(sent) /\ Len(sent) \in Nat
  BY IdsOf, SentOf
<1>2. N \in Nat /\ \A x \in ToSet(table) : x < N
  BY <1>1
<1>3. table' = Append(table, N)
  BY DEF Stores
<1> HIDE DEF N
<1>4. Len(table) \in Nat /\ DOMAIN table = 1 .. Len(table)
  BY <1>1, InToSet
<1>5. /\ Append(table, N) \in Seq(Nat) /\ Len(Append(table, N)) = Len(table) + 1
      /\ \A i \in 1 .. Len(table) : Append(table, N)[i] = table[i]
      /\ Append(table, N)[Len(table) + 1] = N
  BY <1>1, <1>2, AppendProperties
<1> DEFINE a == Append(table, N)
<1>6. DOMAIN a = 1 .. Len(table) + 1
  BY <1>5, LenProperties
<1> HIDE DEF a
<1>7. \A i \in 1 .. Len(table) + 1 : i \in 1 .. Len(table) \/ i = Len(table) + 1
  BY <1>4
<1>8. ToSet(a) = ToSet(table) \cup {N}
  BY <1>4, <1>5, <1>6, <1>7 DEF ToSet, a
<1> QED
  BY <1>3, <1>8 DEF a, N

\* A DELETE removes the message or is counted.
LEMMA DeletedOf ==
  ASSUME TypeOK, Ordered, Fetching, NEW w \in Workers, Delete(w)
  PROVE  \E id \in Ids :
           /\ stage[w] = "delete" /\ copied[w] \in 1 .. Len(batch[w]) /\ id = batch[w][copied[w]]
           /\ ToSet(table') \subseteq ToSet(table) /\ ToSet(table) \ {id} \subseteq ToSet(table')
           /\ \A i \in Ids : refused'[i] \in Nat /\ refused[i] <= refused'[i]
           /\ id \notin ToSet(table') \/ refused[id] < refused'[id]
<1> DEFINE id == batch[w][copied[w]]
           S == DOMAIN sent \ {id}
<1>1. copied[w] \in 1 .. Len(batch[w])
  BY BatchOf DEF Delete, Fetching, FetchOf
<1>2. id \in Ids
  BY <1>1, BatchOf
<1>3. \/ table' = Keep(table, S) /\ refused' = refused
      \/ refused' = [refused EXCEPT ![id] = @ + 1] /\ table' = table
  BY DEF Delete
<1>4. ToSet(table) \cap S = ToSet(table) \ {id}
  BY IdsOf, SentOf
<1>5. id = batch[w][copied[w]] /\ stage[w] = "delete"
  BY DEF Delete
<1> HIDE DEF id, S
<1>6. ToSet(Keep(table, S)) = ToSet(table) \ {id}
  BY <1>4, TableKept
<1>7. \A i \in Ids : refused[i] \in Nat
  BY DEF TypeOK
<1>8. CASE table' = Keep(table, S) /\ refused' = refused
  <2>1. ToSet(table') = ToSet(table) \ {id}
    BY <1>6, <1>8
  <2>2. \A i \in Ids : refused'[i] \in Nat /\ refused[i] <= refused'[i]
    BY <1>7, <1>8
  <2> QED
    BY <1>1, <1>2, <1>5, <2>1, <2>2
<1>9. CASE refused' = [refused EXCEPT ![id] = @ + 1] /\ table' = table
  <2>1. \A i \in Ids : refused'[i] = IF i = id THEN refused[i] + 1 ELSE refused[i]
    BY <1>2, <1>9 DEF TypeOK
  <2>2. \A i \in Ids : refused'[i] \in Nat /\ refused[i] <= refused'[i]
    BY <1>7, <2>1
  <2>3. refused[id] < refused'[id]
    BY <1>2, <1>7, <2>1
  <2>4. ToSet(table') \subseteq ToSet(table) /\ ToSet(table) \ {id} \subseteq ToSet(table')
    BY <1>9
  <2> QED
    BY <1>1, <1>2, <1>5, <2>2, <2>3, <2>4
<1> QED
  BY <1>3, <1>8, <1>9

AllowedFor(u, i) ==
  IF i \in ToSet(table) THEN Times(screen[u], i) <= refused[i]
  ELSE Times(screen[u], i) <= 1 + refused[i]

LEMMA AllowedStep ==
  ASSUME TypeOK, Mails, Repeats, Steps
  PROVE  Allowed'
<1> USE DEF Mails, Repeats
<1> SUFFICES ASSUME NEW v \in Users, NEW i \in Ids
             PROVE  AllowedFor(v, i)'
  BY DEF Allowed, AllowedFor
<1>0. AllowedFor(v, i)
  BY DEF Allowed, AllowedFor
<1>a. refused[i] \in Nat /\ Times(screen[v], i) \in Nat /\ screen[v] \in Seq(Nat)
  BY IdsOf, TimesFinite DEF TypeOK
<1>1. ASSUME NEW u \in Users, NEW size \in Nat, Stores(u, size)
      PROVE  AllowedFor(v, i)'
  <2>1. screen' = screen /\ refused' = refused
    BY <1>1 DEF Stores
  <2>2. ToSet(table') = ToSet(table) \cup {Len(sent) + 1}
    BY <1>1, TableGrows
  <2>3. CASE i = Len(sent) + 1
    <3>1. i \notin ToSet(screen[v])
      BY <2>3, IdsOf, SentOf
    <3>2. Times(screen[v], i) = 0
      BY <1>a, <3>1, TimesFinite
    <3> QED
      BY <1>a, <2>1, <3>2 DEF AllowedFor
  <2>4. CASE i # Len(sent) + 1
    <3>1. i \in ToSet(table') <=> i \in ToSet(table)
      BY <2>2, <2>4
    <3> QED
      BY <1>0, <2>1, <3>1 DEF AllowedFor
  <2> QED
    BY <2>3, <2>4
<1>2. ASSUME NEW w \in Workers, Delete(w)
      PROVE  AllowedFor(v, i)'
  <2>1. PICK id \in Ids : /\ ToSet(table') \subseteq ToSet(table)
                          /\ \A k \in Ids : refused'[k] \in Nat /\ refused[k] <= refused'[k]
    BY <1>2, DeletedOf
  <2>2. screen' = screen
    BY <1>2 DEF Delete
  <2> DEFINE s == refused'[i]
             n == Times(screen[v], i)
  <2>3. s \in Nat /\ refused[i] <= s
    BY <2>1
  <2>4. n <= 1 + refused[i] /\ (i \in ToSet(table) => n <= refused[i])
    BY <1>0, <1>a DEF AllowedFor
  <2> HIDE DEF s, n
  <2>5. n <= 1 + s /\ (i \in ToSet(table) => n <= s)
    BY <1>a, <2>3, <2>4 DEF n
  <2> QED
    BY <2>1, <2>2, <2>5 DEF AllowedFor, s, n
<1>3. ASSUME NEW w \in Workers, NEW end \in Ended, NEW n \in 0 .. Len(batch[w]), Displays(w, n, end)
      PROVE  AllowedFor(v, i)'
  <2>1. PICK u \in Users, t \in Seq(Nat) : ShowsTo(u, w, t, n)
    BY <1>3, DisplayedOf
  <2>2. table' = table /\ refused' = refused /\ stage[w] = "copy" /\ copied[w] = Len(batch[w])
    BY <1>3 DEF Displays, Display, Finished
  <2>3. CASE v # u
    <3>1. screen'[v] = screen[v]
      BY <2>1, <2>3 DEF ShowsTo
    <3> QED
      BY <1>0, <2>2, <3>1 DEF AllowedFor
  <2>4. CASE v = u
    <3> DEFINE m == Times(screen[v] \o t, i)
    <3>1. screen'[v] = screen[v] \o t
      BY <2>1, <2>4 DEF ShowsTo
    <3>2. m = Times(screen[v], i) + IF i \in ToSet(t) THEN 1 ELSE 0
      BY <1>a, <2>1, TimesConcat DEF ShowsTo
    <3>3. CASE i \notin ToSet(t)
      <4>1. m = Times(screen[v], i)
        BY <1>a, <3>2, <3>3
      <4> QED
        BY <1>0, <2>2, <3>1, <4>1 DEF AllowedFor
    <3>4. CASE i \in ToSet(t)
      <4>1. PICK j \in 1 .. Len(batch[w]) : batch[w][j] = i
        BY <2>1, <3>4, BatchOf DEF ShowsTo
      <4>2. j \in DOMAIN batch[w] /\ j <= Handled(w)
        BY <2>2, <4>1, BatchOf DEF Handled
      <4>3. client[v] = w /\ w # None
        BY <2>1, <2>4, DeliveryAssumption DEF ShowsTo
      <4>4. MayShow(v, w)
        BY <4>3 DEF Wanted
      <4>5. /\ Times(screen[v], i) <= refused[i]
            /\ i \in ToSet(table) => Times(screen[v], i) < refused[i]
        BY <4>1, <4>2, <4>4 DEF MayShow
      <4>6. m = Times(screen[v], i) + 1
        BY <3>2, <3>4
      <4> HIDE DEF m
      <4>7. m <= 1 + refused[i] /\ (i \in ToSet(table) => m <= refused[i])
        BY <1>a, <4>5, <4>6
      <4> QED
        BY <2>2, <3>1, <4>7 DEF AllowedFor, m
    <3> QED
      BY <3>3, <3>4
  <2> QED
    BY <2>3, <2>4
<1>4. CASE UNCHANGED <<table, screen, refused>>
  BY <1>0, <1>4 DEF AllowedFor
<1>5. ASSUME NEW w \in Workers, Copy(w) \/ Die(w) \/ AnswerNobody(w)
      PROVE  UNCHANGED <<table, screen, refused>>
  BY <1>5 DEF Copy, Die, AnswerNobody
<1>6. ASSUME Quiet \/ (\E u \in Users : GiveUp(u)) \/ \E u \in Users, w \in Workers : Fetch(u, w)
      PROVE  UNCHANGED <<table, screen, refused>>
  BY <1>6 DEF Quiet, GiveUp, Fetch, server
<1> QED
  BY <1>1, <1>2, <1>3, <1>4, <1>5, <1>6 DEF Steps

\* A step that does no more than remove messages or count failures.
LEMMA MayShowStays ==
  ASSUME TypeOK, NEW v \in Users, NEW x \in Workers, MayShow(v, x),
         batch'[x] = batch[x], screen'[v] = screen[v], copied'[x] = copied[x], stage'[x] = stage[x],
         ToSet(table') \cap ToSet(batch[x]) \subseteq ToSet(table),
         \A i \in Ids : refused'[i] \in Nat /\ refused[i] <= refused'[i]
  PROVE  MayShow(v, x)'
<1>1. Handled(x)' = Handled(x)
  BY DEF Handled
<1> SUFFICES ASSUME NEW j \in DOMAIN batch[x]
             PROVE  /\ Times(screen[v], batch[x][j]) <= refused'[batch[x][j]]
                    /\ j <= Handled(x) /\ batch[x][j] \in ToSet(table') =>
                         Times(screen[v], batch[x][j]) < refused'[batch[x][j]]
  BY <1>1 DEF MayShow, Handled
<1> DEFINE i == batch[x][j]
           n == Times(screen[v], i)
           s == refused'[i]
<1>2. i \in Ids /\ i \in ToSet(batch[x])
  BY BatchOf
<1>3. n <= refused[i] /\ (j <= Handled(x) /\ i \in ToSet(table) => n < refused[i])
  BY DEF MayShow
<1>4. n \in Nat /\ refused[i] \in Nat
  BY <1>2, IdsOf, TimesFinite DEF TypeOK
<1>5. s \in Nat /\ refused[i] <= s
  BY <1>2
<1> HIDE DEF i, n, s
<1>6. n <= s /\ (j <= Handled(x) /\ i \in ToSet(table) => n < s)
  BY <1>3, <1>4, <1>5
<1> QED
  BY <1>2, <1>6 DEF i, n, s

LEMMA WantedStep ==
  ASSUME TypeOK, Mails, Repeats, Steps
  PROVE  Wanted'
<1> USE DEF Mails, Repeats
<1> SUFFICES ASSUME NEW v \in Users, NEW x, x = client'[v], x # None
             PROVE  MayShow(v, x)'
  BY DEF Wanted, MayShow, Handled
<1>0. client[v] = x => /\ x \in Workers /\ fetcher[x] = v /\ stage[x] \in Active /\ MayShow(v, x)
  BY DEF Wanted, Waiting, TypeOK
<1>a. \A i \in Ids : refused[i] \in Nat /\ refused[i] <= refused[i]
  BY DEF TypeOK
<1>1. ASSUME client[v] = x, batch'[x] = batch[x], screen'[v] = screen[v], copied'[x] = copied[x],
             stage'[x] = stage[x], table' = table, refused' = refused
      PROVE  MayShow(v, x)'
  <2>1. \A i \in Ids : refused'[i] \in Nat /\ refused[i] <= refused'[i]
    BY <1>1, <1>a
  <2> QED
    BY <1>0, <1>1, <2>1, MayShowStays
<1>2. ASSUME NEW u \in Users, NEW size \in Nat, Stores(u, size)
      PROVE  MayShow(v, x)'
  <2>1. client[v] = x /\ UNCHANGED <<batch, screen, copied, stage, refused>>
    BY <1>2 DEF Stores
  <2>2. ToSet(table') = ToSet(table) \cup {Len(sent) + 1}
    BY <1>2, TableGrows
  <2>3. ToSet(batch[x]) \subseteq 1 .. Len(sent) /\ Len(sent) \in Nat
    BY <1>0, <2>1, BatchOf, SentOf
  <2>4. ToSet(table') \cap ToSet(batch[x]) \subseteq ToSet(table)
    BY <2>2, <2>3
  <2>5. \A i \in Ids : refused'[i] \in Nat /\ refused[i] <= refused'[i]
    BY <1>a, <2>1
  <2> QED
    BY <1>0, <2>1, <2>4, <2>5, MayShowStays
<1>3. ASSUME NEW u \in Users, NEW w \in Workers, Fetch(u, w)
      PROVE  MayShow(v, x)'
  <2>1. CASE v = u
    <3>1. /\ x = w /\ stage'[w] = "copy" /\ copied'[w] = 0 /\ UNCHANGED <<table, screen, refused>>
          /\ ToSet(batch'[w]) \subseteq ToSet(table)
      BY <1>3, <2>1, FetchedOf
    <3>2. Handled(w)' = 0
      BY <3>1 DEF Handled
    <3>3. batch'[w] \in Seq(1 .. Len(sent'))
      BY <1>3, TypesStep DEF TypeOK
    <3>4. DOMAIN batch'[w] = 1 .. Len(batch'[w]) /\ Len(batch'[w]) \in Nat
      BY <3>3, InToSet
    <3>5. ASSUME NEW j \in DOMAIN batch'[w]
          PROVE  ~(j <= 0) /\ Times(screen[v], batch'[w][j]) <= refused[batch'[w][j]]
      <4>1. batch'[w][j] \in ToSet(batch'[w])
        BY DEF ToSet
      <4>2. PICK i \in ToSet(table) : i = batch'[w][j]
        BY <3>1, <4>1
      <4>3. i \in Ids
        BY <4>2, IdsOf
      <4>4. Times(screen[v], i) <= refused[i]
        BY <4>2, <4>3 DEF Allowed
      <4> QED
        BY <3>4, <4>2, <4>4
    <3> QED
      BY <3>1, <3>2, <3>5 DEF MayShow, Handled
  <2>2. CASE v # u
    <3>1. client[v] = x /\ UNCHANGED <<table, screen, copied, refused>> /\ stage[w] = "idle"
      BY <1>3, <2>2, FetchedOf
    <3>2. x # w
      BY <1>0, <3>1 DEF Active
    <3>3. batch'[x] = batch[x] /\ stage'[x] = stage[x]
      BY <1>0, <1>3, <3>1, <3>2, FetchedOf
    <3> QED
      BY <1>1, <3>1, <3>3
  <2> QED
    BY <2>1, <2>2
<1>4. ASSUME NEW w \in Workers, Copy(w)
      PROVE  MayShow(v, x)'
  <2>1. client[v] = x /\ UNCHANGED <<table, screen, batch, refused>>
    BY <1>4 DEF Copy
  <2>2. CASE x = w
    <3>1. stage[w] = "copy" /\ stage'[w] = "delete" /\ copied'[w] = copied[w] + 1 /\ copied[w] \in Nat
      BY <1>4 DEF Copy, TypeOK
    <3>2. Handled(w)' = Handled(w)
      BY <3>1 DEF Handled
    <3> QED
      BY <1>0, <2>1, <2>2, <3>2 DEF MayShow
  <2>3. CASE x # w
    <3>1. copied'[x] = copied[x] /\ stage'[x] = stage[x]
      BY <1>0, <1>4, <2>1, <2>3 DEF Copy, TypeOK
    <3> QED
      BY <1>1, <2>1, <3>1
  <2> QED
    BY <2>2, <2>3
<1>5. ASSUME NEW w \in Workers, Delete(w)
      PROVE  MayShow(v, x)'
  <2>1. client[v] = x /\ UNCHANGED <<screen, batch, copied>>
    BY <1>5 DEF Delete
  <2>2. PICK id \in Ids :
          /\ stage[w] = "delete" /\ copied[w] \in 1 .. Len(batch[w]) /\ id = batch[w][copied[w]]
          /\ ToSet(table') \subseteq ToSet(table)
          /\ \A i \in Ids : refused'[i] \in Nat /\ refused[i] <= refused'[i]
          /\ id \notin ToSet(table') \/ refused[id] < refused'[id]
    BY <1>5, DeletedOf
  <2>3. CASE x # w
    <3>1. stage'[x] = stage[x] /\ batch'[x] = batch[x] /\ screen'[v] = screen[v] /\ copied'[x] = copied[x]
      BY <1>0, <1>5, <2>1, <2>3 DEF Delete, TypeOK
    <3> QED
      BY <1>0, <2>1, <2>2, <3>1, MayShowStays
  <2>4. CASE x = w
    <3>1. stage'[w] = "copy" /\ copied[w] \in Nat
      BY <1>5 DEF Delete, TypeOK
    <3>2. Handled(w)' = copied[w] /\ Handled(w) = copied[w] - 1
      BY <2>1, <2>2, <3>1 DEF Handled
    <3>3. ASSUME NEW j \in DOMAIN batch[w]
          PROVE  /\ Times(screen[v], batch[w][j]) <= refused'[batch[w][j]]
                 /\ j <= copied[w] /\ batch[w][j] \in ToSet(table') =>
                      Times(screen[v], batch[w][j]) < refused'[batch[w][j]]
      <4> DEFINE i == batch[w][j]
                 n == Times(screen[v], i)
                 s == refused'[i]
      <4>1. i \in Ids /\ j \in Nat
        BY BatchOf
      <4>2. n <= refused[i] /\ (j <= copied[w] - 1 /\ i \in ToSet(table) => n < refused[i])
        BY <1>0, <2>1, <2>4, <3>2 DEF MayShow
      <4>3. n \in Nat /\ refused[i] \in Nat
        BY <4>1, IdsOf, TimesFinite DEF TypeOK
      <4>4. s \in Nat /\ refused[i] <= s
        BY <2>2, <4>1
      <4>5. j = copied[w] => i \notin ToSet(table') \/ refused[i] < s
        BY <2>2
      <4>6. i \in ToSet(table') => i \in ToSet(table)
        BY <2>2
      <4> HIDE DEF i, n, s
      <4>7. n <= s /\ (j <= copied[w] /\ i \in ToSet(table') => n < s)
        BY <3>1, <4>1, <4>2, <4>3, <4>4, <4>5, <4>6
      <4> QED
        BY <4>7 DEF i, n, s
    <3> QED
      BY <2>1, <2>4, <3>2, <3>3 DEF MayShow
  <2> QED
    BY <2>3, <2>4
<1>6. ASSUME NEW w \in Workers, Die(w)
      PROVE  MayShow(v, x)'
  <2>1. client[v] = x /\ x # w /\ UNCHANGED <<table, batch, copied, screen, refused>>
    BY <1>6 DEF Die
  <2>2. stage'[x] = stage[x]
    BY <1>0, <1>6, <2>1 DEF Die, TypeOK
  <2> QED
    BY <1>1, <2>1, <2>2
<1>7. ASSUME NEW w \in Workers, AnswerNobody(w)
      PROVE  MayShow(v, x)'
  <2>1. client[v] = x /\ client[fetcher[w]] # w /\ UNCHANGED <<table, batch, copied, screen, refused>>
    BY <1>7 DEF AnswerNobody
  <2>2. x # w
    BY <1>0, <2>1
  <2>3. stage'[x] = stage[x]
    BY <1>0, <1>7, <2>1, <2>2 DEF AnswerNobody, TypeOK
  <2> QED
    BY <1>1, <2>1, <2>3
<1>8. ASSUME NEW w \in Workers, NEW end \in Ended, NEW n \in 0 .. Len(batch[w]), Displays(w, n, end)
      PROVE  MayShow(v, x)'
  <2>1. PICK u \in Users, t \in Seq(Nat) : ShowsTo(u, w, t, n)
    BY <1>8, DisplayedOf
  <2>2. v # u /\ client[v] = x
    BY <2>1 DEF ShowsTo, TypeOK
  <2>3. x # w /\ screen'[v] = screen[v]
    BY <1>0, <2>1, <2>2 DEF ShowsTo
  <2>4. stage'[x] = stage[x] /\ UNCHANGED <<table, batch, copied, refused>>
    BY <1>0, <1>8, <2>2, <2>3 DEF Displays, Display, TypeOK
  <2> QED
    BY <1>1, <2>2, <2>3, <2>4
<1>9. ASSUME Quiet \/ \E u \in Users : GiveUp(u)
      PROVE  MayShow(v, x)'
  <2>1. client[v] = x /\ UNCHANGED <<table, batch, copied, stage, screen, refused>>
    BY <1>9 DEF Quiet, GiveUp, server, TypeOK
  <2> QED
    BY <1>1, <2>1
<1> QED
  BY <1>2, <1>3, <1>4, <1>5, <1>6, <1>7, <1>8, <1>9 DEF Steps

LEMMA RepeatsStep ==
  ASSUME TypeOK, Mails, Repeats, Steps
  PROVE  Repeats'
<1> QED
  BY AllowedStep, WantedStep DEF Repeats
-----------------------------------------------------------------------------
(****************************************************************************)
(* The order in which messages are first seen.                              *)
(****************************************************************************)

\* Most steps only remove from the table, and leave the screens alone.
LEMMA Shrinks ==
  ASSUME TypeOK, Ordered, Fetching, NEW w \in Workers,
         Copy(w) \/ Delete(w) \/ Die(w) \/ AnswerNobody(w)
  PROVE  /\ ToSet(table') \subseteq ToSet(table)
         /\ UNCHANGED <<sent, batch, screen, fetcher>>
         /\ \A v \in Users : client'[v] # None => client'[v] = client[v]
<1>1. CASE Delete(w)
  <2>1. ToSet(table') \subseteq ToSet(table)
    BY <1>1, DeletedOf
  <2> QED
    BY <1>1, <2>1 DEF Delete
<1>2. CASE Copy(w) \/ Die(w) \/ AnswerNobody(w)
  BY <1>2 DEF Copy, Die, AnswerNobody, TypeOK
<1> QED
  BY <1>1, <1>2

LEMMA SelectedStep ==
  ASSUME TypeOK, Mails, Selected, Steps
  PROVE  Selected'
<1> USE DEF Mails
<1> SUFFICES ASSUME NEW v \in Users, NEW x, x = client'[v], x # None
             PROVE  SelectedFor(v, x)'
  BY DEF Selected, SelectedFor, MailFor
<1>0. client[v] = x => x \in Workers /\ stage[x] \in Active /\ SelectedFor(v, x)
  BY DEF Selected, Waiting, TypeOK
<1>1. ASSUME client[v] = x, batch'[x] = batch[x], sent' = sent, ToSet(table') \subseteq ToSet(table)
      PROVE  SelectedFor(v, x)'
  BY <1>0, <1>1 DEF SelectedFor, MailFor
<1>2. ASSUME NEW u \in Users, NEW size \in Nat, Stores(u, size)
      PROVE  SelectedFor(v, x)'
  <2>1. client[v] = x /\ batch' = batch
    BY <1>2 DEF Stores
  <2>2. ToSet(table') = ToSet(table) \cup {Len(sent) + 1}
    BY <1>2, TableGrows
  <2>3. ToSet(batch[x]) \subseteq 1 .. Len(sent) /\ Len(sent) \in Nat /\ ToSet(table) \subseteq 1 .. Len(sent)
    BY <1>0, <2>1, BatchOf, SentOf, IdsOf
  <2>4. ASSUME NEW y \in ToSet(table'), y \in MailFor(v)', NEW z \in ToSet(batch[x]), y < z
        PROVE  y \in ToSet(batch[x])
    <3>1. y # Len(sent) + 1
      BY <2>3, <2>4
    <3>2. y \in ToSet(table) /\ y \in 1 .. Len(sent)
      BY <2>2, <2>3, <2>4, <3>1
    <3>3. y \in MailFor(v)
      BY <1>2, <2>4, <3>2, GrowsBy
    <3> QED
      BY <1>0, <2>1, <2>4, <3>2, <3>3 DEF SelectedFor
  <2> QED
    BY <2>1, <2>4 DEF SelectedFor
<1>3. ASSUME NEW u \in Users, NEW w \in Workers, Fetch(u, w)
      PROVE  SelectedFor(v, x)'
  <2>1. sent' = sent /\ table' = table
    BY <1>3, FetchedOf
  <2>2. CASE v = u
    <3>1. /\ x = w
          /\ ToSet(batch'[w]) = ToSet(table) \cap MailFor(u) \/ ToSet(batch'[w]) = {}
      BY <1>3, <2>2, FetchedOf
    <3> QED
      BY <2>1, <2>2, <3>1 DEF SelectedFor, MailFor
  <2>3. CASE v # u
    <3>1. client[v] = x /\ stage[w] = "idle"
      BY <1>3, <2>3, FetchedOf
    <3>2. x # w
      BY <1>0, <3>1 DEF Active
    <3>3. batch'[x] = batch[x]
      BY <1>0, <1>3, <3>1, <3>2, FetchedOf
    <3> QED
      BY <1>1, <2>1, <3>1, <3>3
  <2> QED
    BY <2>2, <2>3
<1>4. ASSUME NEW w \in Workers, Copy(w) \/ Delete(w) \/ Die(w) \/ AnswerNobody(w)
      PROVE  SelectedFor(v, x)'
  <2>1. /\ ToSet(table') \subseteq ToSet(table) /\ UNCHANGED <<sent, batch>>
        /\ client[v] = x
    BY <1>4, Shrinks
  <2> QED
    BY <1>1, <2>1
<1>5. ASSUME NEW w \in Workers, NEW end \in Ended, NEW n \in 0 .. Len(batch[w]), Displays(w, n, end)
      PROVE  SelectedFor(v, x)'
  <2>1. PICK u \in Users, t \in Seq(Nat) : ShowsTo(u, w, t, n)
    BY <1>5, DisplayedOf
  <2>2. client[v] = x
    BY <2>1 DEF ShowsTo, TypeOK
  <2>3. UNCHANGED <<sent, table, batch>>
    BY <1>5 DEF Displays, Display
  <2> QED
    BY <1>1, <2>2, <2>3
<1>6. ASSUME Quiet \/ \E u \in Users : GiveUp(u)
      PROVE  SelectedFor(v, x)'
  <2>1. client[v] = x /\ UNCHANGED <<sent, table, batch>>
    BY <1>6 DEF Quiet, GiveUp, server, TypeOK
  <2> QED
    BY <1>1, <2>1
<1> QED
  BY <1>2, <1>3, <1>4, <1>5, <1>6 DEF Steps

AheadFor(u) ==
  /\ \A y \in ToSet(table) \cap MailFor(u) : Before(screen[u], y)
  /\ client[u] # None => \A y \in ToSet(batch[client[u]]) : Before(screen[u], y)

LEMMA AheadStep ==
  ASSUME TypeOK, Mails, Selected, Ahead, Steps
  PROVE  Ahead'
<1> USE DEF Mails
<1> SUFFICES ASSUME NEW v \in Users
             PROVE  AheadFor(v)'
  BY DEF Ahead, AheadFor
<1>0. AheadFor(v)
  BY DEF Ahead, AheadFor
<1>a. client[v] # None => client[v] \in Workers /\ stage[client[v]] \in Active
  BY DEF Waiting, TypeOK
<1>1. ASSUME client'[v] # None => client'[v] = client[v] /\ batch'[client[v]] = batch[client[v]],
             screen'[v] = screen[v], sent' = sent, ToSet(table') \subseteq ToSet(table)
      PROVE  AheadFor(v)'
  BY <1>0, <1>1 DEF AheadFor, MailFor
<1>2. ASSUME NEW u \in Users, NEW size \in Nat, Stores(u, size)
      PROVE  AheadFor(v)'
  <2>1. UNCHANGED <<client, batch, screen>>
    BY <1>2 DEF Stores
  <2>2. ToSet(table') = ToSet(table) \cup {Len(sent) + 1}
    BY <1>2, TableGrows
  <2>3. ASSUME NEW y \in ToSet(table'), y \in MailFor(v)'
        PROVE  Before(screen[v], y)
    <3>1. CASE y = Len(sent) + 1
      <4>1. ToSet(screen[v]) \subseteq 1 .. Len(sent) /\ Len(sent) \in Nat
        BY IdsOf, SentOf
      <4>2. \A k \in DOMAIN screen[v] : screen[v][k] \in 1 .. Len(sent)
        BY <4>1 DEF ToSet
      <4>3. \A k \in DOMAIN screen[v] : ~(y < screen[v][k])
        BY <3>1, <4>1, <4>2
      <4> QED
        BY <4>3 DEF Before
    <3>2. CASE y # Len(sent) + 1
      <4>1. y \in ToSet(table) /\ y \in 1 .. Len(sent)
        BY <2>2, <2>3, <3>2, IdsOf
      <4>2. y \in MailFor(v)
        BY <1>2, <2>3, <4>1, GrowsBy
      <4> QED
        BY <1>0, <4>1, <4>2 DEF AheadFor
    <3> QED
      BY <3>1, <3>2
  <2> QED
    BY <1>0, <2>1, <2>3 DEF AheadFor
<1>3. ASSUME NEW u \in Users, NEW w \in Workers, Fetch(u, w)
      PROVE  AheadFor(v)'
  <2>1. UNCHANGED <<sent, table, screen>>
    BY <1>3, FetchedOf
  <2>2. CASE v = u
    <3>1. client'[v] = w /\ ToSet(batch'[w]) \subseteq ToSet(table) \cap MailFor(v)
      BY <1>3, <2>2, FetchedOf
    <3> QED
      BY <1>0, <2>1, <3>1 DEF AheadFor, MailFor
  <2>3. CASE v # u
    <3>1. client'[v] = client[v] /\ stage[w] = "idle"
      BY <1>3, <2>3, FetchedOf
    <3>2. client[v] # None => client[v] \in Workers /\ client[v] # w
      BY <1>a, <3>1 DEF Active
    <3>3. client[v] # None => batch'[client[v]] = batch[client[v]]
      BY <1>3, <3>2, FetchedOf
    <3> QED
      BY <1>1, <2>1, <3>1, <3>3
  <2> QED
    BY <2>2, <2>3
<1>4. ASSUME NEW w \in Workers, Copy(w) \/ Delete(w) \/ Die(w) \/ AnswerNobody(w)
      PROVE  AheadFor(v)'
  <2>1. /\ ToSet(table') \subseteq ToSet(table) /\ UNCHANGED <<sent, batch, screen>>
        /\ client'[v] # None => client'[v] = client[v]
    BY <1>4, Shrinks
  <2> QED
    BY <1>1, <2>1
<1>5. ASSUME NEW w \in Workers, NEW end \in Ended, NEW n \in 0 .. Len(batch[w]), Displays(w, n, end)
      PROVE  AheadFor(v)'
  <2>1. PICK u \in Users, t \in Seq(Nat) : ShowsTo(u, w, t, n)
    BY <1>5, DisplayedOf
  <2>2. UNCHANGED <<sent, table, batch>>
    BY <1>5 DEF Displays, Display
  <2>3. CASE v # u
    <3>1. client'[v] = client[v] /\ screen'[v] = screen[v]
      BY <2>1, <2>3 DEF ShowsTo, TypeOK
    <3> QED
      BY <1>1, <2>2, <3>1
  <2>4. CASE v = u
    <3>1. /\ client[v] = w /\ client'[v] = None /\ w # None
          /\ screen'[v] = screen[v] \o t
          /\ Len(t) = n /\ \A k \in 1 .. n : t[k] = batch[w][k]
      BY <2>1, <2>4, DeliveryAssumption DEF ShowsTo, TypeOK
    <3>2. SelectedFor(v, w)
      BY <3>1 DEF Selected
    <3>3. /\ batch[w] \in Seq(Nat) /\ Ascending(batch[w]) /\ n <= Len(batch[w])
          /\ ToSet(table) \subseteq Nat /\ screen[v] \in Seq(Nat)
      BY BatchOf, IdsOf DEF Ordered
    <3>4. ASSUME NEW y \in ToSet(table) \cap MailFor(v)
          PROVE  Before(screen[v] \o t, y)
      <4>1. y \in Nat /\ Before(screen[v], y)
        BY <1>0, <3>3 DEF AheadFor
      <4>2. \A z \in ToSet(batch[w]) : y < z => y \in ToSet(batch[w])
        BY <3>2 DEF SelectedFor
      <4>3. Before(t, y)
        BY <3>1, <3>3, <4>1, <4>2, BeforeFirst
      <4> QED
        BY <3>3, <4>1, <4>3, BeforeConcat
    <3> QED
      BY <2>2, <3>1, <3>4 DEF AheadFor, MailFor
  <2> QED
    BY <2>3, <2>4
<1>6. ASSUME Quiet \/ \E u \in Users : GiveUp(u)
      PROVE  AheadFor(v)'
  <2>1. (client'[v] # None => client'[v] = client[v]) /\ UNCHANGED <<sent, table, batch, screen>>
    BY <1>6 DEF Quiet, GiveUp, server, TypeOK
  <2> QED
    BY <1>1, <2>1
<1> QED
  BY <1>2, <1>3, <1>4, <1>5, <1>6 DEF Steps

LEMMA FirstSeenStep ==
  ASSUME TypeOK, Mails, Ahead, FirstSeenInOrder, Steps
  PROVE  FirstSeenInOrder'
<1> USE DEF Mails
<1> SUFFICES ASSUME NEW v \in Users
             PROVE  InOrder(screen'[v])
  BY DEF FirstSeenInOrder, InOrder
<1>0. InOrder(screen[v])
  BY DEF FirstSeenInOrder, InOrder
<1>1. ASSUME NEW w \in Workers, NEW end \in Ended, NEW n \in 0 .. Len(batch[w]), Displays(w, n, end)
      PROVE  InOrder(screen'[v])
  <2>1. PICK u \in Users, t \in Seq(Nat) : ShowsTo(u, w, t, n)
    BY <1>1, DisplayedOf
  <2>2. CASE v # u
    BY <1>0, <2>1, <2>2 DEF ShowsTo
  <2>3. CASE v = u
    <3>1. client[v] = w /\ w # None /\ screen'[v] = screen[v] \o t /\ Ascending(t) /\ ToSet(t) \subseteq ToSet(batch[w])
      BY <2>1, <2>3, DeliveryAssumption DEF ShowsTo
    <3>2. \A y \in ToSet(t) : Before(screen[v], y)
      BY <3>1 DEF Ahead
    <3>3. screen[v] \in Seq(Nat)
      BY IdsOf
    <3> QED
      BY <1>0, <3>1, <3>2, <3>3, InOrderConcat
  <2> QED
    BY <2>2, <2>3
<1>2. ASSUME NEW w \in Workers, Copy(w) \/ Delete(w) \/ Die(w) \/ AnswerNobody(w)
      PROVE  screen' = screen
  BY <1>2 DEF Copy, Delete, Die, AnswerNobody
<1>3. ASSUME \/ Quiet \/ \E u \in Users, size \in Nat : Stores(u, size)
             \/ (\E u \in Users : GiveUp(u)) \/ \E u \in Users, w \in Workers : Fetch(u, w)
      PROVE  screen' = screen
  BY <1>3 DEF Quiet, Stores, GiveUp, Fetch
<1> QED
  BY <1>0, <1>1, <1>2, <1>3 DEF Steps

LEMMA OrderStep ==
  ASSUME TypeOK, Mails, Order, Steps
  PROVE  Order'
<1> QED
  BY SelectedStep, AheadStep, FirstSeenStep DEF Order
-----------------------------------------------------------------------------
(****************************************************************************)
(* What is lost.                                                            *)
(****************************************************************************)

LEMMA CopiesStay ==
  ASSUME TypeOK, Mails, Steps, NEW v \in Workers
  PROVE  ToSet(CopiedBy(v)) \subseteq ToSet(CopiedBy(v))'
<1> USE DEF Mails
<1>1. CASE batch'[v] = batch[v] /\ copied'[v] = copied[v]
  BY <1>1 DEF CopiedBy, ToSet
<1>2. ASSUME NEW u \in Users, NEW w \in Workers, Fetch(u, w), v = w
      PROVE  ToSet(CopiedBy(v)) = {}
  <2>1. copied[v] = 0
    BY <1>2, FetchedOf
  <2>2. \A i : ~(i \in ToSet(CopiedBy(v)))
    BY <2>1, BatchOf
  <2> QED
    BY <2>2
<1>3. ASSUME NEW w \in Workers, Copy(w), v = w
      PROVE  ToSet(CopiedBy(v)) \subseteq ToSet(CopiedBy(v))'
  <2> DEFINE c == copied[v]
             b == batch[v]
  <2>1. batch'[v] = b /\ copied'[v] = c + 1 /\ c < Len(b)
    BY <1>3 DEF Copy, TypeOK
  <2>2. b \in Seq(Nat) /\ c \in 0 .. Len(b) /\ Len(b) \in Nat
    BY BatchOf
  <2> HIDE DEF b, c
  <2> DEFINE d == c + 1
  <2>3. d \in 0 .. Len(b) /\ 1 .. c \subseteq 1 .. d
    BY <2>1, <2>2
  <2> HIDE DEF d
  <2>4. ToSet(SubSeq(b, 1, c)) \subseteq ToSet(SubSeq(b, 1, d))
    BY <2>2, <2>3, CopiedIn
  <2> QED
    BY <2>1, <2>4 DEF CopiedBy, b, c, d
<1>4. ASSUME NEW w \in Workers, Copy(w), v # w
      PROVE  batch'[v] = batch[v] /\ copied'[v] = copied[v]
  BY <1>4 DEF Copy, TypeOK
<1>5. ASSUME NEW u \in Users, NEW w \in Workers, Fetch(u, w), v # w
      PROVE  batch'[v] = batch[v] /\ copied'[v] = copied[v]
  BY <1>5, FetchedOf
<1>6. ASSUME NEW w \in Workers, Delete(w) \/ Die(w) \/ AnswerNobody(w)
      PROVE  UNCHANGED <<batch, copied>>
  BY <1>6 DEF Delete, Die, AnswerNobody
<1>7. ASSUME NEW w \in Workers, NEW end \in Ended, NEW n \in 0 .. Len(batch[w]), Displays(w, n, end)
      PROVE  UNCHANGED <<batch, copied>>
  BY <1>7 DEF Displays, Display
<1>8. ASSUME \/ Quiet \/ \E u \in Users, size \in Nat : Stores(u, size)
             \/ \E u \in Users : GiveUp(u)
      PROVE  UNCHANGED <<batch, copied>>
  BY <1>8 DEF Quiet, Stores, GiveUp, server
<1>9. ASSUME ToSet(CopiedBy(v)) = {}
      PROVE  ToSet(CopiedBy(v)) \subseteq ToSet(CopiedBy(v))'
  BY <1>9
<1> QED
  BY <1>1, <1>2, <1>3, <1>4, <1>5, <1>6, <1>7, <1>8, <1>9 DEF Steps

\* A fetch that has ended stays as it ended, and one at work stays or ends.
LEMMA EndsOnce ==
  ASSUME TypeOK, Mails, Steps, NEW v \in Workers, stage[v] # "idle"
  PROVE  /\ batch'[v] = batch[v] /\ fetcher'[v] = fetcher[v]
         /\ stage[v] \notin Active => stage'[v] = stage[v] /\ shown'[v] = shown[v]
         /\ \/ stage'[v] \in Active
            \/ stage'[v] = stage[v] /\ copied'[v] = copied[v] /\ shown'[v] = shown[v]
            \/ stage'[v] \in {"dead", "gone"}
            \/ \E end \in Ended : \E n \in 0 .. Len(batch[v]) : Displays(v, n, end)
<1> USE DEF Mails
<1>1. ASSUME NEW u \in Users, NEW w \in Workers, Fetch(u, w)
      PROVE  /\ batch'[v] = batch[v] /\ fetcher'[v] = fetcher[v] /\ stage'[v] = stage[v]
             /\ copied' = copied /\ shown' = shown
  <2>1. v # w
    BY <1>1, FetchedOf
  <2> QED
    BY <1>1, <2>1, FetchedOf DEF Fetch
<1>2. ASSUME NEW w \in Workers, Copy(w) \/ Delete(w)
      PROVE  /\ batch' = batch /\ fetcher' = fetcher /\ shown' = shown
             /\ stage'[v] \in Active \/ (stage'[v] = stage[v] /\ copied'[v] = copied[v])
             /\ stage[v] \notin Active => stage'[v] = stage[v]
  BY <1>2 DEF Copy, Delete, TypeOK, Active
<1>3. ASSUME NEW w \in Workers, Die(w) \/ AnswerNobody(w)
      PROVE  /\ batch' = batch /\ fetcher' = fetcher /\ copied' = copied /\ shown' = shown
             /\ stage'[v] \in {"dead", "gone"} \/ stage'[v] = stage[v]
             /\ stage[v] \notin Active => stage'[v] = stage[v]
  BY <1>3 DEF Die, AnswerNobody, Finished, TypeOK, Active
<1>4. ASSUME NEW w \in Workers, NEW end \in Ended, NEW n \in 0 .. Len(batch[w]), Displays(w, n, end), v # w
      PROVE  /\ batch' = batch /\ fetcher' = fetcher /\ copied' = copied
             /\ stage'[v] = stage[v] /\ shown'[v] = shown[v]
  BY <1>4 DEF Displays, Display, TypeOK
<1>5. ASSUME NEW end \in Ended, NEW n \in 0 .. Len(batch[v]), Displays(v, n, end)
      PROVE  batch' = batch /\ fetcher' = fetcher /\ stage[v] \in Active
  BY <1>5 DEF Displays, Display, Finished, Active
<1>6. ASSUME \/ Quiet \/ \E u \in Users, size \in Nat : Stores(u, size)
             \/ \E u \in Users : GiveUp(u)
      PROVE  UNCHANGED <<batch, fetcher, copied, stage, shown>>
  BY <1>6 DEF Quiet, Stores, GiveUp, server
<1>7. ASSUME NEW w \in Workers, NEW end \in Ended, NEW n \in 0 .. Len(batch[w]), Displays(w, n, end), v = w
      PROVE  \E e \in Ended : \E m \in 0 .. Len(batch[v]) : Displays(v, m, e)
  BY <1>7
<1> QED
  BY <1>1, <1>2, <1>3, <1>4, <1>5, <1>6, <1>7 DEF Steps

HeldFor(w) ==
  stage[w] \in Active =>
    \A i \in ToSet(batch[w]) :
      i \in ToSet(table) \/ \E v \in Workers : i \in ToSet(CopiedBy(v))

LEMMA HeldStep ==
  ASSUME TypeOK, Mails, Held, Steps
  PROVE  Held'
<1> USE DEF Mails
<1> SUFFICES ASSUME NEW w \in Workers
             PROVE  HeldFor(w)'
  BY DEF Held, HeldFor, ToSet, CopiedBy
<1>0. HeldFor(w)
  BY DEF Held, HeldFor
<1>a. \A v \in Workers : ToSet(CopiedBy(v)) \subseteq ToSet(CopiedBy(v))'
  BY CopiesStay
<1>1. ASSUME stage'[w] \in Active => stage[w] \in Active, batch'[w] = batch[w],
             ToSet(table) \subseteq ToSet(table')
      PROVE  HeldFor(w)'
  BY <1>0, <1>1, <1>a DEF HeldFor
<1>2. ASSUME NEW u \in Users, NEW size \in Nat, Stores(u, size)
      PROVE  HeldFor(w)'
  <2>1. UNCHANGED <<stage, batch>> /\ ToSet(table) \subseteq ToSet(table')
    BY <1>2, TableGrows DEF Stores
  <2> QED
    BY <1>1, <2>1
<1>3. ASSUME NEW u \in Users, NEW v \in Workers, Fetch(u, v)
      PROVE  HeldFor(w)'
  <2>1. table' = table
    BY <1>3, FetchedOf
  <2>2. CASE v = w
    <3>1. ToSet(batch'[w]) \subseteq ToSet(table)
      BY <1>3, <2>2, FetchedOf
    <3> QED
      BY <2>1, <3>1 DEF HeldFor
  <2>3. CASE v # w
    <3>1. batch'[w] = batch[w] /\ stage'[w] = stage[w]
      BY <1>3, <2>3, FetchedOf
    <3> QED
      BY <1>1, <2>1, <3>1
  <2> QED
    BY <2>2, <2>3
<1>4. ASSUME NEW v \in Workers, Delete(v)
      PROVE  HeldFor(w)'
  <2>1. PICK id \in Ids : /\ copied[v] \in 1 .. Len(batch[v]) /\ id = batch[v][copied[v]]
                          /\ ToSet(table) \ {id} \subseteq ToSet(table')
    BY <1>4, DeletedOf
  <2>2. id \in ToSet(CopiedBy(v))
    <3>1. copied[v] \in 1 .. copied[v]
      BY <2>1, BatchOf
    <3> QED
      BY <2>1, <3>1, BatchOf
  <2>3. id \in ToSet(CopiedBy(v))'
    BY <1>a, <2>2
  <2>4. batch' = batch /\ (stage'[w] \in Active => stage[w] \in Active)
    BY <1>4 DEF Delete, TypeOK, Active
  <2>5. ASSUME stage[w] \in Active, NEW i \in ToSet(batch[w])
        PROVE  i \in ToSet(table') \/ \E x \in Workers : i \in ToSet(CopiedBy(x))'
    BY <1>0, <1>a, <2>1, <2>3, <2>5 DEF HeldFor
  <2> QED
    BY <2>4, <2>5 DEF HeldFor
<1>5. ASSUME NEW v \in Workers, Copy(v) \/ Die(v) \/ AnswerNobody(v)
      PROVE  HeldFor(w)'
  <2>1. UNCHANGED <<table, batch>> /\ (stage'[w] \in Active => stage[w] \in Active)
    BY <1>5 DEF Copy, Die, AnswerNobody, TypeOK, Active
  <2> QED
    BY <1>1, <2>1
<1>6. ASSUME NEW v \in Workers, NEW end \in Ended, NEW n \in 0 .. Len(batch[v]), Displays(v, n, end)
      PROVE  HeldFor(w)'
  <2>1. UNCHANGED <<table, batch>> /\ (stage'[w] \in Active => stage[w] \in Active)
    BY <1>6 DEF Displays, Display, TypeOK, Active, Ended
  <2> QED
    BY <1>1, <2>1
<1>7. ASSUME Quiet \/ \E u \in Users : GiveUp(u)
      PROVE  HeldFor(w)'
  <2>1. UNCHANGED <<table, batch, stage>>
    BY <1>7 DEF Quiet, GiveUp, server
  <2> QED
    BY <1>1, <2>1
<1> QED
  BY <1>2, <1>3, <1>4, <1>5, <1>6, <1>7 DEF Steps

\* The sizes of a batch are those of messages that are stored.
LEMMA SizesStay ==
  ASSUME TypeOK, Mails, Steps, NEW v \in Workers, batch'[v] = batch[v]
  PROVE  /\ \A i \in 1 .. Len(sent) : i \in DOMAIN sent' /\ sent'[i] = sent[i]
         /\ Sizes(batch[v])' = Sizes(batch[v]) /\ (TooBig(v)' <=> TooBig(v))
<1>1. \A i \in 1 .. Len(sent) : i \in DOMAIN sent' /\ sent'[i] = sent[i]
  <2>1. ASSUME NEW u \in Users, NEW size \in Nat, Stores(u, size)
        PROVE  \A i \in 1 .. Len(sent) : i \in DOMAIN sent' /\ sent'[i] = sent[i]
    <3>1. Len(sent) \in Nat
      BY SentOf
    <3> QED
      BY <2>1, <3>1, GrowsBy
  <2>2. ASSUME NEW w \in Workers, Copy(w) \/ Delete(w) \/ Die(w) \/ AnswerNobody(w)
        PROVE  sent' = sent
    BY <2>2 DEF Copy, Delete, Die, AnswerNobody
  <2>3. ASSUME NEW w \in Workers, NEW end \in Ended, NEW n \in 0 .. Len(batch[w]), Displays(w, n, end)
        PROVE  sent' = sent
    BY <2>3 DEF Displays, Display
  <2>4. ASSUME Quiet \/ (\E u \in Users : GiveUp(u)) \/ \E u \in Users, w \in Workers : Fetch(u, w)
        PROVE  sent' = sent
    BY <2>4 DEF Quiet, GiveUp, Fetch
  <2> QED
    BY <2>1, <2>2, <2>3, <2>4, SentOf DEF Steps
<1>2. DOMAIN batch[v] = 1 .. Len(batch[v]) /\ \A j \in 1 .. Len(batch[v]) : batch[v][j] \in 1 .. Len(sent)
  BY BatchOf
<1>3. Sizes(batch[v])' = Sizes(batch[v])
  BY <1>1, <1>2 DEF Sizes
<1>4. Total(batch[v])' = Total(batch[v])
  BY <1>3 DEF Total
<1> QED
  BY <1>1, <1>3, <1>4 DEF TooBig

\* A worker has a copy for the addressee and is at work, or has lost it.
Carried(w, i) ==
  /\ fetcher[w] = sent[i].to
  /\ i \in ToSet(CopiedBy(w))
  /\ stage[w] \in Active \/ LostBy(w, i)

\* Displaying all that the count allows leaves the rest behind an empty message.
LEMMA DoneLoses ==
  ASSUME TypeOK, Mails, NEW w \in Workers, NEW n \in 0 .. Len(batch[w]), Displays(w, n, "done"),
         NEW i \in ToSet(batch[w]), NEW u \in Users, NEW t \in Seq(Nat), ShowsTo(u, w, t, n)
  PROVE  i \in ToSet(t) \/ \E k, l \in DOMAIN batch[w] : k < l /\ batch[w][l] = i /\ Sizes(batch[w])[k] = 0
<1> DEFINE b == batch[w]
           z == Sizes(b)
<1>1. n = Displayed(b)
  BY DEF Displays
<1>2. b \in Seq(1 .. Len(sent)) /\ DOMAIN b = 1 .. Len(b) /\ Len(b) \in Nat
  BY BatchOf
<1>3. z \in Seq(Nat) /\ Len(z) = Len(b) /\ Displayed(b) = ShownOf(z)
  BY <1>2, BatchSizes
<1>4. PICK l \in 1 .. Len(b) : b[l] = i
  BY BatchOf
<1>5. Len(t) = n /\ \A k \in 1 .. n : t[k] = b[k]
  BY DEF ShowsTo
<1> HIDE DEF b, z
<1>6. CASE l <= n
  <2>1. l \in 1 .. n /\ l \in DOMAIN t /\ t[l] = i
    BY <1>4, <1>5, <1>6, LenProperties
  <2> QED
    BY <2>1 DEF ToSet
<1>7. CASE n < l
  <2>1. l \in 1 .. Len(z) /\ ShownOf(z) < l
    BY <1>1, <1>3, <1>7
  <2>2. PICK k \in 1 .. Len(z) : k < l /\ z[k] = 0
    BY <1>3, <2>1, EmptyBeforeHidden
  <2> QED
    BY <1>2, <1>3, <1>4, <2>2 DEF b, z
<1>8. l <= n \/ n < l
  BY <1>2, <1>4
<1> QED
  BY <1>6, <1>7, <1>8

LEMMA CarriedStep ==
  ASSUME TypeOK, Mails, Steps, NEW w \in Workers, NEW i \in 1 .. Len(sent), Carried(w, i)
  PROVE  Carried(w, i)' \/ i \in ToSet(screen'[sent[i].to])
<1> USE DEF Mails
<1>1. stage[w] # "idle"
  BY DEF Carried, LostBy, Active
<1>2. /\ batch'[w] = batch[w] /\ fetcher'[w] = fetcher[w]
      /\ stage[w] \notin Active => stage'[w] = stage[w] /\ shown'[w] = shown[w]
      /\ \/ stage'[w] \in Active
         \/ stage'[w] = stage[w] /\ copied'[w] = copied[w] /\ shown'[w] = shown[w]
         \/ stage'[w] \in {"dead", "gone"}
         \/ \E end \in Ended : \E n \in 0 .. Len(batch[w]) : Displays(w, n, end)
  BY <1>1, EndsOnce
<1>3. i \in DOMAIN sent' /\ sent'[i] = sent[i] /\ Sizes(batch[w])' = Sizes(batch[w]) /\ (TooBig(w)' <=> TooBig(w))
  BY <1>2, SizesStay
<1>4. i \in ToSet(CopiedBy(w))'
  BY CopiesStay DEF Carried
<1>5. fetcher'[w] = sent'[i].to
  BY <1>2, <1>3 DEF Carried
<1>6. ASSUME (stage[w] \in Active \/ LostBy(w, i))'
      PROVE  Carried(w, i)'
  BY <1>4, <1>5, <1>6 DEF Carried
<1>7. CASE stage'[w] \in Active \/ stage'[w] \in {"dead", "gone"}
  BY <1>6, <1>7 DEF LostBy, Active
<1>8. CASE stage'[w] = stage[w]
  <2>1. LostBy(w, i) => LostBy(w, i)'
    BY <1>2, <1>3, <1>8 DEF LostBy
  <2> QED
    BY <1>6, <1>8, <2>1 DEF Carried, Active
<1>9. ASSUME NEW end \in Ended, NEW n \in 0 .. Len(batch[w]), Displays(w, n, end)
      PROVE  Carried(w, i)' \/ i \in ToSet(screen'[sent[i].to])
  <2>1. stage'[w] = end /\ copied[w] = Len(batch[w])
    BY <1>9 DEF Displays, Display, Finished, TypeOK
  <2>2. CASE end \in {"dead", "gone", "cut"}
    BY <1>6, <2>1, <2>2 DEF LostBy
  <2>3. CASE end = "skipped"
    <3>1. TooBig(w)
      BY <1>9, <2>3 DEF Displays
    <3> QED
      BY <1>3, <1>6, <2>1, <2>3, <3>1 DEF LostBy
  <2>4. CASE end = "done"
    <3>1. PICK u \in Users, t \in Seq(Nat) : ShowsTo(u, w, t, n)
      BY <1>9, DisplayedOf
    <3>2. i \in ToSet(batch[w])
      BY <2>1, BatchOf DEF Carried
    <3>3. u = sent[i].to /\ screen'[u] = screen[u] \o t /\ screen[u] \in Seq(Nat)
      BY <3>1, IdsOf DEF ShowsTo, Carried
    <3>4. CASE i \in ToSet(t)
      <4>1. ToSet(screen[u] \o t) = ToSet(screen[u]) \cup ToSet(t)
        BY <3>3, ConcatOf
      <4> QED
        BY <3>3, <3>4, <4>1
    <3>5. CASE i \notin ToSet(t)
      <4>1. \E k, l \in DOMAIN batch[w] : k < l /\ batch[w][l] = i /\ Sizes(batch[w])[k] = 0
        BY <1>9, <2>4, <3>1, <3>2, <3>5, DoneLoses
      <4>2. LostBy(w, i)'
        BY <1>2, <1>3, <2>1, <2>4, <4>1 DEF LostBy
      <4> QED
        BY <1>6, <4>2
    <3> QED
      BY <3>4, <3>5
  <2> QED
    BY <1>9, <2>2, <2>3, <2>4 DEF Displays
<1> QED
  BY <1>2, <1>7, <1>8, <1>9

\* What was displayed stays on the screen.
LEMMA ScreensGrow ==
  ASSUME TypeOK, Mails, Steps, NEW v \in Users
  PROVE  ToSet(screen[v]) \subseteq ToSet(screen'[v])
<1> USE DEF Mails
<1>1. ASSUME NEW w \in Workers, NEW end \in Ended, NEW n \in 0 .. Len(batch[w]), Displays(w, n, end)
      PROVE  ToSet(screen[v]) \subseteq ToSet(screen'[v])
  <2>1. PICK u \in Users, t \in Seq(Nat) : ShowsTo(u, w, t, n)
    BY <1>1, DisplayedOf
  <2>2. CASE v # u
    BY <2>1, <2>2 DEF ShowsTo
  <2>3. CASE v = u
    <3>1. screen[v] \in Seq(Nat) /\ screen'[v] = screen[v] \o t
      BY <2>1, <2>3, IdsOf DEF ShowsTo
    <3>2. ToSet(screen[v] \o t) = ToSet(screen[v]) \cup ToSet(t)
      BY <3>1, ConcatOf
    <3> QED
      BY <3>1, <3>2
  <2> QED
    BY <2>2, <2>3
<1>2. ASSUME NEW w \in Workers, Copy(w) \/ Delete(w) \/ Die(w) \/ AnswerNobody(w)
      PROVE  screen' = screen
  BY <1>2 DEF Copy, Delete, Die, AnswerNobody
<1>3. ASSUME \/ Quiet \/ \E u \in Users, size \in Nat : Stores(u, size)
             \/ (\E u \in Users : GiveUp(u)) \/ \E u \in Users, w \in Workers : Fetch(u, w)
      PROVE  screen' = screen
  BY <1>3 DEF Quiet, Stores, GiveUp, Fetch
<1> QED
  BY <1>1, <1>2, <1>3 DEF Steps

Accounted(i) ==
  \/ i \in ToSet(table) \cup ToSet(screen[sent[i].to])
  \/ \E w \in Workers : Carried(w, i)

LEMMA AccountedStep ==
  ASSUME TypeOK, Mails, Steps, NEW i \in 1 .. Len(sent), Accounted(i)
  PROVE  Accounted(i)'
<1> USE DEF Mails
<1> DEFINE u == sent[i].to
<1>1. u \in Users
  BY SentOf
<1>3. sent'[i] = sent[i]
  <2>1. ASSUME NEW size \in Nat, NEW v \in Users, Stores(v, size)
        PROVE  sent'[i] = sent[i]
    BY <2>1, GrowsBy
  <2>2. ASSUME NEW w \in Workers, Copy(w) \/ Delete(w) \/ Die(w) \/ AnswerNobody(w)
        PROVE  sent' = sent
    BY <2>2 DEF Copy, Delete, Die, AnswerNobody
  <2>3. ASSUME NEW w \in Workers, NEW end \in Ended, NEW n \in 0 .. Len(batch[w]), Displays(w, n, end)
        PROVE  sent' = sent
    BY <2>3 DEF Displays, Display
  <2>4. ASSUME Quiet \/ (\E v \in Users : GiveUp(v)) \/ \E v \in Users, w \in Workers : Fetch(v, w)
        PROVE  sent' = sent
    BY <2>4 DEF Quiet, GiveUp, Fetch
  <2> QED
    BY <2>1, <2>2, <2>3, <2>4 DEF Steps
<1>4. CASE i \in ToSet(screen[u])
  BY <1>1, <1>3, <1>4, ScreensGrow DEF Accounted
<1>5. ASSUME NEW w \in Workers, Carried(w, i)
      PROVE  Accounted(i)'
  BY <1>3, <1>5, CarriedStep DEF Accounted
<1>6. CASE i \in ToSet(table)
  <2>1. ASSUME i \in ToSet(table')
        PROVE  Accounted(i)'
    BY <2>1 DEF Accounted
  <2>2. ASSUME NEW w \in Workers, Delete(w), i \notin ToSet(table')
        PROVE  Accounted(i)'
    <3>1. /\ stage[w] = "delete" /\ copied[w] \in 1 .. Len(batch[w]) /\ i = batch[w][copied[w]]
      BY <1>6, <2>2, DeletedOf
    <3>2. copied[w] \in 1 .. copied[w]
      BY <3>1, BatchOf
    <3>3. i \in ToSet(CopiedBy(w)) /\ i \in ToSet(batch[w])
      BY <3>1, <3>2, BatchOf
    <3>4. fetcher[w] = sent[i].to
      BY <3>1, <3>3 DEF Fetching, FetchOf, MailFor
    <3>5. Carried(w, i)
      BY <3>1, <3>3, <3>4 DEF Carried, Active
    <3> QED
      BY <1>5, <3>5
  <2>3. ASSUME NEW size \in Nat, NEW v \in Users, Stores(v, size)
        PROVE  ToSet(table) \subseteq ToSet(table')
    BY <2>3, TableGrows
  <2>4. ASSUME NEW w \in Workers, Copy(w) \/ Die(w) \/ AnswerNobody(w)
        PROVE  table' = table
    BY <2>4 DEF Copy, Die, AnswerNobody
  <2>5. ASSUME NEW w \in Workers, NEW end \in Ended, NEW n \in 0 .. Len(batch[w]), Displays(w, n, end)
        PROVE  table' = table
    BY <2>5 DEF Displays, Display
  <2>6. ASSUME Quiet \/ (\E v \in Users : GiveUp(v)) \/ \E v \in Users, w \in Workers : Fetch(v, w)
        PROVE  table' = table
    BY <2>6 DEF Quiet, GiveUp, Fetch, server
  <2> QED
    BY <1>6, <2>1, <2>2, <2>3, <2>4, <2>5, <2>6 DEF Steps
<1> QED
  BY <1>4, <1>5, <1>6 DEF Accounted

LEMMA LostForReasonStep ==
  ASSUME TypeOK, Mails, LostForReason, Steps
  PROVE  LostForReason'
<1> SUFFICES ASSUME NEW i \in DOMAIN sent'
             PROVE  Accounted(i)'
  BY DEF LostForReason, Accounted, Carried, CopiedBy, ToSet, LostBy, TooBig, Total, Sizes
<1>1. ASSUME i \in 1 .. Len(sent)
      PROVE  Accounted(i)'
  <2>1. Accounted(i)
    BY <1>1, SentOf DEF LostForReason, Accounted, Carried
  <2> QED
    BY <1>1, <2>1, AccountedStep
<1>2. ASSUME NEW u \in Users, NEW size \in Nat, Stores(u, size)
      PROVE  Accounted(i)'
  <2>1. DOMAIN sent' = 1 .. Len(sent) + 1 /\ Len(sent) \in Nat
    BY <1>2, GrowsBy, SentOf
  <2>2. CASE i = Len(sent) + 1
    <3>1. i \in ToSet(table')
      BY <1>2, <2>2, TableGrows
    <3> QED
      BY <3>1 DEF Accounted
  <2>3. CASE i # Len(sent) + 1
    BY <1>1, <2>1, <2>3
  <2> QED
    BY <2>2, <2>3
<1>3. ASSUME sent' = sent
      PROVE  Accounted(i)'
  BY <1>1, <1>3, SentOf
<1>4. ASSUME NEW w \in Workers, Copy(w) \/ Delete(w) \/ Die(w) \/ AnswerNobody(w)
      PROVE  sent' = sent
  BY <1>4 DEF Copy, Delete, Die, AnswerNobody
<1>5. ASSUME NEW w \in Workers, NEW end \in Ended, NEW n \in 0 .. Len(batch[w]), Displays(w, n, end)
      PROVE  sent' = sent
  BY <1>5 DEF Displays, Display
<1>6. ASSUME Quiet \/ (\E u \in Users : GiveUp(u)) \/ \E u \in Users, w \in Workers : Fetch(u, w)
      PROVE  sent' = sent
  BY <1>6 DEF Quiet, GiveUp, Fetch
<1> QED
  BY <1>2, <1>3, <1>4, <1>5, <1>6 DEF Steps

LEMMA HiddenStep ==
  ASSUME TypeOK, Mails, HiddenByEmpties, Steps
  PROVE  HiddenByEmpties'
<1> USE DEF Mails
<1> SUFFICES ASSUME NEW w \in Workers, stage'[w] = "done"
             PROVE  Len(batch'[w]) - shown'[w] <= Cardinality({i \in 1 .. shown'[w] : (Sizes(batch[w])')[i] = 0})
  BY DEF HiddenByEmpties, Sizes
<1>1. stage[w] # "idle"
  <2>1. ASSUME NEW u \in Users, NEW v \in Workers, Fetch(u, v)
        PROVE  stage'[w] = stage[w] \/ stage'[w] = "copy"
    BY <2>1, FetchedOf
  <2>2. ASSUME NEW v \in Workers, Copy(v) \/ Delete(v) \/ Die(v) \/ AnswerNobody(v)
        PROVE  stage'[w] = stage[w] \/ stage'[w] \in Active \cup {"dead", "gone"}
    BY <2>2 DEF Copy, Delete, Die, AnswerNobody, TypeOK, Active
  <2>3. ASSUME NEW v \in Workers, NEW end \in Ended, NEW n \in 0 .. Len(batch[v]), Displays(v, n, end)
        PROVE  stage'[w] = stage[w] \/ stage[w] = "copy"
    BY <2>3 DEF Displays, Display, Finished, TypeOK
  <2>4. ASSUME \/ Quiet \/ \E u \in Users, size \in Nat : Stores(u, size)
               \/ \E u \in Users : GiveUp(u)
        PROVE  stage' = stage
    BY <2>4 DEF Quiet, Stores, GiveUp, server
  <2> QED
    BY <2>1, <2>2, <2>3, <2>4 DEF Steps, Active
<1>2. /\ batch'[w] = batch[w]
      /\ stage[w] \notin Active => stage'[w] = stage[w] /\ shown'[w] = shown[w]
      /\ \/ stage'[w] \in Active
         \/ stage'[w] = stage[w] /\ copied'[w] = copied[w] /\ shown'[w] = shown[w]
         \/ stage'[w] \in {"dead", "gone"}
         \/ \E end \in Ended : \E n \in 0 .. Len(batch[w]) : Displays(w, n, end)
  BY <1>1, EndsOnce
<1>3. Sizes(batch[w])' = Sizes(batch[w])
  BY <1>2, SizesStay
<1>4. CASE stage'[w] = stage[w] /\ shown'[w] = shown[w]
  BY <1>2, <1>3, <1>4 DEF HiddenByEmpties
<1>5. ASSUME NEW end \in Ended, NEW n \in 0 .. Len(batch[w]), Displays(w, n, end)
      PROVE  Len(batch'[w]) - shown'[w] <= Cardinality({i \in 1 .. shown'[w] : (Sizes(batch[w])')[i] = 0})
  <2> DEFINE z == Sizes(batch[w])
  <2>1. shown'[w] = n /\ n = Displayed(batch[w])
    BY <1>5 DEF Displays, Display, TypeOK
  <2>2. z \in Seq(Nat) /\ Len(z) = Len(batch[w]) /\ Displayed(batch[w]) = ShownOf(z)
    BY BatchOf, BatchSizes
  <2> HIDE DEF z
  <2>3. Len(z) - ShownOf(z) <= Cardinality(Empties(z, ShownOf(z)))
    BY <2>2, ShownUpToEmpties
  <2> QED
    BY <1>2, <1>3, <2>1, <2>2, <2>3 DEF Empties, z
<1> QED
  BY <1>2, <1>4, <1>5 DEF Active

LEMMA LossesStep ==
  ASSUME TypeOK, Mails, Losses, Steps
  PROVE  Losses'
<1> QED
  BY HeldStep, LostForReasonStep, HiddenStep DEF Losses
-----------------------------------------------------------------------------
(****************************************************************************)
(* Theorems.                                                                *)
(****************************************************************************)

LEMMA InitMails == Init => IInv
<1> SUFFICES ASSUME Init
             PROVE  IInv
  OBVIOUS
<1> USE DEF Init
<1>1. ToSet(<<>>) = {} /\ Ascending(<<>>) /\ InOrder(<<>>) /\ DOMAIN <<>> = {}
  BY DEF ToSet, Ascending, InOrder
<1>2. TypeOK
  <2>1. MaxMessages \in Nat /\ 0 <= MaxMessages
    BY DeliveryAssumption
  <2>2. Len(<<>>) = 0 /\ \A S : <<>> \in Seq(S)
    BY EmptySeq
  <2> DEFINE M == Seq([to : Users, size : Nat])
             T == Seq(1 .. Len(sent))
  <2>3. sent \in M /\ Len(sent) <= MaxMessages
    BY <2>1, <2>2
  <2>4. <<>> \in T
    BY <2>2
  <2> HIDE DEF M, T
  <2>5. table \in T /\ batch \in [Workers -> T] /\ screen \in [Users -> T]
    BY <2>4
  <2>6. /\ fetcher \in [Workers -> Users \cup {None}] /\ client \in [Users -> Workers \cup {None}]
        /\ copied \in [Workers -> Nat] /\ shown \in [Workers -> Nat]
        /\ stage \in [Workers -> {"idle"} \cup Active \cup Ended]
        /\ refused \in [Ids -> Nat] /\ malformed \in BOOLEAN
    OBVIOUS
  <2>7. \A w \in Workers : shown[w] <= copied[w] /\ copied[w] <= Len(batch[w])
    BY <2>2
  <2> QED
    BY <2>3, <2>5, <2>6, <2>7 DEF TypeOK, M, T
<1>3. Mails
  <2>1. Stored /\ Ordered
    BY <1>1 DEF Stored, Ordered
  <2>2. Fetching
    BY DEF Fetching, FetchOf
  <2>3. Waiting
    BY DEF Waiting
  <2>4. Screens
    BY <1>1 DEF Screens
  <2> QED
    BY <2>1, <2>2, <2>3, <2>4 DEF Mails
<1>4. Repeats
  <2>1. \A i : Times(<<>>, i) = 0
    <3> TAKE i
    <3>1. <<>> \in Seq(Nat)
      OBVIOUS
    <3> QED
      BY <1>1, <3>1, TimesFinite
  <2>2. Allowed
    BY <1>1, <2>1 DEF Allowed
  <2>3. Wanted
    BY DEF Wanted
  <2> QED
    BY <2>2, <2>3 DEF Repeats
<1>5. Order
  <2>1. Selected
    BY DEF Selected
  <2>2. Ahead
    <3>1. table = <<>> /\ \A u \in Users : client[u] = None
      OBVIOUS
    <3> QED
      BY <1>1, <3>1 DEF Ahead
  <2>3. FirstSeenInOrder
    BY <1>1 DEF FirstSeenInOrder
  <2> QED
    BY <2>1, <2>2, <2>3 DEF Order
<1>6. Losses
  <2>1. Held
    BY DEF Held, Active
  <2>2. LostForReason
    BY <1>1 DEF LostForReason
  <2>3. HiddenByEmpties
    BY DEF HiddenByEmpties
  <2> QED
    BY <2>1, <2>2, <2>3 DEF Losses
<1> QED
  BY <1>2, <1>3, <1>4, <1>5, <1>6 DEF IInv

\* Every reachable state has what the proofs rest on: who waits for whom, whose
\* mail is where, what may be displayed again and in what order, and what has
\* been copied (request_handler.py:160, client/operation.cpp:523).
THEOREM DeliveryInvariance == Spec => []IInv
<1>1. Init => IInv
  BY InitMails
<1>2. IInv /\ [Next]_vars => IInv'
  <2> SUFFICES ASSUME IInv, [Next]_vars
               PROVE  IInv'
    OBVIOUS
  <2>1. TypeOK /\ Mails /\ Repeats /\ Order /\ Losses
    BY DEF IInv
  <2>2. Steps
    BY <2>1, StepsOf
  <2>3. TypeOK'
    BY <2>1, <2>2, TypesStep DEF Mails
  <2>4. Mails' /\ Repeats' /\ Order' /\ Losses'
    BY <2>1, <2>2, MailsStep, RepeatsStep, OrderStep, LossesStep
  <2> QED
    BY <2>3, <2>4 DEF IInv
<1> QED
  BY <1>1, <1>2, PTL DEF Spec

\* The types hold; that a batch and a screen have only messages that were sent
\* needs the invariant (message_manager.py:74).
THEOREM DeliveryTypes == Spec => []TypeOK
<1>1. IInv => TypeOK
  BY DEF IInv
<1> QED
  BY <1>1, DeliveryInvariance, PTL

\* A message that is neither stored, displayed nor on its way was lost by a fetch
\* of its addressee that died, was left, was cut, was too big, or hid it behind a
\* message without content (request_handler.py:188, client/operation.cpp:628).
THEOREM DeliveryLosses == Spec => []LostForReason
<1>1. IInv => LostForReason
  BY DEF IInv, Losses
<1> QED
  BY <1>1, DeliveryInvariance, PTL

\* Whatever the sizes of the messages, a fetch that ends well hides at most one
\* message for each message without content (client/operation.cpp:592, :628).
THEOREM DeliveryHidesFew == Spec => []HiddenByEmpties
<1>1. IInv => HiddenByEmpties
  BY DEF IInv, Losses
<1> QED
  BY <1>1, DeliveryInvariance, PTL

\* No message is displayed more often than once and once more for every DELETE of
\* it that failed, however many fetches overlap (request_handler.py:188).
THEOREM DeliveryOnce == Spec => []ShownOnce
<1>1. IInv => ShownOnce
  <2> SUFFICES ASSUME IInv, NEW u \in Users, NEW i \in ToSet(screen[u])
               PROVE  Times(screen[u], i) <= 1 + refused[i]
    BY DEF ShownOnce, Times
  <2>1. TypeOK /\ Allowed
    BY DEF IInv, Repeats
  <2>2. i \in Ids /\ screen[u] \in Seq(Nat)
    BY <2>1, IdsOf
  <2>3. Times(screen[u], i) \in Nat /\ refused[i] \in Nat
    BY <2>1, <2>2, TimesFinite DEF TypeOK
  <2> QED
    BY <2>1, <2>2, <2>3 DEF Allowed
<1> QED
  BY <1>1, DeliveryInvariance, PTL

\* Nobody sees a message for the first time after one that was stored later
\* (message_manager.py:74, request_handler.py:176).
THEOREM DeliveryInOrder == Spec => []FirstSeenInOrder
<1>1. IInv => FirstSeenInOrder
  BY DEF IInv, Order
<1> QED
  BY <1>1, DeliveryInvariance, PTL

\* A message as built from any text that can be typed passes all the checks.
LEMMA SendIsUnderstood ==
  ASSUME NEW msg \in Messages(Texts)
  PROVE  Decodes(BuildRequest(Request("send", BuildMsg(msg).size))) /\ SendMsgAccepts(BuildMsg(msg))
<1> DEFINE c == msg.content
           built == BuildMsg(msg)
           req == BuildRequest(Request("send", built.size))
<1>1. c \in Nat /\ c <= 65536 /\ msg.type \in Types
  BY DeliveryAssumption DEF Messages, Typable, MAX_PAYLOAD_SIZE, MIN_MESSAGE_SIZE, SYMMETRIC_KEY_SIZE, Types
<1>2. built.size = 21 + c /\ built.content_size = c /\ built.type = msg.type
  BY DEF BuildMsg, MIN_MESSAGE_SIZE
<1> DEFINE size == built.size
<1>3. req.code = "send" /\ req.payload_size = size /\ req.length = 23 + size
  BY DEF BuildRequest, Request, REQUEST_HEADER
<1> HIDE DEF built, req, c, size
<1>4. size = 21 + c
  BY <1>2 DEF size
<1>5. Decodes(req)
  BY <1>1, <1>3, <1>4 DEF Decodes, DecodePayload, REQUEST_HEADER, MAX_REQUEST, Codes
<1>6. SendMsgAccepts(built)
  BY <1>1, <1>2 DEF SendMsgAccepts, MIN_MESSAGE_SIZE
<1> QED
  BY <1>5, <1>6 DEF built, req

LEMMA AskIsUnderstood ==
  ASSUME NEW code \in DOMAIN PayloadSize
  PROVE  /\ Decodes(BuildRequest(Request(code, PayloadSize[code])))
         /\ HandlerAccepts(code, PayloadSize[code])
<1> DEFINE size == PayloadSize[code]
           req == BuildRequest(Request(code, size))
<1>1. code \in {"register", "list", "key", "fetch"}
  BY DEF PayloadSize
<1>2. /\ code = "register" => size = 415
      /\ code = "key" => size = 16
      /\ code \in {"list", "fetch"} => size = 0
  BY DEF PayloadSize, NAME_SIZE, PUBLIC_KEY_SIZE, CLIENT_ID_SIZE
<1>3. req.code = code /\ req.payload_size = size /\ req.length = 23 + size
  BY DEF BuildRequest, Request, REQUEST_HEADER
<1> HIDE DEF size, req
<1>4. size \in Nat /\ size <= 415
  BY <1>1, <1>2
<1>5. Decodes(req)
  BY <1>1, <1>3, <1>4 DEF Decodes, DecodePayload, REQUEST_HEADER, MAX_REQUEST, Codes
<1>6. HandlerAccepts(code, size)
  BY <1>2 DEF HandlerAccepts, NAME_SIZE, PUBLIC_KEY_SIZE, CLIENT_ID_SIZE
<1> QED
  BY <1>5, <1>6 DEF req, size

\* The server refuses no request of the client for its form, whatever the user
\* types (client/request.cpp:48, request.py:96, request_handler.py:106).
THEOREM DeliveryUnderstood == Spec => []Understood
<1>1. Init => Understood
  BY DEF Init, Understood
<1>2. Understood /\ [Next]_vars => Understood'
  <2> SUFFICES ASSUME ~malformed, [Next]_vars
               PROVE  ~malformed'
    BY DEF Understood
  <2>1. ASSUME NEW u \in Users, NEW msg \in Messages(Texts), SendMsg(u, msg)
        PROVE  ~malformed'
    BY <2>1, SendIsUnderstood DEF SendMsg
  <2>2. ASSUME NEW code \in DOMAIN PayloadSize, Ask(code)
        PROVE  ~malformed'
    BY <2>2, AskIsUnderstood DEF Ask
  <2>3. ASSUME malformed' = malformed
        PROVE  ~malformed'
    BY <2>3
  <2>4. ASSUME NEW w \in Workers, DisplayNothing(w) \/ DisplayAll(w) \/ DisplayPart(w)
        PROVE  malformed' = malformed
    BY <2>4 DEF DisplayNothing, DisplayAll, DisplayPart, Display
  <2>5. ASSUME NEW w \in Workers, Copy(w) \/ Delete(w) \/ Die(w) \/ AnswerNobody(w)
        PROVE  malformed' = malformed
    BY <2>5 DEF Copy, Delete, Die, AnswerNobody
  <2>6. ASSUME (\E u \in Users : GiveUp(u)) \/ \E u \in Users, w \in Workers : Fetch(u, w)
        PROVE  malformed' = malformed
    BY <2>6 DEF GiveUp, Fetch
  <2>7. CASE UNCHANGED vars
    BY <2>3, <2>7 DEF vars
  <2> QED
    BY <2>1, <2>2, <2>3, <2>4, <2>5, <2>6, <2>7 DEF Next
<1> QED
  BY <1>1, <1>2, PTL DEF Spec
-----------------------------------------------------------------------------
(****************************************************************************)
(* The promises of Mailbox.                                                 *)
(****************************************************************************)

MailIn(s, i) == [id |-> i, to |-> s[i].to, size |-> s[i].size]

MailsIn(s, ids) == {MailIn(s, i) : i \in ids}

Waits == AsMail(ToSet(table))

Taken == [w \in Workers |-> AsMail(ToSet(CopiedBy(w)))]

LEMMA AsMails ==
  /\ Waits = MailsIn(sent, ToSet(table))
  /\ Waits' = MailsIn(sent', ToSet(table'))
  /\ Taken = [w \in Workers |-> MailsIn(sent, ToSet(CopiedBy(w)))]
  /\ Taken' = [w \in Workers |-> MailsIn(sent', ToSet(CopiedBy(w))')]
<1>1. Waits = MailsIn(sent, ToSet(table)) /\ Waits' = MailsIn(sent', ToSet(table'))
  BY DEF Waits, AsMail, MailsIn, MailIn
<1>2. Taken = [w \in Workers |-> MailsIn(sent, ToSet(CopiedBy(w)))]
  BY DEF Taken, AsMail, MailsIn, MailIn
<1>3. Taken' = [w \in Workers |-> MailsIn(sent', ToSet(CopiedBy(w))')]
  BY DEF Taken, AsMail, MailsIn, MailIn
<1> QED
  BY <1>1, <1>2, <1>3

LEMMA MailsInSame ==
  ASSUME NEW s, NEW r, NEW ids, \A i \in ids : r[i] = s[i]
  PROVE  MailsIn(r, ids) = MailsIn(s, ids)
<1>1. \A i \in ids : MailIn(r, i) = MailIn(s, i)
  BY DEF MailIn
<1> QED
  BY <1>1 DEF MailsIn

LEMMA MailsInWith ==
  ASSUME NEW s, NEW ids, NEW i
  PROVE  /\ MailsIn(s, ids \cup {i}) = MailsIn(s, ids) \cup {MailIn(s, i)}
         /\ MailsIn(s, ids \ {i}) = MailsIn(s, ids) \ {MailIn(s, i)}
         /\ i \in ids <=> MailIn(s, i) \in MailsIn(s, ids)
<1>1. \A j, k : MailIn(s, j) = MailIn(s, k) => j = k
  <2> TAKE j, k
  <2>1. MailIn(s, j).id = j /\ MailIn(s, k).id = k
    BY DEF MailIn
  <2> QED
    BY <2>1
<1> QED
  BY <1>1 DEF MailsIn

LEMMA MailTyped ==
  ASSUME TypeOK, Stored, NEW i \in 1 .. Len(sent)
  PROVE  MailIn(sent, i) \in Mail /\ MailIn(sent, i).to = sent[i].to
<1>1. i \in Ids /\ sent[i].to \in Users /\ sent[i].size \in Contents
  BY SentOf, IdsOf DEF Stored
<1>2. MailIn(sent, i) \in [id : Ids, to : Users, size : Contents]
  BY <1>1 DEF MailIn
<1> QED
  BY <1>2 DEF Mail, Contents, MailIn

LEMMA CopiesSame ==
  ASSUME TypeOK, Mails, Steps, NEW v \in Workers, ~Copy(v)
  PROVE  ToSet(CopiedBy(v))' = ToSet(CopiedBy(v))
<1> USE DEF Mails
<1>1. ASSUME batch'[v] = batch[v], copied'[v] = copied[v]
      PROVE  ToSet(CopiedBy(v))' = ToSet(CopiedBy(v))
  BY <1>1 DEF CopiedBy, ToSet
<1>2. ASSUME NEW u \in Users, NEW w \in Workers, Fetch(u, w)
      PROVE  ToSet(CopiedBy(v))' = ToSet(CopiedBy(v))
  <2>1. CASE v = w
    <3>1. copied[v] = 0 /\ copied'[v] = 0
      BY <1>2, <2>1, FetchedOf
    <3>2. \A b : ToSet(SubSeq(b, 1, 0)) = {}
      <4> TAKE b
      <4>1. SubSeq(b, 1, 0) = <<>>
        BY SubSeqEmpty
      <4> QED
        BY <4>1 DEF ToSet
    <3>3. CopiedBy(v) = SubSeq(batch[v], 1, 0) /\ CopiedBy(v)' = SubSeq(batch'[v], 1, 0)
      BY <3>1 DEF CopiedBy
    <3>4. ToSet(CopiedBy(v)) = {} /\ ToSet(CopiedBy(v)') = {}
      BY <3>2, <3>3
    <3> QED
      BY <3>4 DEF ToSet
  <2>2. CASE v # w
    BY <1>1, <1>2, <2>2, FetchedOf
  <2> QED
    BY <2>1, <2>2
<1>3. ASSUME NEW w \in Workers, Copy(w)
      PROVE  batch'[v] = batch[v] /\ copied'[v] = copied[v]
  <2>1. v # w
    BY <1>3
  <2> QED
    BY <1>3, <2>1 DEF Copy, TypeOK
<1>4. ASSUME NEW w \in Workers, Delete(w) \/ Die(w) \/ AnswerNobody(w)
      PROVE  UNCHANGED <<batch, copied>>
  BY <1>4 DEF Delete, Die, AnswerNobody
<1>5. ASSUME NEW w \in Workers, NEW end \in Ended, NEW n \in 0 .. Len(batch[w]), Displays(w, n, end)
      PROVE  UNCHANGED <<batch, copied>>
  BY <1>5 DEF Displays, Display
<1>6. ASSUME \/ Quiet \/ \E u \in Users, size \in Nat : Stores(u, size)
             \/ \E u \in Users : GiveUp(u)
      PROVE  UNCHANGED <<batch, copied>>
  BY <1>6 DEF Quiet, Stores, GiveUp, server
<1> QED
  BY <1>1, <1>2, <1>3, <1>4, <1>5, <1>6 DEF Steps

\* A send deposits.
LEMMA StoresDeposits ==
  ASSUME TypeOK, Mails, Steps, NEW u \in Users, NEW size \in Nat, Stores(u, size)
  PROVE  \E m \in Mail : m \notin Waits /\ Waits' = Waits \cup {m} /\ Taken' = Taken
<1> USE DEF Mails
<1> DEFINE N == Len(sent) + 1
           m == MailIn(sent', N)
<1>1. /\ \A i \in 1 .. Len(sent) : sent'[i] = sent[i]
      /\ sent'[N] = [to |-> u, size |-> size]
      /\ Len(sent') = N /\ Len(sent) \in Nat
  BY GrowsBy, SentOf
<1>2. N \in Ids
  BY <1>1, DeliveryAssumption DEF Stores, Ids
<1>3. m \in Mail
  <2>1. size \in Contents
    BY DEF Stores
  <2>2. m = [id |-> N, to |-> u, size |-> size]
    BY <1>1 DEF MailIn
  <2> HIDE DEF N, m
  <2>3. m \in [id : Ids, to : Users, size : Contents]
    BY <1>2, <2>1, <2>2
  <2> QED
    BY <2>3 DEF Mail, Contents
<1>4. ToSet(table) \subseteq 1 .. Len(sent) /\ N \notin ToSet(table)
  BY <1>1, IdsOf
<1>5. ToSet(table') = ToSet(table) \cup {N}
  BY TableGrows
<1> HIDE DEF N
<1>6. MailsIn(sent', ToSet(table)) = MailsIn(sent, ToSet(table))
  BY <1>1, <1>4, MailsInSame
<1>7. m \notin Waits /\ Waits' = Waits \cup {m}
  BY <1>4, <1>5, <1>6, AsMails, MailsInWith
<1>8. Taken' = Taken
  <2>1. ASSUME NEW w \in Workers
        PROVE  MailsIn(sent', ToSet(CopiedBy(w))') = MailsIn(sent, ToSet(CopiedBy(w)))
    <3> DEFINE S == ToSet(CopiedBy(w))
    <3>1. ToSet(CopiedBy(w))' = S
      BY DEF Stores, CopiedBy, ToSet
    <3>2. S \subseteq 1 .. Len(sent)
      BY BatchOf
    <3> HIDE DEF S
    <3>3. MailsIn(sent', S) = MailsIn(sent, S)
      BY <1>1, <3>2, MailsInSame
    <3> QED
      BY <3>1, <3>3 DEF S
  <2> QED
    BY <2>1, AsMails
<1> QED
  BY <1>3, <1>7, <1>8

\* Copying takes a copy for the same addressee as before.
LEMMA CopyTakes ==
  ASSUME TypeOK, Mails, Held, Steps, NEW w \in Workers, Copy(w)
  PROVE  \E m \in Mail :
           /\ m \in Waits \/ \E v \in Workers : m \in Taken[v]
           /\ \A x \in Taken[w] : x \in Mail /\ x.to = m.to
           /\ Waits' = Waits /\ Taken' = [Taken EXCEPT ![w] = @ \cup {m}]
<1> USE DEF Mails
<1> DEFINE c == copied[w]
           b == batch[w]
           d == c + 1
           i == b[d]
           m == MailIn(sent, i)
<1>1. /\ stage[w] = "copy" /\ c < Len(b) /\ copied'[w] = d /\ UNCHANGED <<sent, table, batch>>
      /\ c \in 0 .. Len(b) /\ Len(b) \in Nat /\ b \in Seq(Nat)
  BY BatchOf DEF Copy, TypeOK
<1>2. d \in 1 .. Len(b) /\ d \in 0 .. Len(b)
  BY <1>1
<1>3. i \in 1 .. Len(sent) /\ i \in ToSet(b)
  BY <1>2, BatchOf
<1>4. m \in Mail /\ m.to = sent[i].to
  BY <1>3, MailTyped
<1>5. ToSet(CopiedBy(w))' = ToSet(CopiedBy(w)) \cup {i}
  <2> HIDE DEF b, c, d
  <2>1. \A j : j \in ToSet(SubSeq(b, 1, d)) <=> \E k \in 1 .. d : b[k] = j
    BY <1>1, <1>2, CopiedIn
  <2>2. \A j : j \in ToSet(SubSeq(b, 1, c)) <=> \E k \in 1 .. c : b[k] = j
    BY <1>1, CopiedIn
  <2>3. 1 .. d = 1 .. c \cup {d}
    BY <1>1 DEF d
  <2>4. ToSet(SubSeq(b, 1, d)) = ToSet(SubSeq(b, 1, c)) \cup {b[d]}
    BY <2>1, <2>2, <2>3
  <2>5. CopiedBy(w) = SubSeq(b, 1, c)
    BY DEF CopiedBy, b, c
  <2>6. CopiedBy(w)' = SubSeq(b, 1, d)
    BY <1>1 DEF CopiedBy, b, d
  <2>7. ToSet(CopiedBy(w)') = ToSet(CopiedBy(w)) \cup {b[d]}
    BY <2>4, <2>5, <2>6
  <2> QED
    BY <2>7 DEF ToSet
<1> HIDE DEF i, d
<1>6. \A v \in Workers : v # w => ToSet(CopiedBy(v))' = ToSet(CopiedBy(v))
  BY <1>1 DEF Copy, CopiedBy, ToSet, TypeOK
<1>7. m \in Waits \/ \E v \in Workers : m \in Taken[v]
  <2>1. i \in ToSet(table) \/ \E v \in Workers : i \in ToSet(CopiedBy(v))
    BY <1>1, <1>3 DEF Held, Active
  <2> QED
    BY <2>1, AsMails, MailsInWith
<1>8. \A x \in Taken[w] : x \in Mail /\ x.to = m.to
  <2> SUFFICES ASSUME NEW x \in Taken[w]
               PROVE  x \in Mail /\ x.to = m.to
    OBVIOUS
  <2>1. PICK j \in ToSet(CopiedBy(w)) : x = MailIn(sent, j)
    BY AsMails DEF MailsIn
  <2>2. j \in ToSet(b) /\ j \in 1 .. Len(sent)
    <3>1. PICK k \in 1 .. copied[w] : batch[w][k] = j
      BY <2>1, BatchOf
    <3>2. k \in 1 .. Len(batch[w])
      BY <3>1, BatchOf
    <3> QED
      BY <3>1, <3>2, BatchOf DEF b
  <2>3. i \in MailFor(fetcher[w]) /\ j \in MailFor(fetcher[w])
    BY <1>1, <1>3, <2>2 DEF Fetching, FetchOf
  <2>4. x \in Mail /\ x.to = sent[j].to
    BY <2>1, <2>2, MailTyped
  <2> HIDE DEF m
  <2> QED
    BY <1>4, <2>3, <2>4 DEF MailFor
<1>9. Waits' = Waits
  BY <1>1, AsMails
<1>10. Taken' = [Taken EXCEPT ![w] = @ \cup {m}]
  <2> DEFINE F(v) == MailsIn(sent, ToSet(CopiedBy(v)))
             G(v) == MailsIn(sent', ToSet(CopiedBy(v))')
  <2>1. Taken = [v \in Workers |-> F(v)] /\ Taken' = [v \in Workers |-> G(v)]
    BY AsMails
  <2>2. G(w) = F(w) \cup {m}
    <3> DEFINE S == ToSet(CopiedBy(w))
    <3>1. ToSet(CopiedBy(w))' = S \cup {i} /\ sent' = sent
      BY <1>1, <1>5
    <3> HIDE DEF S, m
    <3>2. MailsIn(sent, S \cup {i}) = MailsIn(sent, S) \cup {MailIn(sent, i)}
      BY DEF MailsIn
    <3>3. G(w) = MailsIn(sent, S \cup {i})
      BY <3>1
    <3> QED
      BY <3>2, <3>3 DEF S, m
  <2>3. \A v \in Workers : v # w => G(v) = F(v)
    BY <1>1, <1>6
  <2> HIDE DEF F, G, m
  <2> QED
    BY <2>1, <2>2, <2>3
<1> QED
  BY <1>4, <1>7, <1>8, <1>9, <1>10

\* A DELETE removes a message that the worker has a copy of, or nothing.
LEMMA DeleteRemoves ==
  ASSUME TypeOK, Mails, Steps, NEW w \in Workers, Delete(w)
  PROVE  /\ Taken' = Taken
         /\ \/ Waits' = Waits
            \/ \E m \in Mail : /\ m \in Waits /\ m \in Taken[w]
                               /\ Waits' = Waits \ {m}
<1> USE DEF Mails
<1>1. UNCHANGED <<sent, batch, copied>>
  BY DEF Delete
<1>2. Taken' = Taken
  BY <1>1 DEF Taken, AsMail, CopiedBy, ToSet
<1>3. PICK id \in Ids : /\ copied[w] \in 1 .. Len(batch[w]) /\ id = batch[w][copied[w]]
                        /\ ToSet(table') \subseteq ToSet(table) /\ ToSet(table) \ {id} \subseteq ToSet(table')
  BY DeletedOf
<1>4. copied[w] \in 1 .. copied[w]
  BY <1>3, BatchOf
<1>5. id \in ToSet(CopiedBy(w)) /\ id \in 1 .. Len(sent)
  BY <1>3, <1>4, BatchOf
<1>6. CASE ToSet(table') = ToSet(table)
  BY <1>1, <1>2, <1>6, AsMails
<1>7. CASE ToSet(table') # ToSet(table)
  <2> DEFINE m == MailIn(sent, id)
  <2>1. id \in ToSet(table) /\ ToSet(table') = ToSet(table) \ {id}
    BY <1>3, <1>7
  <2>2. Waits' = Waits \ {m} /\ m \in Waits
    BY <1>1, <2>1, AsMails, MailsInWith
  <2>3. m \in Taken[w]
    BY <1>5, AsMails, MailsInWith
  <2>4. m \in Mail
    BY <1>5, MailTyped
  <2> HIDE DEF m
  <2> QED
    BY <1>2, <2>2, <2>3, <2>4
<1> QED
  BY <1>6, <1>7

\* Every other step changes no mail.
LEMMA MailStays ==
  ASSUME TypeOK, Mails, Steps, \A w \in Workers : ~Copy(w) /\ ~Delete(w),
         \A u \in Users, size \in Nat : ~Stores(u, size)
  PROVE  Waits' = Waits /\ Taken' = Taken
<1> USE DEF Mails
<1>1. ASSUME NEW w \in Workers, Die(w) \/ AnswerNobody(w)
      PROVE  UNCHANGED <<sent, table>>
  BY <1>1 DEF Die, AnswerNobody
<1>2. ASSUME NEW w \in Workers, NEW end \in Ended, NEW n \in 0 .. Len(batch[w]), Displays(w, n, end)
      PROVE  UNCHANGED <<sent, table>>
  BY <1>2 DEF Displays, Display
<1>3. ASSUME Quiet \/ (\E u \in Users : GiveUp(u)) \/ \E u \in Users, w \in Workers : Fetch(u, w)
      PROVE  UNCHANGED <<sent, table>>
  BY <1>3 DEF Quiet, GiveUp, Fetch, server
<1>4. UNCHANGED <<sent, table>>
  BY <1>1, <1>2, <1>3 DEF Steps
<1>5. \A v \in Workers : ToSet(CopiedBy(v))' = ToSet(CopiedBy(v))
  BY CopiesSame
<1> QED
  BY <1>4, <1>5, AsMails

LEMMA BoxStep ==
  ASSUME TypeOK, Mails, Held, Steps
  PROVE  [Box!Next]_Box!vars
<1> USE DEF Box!vars
<1>1. ASSUME NEW u \in Users, NEW size \in Nat, Stores(u, size)
      PROVE  \E m \in Mail : Box!Deposit(m)
  BY <1>1, StoresDeposits DEF Box!Deposit, Waits, Taken
<1>2. ASSUME NEW w \in Workers, Copy(w)
      PROVE  \E m \in Mail : Box!Take(w, m)
  <2>1. PICK m \in Mail :
           /\ m \in Waits \/ \E v \in Workers : m \in Taken[v]
           /\ \A x \in Taken[w] : x \in Mail /\ x.to = m.to
           /\ Waits' = Waits /\ Taken' = [Taken EXCEPT ![w] = @ \cup {m}]
    BY <1>2, CopyTakes
  <2>2. \A x \in Taken[w] : [y \in Mail |-> y.to][x] = [y \in Mail |-> y.to][m]
    BY <2>1
  <2> QED
    BY <2>1, <2>2 DEF Box!Take, Waits, Taken
<1>3. ASSUME NEW w \in Workers, Delete(w)
      PROVE  UNCHANGED <<Waits, Taken>> \/ \E m \in Mail : Box!Remove(m)
  BY <1>3, DeleteRemoves DEF Box!Remove, Waits, Taken
<1>4. ASSUME UNCHANGED <<Waits, Taken>>
      PROVE  UNCHANGED Box!vars
  BY <1>4 DEF Waits, Taken
<1> QED
  BY <1>1, <1>2, <1>3, <1>4, MailStays DEF Box!Next

\* With the clients' side, many fetches for one user and failing statements the
\* promises of Mailbox are kept: nothing leaves the table that no worker has a
\* copy of for its addressee (request_handler.py:176, message_manager.py:74).
THEOREM DeliveryKeepsMailbox == Spec => RefinesMailbox
<1>1. Init => Box!Init
  <2> SUFFICES ASSUME Init
               PROVE  Box!Init
    OBVIOUS
  <2>1. ToSet(<<>>) = {} /\ \A b : SubSeq(b, 1, 0) = <<>>
    BY SubSeqEmpty DEF ToSet
  <2>2. ToSet(table) = {} /\ \A w \in Workers : ToSet(CopiedBy(w)) = {}
    BY <2>1 DEF Init, CopiedBy
  <2>3. AsMail({}) = {}
    BY DEF AsMail
  <2> QED
    BY <2>2, <2>3 DEF Box!Init
<1>2. IInv /\ [Next]_vars => [Box!Next]_Box!vars
  BY StepsOf, BoxStep DEF IInv, Losses
<1> QED
  BY <1>1, <1>2, DeliveryInvariance, PTL DEF Spec, RefinesMailbox, Box!Spec
=============================================================================
