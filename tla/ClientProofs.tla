---------------------------- MODULE ClientProofs ----------------------------
(****************************************************************************)
(* Theorems about one user's program through all its runs, for any ids,     *)
(* names and numbers of other users.                                        *)
(****************************************************************************)
EXTENDS Client, TLAPS, FiniteSetTheorems, SequenceTheorems

\* The operation under way: who asks, and that only a user without me.info
\* registers.
OpInv ==
  cpc \in {"waiting", "answered"} =>
    /\ op \in Ops /\ op.from = id /\ id # NoId
    /\ op.kind = "register" => file = NoFile

\* What the client relies on in a response to o: an id that is new to it, or rows
\* of other clients; a request with a short id has no such answer.
Fits(a, o) ==
  /\ a \in Answers
  /\ o.from = ShortId => a.code = "error"
  /\ a.code = "registered" => o.kind = "register" /\ a.id \notin Known
  /\ a.code = "list" => \A r \in a.rows : r.id # o.from

AnsInv ==
  cpc = "answered" =>
    /\ Fits(ans, op)
    /\ ans.code = "registered" => ans.id \in issued
    /\ ans.code = "list" => ans.rows \subseteq directory

\* The id in me.info was given by the server; a program with a cut one learns of
\* nobody.
IdInv ==
  /\ file \in Rows => file.id \in issued
  /\ id \in {ShortId, NoId} => file = id /\ contacts = <<>>

\* One row for an id, and none of this user's that the server has not given.
OneRowEach(d) == \A r, s \in d : r.id = s.id => r = s

DirInv ==
  /\ OneRowEach(directory)
  /\ \A r \in directory : r.id \in MyIds => r.id \in issued

IInv ==
  /\ TypeOK /\ OpInv /\ AnsInv /\ IdInv /\ DirInv
  /\ RunsAsSaved /\ OrphansAreLost /\ ContactsAreClients /\ OwnIdNoContact /\ SentAsNamed
-----------------------------------------------------------------------------
\* The values of me.info, and the kinds of ids.
LEMMA FileFacts ==
  /\ NoFile \notin Rows \cup Cuts
  /\ Cuts \cap Rows = {}
  /\ DummyId \notin Ids \cup Cuts /\ Cuts \cap Ids = {}
  /\ MyIds \subseteq Ids /\ Others \subseteq Ids /\ MyIds \cap Others = {}
  BY ClientAssumption DEF Rows, Ids

\* The fields of an operation follow from its kind.
LEMMA OpFacts ==
  ASSUME NEW o \in Ops
  PROVE  /\ o.kind \in {"register", "list", "fetch", "key", "send"}
         /\ o.from \in MyIds \cup {DummyId, ShortId}
         /\ o.kind = "register" =>
              o.name \in Names /\ o.from \in MyIds \cup {DummyId} /\ o.taken \in SUBSET Names
         /\ o.kind \in {"key", "send"} => o.name \in Names /\ o.to \in Ids
  BY DEF Ops

\* The fields of a response follow from its code.
LEMMA AnswerFacts ==
  ASSUME NEW a \in Answers
  PROVE  /\ a.code \in {"error", "key", "sent", "registered", "list", "mail"}
         /\ a.code = "registered" => a.id \in MyIds /\ a = [code |-> "registered", id |-> a.id]
         /\ a.code = "list" => a.rows \in SUBSET Rows
         /\ a.code = "mail" => a.messages \in SUBSET Mail
<1>1. CASE a \in [code : {"error", "key", "sent"}]
  BY <1>1
<1>2. CASE a \in [code : {"registered"}, id : MyIds]
  BY <1>2
<1>3. CASE a \in [code : {"list"}, rows : SUBSET Rows]
  BY <1>3
<1>4. CASE a \in [code : {"mail"}, messages : SUBSET Mail]
  BY <1>4
<1> QED
  BY <1>1, <1>2, <1>3, <1>4 DEF Answers

\* The ids that a response names which nobody hears.
LEMMA UnheardFacts ==
  ASSUME NEW a \in Answers \cup {NoAnswer}
  PROVE  /\ Unheard(a) \in SUBSET MyIds
         /\ a # NoAnswer /\ a.code = "registered" => Unheard(a) = {a.id}
  BY AnswerFacts DEF Unheard

LEMMA RegisteredIsAnswer ==
  ASSUME NEW i \in MyIds
  PROVE  [code |-> "registered", id |-> i] \in Answers \ {NoAnswer}
<1>1. [code |-> "registered", id |-> i] \in [code : {"registered"}, id : MyIds]
  OBVIOUS
<1> QED
  BY <1>1, ClientAssumption DEF Answers

\* A table with one row for an id is finite.
LEMMA FiniteRows ==
  ASSUME NEW d \in SUBSET Rows, OneRowEach(d)
  PROVE  IsFiniteSet(d)
<1> DEFINE f == [r \in d |-> r.id]
<1>1. f \in Injection(d, Ids)
  BY DEF OneRowEach, Rows, Injection, IsInjective
<1>2. IsFiniteSet(Ids)
  BY ClientAssumption
<1> QED
  BY <1>1, <1>2, FS_Injection

\* The contacts made of rows: as many, each of its row.
LEMMA NewContacts ==
  ASSUME NEW d \in SUBSET Rows, IsFiniteSet(d), NEW rs \in SetToSeqs(d)
  PROVE  LET new == [i \in DOMAIN rs |-> NewContact(rs[i])]
         IN  /\ new \in Seq(Contacts)
             /\ Len(new) = Len(rs) /\ Len(rs) \in Nat /\ DOMAIN rs = 1 .. Len(rs)
             /\ \A i \in 1 .. Len(rs) :
                  rs[i] \in d /\ new[i].id = rs[i].id /\ new[i].name = rs[i].name
             /\ \A i, j \in 1 .. Len(rs) : rs[i] = rs[j] => i = j
<1> DEFINE n == Cardinality(d)
           new == [i \in 1 .. n |-> NewContact(rs[i])]
<1>1. n \in Nat
  BY FS_CardinalityType
<1>2. /\ rs \in [1 .. n -> d]
      /\ \A i, j \in 1 .. n : i # j => rs[i] # rs[j]
  BY DEF SetToSeqs
<1>3. \A i \in 1 .. n : NewContact(rs[i]) \in Contacts
  BY <1>2 DEF NewContact, Contacts, Rows
<1>4. new \in Seq(Contacts) /\ Len(new) = n /\ DOMAIN rs = 1 .. n /\ Len(rs) = n
  <2>1. new \in [1 .. n -> Contacts]
    BY <1>3
  <2>2. new \in Seq(Contacts) /\ rs \in Seq(d)
    BY <2>1, <1>1, <1>2
  <2> HIDE DEF new, n
  <2> QED
    BY <2>1, <2>2, <1>1, <1>2, LenProperties
<1>5. \A i \in 1 .. n : new[i].id = rs[i].id /\ new[i].name = rs[i].name
  BY DEF NewContact
<1> HIDE DEF n
<1> QED
  BY <1>1, <1>2, <1>4, <1>5

\* What the contact of a name is only changes when a name without one gets one.
LEMMA ResolveKept ==
  ASSUME NEW cs \in Seq(Contacts), NEW new \in Seq(Contacts), NEW n,
         Resolve(cs, n) # {}
  PROVE  Resolve(cs \o new, n) = Resolve(cs, n)
<1> DEFINE all == cs \o new
<1>1. /\ all \in Seq(Contacts) /\ Len(all) = Len(cs) + Len(new)
      /\ \A i \in 1 .. Len(cs) : all[i] = cs[i]
      /\ Len(cs) \in Nat /\ Len(new) \in Nat
      /\ DOMAIN cs = 1 .. Len(cs) /\ DOMAIN all = 1 .. Len(all)
  BY ConcatProperties, LenProperties
<1> HIDE DEF all
<1> DEFINE First(s, i) == s[i].name = n /\ \A k \in 1 .. i - 1 : s[k].name # n
<1>2. PICK j \in 1 .. Len(cs) : First(cs, j)
  BY <1>1 DEF Resolve
<1>3. \A i \in 1 .. Len(cs) : First(all, i) <=> First(cs, i)
  BY <1>1
<1>4. \A i \in 1 .. Len(all) : First(all, i) => i <= Len(cs)
  <2> SUFFICES ASSUME NEW i \in 1 .. Len(all), First(all, i), i > Len(cs)
               PROVE  FALSE
    BY <1>1
  <2>1. j \in 1 .. i - 1 /\ all[j].name = n
    BY <1>1, <1>2
  <2> QED
    BY <2>1
<1>5. {i \in DOMAIN all : First(all, i)} = {i \in DOMAIN cs : First(cs, i)}
  BY <1>1, <1>3, <1>4
<1>6. Resolve(all, n) = {all[i].id : i \in {i \in DOMAIN all : First(all, i)}}
  BY DEF Resolve
<1>7. Resolve(cs, n) = {cs[i].id : i \in {i \in DOMAIN cs : First(cs, i)}}
  BY DEF Resolve
<1> HIDE DEF First
<1> QED
  BY <1>1, <1>5, <1>6, <1>7 DEF all

\* A name is resolved to a client of the server of that name.
LEMMA ResolvedIsClient ==
  ASSUME ContactsAreClients, directory \in SUBSET Rows, NEW n, NEW to \in Resolve(contacts, n)
  PROVE  [id |-> to, name |-> n] \in directory /\ to \in Ids
<1>1. PICK i \in DOMAIN contacts : contacts[i].name = n /\ to = contacts[i].id
  BY DEF Resolve
<1>2. [id |-> to, name |-> n] \in directory
  BY <1>1 DEF ContactsAreClients
<1> QED
  BY <1>2 DEF Rows
-----------------------------------------------------------------------------
\* What the server makes of a request: its tables grow and keep one row for an
\* id, a row of this user's is new and answered with its id, and the answer fits.
Grows(x) ==
  /\ x.directory \in SUBSET Rows /\ directory \subseteq x.directory
  /\ x.mail \in SUBSET Mail
  /\ x.issued \in SUBSET MyIds /\ issued \subseteq x.issued

Sound(x) ==
  /\ OneRowEach(x.directory)
  /\ \A r \in x.directory \ directory :
       r.id \in x.issued /\ x.ans = [code |-> "registered", id |-> r.id]

Truthful(x, o) ==
  /\ Fits(x.ans, o)
  /\ x.ans.code = "registered" => x.ans.id \in x.issued
  /\ x.ans.code = "list" => x.ans.rows \subseteq x.directory

\* An id that the server has not given belongs to no contact.
LEMMA NewIsUnknown ==
  ASSUME IInv, NEW new \in MyIds \ issued
  PROVE  new \notin Known /\ \A r \in directory : r.id # new
<1>1. \A r \in directory : r.id # new
  BY DEF IInv, DirInv
<1>2. \A i \in DOMAIN contacts : \E r \in directory : r.id = contacts[i].id
  BY DEF IInv, ContactsAreClients
<1> QED
  BY <1>1, <1>2 DEF Known

\* Requests that leave the table of clients as it is.
LEMMA SameTables ==
  ASSUME IInv, NEW o, NEW x,
         x.directory = directory, x.issued = issued, x.mail \in SUBSET mail,
         Fits(x.ans, o), x.ans.code # "registered",
         x.ans.code = "list" => x.ans.rows \subseteq directory
  PROVE  Grows(x) /\ Sound(x) /\ Truthful(x, o)
  BY DEF IInv, TypeOK, DirInv, Grows, Sound, Truthful

LEMMA OutcomeFacts ==
  ASSUME IInv, NEW o \in Ops, NEW x \in Outcomes(o)
  PROVE  Grows(x) /\ Sound(x) /\ Truthful(x, o)
<1> USE DEF Outcome
<1>e. ASSUME x = Error
      PROVE  Grows(x) /\ Sound(x) /\ Truthful(x, o)
  <2>1. Fits(x.ans, o) /\ x.ans.code = "error"
    BY <1>e DEF Error, Fits, Answers
  <2> QED
    BY <1>e, <2>1, SameTables DEF Error
<1>1. CASE o.from = ShortId
  BY <1>1, <1>e DEF Outcomes
<1>2. CASE o.from # ShortId /\ o.kind = "register"
  <2>1. x = Error \/ \E new \in MyIds \ issued :
          \E d \in {directory, directory \cup {[id |-> new, name |-> o.name]}} :
            x = Outcome([code |-> "registered", id |-> new], d, mail, issued \cup {new})
    BY <1>2 DEF Outcomes, RegisterUser
  <2>2. CASE x # Error
    <3>1. PICK new \in MyIds \ issued :
            \E d \in {directory, directory \cup {[id |-> new, name |-> o.name]}} :
              x = Outcome([code |-> "registered", id |-> new], d, mail, issued \cup {new})
      BY <2>1, <2>2
    <3>2. PICK d \in {directory, directory \cup {[id |-> new, name |-> o.name]}} :
            x = Outcome([code |-> "registered", id |-> new], d, mail, issued \cup {new})
      BY <3>1
    <3>3. /\ x.ans = [code |-> "registered", id |-> new] /\ x.directory = d
          /\ x.mail = mail /\ x.issued = issued \cup {new}
      BY <3>2
    <3>4. [id |-> new, name |-> o.name] \in Rows
      BY <1>2, OpFacts, FileFacts DEF Rows
    <3>5. new \notin Known /\ \A r \in directory : r.id # new
      BY NewIsUnknown
    <3>6. Grows(x)
      BY <3>2, <3>3, <3>4 DEF Grows, IInv, TypeOK
    <3>7. OneRowEach(d)
      BY <3>5 DEF OneRowEach, IInv, DirInv
    <3>8. Sound(x)
      BY <3>3, <3>7 DEF Sound
    <3>9. Truthful(x, o)
      BY <1>2, <3>3, <3>5, RegisteredIsAnswer DEF Truthful, Fits
    <3> QED
      BY <3>6, <3>8, <3>9
  <2> QED
    BY <1>e, <2>2
<1>3. CASE o.from # ShortId /\ o.kind = "list"
  <2>1. PICK rs \in {{r \in directory : r.id # o.from}, {}} :
          x = Outcome([code |-> "list", rows |-> rs], directory, mail, issued)
    BY <1>3 DEF Outcomes, ListClients
  <2>2. rs \subseteq directory /\ rs \in SUBSET Rows /\ \A r \in rs : r.id # o.from
    BY <2>1 DEF IInv, TypeOK
  <2>3. [code |-> "list", rows |-> rs] \in Answers
    BY <2>2 DEF Answers
  <2>4. /\ x.ans.code = "list" /\ x.ans.rows = rs /\ x.ans \in Answers
        /\ x.directory = directory /\ x.mail = mail /\ x.issued = issued
    BY <2>1, <2>3
  <2> HIDE DEF Outcome
  <2> QED
    BY <1>3, <2>2, <2>4, SameTables DEF Fits
<1>4. CASE o.from # ShortId /\ o.kind = "key"
  <2>1. x = Outcome([code |-> "key"], directory, mail, issued)
    BY <1>4 DEF Outcomes, GetPubKey
  <2>2. Fits(x.ans, o) /\ x.ans.code = "key"
    BY <1>4, <2>1 DEF Fits, Answers
  <2> QED
    BY <2>1, <2>2, SameTables
<1>5. CASE o.from # ShortId /\ o.kind = "send"
  <2>1. x = Error \/ x = Outcome([code |-> "sent"], directory, mail, issued)
    BY <1>5 DEF Outcomes, StoreMsg
  <2>2. CASE x # Error
    <3>1. Fits(x.ans, o) /\ x.ans.code = "sent"
      BY <1>5, <2>1, <2>2 DEF Fits, Answers
    <3> QED
      BY <2>1, <2>2, <3>1, SameTables
  <2> QED
    BY <1>e, <2>2
<1>6. CASE o.from # ShortId /\ o.kind = "fetch"
  <2> DEFINE mine == {m \in mail : m.to = o.from}
  <2>1. PICK kept \in SUBSET mine :
          x = Outcome([code |-> "mail", messages |-> mine], directory, (mail \ mine) \cup kept, issued)
    BY <1>6 DEF Outcomes, FetchMessages
  <2>2. [code |-> "mail", messages |-> mine] \in Answers
    BY DEF Answers, IInv, TypeOK
  <2>3. /\ x.ans \in Answers /\ x.ans.code = "mail" /\ x.mail \in SUBSET mail
        /\ x.directory = directory /\ x.issued = issued
    BY <2>1, <2>2
  <2> HIDE DEF Outcome
  <2> QED
    BY <1>6, <2>3, SameTables DEF Fits
<1> QED
  BY <1>1, <1>2, <1>3, <1>4, <1>5, <1>6, OpFacts
-----------------------------------------------------------------------------
\* Steps that leave everything, or everything but the program's place.
LEMMA StutterStep ==
  ASSUME IInv, UNCHANGED vars
  PROVE  IInv'
<1> USE DEF vars, process, server, history
<1>1. TypeOK' /\ OpInv' /\ IdInv' /\ DirInv' /\ RunsAsSaved' /\ OrphansAreLost'
  BY DEF IInv, TypeOK, OpInv, IdInv, DirInv, RunsAsSaved, OrphansAreLost
<1>2. AnsInv' /\ ContactsAreClients' /\ OwnIdNoContact' /\ SentAsNamed'
  BY DEF IInv, AnsInv, Fits, ContactsAreClients, OwnIdNoContact, Known, SentAsNamed
<1> QED
  BY <1>1, <1>2 DEF IInv

LEMMA LeaveStep ==
  ASSUME IInv, RequestThrows \/ Exit
  PROVE  IInv'
<1>1. /\ cpc' = "down" /\ cpc # "answered"
      /\ UNCHANGED <<file, id, contacts, op, ans, directory, mail, issued, late, lost, keyed>>
  BY DEF RequestThrows, Exit, server, history
<1>2. TypeOK' /\ OpInv' /\ IdInv' /\ DirInv' /\ RunsAsSaved' /\ OrphansAreLost'
  BY <1>1 DEF IInv, TypeOK, OpInv, IdInv, DirInv, RunsAsSaved, OrphansAreLost
<1>3. AnsInv' /\ ContactsAreClients' /\ OwnIdNoContact' /\ SentAsNamed'
  BY <1>1 DEF IInv, AnsInv, ContactsAreClients, OwnIdNoContact, SentAsNamed
<1> QED
  BY <1>2, <1>3 DEF IInv

LEMMA StartStep ==
  ASSUME IInv, Start
  PROVE  IInv'
<1>1. /\ cpc = "down" /\ cpc' = "menu" /\ file # OddId
      /\ id' = CredsId /\ contacts' = <<>> /\ keyed' = {}
      /\ UNCHANGED <<file, op, ans, directory, mail, issued, late, lost>>
  BY DEF Start, server
<1>2. /\ file = NoFile => CredsId = DummyId
      /\ file \in Cuts => CredsId = file
      /\ file \in Rows => CredsId = file.id
  BY FileFacts DEF CredsId
<1>3. file \in Rows => file.id \in issued /\ file.id \in MyIds
  BY DEF IInv, IdInv, TypeOK
<1>4. file \in Rows \cup Cuts \cup {NoFile}
  BY DEF IInv, TypeOK
<1>5. TypeOK'
  <2>1. id' \in MyIds \cup {DummyId, ShortId, NoId}
    BY <1>1, <1>2, <1>3, <1>4 DEF Cuts
  <2>2. contacts' \in Seq(Contacts)
    BY <1>1
  <2> QED
    BY <1>1, <2>1, <2>2 DEF IInv, TypeOK
<1>6. OpInv' /\ AnsInv' /\ DirInv'
  BY <1>1 DEF IInv, OpInv, AnsInv, DirInv
<1>7. IdInv'
  <2>1. CredsId \in {ShortId, NoId} => file = CredsId
    BY <1>2, <1>3, <1>4, FileFacts DEF Cuts
  <2> QED
    BY <1>1, <1>3, <2>1 DEF IdInv
<1>8. RunsAsSaved'
  BY <1>1, <1>2, <1>3, <1>4 DEF RunsAsSaved
<1>9. OrphansAreLost' /\ SentAsNamed'
  BY <1>1 DEF IInv, OrphansAreLost, SentAsNamed
<1>10. ContactsAreClients' /\ OwnIdNoContact'
  BY <1>1 DEF ContactsAreClients, OwnIdNoContact, Known
<1> QED
  BY <1>5, <1>6, <1>7, <1>8, <1>9, <1>10 DEF IInv

\* A request of this user with its id, about a client if it names one.
LEMMA RequestStep ==
  ASSUME IInv, NEW o \in Ops, Request(o), o.from = id,
         o.kind = "register" => file = NoFile,
         o # NoOp /\ o.kind \in {"key", "send"} => [id |-> o.to, name |-> o.name] \in directory
  PROVE  IInv'
<1>1. /\ cpc = "menu" /\ cpc' = "waiting" /\ op' = o /\ id # NoId
      /\ UNCHANGED <<file, id, contacts, ans, directory, mail, issued, late, lost, keyed>>
  BY DEF Request, server, history
<1>2. TypeOK' /\ OpInv' /\ IdInv' /\ DirInv' /\ AnsInv'
  BY <1>1 DEF IInv, TypeOK, OpInv, IdInv, DirInv, AnsInv
<1>3. RunsAsSaved' /\ OrphansAreLost' /\ ContactsAreClients'
  BY <1>1 DEF IInv, RunsAsSaved, OrphansAreLost, ContactsAreClients
<1>4. OwnIdNoContact'
  BY <1>1 DEF IInv, OwnIdNoContact, Known
<1>5. SentAsNamed'
  BY <1>1 DEF IInv, SentAsNamed
<1> QED
  BY <1>2, <1>3, <1>4, <1>5 DEF IInv

LEMMA AskStep ==
  ASSUME IInv, Ask
  PROVE  IInv'
<1>1. id \in MyIds \cup {DummyId, ShortId, NoId}
  BY DEF IInv, TypeOK
<1>2. CASE ListUsers
  <2>1. id # NoId
    BY <1>2 DEF ListUsers, Request
  <2>2. [kind |-> "list", from |-> id] \in Ops
    BY <1>1, <2>1 DEF Ops
  <2> QED
    BY <1>2, <2>2, RequestStep DEF ListUsers
<1>3. CASE FetchMsg
  <2>1. id # NoId
    BY <1>3 DEF FetchMsg, Request
  <2>2. [kind |-> "fetch", from |-> id] \in Ops
    BY <1>1, <2>1 DEF Ops
  <2> QED
    BY <1>3, <2>2, RequestStep DEF FetchMsg
<1>4. CASE RequestThrows
  BY <1>4, LeaveStep
<1>5. CASE InvalidOperation
  BY <1>5, StutterStep DEF InvalidOperation
<1>6. ASSUME NEW n \in Names, Register(n)
      PROVE  IInv'
  <2> DEFINE o == [kind |-> "register", name |-> n, from |-> id, taken |-> NamesIn(directory)]
  <2>1. file = NoFile /\ Request(o)
    BY <1>6 DEF Register
  <2>2. id \in MyIds \cup {DummyId}
    BY <1>1, <2>1, FileFacts DEF IInv, IdInv, Cuts
  <2>3. NamesIn(directory) \in SUBSET Names
    BY DEF NamesIn, Rows, IInv, TypeOK
  <2>4. o \in Ops
    BY <2>2, <2>3 DEF Ops
  <2> QED
    BY <2>1, <2>4, RequestStep
<1>7. ASSUME NEW kind \in {"key", "send"}, NEW n \in Names, NEW to \in Resolve(contacts, n),
             Request([kind |-> kind, name |-> n, to |-> to, from |-> id])
      PROVE  IInv'
  <2> DEFINE o == [kind |-> kind, name |-> n, to |-> to, from |-> id]
  <2>1. [id |-> to, name |-> n] \in directory /\ to \in Ids
    BY ResolvedIsClient DEF IInv, TypeOK
  <2>2. contacts # <<>>
    BY DEF Resolve
  <2>3. id \in MyIds \cup {DummyId}
    BY <1>1, <2>2 DEF IInv, IdInv
  <2>4. o \in Ops
    BY <2>1, <2>3 DEF Ops
  <2> QED
    BY <1>7, <2>1, <2>4, RequestStep
<1> QED
  BY <1>2, <1>3, <1>4, <1>5, <1>6, <1>7 DEF Ask, GetPublicKey, SendMsg
-----------------------------------------------------------------------------
\* What tables that grow leave true.
LEMMA GrownTables ==
  ASSUME IInv, UNCHANGED <<file, id, contacts>>, directory \subseteq directory', issued \subseteq issued'
  PROVE  IdInv' /\ ContactsAreClients'
BY DEF IInv, IdInv, ContactsAreClients

LEMMA SoundTables ==
  ASSUME IInv, NEW x, Sound(x), Grows(x), Handle(x)
  PROVE  DirInv'
<1>1. /\ directory' = x.directory /\ issued' = x.issued /\ OneRowEach(directory')
      /\ \A r \in directory' \ directory : r.id \in issued'
      /\ issued \subseteq issued'
  BY DEF Handle, Sound, Grows
<1> QED
  BY <1>1 DEF IInv, DirInv

LEMMA ServeStep ==
  ASSUME IInv, Serve
  PROVE  IInv'
<1>1. PICK x \in Outcomes(op) : Handle(x) /\ ans' = x.ans
  BY DEF Serve
<1>2. /\ cpc = "waiting" /\ cpc' = "answered"
      /\ UNCHANGED <<file, id, contacts, op, late, lost, keyed>>
  BY DEF Serve
<1>3. op \in Ops
  BY <1>2 DEF IInv, OpInv
<1>4. Grows(x) /\ Sound(x) /\ Truthful(x, op)
  BY <1>3, OutcomeFacts
<1>5. /\ directory' = x.directory /\ mail' = x.mail /\ issued' = x.issued
      /\ directory \subseteq directory' /\ issued \subseteq issued'
  BY <1>1, <1>4 DEF Handle, Grows
<1>6. TypeOK'
  BY <1>1, <1>2, <1>4, <1>5 DEF IInv, TypeOK, Grows, Truthful, Fits
<1>7. OpInv'
  BY <1>2 DEF IInv, OpInv
<1>8. AnsInv'
  BY <1>1, <1>2, <1>4, <1>5 DEF AnsInv, Truthful, Fits, Known
<1>9. IdInv' /\ ContactsAreClients'
  BY <1>2, <1>5, GrownTables
<1>10. DirInv'
  BY <1>1, <1>4, SoundTables
<1>11. RunsAsSaved' /\ SentAsNamed'
  BY <1>2, <1>5 DEF IInv, RunsAsSaved, SentAsNamed
<1>12. OrphansAreLost'
  <2>1. \A r \in directory' \ directory : ans' = [code |-> "registered", id |-> r.id]
    BY <1>1, <1>4, <1>5 DEF Sound
  <2> QED
    BY <1>2, <2>1 DEF IInv, OrphansAreLost
<1>13. OwnIdNoContact'
  BY <1>2 DEF IInv, OwnIdNoContact, Known
<1> QED
  BY <1>6, <1>7, <1>8, <1>9, <1>10, <1>11, <1>12, <1>13 DEF IInv

LEMMA ServeLateStep ==
  ASSUME IInv, ServeLate
  PROVE  IInv'
<1>1. PICK o \in late : \E x \in Outcomes(o) :
        Handle(x) /\ late' = late \ {o} /\ lost' = lost \cup Unheard(x.ans)
  BY DEF ServeLate
<1>2. PICK x \in Outcomes(o) :
        Handle(x) /\ late' = late \ {o} /\ lost' = lost \cup Unheard(x.ans)
  BY <1>1
<1>3. UNCHANGED <<file, id, contacts, cpc, op, ans, keyed>>
  BY DEF ServeLate, process
<1>4. Grows(x) /\ Sound(x) /\ x.ans \in Answers
  BY OutcomeFacts DEF IInv, TypeOK, Truthful, Fits
<1>5. /\ directory' = x.directory /\ mail' = x.mail /\ issued' = x.issued
      /\ directory \subseteq directory' /\ issued \subseteq issued'
  BY <1>2, <1>4 DEF Handle, Grows
<1>6. TypeOK'
  <2>1. lost' \in SUBSET MyIds
    BY <1>2, <1>4, UnheardFacts DEF IInv, TypeOK
  <2> QED
    BY <1>2, <1>3, <1>4, <1>5, <2>1 DEF IInv, TypeOK, Grows
<1>7. OpInv'
  BY <1>3 DEF IInv, OpInv
<1>8. AnsInv'
  BY <1>3, <1>5 DEF IInv, AnsInv, Fits, Known
<1>9. IdInv' /\ ContactsAreClients'
  BY <1>3, <1>5, GrownTables
<1>10. DirInv'
  BY <1>2, <1>4, SoundTables
<1>11. RunsAsSaved' /\ SentAsNamed'
  BY <1>2, <1>3, <1>5 DEF IInv, RunsAsSaved, SentAsNamed
<1>12. OrphansAreLost'
  <2>1. \A r \in directory' \ directory : r.id \in MyIds => r.id \in lost'
    <3> SUFFICES ASSUME NEW r \in directory' \ directory, r.id \in MyIds
                 PROVE  r.id \in lost'
      OBVIOUS
    <3>1. x.ans = [code |-> "registered", id |-> r.id]
      BY <1>4, <1>5 DEF Sound
    <3> QED
      BY <1>2, <3>1, RegisteredIsAnswer, UnheardFacts
  <2>2. lost \subseteq lost'
    BY <1>2
  <2> QED
    BY <1>3, <2>1, <2>2 DEF IInv, OrphansAreLost
<1>13. OwnIdNoContact'
  BY <1>3 DEF IInv, OwnIdNoContact, Known
<1> QED
  BY <1>6, <1>7, <1>8, <1>9, <1>10, <1>11, <1>12, <1>13 DEF IInv
-----------------------------------------------------------------------------
\* The end of an operation that changes neither file, identity nor contacts.
LEMMA DoneStep ==
  ASSUME IInv, cpc = "answered", ans.code # "registered", Done,
         UNCHANGED <<file, id, contacts, directory, mail, issued, late, lost>>,
         keyed' \in SUBSET Others
  PROVE  IInv'
<1>1. cpc' = "menu" /\ op' = NoOp /\ ans' = NoAnswer
  BY DEF Done
<1>2. TypeOK' /\ OpInv' /\ AnsInv' /\ IdInv' /\ DirInv'
  BY <1>1 DEF IInv, TypeOK, OpInv, AnsInv, IdInv, DirInv
<1>3. RunsAsSaved' /\ ContactsAreClients' /\ SentAsNamed'
  BY <1>1 DEF IInv, RunsAsSaved, ContactsAreClients, SentAsNamed
<1>4. OrphansAreLost' /\ OwnIdNoContact'
  BY <1>1 DEF IInv, OrphansAreLost, OwnIdNoContact, Known
<1> QED
  BY <1>2, <1>3, <1>4 DEF IInv

\* A registration is answered once, when there is no me.info.
LEMMA RegisteredStep ==
  ASSUME IInv, Registered
  PROVE  IInv'
<1> DEFINE row == [id |-> ans.id, name |-> op.name]
<1>1. /\ cpc = "answered" /\ ans.code = "registered" /\ id' = ans.id
      /\ file' \in {row, NoFile} \cup Cuts
      /\ lost' = IF file' = row THEN lost ELSE lost \cup {ans.id}
      /\ cpc' = "menu" /\ op' = NoOp /\ ans' = NoAnswer
      /\ UNCHANGED <<contacts, directory, mail, issued, late, keyed>>
  BY DEF Registered, Answered, Done, server
<1>2. ans \in Answers /\ op \in Ops /\ op.kind = "register"
  BY <1>1 DEF IInv, AnsInv, OpInv, Fits
<1>3. /\ ans.id \in MyIds /\ ans.id \in issued /\ ans.id \notin Known
      /\ op.name \in Names /\ file = NoFile
  BY <1>1, <1>2, AnswerFacts, OpFacts DEF IInv, AnsInv, OpInv, Fits
<1>4. row \in Rows /\ file' \in Rows => file' = row
  BY <1>1, <1>3, FileFacts DEF Rows
<1>5. file' = row => file'.id = ans.id
  OBVIOUS
<1> HIDE DEF row
<1>6. TypeOK'
  <2>1. file' \in Rows \cup Cuts \cup {NoFile}
    BY <1>1, <1>3, FileFacts DEF Rows, row
  <2>2. id' \in MyIds \cup {DummyId, ShortId, NoId} /\ lost' \in SUBSET MyIds
    BY <1>1, <1>3 DEF IInv, TypeOK
  <2> QED
    BY <1>1, <2>1, <2>2 DEF IInv, TypeOK
<1>7. OpInv' /\ AnsInv' /\ DirInv'
  BY <1>1 DEF IInv, OpInv, AnsInv, DirInv
<1>8. IdInv'
  <2>1. id' \notin {ShortId, NoId}
    BY <1>1, <1>3, FileFacts DEF Cuts
  <2>2. file' \in Rows => file' = row
    BY <1>1, FileFacts
  <2> QED
    BY <1>1, <1>3, <1>5, <2>1, <2>2 DEF IdInv
<1>9. RunsAsSaved'
  <2>1. file' \in Rows => file' = row
    BY <1>1, FileFacts
  <2> QED
    BY <1>1, <1>3, <1>5, <2>1 DEF RunsAsSaved
<1>10. OrphansAreLost'
  <2> SUFFICES ASSUME NEW r \in directory, r.id \in MyIds, r.id \notin lost'
               PROVE  file' \in Rows /\ file'.id = r.id
    BY <1>1 DEF OrphansAreLost
  <2>1. r.id \notin lost
    BY <1>1
  <2>2. ans = [code |-> "registered", id |-> r.id]
    BY <1>3, <2>1, FileFacts DEF IInv, OrphansAreLost
  <2>3. r.id = ans.id
    BY <2>2
  <2>4. file' = row
    BY <1>1, <2>3
  <2> QED
    BY <1>3, <1>5, <2>3, <2>4 DEF Rows, Ids, row
<1>11. ContactsAreClients' /\ SentAsNamed'
  BY <1>1 DEF IInv, ContactsAreClients, SentAsNamed
<1>12. OwnIdNoContact'
  BY <1>1, <1>3 DEF OwnIdNoContact, Known
<1> QED
  BY <1>6, <1>7, <1>8, <1>9, <1>10, <1>11, <1>12 DEF IInv

\* What a list adds: contacts behind those there are, each of a row that is new.
LEMMA Added ==
  ASSUME IInv, AddContacts
  PROVE  \E rows \in SUBSET directory, new \in Seq(Contacts) :
           /\ contacts' = contacts \o new
           /\ \A r \in rows : r.id \notin Known /\ r.id # id
           /\ \A i \in 1 .. Len(new) : [id |-> new[i].id, name |-> new[i].name] \in rows
           /\ \A i, j \in 1 .. Len(new) : new[i].id = new[j].id => i = j
<1> DEFINE rows == {r \in ans.rows : r.id \notin Known}
<1>1. cpc = "answered" /\ ans.code = "list"
  BY DEF AddContacts, Answered
<1>2. rows \subseteq directory /\ \A r \in rows : r.id \notin Known /\ r.id # id
  BY <1>1 DEF IInv, AnsInv, OpInv, Fits
<1>3. rows \in SUBSET Rows /\ directory \in SUBSET Rows
  BY <1>2 DEF IInv, TypeOK
<1>4. OneRowEach(rows)
  BY <1>2 DEF OneRowEach, IInv, DirInv
<1>5. PICK rs \in SetToSeqs(rows) : contacts' = contacts \o [i \in DOMAIN rs |-> NewContact(rs[i])]
  BY DEF AddContacts
<1>6. IsFiniteSet(rows)
  BY <1>3, <1>4, FiniteRows
<1> DEFINE new == [i \in DOMAIN rs |-> NewContact(rs[i])]
<1>7. /\ new \in Seq(Contacts) /\ Len(new) = Len(rs)
      /\ \A i \in 1 .. Len(rs) : rs[i] \in rows /\ new[i].id = rs[i].id /\ new[i].name = rs[i].name
      /\ \A i, j \in 1 .. Len(rs) : rs[i] = rs[j] => i = j
  <2> HIDE DEF rows
  <2> QED
    BY <1>3, <1>6, NewContacts
<1> HIDE DEF new, rows
<1>8. \A r \in rows : r = [id |-> r.id, name |-> r.name]
  BY <1>3 DEF Rows
<1>9. \A i \in 1 .. Len(new) : [id |-> new[i].id, name |-> new[i].name] \in rows
  BY <1>7, <1>8
<1>10. \A i, j \in 1 .. Len(new) : new[i].id = new[j].id => i = j
  BY <1>2, <1>7 DEF IInv, DirInv, OneRowEach
<1> QED
  BY <1>2, <1>5, <1>7, <1>9, <1>10 DEF new

LEMMA AddContactsStep ==
  ASSUME IInv, AddContacts
  PROVE  IInv'
<1>1. /\ cpc = "answered" /\ ans.code = "list"
      /\ cpc' = "menu" /\ op' = NoOp /\ ans' = NoAnswer
      /\ UNCHANGED <<file, id, directory, mail, issued, late, lost, keyed>>
  BY DEF AddContacts, Answered, Done, server, history
<1>2. PICK rows \in SUBSET directory, new \in Seq(Contacts) :
        /\ contacts' = contacts \o new
        /\ \A r \in rows : r.id \notin Known /\ r.id # id
        /\ \A i \in 1 .. Len(new) : [id |-> new[i].id, name |-> new[i].name] \in rows
        /\ \A i, j \in 1 .. Len(new) : new[i].id = new[j].id => i = j
  BY Added
<1> DEFINE n == Len(contacts)
           all == contacts \o new
<1>3. /\ n \in Nat /\ Len(new) \in Nat /\ DOMAIN contacts = 1 .. n
      /\ all \in Seq(Contacts) /\ DOMAIN all = 1 .. n + Len(new)
      /\ \A i \in 1 .. n : all[i] = contacts[i]
      /\ \A i \in 1 .. n + Len(new) : i > n => i - n \in 1 .. Len(new) /\ all[i] = new[i - n]
  <2>1. contacts \in Seq(Contacts)
    BY DEF IInv, TypeOK
  <2> QED
    BY <2>1, LenProperties, ConcatProperties
<1> HIDE DEF n, all
<1>4. contacts' = all
  BY <1>2 DEF all
<1>5. \A i \in 1 .. n + Len(new) : i \in 1 .. n \/ i > n
  BY <1>3
<1>6. \A i \in 1 .. n : all[i].id \in Known /\ [id |-> all[i].id, name |-> all[i].name] \in directory
  BY <1>3 DEF Known, IInv, ContactsAreClients
<1>7. \A i \in 1 .. n + Len(new) : i > n =>
        /\ all[i].id \notin Known /\ all[i].id # id
        /\ [id |-> all[i].id, name |-> all[i].name] \in directory
  BY <1>2, <1>3
<1>8. TypeOK'
  BY <1>1, <1>3, <1>4 DEF IInv, TypeOK
<1>9. OpInv' /\ AnsInv' /\ DirInv'
  BY <1>1 DEF IInv, OpInv, AnsInv, DirInv
<1>10. IdInv'
  <2>1. id \notin {ShortId, NoId}
    BY <1>1 DEF IInv, OpInv, AnsInv, Fits
  <2> QED
    BY <1>1, <2>1 DEF IInv, IdInv
<1>11. RunsAsSaved' /\ OrphansAreLost' /\ SentAsNamed'
  BY <1>1 DEF IInv, RunsAsSaved, OrphansAreLost, SentAsNamed
<1>12. ContactsAreClients'
  <2>1. \A i \in DOMAIN all : [id |-> all[i].id, name |-> all[i].name] \in directory
    BY <1>3, <1>5, <1>6, <1>7
  <2>2. ASSUME NEW i \in DOMAIN all, NEW j \in DOMAIN all, all[i].id = all[j].id
        PROVE  i = j
    <3>1. CASE i \in 1 .. n /\ j \in 1 .. n
      BY <1>3, <2>2, <3>1 DEF IInv, ContactsAreClients
    <3>2. CASE i > n /\ j > n
      <4>1. new[i - n].id = new[j - n].id /\ i - n \in 1 .. Len(new) /\ j - n \in 1 .. Len(new)
        BY <1>3, <2>2, <3>2
      <4>2. i - n = j - n
        BY <1>2, <4>1
      <4> QED
        BY <1>3, <4>2
    <3> QED
      BY <1>3, <1>5, <1>6, <1>7, <2>2, <3>1, <3>2
  <2> QED
    BY <1>1, <1>4, <2>1, <2>2 DEF ContactsAreClients
<1>13. OwnIdNoContact'
  <2>1. \A i \in DOMAIN all : all[i].id # id
    BY <1>1, <1>3, <1>5, <1>6, <1>7 DEF IInv, OwnIdNoContact
  <2> QED
    BY <1>1, <1>4, <2>1 DEF OwnIdNoContact, Known
<1> QED
  BY <1>8, <1>9, <1>10, <1>11, <1>12, <1>13 DEF IInv

LEMMA FinishStep ==
  ASSUME IInv, Finish
  PROVE  IInv'
<1>1. keyed \in SUBSET Others
  BY DEF IInv, TypeOK
<1>2. CASE GotError \/ UpdateContact \/ GotSent
  BY <1>1, <1>2, DoneStep DEF GotError, UpdateContact, GotSent, Answered, server, history
<1>3. CASE Registered
  BY <1>3, RegisteredStep
<1>4. CASE AddContacts
  BY <1>4, AddContactsStep
<1>5. CASE HandleMsgs
  <2>1. cpc = "answered" /\ ans.code = "mail" /\ Done
    BY <1>5 DEF HandleMsgs, Answered
  <2>2. ans.messages \in SUBSET Mail
    BY <2>1, AnswerFacts DEF IInv, AnsInv, Fits
  <2>3. keyed' \in SUBSET Others
    BY <1>1, <1>5, <2>2 DEF HandleMsgs, Mail
  <2> QED
    BY <1>5, <2>1, <2>3, DoneStep DEF HandleMsgs, server
<1> QED
  BY <1>2, <1>3, <1>4, <1>5 DEF Finish

LEMMA GiveUpStep ==
  ASSUME IInv, GiveUp
  PROVE  IInv'
<1>1. /\ cpc \in {"waiting", "answered"} /\ cpc' \in {"menu", "down"}
      /\ op' = NoOp /\ ans' = NoAnswer
      /\ late' = late \/ late' = late \cup {op}
      /\ lost' = lost \cup Unheard(ans)
      /\ UNCHANGED <<file, id, contacts, directory, mail, issued, keyed>>
  BY DEF GiveUp, server
<1>2. op \in Ops
  BY <1>1 DEF IInv, OpInv
<1>3. TypeOK'
  <2>1. lost' \in SUBSET MyIds /\ late' \in SUBSET Ops
    BY <1>1, <1>2, UnheardFacts DEF IInv, TypeOK
  <2> QED
    BY <1>1, <2>1 DEF IInv, TypeOK
<1>4. OpInv' /\ AnsInv' /\ IdInv' /\ DirInv'
  BY <1>1 DEF IInv, OpInv, AnsInv, IdInv, DirInv
<1>5. RunsAsSaved' /\ ContactsAreClients'
  BY <1>1 DEF IInv, RunsAsSaved, ContactsAreClients
<1>6. OrphansAreLost'
  <2>1. ASSUME NEW r \in directory, r.id \in MyIds, ans = [code |-> "registered", id |-> r.id]
        PROVE  r.id \in lost'
    BY <1>1, <2>1, RegisteredIsAnswer, UnheardFacts
  <2> QED
    BY <1>1, <2>1 DEF IInv, OrphansAreLost
<1>7. OwnIdNoContact' /\ SentAsNamed'
  BY <1>1 DEF IInv, OwnIdNoContact, Known, SentAsNamed
<1> QED
  BY <1>3, <1>4, <1>5, <1>6, <1>7 DEF IInv

LEMMA OthersStep ==
  ASSUME IInv,
         \/ \E o \in Others, n \in Names : OtherRegisters(o, n)
         \/ \E m \in Mail : OtherSends(m)
  PROVE  IInv'
<1>1. CASE \E o \in Others, n \in Names : OtherRegisters(o, n)
  <2>1. PICK o \in Others, n \in Names : OtherRegisters(o, n)
    BY <1>1
  <2>2. /\ o \notin IdsIn(directory) /\ directory' = directory \cup {[id |-> o, name |-> n]}
        /\ UNCHANGED <<file, id, contacts, cpc, op, ans, mail, issued, late, lost, keyed>>
    BY <2>1 DEF OtherRegisters, process, history
  <2>3. [id |-> o, name |-> n] \in Rows /\ o \notin MyIds
    BY FileFacts DEF Rows
  <2>4. TypeOK' /\ OpInv' /\ AnsInv'
    BY <2>2, <2>3 DEF IInv, TypeOK, OpInv, AnsInv, Fits, Known
  <2>5. IdInv' /\ ContactsAreClients'
    BY <2>2, GrownTables
  <2>6. DirInv' /\ OrphansAreLost'
    BY <2>2, <2>3 DEF IInv, DirInv, OneRowEach, IdsIn, OrphansAreLost
  <2>7. RunsAsSaved' /\ OwnIdNoContact' /\ SentAsNamed'
    BY <2>2 DEF IInv, RunsAsSaved, OwnIdNoContact, Known, SentAsNamed
  <2> QED
    BY <2>4, <2>5, <2>6, <2>7 DEF IInv
<1>2. CASE \E m \in Mail : OtherSends(m)
  <2>1. PICK m \in Mail : OtherSends(m)
    BY <1>2
  <2>2. /\ mail' = mail \cup {m}
        /\ UNCHANGED <<file, id, contacts, cpc, op, ans, directory, issued, late, lost, keyed>>
    BY <2>1 DEF OtherSends, process, history
  <2>3. TypeOK' /\ OpInv' /\ AnsInv' /\ IdInv' /\ DirInv'
    BY <2>2 DEF IInv, TypeOK, OpInv, AnsInv, Fits, Known, IdInv, DirInv
  <2>4. RunsAsSaved' /\ OrphansAreLost' /\ ContactsAreClients' /\ OwnIdNoContact' /\ SentAsNamed'
    BY <2>2 DEF IInv, RunsAsSaved, OrphansAreLost, ContactsAreClients, OwnIdNoContact, Known, SentAsNamed
  <2> QED
    BY <2>3, <2>4 DEF IInv
<1> QED
  BY <1>1, <1>2
-----------------------------------------------------------------------------
LEMMA InitInv == Init => IInv
<1> SUFFICES ASSUME Init
             PROVE  IInv
  OBVIOUS
<1> USE DEF Init
<1>1. /\ file = NoFile /\ id = DummyId /\ contacts = <<>> /\ cpc = "down" /\ op = NoOp
      /\ ans = NoAnswer /\ mail = {} /\ issued = {} /\ late = {} /\ lost = {} /\ keyed = {}
  OBVIOUS
<1>2. directory \in SUBSET Rows /\ (\A r \in directory : r.id \in Others) /\ OneRowEach(directory)
  BY DEF OneRowEach, Rows, Ids
<1>3. <<>> \in Seq(Contacts) /\ DOMAIN <<>> = {}
  OBVIOUS
<1>4. TypeOK
  BY <1>1, <1>2, <1>3 DEF TypeOK
<1>5. OpInv /\ AnsInv /\ IdInv /\ DirInv
  BY <1>1, <1>2, FileFacts DEF OpInv, AnsInv, IdInv, DirInv, Cuts
<1>6. RunsAsSaved /\ OrphansAreLost /\ OwnIdNoContact /\ SentAsNamed
  BY <1>1, <1>2, FileFacts DEF RunsAsSaved, OrphansAreLost, OwnIdNoContact, SentAsNamed
<1>7. ContactsAreClients
  BY <1>1, <1>3 DEF ContactsAreClients
<1> QED
  BY <1>4, <1>5, <1>6, <1>7 DEF IInv

\* Every step of the program, of the server and of the others keeps IInv.
LEMMA NextInv == IInv /\ [Next]_vars => IInv'
<1> SUFFICES ASSUME IInv, [Next]_vars
             PROVE  IInv'
  OBVIOUS
<1>1. CASE UNCHANGED vars \/ StartThrows
  BY <1>1, StutterStep DEF StartThrows
<1>2. CASE Start
  BY <1>2, StartStep
<1>3. CASE Ask
  BY <1>3, AskStep
<1>4. CASE Serve
  BY <1>4, ServeStep
<1>5. CASE ServeLate
  BY <1>5, ServeLateStep
<1>6. CASE Finish
  BY <1>6, FinishStep
<1>7. CASE GiveUp
  BY <1>7, GiveUpStep
<1>8. CASE Exit
  BY <1>8, LeaveStep
<1>9. CASE (\E o \in Others, n \in Names : OtherRegisters(o, n)) \/ (\E m \in Mail : OtherSends(m))
  BY <1>9, OthersStep
<1> QED
  BY <1>1, <1>2, <1>3, <1>4, <1>5, <1>6, <1>7, <1>8, <1>9 DEF Next
-----------------------------------------------------------------------------
\* The invariant relates the request under way and its answer to what the server
\* has given and to me.info: without it an answer could replace an identity.
THEOREM ClientInvariance == Spec => []IInv
<1> QED
  BY InitInv, NextInv, PTL DEF Spec

\* The variables keep their types: only this user's ids are ever its own
\* (client.cpp:328).
THEOREM ClientTypeCorrect == Spec => []TypeOK
<1>1. IInv => TypeOK
  BY DEF IInv
<1> QED
  BY <1>1, ClientInvariance, PTL

\* A program acts under the id in me.info, and registers only if there is none or
\* a cut one is in the way (client.cpp:243).
THEOREM ActsAsSaved == Spec => []RunsAsSaved
<1>1. IInv => RunsAsSaved
  BY DEF IInv
<1> QED
  BY <1>1, ClientInvariance, PTL

\* A user has a second row at the server only after a failure between the INSERT
\* and the end of save_client_creds (operation.cpp:104).
THEOREM OrphansWereLost == Spec => []OrphansAreLost
<1>1. IInv => OrphansAreLost
  BY DEF IInv
<1> QED
  BY <1>1, ClientInvariance, PTL

\* Contacts are rows of the server, each one once, for any lists (operation.cpp:218).
THEOREM ContactsExist == Spec => []ContactsAreClients
<1>1. IInv => ContactsAreClients
  BY DEF IInv
<1> QED
  BY <1>1, ClientInvariance, PTL

\* No list gives a user itself as a contact (request_handler.py:79).
THEOREM NotOwnContact == Spec => []OwnIdNoContact
<1>1. IInv => OwnIdNoContact
  BY DEF IInv
<1> QED
  BY <1>1, ClientInvariance, PTL

\* Requests go to clients of the name that was typed, late ones too.
THEOREM NamedAreMeant == Spec => []SentAsNamed
<1>1. IInv => SentAsNamed
  BY DEF IInv
<1> QED
  BY <1>1, ClientInvariance, PTL

\* me.info is written at most once with anything in it: only a registration writes
\* it, and one is only under way when there is none (operation.cpp:59).
THEOREM IdentityForGood == Spec => IdentityKept
<1>1. IInv /\ [Next]_vars => (file # NoFile => file' = file)
  <2> SUFFICES ASSUME IInv, [Next]_vars, file # NoFile
               PROVE  file' = file
    OBVIOUS
  <2>1. CASE Registered
    <3>1. cpc = "answered" /\ op.kind = "register"
      BY <2>1 DEF Registered, Answered, IInv, AnsInv, Fits
    <3> QED
      BY <3>1 DEF IInv, OpInv
  <2>2. CASE Finish /\ ~Registered
    BY <2>2 DEF Finish, GotError, AddContacts, UpdateContact, GotSent, HandleMsgs
  <2>3. CASE Ask
    BY <2>3 DEF Ask, ListUsers, FetchMsg, RequestThrows, InvalidOperation, Register,
       GetPublicKey, SendMsg, Request, vars, process
  <2>4. CASE Start \/ StartThrows \/ Serve \/ ServeLate \/ GiveUp \/ Exit \/ UNCHANGED vars
    BY <2>4 DEF Start, StartThrows, Serve, ServeLate, GiveUp, Exit, vars, process
  <2>5. CASE (\E o \in Others, n \in Names : OtherRegisters(o, n)) \/ (\E m \in Mail : OtherSends(m))
    BY <2>5 DEF OtherRegisters, OtherSends, process
  <2> QED
    BY <2>1, <2>2, <2>3, <2>4, <2>5 DEF Next
<1>2. IInv /\ [Next]_vars => [file # NoFile => file' = file]_vars
  BY <1>1
<1> QED
  BY <1>2, ClientInvariance, PTL DEF Spec, IdentityKept

\* While the program runs, a name keeps its meaning: lists only add contacts at
\* the end, and the first contact of a name is taken (client.cpp:189).
THEOREM NamesKeepMeaning == Spec => NamesStable
<1> DEFINE Stable == cpc # "down" =>
             \A n \in Names : Resolve(contacts, n) # {} =>
               Resolve(contacts', n) = Resolve(contacts, n)
<1>1. IInv /\ [Next]_vars => Stable
  <2> SUFFICES ASSUME IInv, [Next]_vars, cpc # "down"
               PROVE  \A n \in Names : Resolve(contacts, n) # {} =>
                        Resolve(contacts', n) = Resolve(contacts, n)
    OBVIOUS
  <2>1. CASE AddContacts
    <3>1. PICK new \in Seq(Contacts) : contacts' = contacts \o new
      BY <2>1, Added
    <3>2. contacts \in Seq(Contacts)
      BY DEF IInv, TypeOK
    <3> QED
      BY <3>1, <3>2, ResolveKept
  <2>2. CASE contacts' = contacts
    BY <2>2
  <2>3. CASE Finish /\ ~AddContacts
    BY <2>2, <2>3 DEF Finish, GotError, Registered, UpdateContact, GotSent, HandleMsgs
  <2>4. CASE Ask
    BY <2>2, <2>4 DEF Ask, ListUsers, FetchMsg, RequestThrows, InvalidOperation, Register,
       GetPublicKey, SendMsg, Request, vars, process
  <2>5. CASE StartThrows \/ Serve \/ ServeLate \/ GiveUp \/ Exit \/ UNCHANGED vars
    BY <2>2, <2>5 DEF StartThrows, Serve, ServeLate, GiveUp, Exit, vars, process
  <2>6. CASE (\E o \in Others, n \in Names : OtherRegisters(o, n)) \/ (\E m \in Mail : OtherSends(m))
    BY <2>2, <2>6 DEF OtherRegisters, OtherSends, process
  <2>7. CASE Start
    BY <2>7 DEF Start
  <2> QED
    BY <2>1, <2>3, <2>4, <2>5, <2>6, <2>7 DEF Next
<1>2. IInv /\ [Next]_vars => [Stable]_<<cpc, contacts>>
  BY <1>1
<1> QED
  BY <1>2, ClientInvariance, PTL DEF Spec, NamesStable
=============================================================================
