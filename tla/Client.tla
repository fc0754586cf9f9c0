------------------------------- MODULE Client -------------------------------
(****************************************************************************)
(* One user of the client program (client/client.cpp, client/operation.cpp) *)
(* through all runs of the program: its identity in me.info, which may be   *)
(* cut short when it is saved, its contacts, which only live in memory, and *)
(* the operations of the menu.                                              *)
(*                                                                          *)
(* The server is what module Server allows: it handles a request at one     *)
(* instant or never; add_client and delete_message swallow what their call  *)
(* raises; registrations that overlap may take the same name.  Of a         *)
(* response the client gets everything or, if the connection fails or       *)
(* delivers it in pieces, an error or an exception (module Exchange).  A    *)
(* request the client has given up may still be handled later.              *)
(****************************************************************************)
EXTENDS Terminal, FiniteSets, SequencesExt

CONSTANTS
  MyIds,     \* the ids uuid4 may give this user
  Others,    \* the ids of the other users
  Names,
  DummyId,   \* sixteen bytes 1, the id before registration
  Types,     \* the types of the messages that others write
  MaxMail,   \* bound: how many messages wait for this user at one time
  MaxLate,   \* bound: how many requests are handled late at one time
  NoFile,    \* no me.info, or one of at most sixteen bytes
  ShortId, OddId, NoId,  \* a me.info whose id is cut: to some bytes, inside a
                         \* byte, or missing
  NoOp, NoAnswer

Ids == MyIds \cup Others

Cuts == {ShortId, OddId, NoId}

ASSUME ClientAssumption ==
  /\ MyIds \cap Others = {}
  /\ DummyId \notin Ids \cup Cuts /\ Cuts \cap Ids = {}
  /\ Cardinality(Cuts) = 3
  /\ NoFile \notin [id : Ids, name : Names] \cup Cuts
  /\ Cuts \cap [id : Ids, name : Names] = {}
  /\ NoAnswer \notin [code : {"registered"}, id : MyIds]
  /\ IsFiniteSet(Ids)
  /\ Types \subseteq {"text", "ask", "key"}
  /\ {MaxMail, MaxLate} \subseteq Nat

Rows == [id : Ids, name : Names]

\* Messages to this user: a text, a request for its key, or a key.
Mail == [from : Others, to : MyIds, type : Types]

VARIABLES
  file,       \* me.info
  id,         \* _id
  contacts,   \* contacts
  cpc,        \* the program is down, at its menu, waiting, or has a response
  op,         \* the operation under way, with what its request says
  ans,        \* the response
  directory,  \* table clients
  mail,       \* table messages, as far as it concerns this user
  issued,     \* ids the server has given this user
  late,       \* requests the client gave up and the server has not handled
  lost,       \* history: ids that did not get into me.info
  keyed       \* history: contacts whose key this run has displayed

process == <<file, id, contacts, cpc, op>>
server == <<directory, mail, issued>>
history == <<lost, keyed>>
vars == <<process, ans, server, late, history>>

Ops ==
  [kind : {"register"}, name : Names, from : MyIds \cup {DummyId}, taken : SUBSET Names]
    \cup [kind : {"list", "fetch"}, from : MyIds \cup {DummyId, ShortId}]
    \cup [kind : {"key", "send"}, name : Names, to : Ids, from : MyIds \cup {DummyId}]

Answers ==
  [code : {"error", "key", "sent"}]
    \cup [code : {"registered"}, id : MyIds]
    \cup [code : {"list"}, rows : SUBSET Rows]
    \cup [code : {"mail"}, messages : SUBSET Mail]

Contacts == [id : Ids, name : Names, pubkey : BOOLEAN, symkey : BOOLEAN]

TypeOK ==
  /\ file \in Rows \cup Cuts \cup {NoFile}
  /\ id \in MyIds \cup {DummyId, ShortId, NoId}
  /\ contacts \in Seq(Contacts)
  /\ cpc \in {"down", "menu", "waiting", "answered"}
  /\ op \in Ops \cup {NoOp}
  /\ ans \in Answers \cup {NoAnswer}
  /\ directory \in SUBSET Rows
  /\ mail \in SUBSET Mail
  /\ issued \in SUBSET MyIds
  /\ late \in SUBSET Ops
  /\ lost \in SUBSET MyIds
  /\ keyed \in SUBSET Others

\* The user is new.  Others registered before, perhaps two of them with one
\* name (Server: UniqueNames).
Init ==
  /\ file = NoFile /\ id = DummyId /\ contacts = <<>>
  /\ cpc = "down" /\ op = NoOp /\ ans = NoAnswer
  /\ directory \in {d \in SUBSET [id : Others, name : Names] :
                      \A r, s \in d : r.id = s.id => r = s}
  /\ mail = {} /\ issued = {} /\ late = {}
  /\ lost = {} /\ keyed = {}

NamesIn(d) == {r.name : r \in d}
IdsIn(d) == {r.id : r \in d}

Known == {contacts[i].id : i \in DOMAIN contacts}

\* get_contact_id_by_name: the first contact of that name, in a set.
Resolve(cs, n) ==
  {cs[i].id : i \in {j \in DOMAIN cs : cs[j].name = n /\ \A k \in 1 .. j - 1 : cs[k].name # n}}
-----------------------------------------------------------------------------
\* _read_client_creds: the complaint about a malformed file is not thrown.
CredsId ==
  CASE file = NoFile -> DummyId
    [] file \in Cuts -> file
    [] OTHER -> file.id

\* Client::Client, in a new run of the program.
Start ==
  /\ cpc = "down" /\ file # OddId
  /\ cpc' = "menu"
  /\ id' = CredsId
  /\ contacts' = <<>>
  /\ keyed' = {}
  /\ UNCHANGED <<file, op, ans, server, late, lost>>

\* The missing digit throws where main catches nothing.
StartThrows == cpc = "down" /\ file = OddId /\ UNCHANGED vars

Request(o) ==
  /\ cpc = "menu" /\ Offers(o.kind) /\ o.from # NoId
  /\ cpc' = "waiting"
  /\ op' = o
  /\ UNCHANGED <<file, id, contacts, ans, server, late, history>>

\* Fault: the operation does not ask whether the client is registered.
RegisterAgain(n) ==
  /\ Request([kind |-> "register", name |-> n, from |-> id, taken |-> NamesIn(directory)])

\* With a me.info, cut or not, the operation refuses and nothing happens.
Register(n) ==
  /\ file = NoFile
  /\ Request([kind |-> "register", name |-> n, from |-> id, taken |-> NamesIn(directory)])

ListUsers == Request([kind |-> "list", from |-> id])

FetchMsg == Request([kind |-> "fetch", from |-> id])

\* The name typed is looked up first; only contacts can be asked about ...
GetPublicKey(n) ==
  \E to \in Resolve(contacts, n) :
    Request([kind |-> "key", name |-> n, to |-> to, from |-> id])

\* Fault: get_contact_id_by_name returns the last id that it compared.
SendToLast(n) ==
  Known # {} /\ Request([kind |-> "send", name |-> n, to |-> Last(contacts).id, from |-> id])

\* ... or written to, with a text or one of the two symmetric key messages.
SendMsg(n) ==
  \E to \in Resolve(contacts, n) :
    Request([kind |-> "send", name |-> n, to |-> to, from |-> id])

\* A request without an id throws std::invalid_argument, which ends the program.
RequestThrows ==
  /\ cpc = "menu" /\ id = NoId
  /\ \E kind \in {"list", "fetch", "send"} : Offers(kind)
  /\ cpc' = "down"
  /\ UNCHANGED <<file, id, contacts, op, ans, server, late, history>>

\* The connection is closed and the menu comes again.
InvalidOperation == cpc = "menu" /\ OffersNothing /\ UNCHANGED vars
-----------------------------------------------------------------------------
\* What may become of request o at the server: the response and the tables.
Outcome(a, d, m, i) == [ans |-> a, directory |-> d, mail |-> m, issued |-> i]

Error == Outcome([code |-> "error"], directory, mail, issued)

\* A name taken when the request was sent is refused, one taken since perhaps.
\* The row may be missing although the answer is success.
RegisterUser(o) ==
  {Error : r \in {r \in directory : r.name = o.name}}
    \cup UNION {{Outcome([code |-> "registered", id |-> new], d, mail, issued \cup {new}) :
                    d \in {directory, directory \cup {[id |-> new, name |-> o.name]}}} :
                  new \in {i \in MyIds \ issued : o.name \notin o.taken}}

\* Fault: the client that asks is not left out.
ListEverybody(o) ==
  {Outcome([code |-> "list", rows |-> directory], directory, mail, issued)}

\* A lookup that raised is answered with an empty list.
ListClients(o) ==
  {Outcome([code |-> "list", rows |-> rs], directory, mail, issued) :
     rs \in {{r \in directory : r.id # o.from}, {}}}

GetPubKey(o) == {Outcome([code |-> "key"], directory, mail, issued)}

\* The addressee must be registered, and the INSERT may be refused.
StoreMsg(o) ==
  {Error} \cup
    {Outcome([code |-> "sent"], directory, mail, issued) : r \in {r \in directory : r.id = o.to}}

\* Each message is deleted unless its DELETE was refused.
FetchMessages(o) ==
  LET mine == {m \in mail : m.to = o.from}
  IN  {Outcome([code |-> "mail", messages |-> mine], directory, (mail \ mine) \cup kept, issued) :
         kept \in SUBSET mine}

\* A short id leaves the server a header that it cannot decode.
Outcomes(o) ==
  IF o.from = ShortId THEN {Error}
  ELSE CASE o.kind = "register" -> RegisterUser(o)
         [] o.kind = "list"     -> ListClients(o)
         [] o.kind = "key"      -> GetPubKey(o)
         [] o.kind = "send"     -> StoreMsg(o)
         [] o.kind = "fetch"    -> FetchMessages(o)

Unheard(a) == IF a # NoAnswer /\ a.code = "registered" THEN {a.id} ELSE {}

Handle(x) ==
  /\ directory' = x.directory
  /\ mail' = x.mail
  /\ issued' = x.issued

Serve ==
  /\ cpc = "waiting"
  /\ \E x \in Outcomes(op) : Handle(x) /\ ans' = x.ans
  /\ cpc' = "answered"
  /\ UNCHANGED <<file, id, contacts, op, late, lost, keyed>>

\* The client waits no longer for a request that the server handles now.
ServeLate ==
  /\ \E o \in late : \E x \in Outcomes(o) :
       /\ Handle(x)
       /\ late' = late \ {o}
       /\ lost' = lost \cup Unheard(x.ans)
  /\ UNCHANGED <<process, ans, keyed>>
-----------------------------------------------------------------------------
\* The operation is over and the menu comes back.
Done == cpc' = "menu" /\ op' = NoOp /\ ans' = NoAnswer

Answered(code) == cpc = "answered" /\ ans.code = code

GotError ==
  /\ Answered("error")
  /\ Done
  /\ UNCHANGED <<file, id, contacts, server, late, history>>

\* Fault: save_client_creds is called before setID.
SaveFirst ==
  /\ Answered("registered")
  /\ id' = ans.id
  /\ file' = [id |-> id, name |-> op.name]
  /\ Done
  /\ UNCHANGED <<contacts, server, late, history>>

\* setID and save_client_creds, with the name typed last.  The file may not
\* open, may be left empty by a program that is killed (Exit is next then), or may
\* be cut, by a full disk for one, which the program does not notice.
Registered ==
  LET row == [id |-> ans.id, name |-> op.name] IN
  /\ Answered("registered")
  /\ id' = ans.id
  /\ file' \in {row, NoFile} \cup Cuts
  /\ lost' = IF file' = row THEN lost ELSE lost \cup {ans.id}
  /\ Done
  /\ UNCHANGED <<contacts, server, late, keyed>>

NewContact(r) == [id |-> r.id, name |-> r.name, pubkey |-> FALSE, symkey |-> FALSE]

\* Fault: contacts are put in front.
AddContactsInFront ==
  /\ Answered("list")
  /\ \E rs \in SetToSeqs({r \in ans.rows : r.id \notin Known}) :
       contacts' = [i \in DOMAIN rs |-> NewContact(rs[i])] \o contacts
  /\ Done
  /\ UNCHANGED <<file, id, server, late, history>>

\* Fault: contacts that are known are added again.
AddAllContacts ==
  /\ Answered("list")
  /\ \E rs \in SetToSeqs(ans.rows) :
       contacts' = contacts \o [i \in DOMAIN rs |-> NewContact(rs[i])]
  /\ Done
  /\ UNCHANGED <<file, id, server, late, history>>

\* _add_contacts: "add only new contacts!", in the order of the response.
AddContacts ==
  /\ Answered("list")
  /\ \E rs \in SetToSeqs({r \in ans.rows : r.id \notin Known}) :
       contacts' = contacts \o [i \in DOMAIN rs |-> NewContact(rs[i])]
  /\ Done
  /\ UNCHANGED <<file, id, server, late, history>>

\* _update_contact sets the key of a copy of the contact.
UpdateContact ==
  /\ Answered("key")
  /\ Done
  /\ UNCHANGED <<file, id, contacts, server, late, history>>

GotSent ==
  /\ Answered("sent")
  /\ Done
  /\ UNCHANGED <<file, id, contacts, server, late, history>>

\* _handle_msg displays the messages; update_contact_symm_key_by_id sets the
\* key of a copy of the contact.
HandleMsgs ==
  /\ Answered("mail")
  /\ keyed' = keyed \cup (Known \cap {m.from : m \in {n \in ans.messages : n.type = "key"}})
  /\ Done
  /\ UNCHANGED <<file, id, contacts, server, late, lost>>

\* The connection fails or the response comes in pieces: the operation reports
\* an error or throws, which ends the program.  So does the user, at any time.
GiveUp ==
  /\ cpc \in {"waiting", "answered"}
  /\ cpc' \in {"menu", "down"}
  /\ op' = NoOp /\ ans' = NoAnswer
  /\ \/ UNCHANGED late
     \/ /\ cpc = "waiting" /\ op.kind \in {"register", "send", "fetch"}
        /\ Cardinality(late) < MaxLate
        /\ late' = late \cup {op}
  /\ lost' = lost \cup Unheard(ans)
  /\ UNCHANGED <<file, id, contacts, server, keyed>>

\* 0, or anything that does not begin with a digit.
Exit ==
  /\ cpc = "menu" /\ OffersExit
  /\ cpc' = "down"
  /\ UNCHANGED <<file, id, contacts, op, ans, server, late, history>>

\* Other users register, under the name this user is registering with too, and
\* write to this user.
OtherRegisters(o, n) ==
  /\ o \notin IdsIn(directory)
  /\ n \in NamesIn(directory) =>
       cpc = "answered" /\ op.kind = "register" /\ op.name = n /\ n \notin op.taken
  /\ directory' = directory \cup {[id |-> o, name |-> n]}
  /\ UNCHANGED <<process, ans, mail, issued, late, history>>

OtherSends(m) ==
  /\ {m.from, m.to} \subseteq IdsIn(directory)
  /\ Cardinality(mail) < MaxMail
  /\ mail' = mail \cup {m}
  /\ UNCHANGED <<process, ans, directory, issued, late, history>>

Ask ==
  \/ ListUsers \/ FetchMsg \/ RequestThrows \/ InvalidOperation
  \/ \E n \in Names : Register(n) \/ GetPublicKey(n) \/ SendMsg(n)

Finish ==
  GotError \/ Registered \/ AddContacts \/ UpdateContact \/ GotSent \/ HandleMsgs

Next ==
  \/ Start \/ StartThrows \/ Ask \/ Serve \/ ServeLate \/ Finish \/ GiveUp \/ Exit
  \/ \E o \in Others, n \in Names : OtherRegisters(o, n)
  \/ \E m \in Mail : OtherSends(m)

Spec == Init /\ [][Next]_vars
-----------------------------------------------------------------------------
(****************************************************************************)
(* Properties                                                               *)
(****************************************************************************)

\* A registration once saved is never replaced, whatever is asked for later and
\* in later runs (client.cpp:243, operation.cpp:59).
IdentityKept == [][file # NoFile => file' = file]_vars

\* A program that runs and does not act under an id that the server gave this user
\* can register, unless its me.info was cut when it was saved; with a whole one it
\* acts under the id there (client.cpp:39, :255, :328, operation.cpp:104).
RunsAsSaved ==
  cpc # "down" =>
    /\ file \in Rows => id = file.id
    /\ id \in issued \/ file = NoFile \/ file \in Cuts

\* A client the server holds for this user is the one in me.info, or its
\* response is on its way, or it was lost: a user registers twice only after a
\* failure between the server's INSERT and the end of save_client_creds.
OrphansAreLost ==
  \A r \in directory : r.id \in MyIds =>
    \/ r.id \in lost
    \/ file \in Rows /\ file.id = r.id
    \/ cpc = "answered" /\ ans = [code |-> "registered", id |-> r.id]

\* The contacts are clients of the server under their names, each one once,
\* however often lists are asked for (operation.cpp:218).
ContactsAreClients ==
  /\ \A i \in DOMAIN contacts :
       [id |-> contacts[i].id, name |-> contacts[i].name] \in directory
  /\ \A i, j \in DOMAIN contacts : contacts[i].id = contacts[j].id => i = j

\* The user is not its own contact, also not one made before it registered.
OwnIdNoContact == cpc # "down" => id \notin Known

\* While the program runs, a name means the contact it meant first, also when
\* the server has two clients of that name (client.cpp:189).
NamesStable ==
  [][cpc # "down" =>
       \A n \in Names : Resolve(contacts, n) # {} =>
         Resolve(contacts', n) = Resolve(contacts, n)]_<<cpc, contacts>>

\* A request about a name goes to a client of that name, also when it is handled
\* long after the name was resolved (operation.cpp:234, :454).
SentAsNamed ==
  \A o \in late \cup {op} : o # NoOp /\ o.kind \in {"key", "send"} =>
    [id |-> o.to, name |-> o.name] \in directory

\* "print the msg and save the symmkey" (operation.cpp:653): a contact whose key
\* was displayed has that key.
KeySaved == \A i \in DOMAIN contacts : contacts[i].id \in keyed => contacts[i].symkey
=============================================================================
