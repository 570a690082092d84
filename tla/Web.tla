-------------------------------- MODULE Web --------------------------------
(***************************************************************************)
(* The configuration pages (application/source/web.c): one thread, a table *)
(* of client slots, an HTTP machine per slot, and one login for all.       *)
(*                                                                         *)
(* A client sends one request, a stream of units: the text of a line, the  *)
(* CR LF that ends it, or a field of the form in the body.  The network    *)
(* may cut the stream between any two units, so that a read returns any    *)
(* non-empty part of what is still to come, or the end if the client left. *)
(* The requests are those of the program's own pages; none comes near the  *)
(* 4096 bytes of the buffers.  Header lines other than Content-Length are  *)
(* ignored by the code and left out.                                       *)
(*                                                                         *)
(* The thread takes one event at a time and looks at neither the clients   *)
(* nor the clock while it works on it, so that an event is one step.  What *)
(* a save does to the store and to wifi_ctl is the subject of CfgStore and *)
(* WifiCtl.                                                                *)
(***************************************************************************)
EXTENDS Integers, Sequences

CONSTANTS
  NumSlots,     \* __CLIENT_NUM_MAX
  Conns,        \* the connections clients make
  Plans,        \* what they may ask for: a set of functions [Conns -> Kinds]
  Nil,          \* no connection
  LoginTime,    \* 120000 ms
  Wrap,         \* 2^32 ms, the period of systick_get
  MaxAge,       \* bound: how long the age of a login is counted
  MaxFaults     \* bound: calls of the kernel that fail, clients that leave

Slots == 0 .. NumSlots - 1
Kinds == {"page", "login", "wrong_login", "save", "mac", "bad_mac"}

ASSUME WebAssumption ==
  /\ NumSlots \in Nat \ {0}
  /\ Plans \subseteq [Conns -> Kinds] /\ Nil \notin Conns
  /\ LoginTime \in Nat \ {0} /\ Wrap \in Nat /\ LoginTime < Wrap
  /\ MaxAge \in Nat /\ MaxFaults \in Nat

VARIABLES
  server,    \* s_state: "no_init", "wait", "idle"
  slot,      \* [Slots -> Conns or Nil]: client[].cfd
  line,      \* [Slots -> Seq(Unit)]: client[].recv_buf up to recv_num
  req,       \* [Slots -> Request]: req[]
  closeReq,  \* [Slots -> BOOLEAN]: client[].close_req
  pass,      \* s_password_pass
  age,       \* time since s_password_tick, not reduced modulo Wrap
  store,     \* [ssid, psk]: the connection whose form each came from
  conn,      \* [Conns -> status]: "coming", "open", "closed"
  kind,      \* [Conns -> Kinds]: what the client asks for
  pos,       \* [Conns -> Nat]: units of its stream that were read
  left,      \* SUBSET Conns: nothing is to be read but the end of the stream
  torn,      \* history: saves whose form arrived in part with its head
  told,      \* history: the latest connection told "saved", or Nil
  faults

table  == <<slot, line, req, closeReq>>
login  == <<pass, age>>
result == <<store, told>>
vars == <<server, slot, line, req, closeReq, pass, age, store, conn, kind, pos, left,
          torn, told, faults>>

-----------------------------------------------------------------------------
(* The streams of the clients.                                             *)

\* The fields that are read; the name of the button ends the last one.
Form(k) == CASE k \in {"login", "wrong_login"} -> <<"pwd">>
             [] k = "save" -> <<"T0", "T1">>
             [] k \in {"mac", "bad_mac"} -> <<"mac">>
             [] OTHER      -> <<>>

Header(k) == IF k = "page" THEN <<"method", "nl", "nl">>
             ELSE <<"method", "nl", "length", "nl", "nl">>

Names   == {"method", "length", "nl", "pwd", "T0", "T1", "mac"}
Unit    == [of : Conns, name : Names]
Request == [state : {"method", "head", "body"}, path : Kinds \union {Nil},
            length : Nat, content : Seq(Unit)]

Stream(c) == LET names == Header(kind[c]) \o Form(kind[c])
             IN  [n \in 1 .. Len(names) |-> [of |-> c, name |-> names[n]]]

Cleared == [state |-> "method", path |-> Nil, length |-> 0, content |-> <<>>]

-----------------------------------------------------------------------------
(* __req_process, when a request for path k with the content form is whole *)
(* and came from connection c.                                             *)

\* str_get: whether the field is found, and the form after it.
Has(form, field) == \E n \in DOMAIN form : form[n].name = field

After(form, field) ==
  IF Has(form, field)
  THEN LET at == CHOOSE n \in DOMAIN form :
                   form[n].name = field /\ \A m \in 1 .. n - 1 : form[m].name # field
       IN  SubSeq(form, at + 1, Len(form))
  ELSE form

\* The age of the login as the code computes it, in 32 bits.
Fresh == pass /\ age % Wrap < LoginTime

Forget == pass' = FALSE /\ age' = 0

\* Mutant: a login has no end.
ExpireNot == UNCHANGED login

\* Every POST first looks whether the login has run out.
Expire == IF Fresh THEN UNCHANGED login ELSE Forget

\* POST /config1.html: the password.
ReqLogin(k, form) ==
  /\ IF Has(form, "pwd") /\ k = "login" THEN pass' = TRUE /\ age' = 0 ELSE Expire
  /\ UNCHANGED result

\* Mutant: the fields are looked for in the other order.
SavedFieldsSwapped(c, form) ==
  [psk  |-> IF Has(form, "T1") THEN c ELSE store.psk,
   ssid |-> IF Has(After(form, "T1"), "T0") THEN c ELSE store.ssid]

\* What the store holds once the fields that are found have been saved.
SavedFields(c, form) ==
  [ssid |-> IF Has(form, "T0") THEN c ELSE store.ssid,
   psk  |-> IF Has(After(form, "T0"), "T1") THEN c ELSE store.psk]

\* POST /save1.html: save the fields, and say that they are saved.
ReqSave(c, form) ==
  /\ Expire
  /\ IF pass'
     THEN store' = SavedFields(c, form) /\ told' = c
     ELSE UNCHANGED result

ReqProcess(c, k, form) ==
  CASE k \in {"login", "wrong_login"} -> ReqLogin(k, form)
    [] k = "save"                     -> ReqSave(c, form)
    [] k \in {"mac", "bad_mac"}       -> Expire /\ UNCHANGED result
    [] OTHER                          -> UNCHANGED <<login, result>>

\* POST /m.html with a valid address stores it and reboots the device.
Rebooting(k, form) == k = "mac" /\ Has(form, "mac")

-----------------------------------------------------------------------------
(* __recv_state_machine and __recv_process.  A read is worked off in two   *)
(* loops; their state p is the line and the request so far, whether the    *)
(* method was in error, the request that became whole, and the units used. *)

OnLine(r, text) ==
  CASE r.state = "method" /\ text.name = "method" ->
         [r EXCEPT !.state = "head", !.path = kind[text.of]]
    [] r.state = "head" /\ text.name = "length" ->
         [r EXCEPT !.length = Len(Form(kind[text.of]))]
    [] r.state = "head" /\ text.name = "nl" /\ r.length # 0 -> [r EXCEPT !.state = "body"]
    [] OTHER -> r

Progress == [line : Seq(Unit), req : Request, bad : BOOLEAN, used : Nat,
             asked : Seq([path : Kinds, form : Seq(Unit)])]

Complete(p, form) ==
  [p EXCEPT !.req = Cleared, !.asked = <<[path |-> p.req.path, form |-> form]>>]

\* One unit in the first loop, which is left when the body begins: the line
\* grows, or it is taken by the machine.
HeadUnit(unit) ==
  [p \in Progress |->
   LET got  == Append(p.line, unit)
      text == got[1]
      q    == [p EXCEPT !.line = <<>>, !.used = @ + 1]
  IN  CASE p.req.state = "body" -> p
        [] p.req.state # "body" /\ unit.name # "nl" -> [q EXCEPT !.line = got]
        [] p.req.state = "head" /\ got = <<unit>> /\ unit.name = "nl" /\ p.req.length = 0
             -> Complete(q, <<>>)
        [] OTHER -> [q EXCEPT !.req = OnLine(p.req, text),
                              !.bad = @ \/ (p.req.state = "method" /\ text.name # "method")]]

HeadLoop(s, buf) ==
  LET run[n \in 0 .. Len(buf)] ==
        IF n = 0
        THEN [line |-> line[s], req |-> req[s], bad |-> FALSE, asked |-> <<>>, used |-> 0]
        ELSE HeadUnit(buf[n])[run[n - 1]]
  IN  run[Len(buf)]

\* i -= num: a size_t, and no index of the read when it would be negative.
NextIndex(i, num, len) == IF num > i THEN len ELSE i - num

\* The pieces of the body the second loop takes from index i on.
Pieces(buf, start) ==
  LET len == Len(buf)
      from[i \in 0 .. len] ==
        IF i = len THEN <<>>
        ELSE SubSeq(buf, i + 1, len) \o from[NextIndex(i, len - i, len)]
  IN  from[start]

\* Mutant: the content is whole only when more than its length has come.
WholeLate(r, all) == Len(all) > r.length

Whole(r, all) == Len(all) >= r.length

\* The second loop: the pieces are added up to Content-Length.
BodyLoop(buf) ==
  [p \in Progress |->
   LET all == p.req.content \o Pieces(buf, p.used)
  IN  IF p.req.state # "body" THEN p
      ELSE IF Whole(p.req, all) THEN Complete(p, SubSeq(all, 1, p.req.length))
      ELSE [p EXCEPT !.req.content = all]]

RecvProcess(s, buf) == BodyLoop(buf)[HeadLoop(s, buf)]

-----------------------------------------------------------------------------
(* __web_process.                                                          *)

\* State NO_INIT: memset, socket, bind, listen, epoll_ctl.
ServerInit ==
  /\ server = "no_init"
  /\ server' = "idle"
  /\ UNCHANGED <<table, login, result, conn, kind, pos, left, torn, faults>>

ServerInitFails ==
  /\ server = "no_init" /\ faults < MaxFaults
  /\ faults' = faults + 1
  /\ server' = "wait"
  /\ UNCHANGED <<table, login, result, conn, kind, pos, left, torn>>

\* State WAIT, after 5 s.
ServerRetry ==
  /\ server = "wait"
  /\ server' = "no_init"
  /\ UNCHANGED <<table, login, result, conn, kind, pos, left, torn, faults>>

Free == {s \in Slots : slot[s] = Nil}
FirstFree == CHOOSE s \in Free : \A t \in Free : s <= t

\* memset of client[] and req[].
ClearSlot(s) ==
  /\ line' = [line EXCEPT ![s] = <<>>]
  /\ req' = [req EXCEPT ![s] = Cleared]
  /\ closeReq' = [closeReq EXCEPT ![s] = FALSE]

\* Mutant: the slot is taken as the last client left it.
TakeSlotAsIs(c) == slot' = [slot EXCEPT ![FirstFree] = c] /\ UNCHANGED <<line, req, closeReq>>

TakeSlot(c) == slot' = [slot EXCEPT ![FirstFree] = c] /\ ClearSlot(FirstFree)

Accept(c) ==
  /\ server = "idle" /\ conn[c] = "coming" /\ Free # {}
  /\ TakeSlot(c)
  /\ conn' = [conn EXCEPT ![c] = "open"]
  /\ UNCHANGED <<server, login, result, kind, pos, left, torn, faults>>

\* "client full": the connection is closed.
Refuse(c) ==
  /\ server = "idle" /\ conn[c] = "coming" /\ Free = {}
  /\ conn' = [conn EXCEPT ![c] = "closed"]
  /\ UNCHANGED <<server, table, login, result, kind, pos, left, torn, faults>>

\* epoll_ctl does not take the new descriptor: it is closed, the slot is freed.
AcceptFails(c) ==
  /\ server = "idle" /\ conn[c] = "coming" /\ Free # {}
  /\ faults < MaxFaults
  /\ faults' = faults + 1
  /\ ClearSlot(FirstFree)
  /\ conn' = [conn EXCEPT ![c] = "closed"]
  /\ UNCHANGED <<server, slot, login, result, kind, pos, left, torn>>

Close(s) ==
  /\ slot' = [slot EXCEPT ![s] = Nil]
  /\ conn' = [conn EXCEPT ![slot[s]] = "closed"]

\* read returns n units of what the client has sent.
Read(c, n) ==
  /\ pos' = [pos EXCEPT ![c] = @ + n]
  /\ torn' = IF /\ kind[c] = "save" /\ pos'[c] < Len(Stream(c))
                /\ pos[c] < Len(Header("save")) /\ Len(Header("save")) < pos'[c]
             THEN torn \union {c} ELSE torn

Units(c, n) == SubSeq(Stream(c), pos[c] + 1, pos[c] + n)

\* A read that does not end in a reboot: the machine, and the close it asks for.
Receive(s) ==
  /\ slot[s] \notin left \union {Nil}
  /\ \E n \in 1 .. Len(Stream(slot[s])) - pos[slot[s]] :
       LET c == slot[s]
       IN  /\ Read(c, n)
           /\ \E p \in {RecvProcess(s, Units(c, n))} :
                /\ \A q \in DOMAIN p.asked : ~Rebooting(p.asked[q].path, p.asked[q].form)
                /\ line' = [line EXCEPT ![s] = p.line]
                /\ req' = [req EXCEPT ![s] = p.req]
                /\ closeReq' = [closeReq EXCEPT ![s] = @ \/ p.bad \/ p.asked # <<>>]
                /\ IF p.asked # <<>>
                   THEN ReqProcess(c, p.asked[1].path, p.asked[1].form)
                   ELSE UNCHANGED <<login, result>>
                /\ IF closeReq'[s] THEN Close(s) ELSE UNCHANGED <<slot, conn>>
  /\ UNCHANGED <<server, kind, left, faults>>

\* A read that completes an address: sync, reboot -f, the program starts again.
ReceiveReboot(s) ==
  /\ slot[s] \notin left \union {Nil} /\ kind[slot[s]] = "mac"
  /\ \E n \in 1 .. Len(Stream(slot[s])) - pos[slot[s]] :
       /\ Read(slot[s], n)
       /\ \E p \in {RecvProcess(s, Units(slot[s], n))} :
            \E q \in DOMAIN p.asked : Rebooting(p.asked[q].path, p.asked[q].form)
  /\ server' = "no_init"
  /\ slot' = [t \in Slots |-> Nil] /\ line' = [t \in Slots |-> <<>>]
  /\ req' = [t \in Slots |-> Cleared] /\ closeReq' = [t \in Slots |-> FALSE]
  /\ Forget
  /\ conn' = [c \in Conns |-> IF conn[c] = "open" THEN "closed" ELSE conn[c]]
  /\ UNCHANGED <<result, kind, left, faults>>

\* Mutant: the end of a connection is taken for a read without data.
RemoteCloseIgnored(s) == slot[s] \in left /\ UNCHANGED vars

\* Mutant: the descriptor is closed but the slot keeps it.
RemoteCloseKeeps(s) ==
  /\ slot[s] \in left
  /\ conn' = [conn EXCEPT ![slot[s]] = "closed"]
  /\ UNCHANGED <<server, table, login, result, kind, pos, left, torn, faults>>

\* read returns 0 or an error: a line without its end goes to the machine (no
\* such line completes a request), and the connection is closed.
RemoteClose(s) ==
  /\ slot[s] \in left
  /\ req' = IF line[s] = <<>> THEN req ELSE [req EXCEPT ![s] = OnLine(@, line[s][1])]
  /\ Close(s)
  /\ UNCHANGED <<server, line, closeReq, login, result, kind, pos, left, torn, faults>>

-----------------------------------------------------------------------------
(* The clients and the clock.                                              *)

\* The client leaves, and what it sent before has been read.
Leave(c) ==
  /\ conn[c] = "open" /\ c \notin left /\ faults < MaxFaults
  /\ faults' = faults + 1
  /\ left' = left \union {c}
  /\ UNCHANGED <<server, table, login, result, conn, kind, pos, torn>>

Elapse ==
  /\ pass /\ age < MaxAge
  /\ age' = age + 1
  /\ UNCHANGED <<server, table, pass, result, conn, kind, pos, left, torn, faults>>

-----------------------------------------------------------------------------
Init ==
  /\ server = "no_init"
  /\ slot = [s \in Slots |-> Nil] /\ line = [s \in Slots |-> <<>>]
  /\ req = [s \in Slots |-> Cleared] /\ closeReq = [s \in Slots |-> FALSE]
  /\ pass = FALSE /\ age = 0
  /\ store = [ssid |-> Nil, psk |-> Nil] /\ told = Nil
  /\ conn = [c \in Conns |-> "coming"] /\ kind \in Plans
  /\ pos = [c \in Conns |-> 0] /\ left = {}
  /\ torn = {} /\ faults = 0

\* What the thread does on its timer, and on an event of connection c.
Timer == ServerInit \/ ServerRetry

Event(c) ==
  \/ Accept(c) \/ Refuse(c)
  \/ \E s \in Slots : slot[s] = c /\ (Receive(s) \/ ReceiveReboot(s) \/ RemoteClose(s))

Next ==
  \/ Timer \/ ServerInitFails
  \/ \E c \in Conns : Event(c) \/ AcceptFails(c) \/ Leave(c)
  \/ Elapse

Spec == Init /\ [][Next]_vars

\* The timer ticks; epoll_wait returns one descriptor at a time and turns to the
\* others before it returns to that one, so that no ready connection starves;
\* and a client that has not left goes on sending.
FairSpec == Spec /\ WF_vars(Timer) /\ \A c \in Conns : WF_vars(Event(c))

-----------------------------------------------------------------------------
(* Properties.                                                             *)

\* The content of a request under way is shorter than its Content-Length: a
\* request that has all of it is answered and cleared.
TypeOK ==
  /\ server \in {"no_init", "wait", "idle"}
  /\ slot \in [Slots -> Conns \union {Nil}]
  /\ line \in [Slots -> Seq(Unit)]
  /\ req \in [Slots -> Request]
  /\ \A s \in Slots : req[s].content # <<>> => Len(req[s].content) < req[s].length
  /\ closeReq \in [Slots -> BOOLEAN]
  /\ pass \in BOOLEAN /\ age \in Nat
  /\ store \in [ssid : Conns \union {Nil}, psk : Conns \union {Nil}]
  /\ told \in Conns \union {Nil}
  /\ conn \in [Conns -> {"coming", "open", "closed"}]
  /\ kind \in [Conns -> Kinds]
  /\ pos \in [Conns -> Nat]
  /\ left \subseteq Conns /\ torn \subseteq Conns /\ faults \in Nat

\* No descriptor leaks and none is held twice: a connection is open exactly when
\* one slot holds it.
SlotsMatch ==
  /\ \A c \in Conns : conn[c] = "open" <=> \E s \in Slots : slot[s] = c
  /\ \A s, t \in Slots : slot[s] = slot[t] /\ slot[s] # Nil => s = t

\* A request is made of its own client's units only, and no client is closed by
\* a mark that is not its own, whatever the client before left in the slot.
OwnUnits ==
  \A s \in Slots : slot[s] # Nil =>
     /\ \A n \in DOMAIN line[s] : line[s][n].of = slot[s]
     /\ \A n \in DOMAIN req[s].content : req[s].content[n].of = slot[s]
     /\ req[s].path # Nil => req[s].path = kind[slot[s]]
     /\ ~closeReq[s]

\* Whoever is told that saving succeeded (web.c:664) has both the SSID and the
\* password of the form in the store.
SavedAsSent == told # Nil => store = [ssid |-> told, psk |-> told]

\* It holds however the network cuts the stream, but for one cut: the form in
\* part with the end of its head.
SavedUnlessTorn == told \notin torn => SavedAsSent

\* A save is accepted less than 120 s after a correct password.  The one
\* exception is the clock's: with no POST in between to end the login, it counts
\* as fresh again when systick_get has gone round (49 days).
SaveNeedsLogin ==
  [][told' # told => pass /\ (age < LoginTime \/ age >= Wrap)]_vars

\* Every client that comes is answered, refused or let go in the end; no
\* slot is held for ever by one that sends its request or leaves.
Served == \A c \in Conns : (conn[c] = "coming") ~> (conn[c] = "closed")

=============================================================================
