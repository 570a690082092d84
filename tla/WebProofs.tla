----------------------------- MODULE WebProofs -----------------------------
(***************************************************************************)
(* Proofs about Web for any number of slots and connections and whatever   *)
(* the clients ask for: slots and open connections agree (SlotsMatch), and *)
(* a save needs a login (SaveNeedsLogin).                                  *)
(***************************************************************************)
EXTENDS Web, WellFoundedInduction, TLAPS

\* What the slots, the connections and the login need for both.
TableType ==
  /\ slot \in [Slots -> Conns \union {Nil}]
  /\ conn \in [Conns -> {"coming", "open", "closed"}]

TableInv == TableType /\ SlotsMatch

-----------------------------------------------------------------------------
(* The free slot with the least index.                                     *)

LEMMA LeastExists ==
  ASSUME NEW T, T \subseteq Nat, T # {}
  PROVE  \E x \in T : \A y \in T : x <= y
<1> DEFINE R == {ss \in Nat \X Nat : ss[1] < ss[2]}
<1>1. IsWellFoundedOn(R, Nat)
  BY NatLessThanWellFounded, Zenon DEF OpToRel
<1>2. \E x \in T : \A y \in T : ~ (<<y, x>> \in R)
  <2> HIDE DEF R
  <2> QED
    BY <1>1, WFMin, Zenon
<1>3. PICK x \in T : \A y \in T : ~ (<<y, x>> \in R)
  BY <1>2
<1>4. ASSUME NEW y \in T PROVE x <= y
  <2>1. <<y, x>> \in Nat \X Nat /\ ~(<<y, x>> \in R)
    BY <1>3
  <2>2. ~(y < x)
    BY <2>1
  <2> QED
    BY <2>1, <2>2
<1> QED
  BY <1>4

LEMMA FirstFreeIsFree ==
  ASSUME Free # {}
  PROVE  FirstFree \in Slots /\ slot[FirstFree] = Nil
<1>1. Free \subseteq Nat
  BY WebAssumption DEF Free, Slots
<1>2. \E s \in Free : \A t \in Free : s <= t
  BY <1>1, LeastExists
<1>3. FirstFree \in Free
  BY <1>2, Zenon DEF FirstFree
<1> QED
  BY <1>3 DEF Free

-----------------------------------------------------------------------------
(* What can happen to slots and connections.                               *)

LEMMA SameTable ==
  ASSUME TableInv, slot' = slot, conn' = conn
  PROVE  TableInv'
  BY DEF TableInv, TableType, SlotsMatch

LEMMA NeverOpened ==
  ASSUME TableInv, NEW c \in Conns, conn[c] = "coming",
         slot' = slot, conn' = [conn EXCEPT ![c] = "closed"]
  PROVE  TableInv'
  BY DEF TableInv, TableType, SlotsMatch

LEMMA Opened ==
  ASSUME TableInv, NEW c \in Conns, conn[c] = "coming",
         NEW s \in Slots, slot[s] = Nil,
         slot' = [slot EXCEPT ![s] = c], conn' = [conn EXCEPT ![c] = "open"]
  PROVE  TableInv'
<1>1. c # Nil /\ \A t \in Slots : slot[t] # c
  BY WebAssumption DEF TableInv, TableType, SlotsMatch
<1>2. TableType'
  BY DEF TableInv, TableType
<1>3. /\ \A t \in Slots : slot'[t] = IF t = s THEN c ELSE slot[t]
      /\ \A d \in Conns : conn'[d] = IF d = c THEN "open" ELSE conn[d]
  BY DEF TableInv, TableType
<1>4. \A d \in Conns : conn'[d] = "open" <=> \E t \in Slots : slot'[t] = d
  <2>1. \A d \in Conns : conn[d] = "open" <=> \E t \in Slots : slot[t] = d
    BY DEF TableInv, SlotsMatch
  <2>2. ASSUME NEW d \in Conns, d # c
        PROVE  (\E t \in Slots : slot'[t] = d) <=> (\E t \in Slots : slot[t] = d)
    BY <1>3, <2>2, WebAssumption
  <2>3. conn'[c] = "open" /\ slot'[s] = c
    BY <1>3
  <2> QED
    BY <1>3, <2>1, <2>2, <2>3
<1>5. \A t, u \in Slots : slot'[t] = slot'[u] /\ slot'[t] # Nil => t = u
  BY <1>1, <1>3 DEF TableInv, SlotsMatch
<1> QED
  BY <1>2, <1>4, <1>5 DEF TableInv, SlotsMatch

LEMMA Closed ==
  ASSUME TableInv, NEW s \in Slots, slot[s] # Nil, Close(s)
  PROVE  TableInv'
<1> DEFINE c == slot[s]
<1>1. c \in Conns
  BY DEF TableInv, TableType
<1>2. TableType'
  BY DEF TableInv, TableType, Close
<1>3. /\ \A t \in Slots : slot'[t] = IF t = s THEN Nil ELSE slot[t]
      /\ \A d \in Conns : conn'[d] = IF d = c THEN "closed" ELSE conn[d]
  BY DEF TableInv, TableType, Close
<1>4. \A t \in Slots : t # s => slot[t] # c
  BY DEF TableInv, SlotsMatch
<1>5. \A d \in Conns : conn'[d] = "open" <=> \E t \in Slots : slot'[t] = d
  <2>1. \A d \in Conns : conn[d] = "open" <=> \E t \in Slots : slot[t] = d
    BY DEF TableInv, SlotsMatch
  <2>2. ASSUME NEW d \in Conns, d # c
        PROVE  (\E t \in Slots : slot'[t] = d) <=> (\E t \in Slots : slot[t] = d)
    BY <1>3, <2>2, WebAssumption
  <2>3. conn'[c] = "closed" /\ \A t \in Slots : slot'[t] # c
    BY <1>1, <1>3, <1>4, WebAssumption
  <2> QED
    BY <1>3, <2>1, <2>2, <2>3
<1>6. \A t, u \in Slots : slot'[t] = slot'[u] /\ slot'[t] # Nil => t = u
  BY <1>3 DEF TableInv, SlotsMatch
<1> QED
  BY <1>2, <1>5, <1>6 DEF TableInv, SlotsMatch

LEMMA AllClosed ==
  ASSUME TableInv, slot' = [t \in Slots |-> Nil],
         conn' = [c \in Conns |-> IF conn[c] = "open" THEN "closed" ELSE conn[c]]
  PROVE  TableInv'
  BY WebAssumption DEF TableInv, TableType, SlotsMatch

-----------------------------------------------------------------------------
LEMMA TableInit == Init => TableInv
  BY WebAssumption DEF Init, TableInv, TableType, SlotsMatch

LEMMA EventStep ==
  ASSUME TableInv, NEW c \in Conns, Event(c)
  PROVE  TableInv'
<1>1. CASE Accept(c)
  <2>1. FirstFree \in Slots /\ slot[FirstFree] = Nil
    BY <1>1, FirstFreeIsFree DEF Accept
  <2> QED
    BY <1>1, <2>1, Opened DEF Accept, TakeSlot
<1>2. CASE Refuse(c)
  BY <1>2, NeverOpened DEF Refuse, table
<1>3. ASSUME NEW s \in Slots, Receive(s)
      PROVE  TableInv'
  <2>1. slot[s] # Nil
    BY <1>3, Zenon DEF Receive
  <2>2. Close(s) \/ (slot' = slot /\ conn' = conn)
    BY <1>3, Zenon DEF Receive
  <2> QED
    BY <2>1, <2>2, Closed, SameTable
<1>4. ASSUME NEW s \in Slots, ReceiveReboot(s)
      PROVE  TableInv'
  BY <1>4, AllClosed DEF ReceiveReboot
<1>5. ASSUME NEW s \in Slots, slot[s] = c, RemoteClose(s)
      PROVE  TableInv'
  BY <1>5, Closed, WebAssumption DEF RemoteClose
<1> QED
  BY <1>1, <1>2, <1>3, <1>4, <1>5 DEF Event

LEMMA TableStep == TableInv /\ [Next]_vars => TableInv'
<1> SUFFICES ASSUME TableInv, [Next]_vars PROVE TableInv'
  OBVIOUS
<1>1. CASE Timer \/ ServerInitFails \/ Elapse
  BY <1>1, SameTable DEF Timer, ServerInit, ServerRetry, ServerInitFails, Elapse, table
<1>2. ASSUME NEW c \in Conns, Event(c) PROVE TableInv'
  BY <1>2, EventStep
<1>3. ASSUME NEW c \in Conns, AcceptFails(c) PROVE TableInv'
  BY <1>3, NeverOpened DEF AcceptFails
<1>4. ASSUME NEW c \in Conns, Leave(c) PROVE TableInv'
  BY <1>4, SameTable DEF Leave, table
<1>5. CASE UNCHANGED vars
  BY <1>5, SameTable DEF vars
<1> QED
  BY <1>1, <1>2, <1>3, <1>4, <1>5 DEF Next

\* No descriptor leaks and none is held twice, for any number of slots: a
\* connection is open exactly when one slot holds it.
THEOREM SlotsAgree == Spec => []SlotsMatch
<1>1. TableInv => SlotsMatch
  BY DEF TableInv
<1> QED
  BY <1>1, TableInit, TableStep, PTL DEF Spec

-----------------------------------------------------------------------------
(* The login.                                                              *)

Allowed == pass /\ (age < LoginTime \/ age >= Wrap)

LEMMA SmallMod ==
  ASSUME NEW a \in Nat, NEW w \in Nat, a < w
  PROVE  a % w = a
  OBVIOUS

LEMMA FreshIsAllowed ==
  ASSUME age \in Nat, Fresh
  PROVE  Allowed
<1>1. CASE age < Wrap
  <2>1. age % Wrap = age
    BY <1>1, SmallMod, WebAssumption
  <2> QED
    BY <2>1 DEF Fresh, Allowed
<1>2. CASE ~(age < Wrap)
  BY <1>2, WebAssumption DEF Fresh, Allowed
<1> QED
  BY <1>1, <1>2

\* Whatever is asked, only a save tells anyone that it saved.
LEMMA RequestStep ==
  ASSUME age \in Nat, NEW c, NEW k, NEW form, ReqProcess(c, k, form)
  PROVE  age' \in Nat /\ (told' # told => Allowed)
<1>1. ASSUME Expire
      PROVE  age' \in Nat /\ (Fresh \/ pass' = FALSE)
  BY <1>1 DEF Expire, Forget, login
<1>2. CASE k \in {"login", "wrong_login"}
  <2>1. ReqLogin(k, form)
    BY <1>2 DEF ReqProcess
  <2>2. told' = told /\ (age' = 0 \/ Expire)
    BY <2>1, Zenon DEF ReqLogin, result
  <2>3. CASE age' = 0
    BY <2>2, <2>3
  <2>4. CASE Expire
    BY <1>1, <2>2, <2>4
  <2> QED
    BY <2>2, <2>3, <2>4
<1>3. CASE k = "save"
  <2>1. ReqSave(c, form)
    BY <1>3 DEF ReqProcess
  <2>2. Expire /\ (~pass' => told' = told)
    BY <2>1, Zenon DEF ReqSave, result
  <2>3. age' \in Nat /\ (Fresh \/ ~pass')
    BY <1>1, <2>2
  <2>4. CASE Fresh
    BY <2>3, <2>4, FreshIsAllowed
  <2>5. CASE ~pass'
    BY <2>2, <2>3, <2>5
  <2> QED
    BY <2>3, <2>4, <2>5
<1>4. CASE k \in {"mac", "bad_mac"}
  <2>1. Expire /\ told' = told
    BY <1>4 DEF ReqProcess, result
  <2> QED
    BY <1>1, <2>1
<1>5. CASE k \notin {"login", "wrong_login", "save", "mac", "bad_mac"}
  BY <1>5 DEF ReqProcess, login, result
<1> QED
  BY <1>2, <1>3, <1>4, <1>5

LEMMA LoginStep ==
  ASSUME age \in Nat, [Next]_vars
  PROVE  age' \in Nat /\ (told' # told => Allowed)
<1>1. CASE Timer \/ ServerInitFails \/ Elapse
  BY <1>1 DEF Timer, ServerInit, ServerRetry, ServerInitFails, Elapse, login, result
<1>2. ASSUME NEW c \in Conns, Accept(c) \/ Refuse(c) \/ AcceptFails(c) \/ Leave(c)
      PROVE  age' = age /\ told' = told
  BY <1>2 DEF Accept, Refuse, AcceptFails, Leave, login, result
<1>3. ASSUME NEW s \in Slots, Receive(s)
      PROVE  age' \in Nat /\ (told' # told => Allowed)
  <2>1. \/ \E k, form : ReqProcess(slot[s], k, form)
        \/ UNCHANGED <<login, result>>
    BY <1>3, Zenon DEF Receive
  <2> QED
    BY <2>1, RequestStep DEF login, result
<1>4. ASSUME NEW s \in Slots, ReceiveReboot(s) \/ RemoteClose(s)
      PROVE  age' \in Nat /\ told' = told
  BY <1>4 DEF ReceiveReboot, RemoteClose, Forget, login, result
<1>5. CASE UNCHANGED vars
  BY <1>5 DEF vars
<1> QED
  BY <1>1, <1>2, <1>3, <1>4, <1>5 DEF Next, Event

\* A save is accepted only under a login whose age is less than 120 s, or at
\* least one round of the clock, whatever the clients ask in whatever pieces.
THEOREM SaveUnderLogin == Spec => SaveNeedsLogin
<1>1. Init => age \in Nat
  BY DEF Init
<1>2. age \in Nat /\ [Next]_vars => (age \in Nat)'
  BY LoginStep
<1>3. age \in Nat /\ [Next]_vars
        => [told' # told => pass /\ (age < LoginTime \/ age >= Wrap)]_vars
  BY LoginStep DEF Allowed
<1> QED
  BY <1>1, <1>2, <1>3, PTL DEF Spec, SaveNeedsLogin

=============================================================================
