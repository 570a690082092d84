-------------------------- MODULE WebRequestProofs --------------------------
(***************************************************************************)
(* Proofs about the requests of Web, for any number of slots and clients,  *)
(* whatever they ask for and wherever the network cuts their streams:      *)
(* TypeOK, OwnUnits and SavedUnlessTorn.                                   *)
(*                                                                         *)
(* The two loops of __recv_process are recursive functions.  That such a   *)
(* function exists, and what each step keeps, is proved with the least-    *)
(* number principle (LeastExists) in place of induction (UpExists,         *)
(* UpValues, DownExists, DownValues).  With it:                            *)
(*   - RecvOwn: a line, a request and what is asked are made of the        *)
(*     client's own units, whatever the read holds;                        *)
(*   - SavePart, SaveWhole: for a save whose head and form do not come     *)
(*     torn, the machine holds exactly what its units so far make of them. *)
(* WebInv collects both for every slot, and its proof has one lemma for    *)
(* each kind of step.                                                      *)
(***************************************************************************)
EXTENDS WebProofs, SequenceTheorems

-----------------------------------------------------------------------------
(* Recursive functions over 0 .. N.  The least-number principle stands in  *)
(* for induction: what holds of a set of naturals is first-order.          *)

LEMMA Inductive ==
  ASSUME NEW A, 0 \in A, \A n \in Nat : n \in A => n + 1 \in A
  PROVE  Nat \subseteq A
<1> SUFFICES ASSUME Nat \ A # {} PROVE FALSE
  OBVIOUS
<1>1. PICK x \in Nat \ A : \A y \in Nat \ A : x <= y
  <2>1. Nat \ A \subseteq Nat
    OBVIOUS
  <2> QED
    BY <2>1, LeastExists
<1>2. x # 0 /\ x - 1 \in Nat /\ x - 1 \in A
  BY <1>1
<1> QED
  BY <1>1, <1>2

\* A function that goes on from n - 1 to n exists, and what each step keeps
\* holds of each value.
GoesUp(r, N, base, F) == r[0] = base /\ \A n \in 1 .. N : r[n] = F[n][r[n - 1]]

IsUp(r, N, base, F) == r = [n \in 0 .. N |-> IF n = 0 THEN base ELSE F[n][r[n - 1]]]

LEMMA UpExists ==
  ASSUME NEW N \in Nat, NEW base, NEW F
  PROVE  \E r : IsUp(r, N, base, F)
<1> DEFINE Is(r, m) == r[0] = base /\ \A n \in 1 .. m : r[n] = F[n][r[n - 1]]
           A == {m \in Nat : m <= N => \E r : r = [n \in 0 .. m |-> r[n]] /\ Is(r, m)}
<1>1. 0 \in A
  <2> DEFINE r == [n \in 0 .. 0 |-> base]
  <2>1. r = [n \in 0 .. 0 |-> r[n]] /\ Is(r, 0)
    OBVIOUS
  <2> QED
    BY <2>1
<1>2. ASSUME NEW m \in Nat, m \in A PROVE m + 1 \in A
  <2> SUFFICES ASSUME m + 1 <= N
               PROVE  \E r : r = [n \in 0 .. m + 1 |-> r[n]] /\ Is(r, m + 1)
    OBVIOUS
  <2>1. PICK r : r = [n \in 0 .. m |-> r[n]] /\ Is(r, m)
    BY <1>2
  <2> DEFINE q == [n \in 0 .. m + 1 |-> IF n = m + 1 THEN F[n][r[m]] ELSE r[n]]
  <2>2. q = [n \in 0 .. m + 1 |-> q[n]]
    OBVIOUS
  <2>3. /\ \A n \in 0 .. m : q[n] = r[n]
        /\ q[m + 1] = F[m + 1][r[m]]
    OBVIOUS
  <2>4. Is(q, m + 1)
    <3> HIDE DEF q
    <3>1. q[0] = base
      BY <2>1, <2>3
    <3>2. ASSUME NEW n \in 1 .. m + 1 PROVE q[n] = F[n][q[n - 1]]
      <4>1. CASE n = m + 1
        BY <2>3, <4>1
      <4>2. CASE n # m + 1
        <5>1. n \in 1 .. m /\ n \in 0 .. m /\ n - 1 \in 0 .. m
          BY <4>2
        <5>2. q[n] = r[n] /\ q[n - 1] = r[n - 1] /\ r[n] = F[n][r[n - 1]]
          BY <2>1, <2>3, <5>1
        <5> QED
          BY <5>2
      <4> QED
        BY <4>1, <4>2
    <3> QED
      BY <3>1, <3>2
  <2> HIDE DEF q
  <2> QED
    BY <2>2, <2>4
<1>3. N \in A
  <2> HIDE DEF A
  <2> QED
    BY <1>1, <1>2, Inductive
<1>4. \E r : r = [n \in 0 .. N |-> IF n = 0 THEN base ELSE F[n][r[n - 1]]]
  <2>1. PICK r : r = [n \in 0 .. N |-> r[n]] /\ Is(r, N)
    BY <1>3
  <2>2. ASSUME NEW n \in 0 .. N
        PROVE  r[n] = IF n = 0 THEN base ELSE F[n][r[n - 1]]
    <3>1. n # 0 => n \in 1 .. N
      OBVIOUS
    <3> QED
      BY <2>1, <3>1
  <2>3. r = [n \in 0 .. N |-> IF n = 0 THEN base ELSE F[n][r[n - 1]]]
    BY <2>1, <2>2
  <2> QED
    BY <2>3
<1> QED
  BY <1>4 DEF IsUp

LEMMA UpValues ==
  ASSUME NEW N \in Nat, NEW good, NEW base \in good[0], NEW F, NEW r, GoesUp(r, N, base, F),
         \A n \in 1 .. N : \A x \in good[n - 1] : F[n][x] \in good[n]
  PROVE  \A n \in 0 .. N : r[n] \in good[n]
<1> DEFINE B == {m \in Nat : m <= N => r[m] \in good[m]}
<1>1. 0 \in B
  BY DEF GoesUp
<1>2. ASSUME NEW m \in Nat, m \in B PROVE m + 1 \in B
  BY <1>2 DEF GoesUp
<1>3. Nat \subseteq B
  <2> HIDE DEF B
  <2> QED
    BY <1>1, <1>2, Inductive
<1> QED
  BY <1>3

\* The same for one that goes on from an index to a smaller one, or to the end.
Falls(next, N) ==
  \A i \in 0 .. N : i # N => next[i] = N \/ (next[i] \in 0 .. N /\ next[i] < i)

Keeps(F, N, T) == \A i \in 0 .. N : \A x \in T : F[i][x] \in T

GoesDown(from, N, next, base, F) ==
  from[N] = base /\ \A i \in 0 .. N : i # N => from[i] = F[i][from[next[i]]]

LEMMA DownValues ==
  ASSUME NEW N \in Nat, NEW next, NEW T, NEW base \in T, NEW F, NEW from,
         Falls(next, N), Keeps(F, N, T), GoesDown(from, N, next, base, F)
  PROVE  \A i \in 0 .. N : from[i] \in T
<1> DEFINE B == {m \in Nat : \A i \in 0 .. N : i <= m => from[i] \in T}
<1> USE DEF Falls, Keeps, GoesDown
<1>1. 0 \in B
  <2>1. ASSUME 0 # N PROVE from[0] \in T
    BY <2>1
  <2> QED
    BY <2>1
<1>2. ASSUME NEW m \in Nat, m \in B PROVE m + 1 \in B
  <2>1. ASSUME m + 1 \in 0 .. N, m + 1 # N PROVE from[m + 1] \in T
    <3>1. from[next[m + 1]] \in T
      BY <1>2, <2>1
    <3>2. from[m + 1] = F[m + 1][from[next[m + 1]]]
      BY <2>1
    <3> QED
      BY <2>1, <3>1, <3>2
  <2> QED
    BY <1>2, <2>1
<1>3. Nat \subseteq B
  <2> HIDE DEF B
  <2> QED
    BY <1>1, <1>2, Inductive
<1> QED
  BY <1>3

IsDown(f, N, next, base, F) ==
  f = [i \in 0 .. N |-> IF i = N THEN base ELSE F[i][f[next[i]]]]

LEMMA DownExists ==
  ASSUME NEW N \in Nat, NEW next, NEW base, NEW F, Falls(next, N)
  PROVE  \E f : IsDown(f, N, next, base, F)
<1> DEFINE Is(f, m) == f[N] = base /\ \A i \in 0 .. m : i # N => f[i] = F[i][f[next[i]]]
           A == {m \in Nat : m <= N => \E f : f = [i \in 0 .. N |-> f[i]] /\ Is(f, m)}
<1> USE DEF Falls
<1>1. 0 \in A
  <2> DEFINE f == [i \in 0 .. N |-> IF i = N THEN base ELSE F[i][base]]
  <2>1. f = [i \in 0 .. N |-> f[i]] /\ Is(f, 0)
    OBVIOUS
  <2> HIDE DEF f
  <2> QED
    BY <2>1
<1>2. ASSUME NEW m \in Nat, m \in A PROVE m + 1 \in A
  <2> SUFFICES ASSUME m + 1 <= N
               PROVE  \E f : f = [i \in 0 .. N |-> f[i]] /\ Is(f, m + 1)
    OBVIOUS
  <2>1. PICK f : f = [i \in 0 .. N |-> f[i]] /\ Is(f, m)
    BY <1>2
  <2> DEFINE q == [i \in 0 .. N |-> IF i = N THEN base
                                     ELSE IF i = m + 1 THEN F[i][f[next[i]]] ELSE f[i]]
  <2>2. q = [i \in 0 .. N |-> q[i]]
    OBVIOUS
  <2>3. \A i \in 0 .. m + 1 : i # N => q[next[i]] = f[next[i]]
    BY <2>1
  <2>4. Is(q, m + 1)
    <3>1. q[N] = base
      OBVIOUS
    <3>2. ASSUME NEW i \in 0 .. m + 1, i # N PROVE q[i] = F[i][q[next[i]]]
      <4>1. q[next[i]] = f[next[i]]
        BY <2>3, <3>2
      <4>2. i \in 0 .. N
        OBVIOUS
      <4>3. CASE i = m + 1
        BY <3>2, <4>1, <4>2, <4>3
      <4>4. CASE i # m + 1
        <5>1. i \in 0 .. m /\ q[i] = f[i]
          BY <3>2, <4>2, <4>4
        <5> QED
          BY <2>1, <3>2, <4>1, <5>1
      <4> QED
        BY <4>3, <4>4
    <3> QED
      BY <3>1, <3>2
  <2> HIDE DEF q
  <2> QED
    BY <2>2, <2>4
<1>3. N \in A
  <2> HIDE DEF A
  <2> QED
    BY <1>1, <1>2, Inductive
<1>4. \E f : f = [i \in 0 .. N |-> IF i = N THEN base ELSE F[i][f[next[i]]]]
  <2>1. PICK f : f = [i \in 0 .. N |-> f[i]] /\ Is(f, N)
    BY <1>3
  <2>2. f = [i \in 0 .. N |-> IF i = N THEN base ELSE F[i][f[next[i]]]]
    BY <2>1
  <2> QED
    BY <2>2
<1> QED
  BY <1>4 DEF IsDown

-----------------------------------------------------------------------------
(* What a client's units can make: lines, requests and progress of its own. *)

Own(c) == {u \in Unit : u.of = c}

OwnLine(c) == Seq(Own(c))

\* A request of connection c, which asks for k.
OwnRequest(c, k) ==
  {r \in [state : {"method", "head", "body"}, path : {Nil, k}, length : Nat,
          content : OwnLine(c)] :
     /\ r.state # "method" => r.path = k
     /\ r.content # <<>> => r.state = "body" /\ Len(r.content) < r.length}

OwnAsked(c, k) == Seq([path : {k}, form : OwnLine(c)])

OwnProgress(c, k, n) ==
  [line : OwnLine(c), req : OwnRequest(c, k), bad : BOOLEAN, used : 0 .. n,
   asked : OwnAsked(c, k)]

LEMMA OwnUnit == \A c : Own(c) \subseteq Unit
  BY DEF Own

LEMMA SeqSub ==
  ASSUME NEW S, NEW T, S \subseteq T
  PROVE  Seq(S) \subseteq Seq(T)
  BY SeqMonotonic

LEMMA OwnIsProgress ==
  ASSUME NEW c, NEW k \in Kinds, NEW n \in Nat
  PROVE  OwnRequest(c, k) \subseteq Request /\ OwnProgress(c, k, n) \subseteq Progress
<1>1. OwnLine(c) \subseteq Seq(Unit)
  BY OwnUnit, SeqSub DEF OwnLine
<1>2. OwnRequest(c, k) \subseteq Request
  BY <1>1 DEF OwnRequest, Request
<1>3. OwnAsked(c, k) \subseteq Seq([path : Kinds, form : Seq(Unit)])
  <2> DEFINE S == [path : {k}, form : OwnLine(c)]
             T == [path : Kinds, form : Seq(Unit)]
  <2>1. S \subseteq T
    BY <1>1
  <2>2. Seq(S) \subseteq Seq(T)
    <3> HIDE DEF S, T
    <3> QED
      BY <2>1, SeqSub
  <2> QED
    BY <2>2 DEF OwnAsked
<1>4. ASSUME NEW p \in OwnProgress(c, k, n) PROVE p \in Progress
  <2> DEFINE A == Seq([path : Kinds, form : Seq(Unit)])
             L == Seq(Unit)
  <2>1. OwnLine(c) \subseteq L /\ OwnAsked(c, k) \subseteq A
    BY <1>1, <1>3
  <2>2. p \in [line : L, req : Request, bad : BOOLEAN, used : Nat, asked : A]
    <3> HIDE DEF A, L
    <3> QED
      BY <1>2, <1>4, <2>1 DEF OwnProgress
  <2> QED
    BY <2>2 DEF Progress
<1> QED
  BY <1>2, <1>4

-----------------------------------------------------------------------------
(* The first loop.                                                         *)

LEMMA HeadUnitCases ==
  ASSUME NEW p \in Progress, NEW u
  PROVE  LET got == Append(p.line, u)
             ends == p.req.state = "head" /\ got = <<u>> /\ u.name = "nl" /\ p.req.length = 0
         IN  /\ p.req.state = "body" => HeadUnit(u)[p] = p
             /\ p.req.state # "body" /\ u.name # "nl" =>
                  HeadUnit(u)[p] = [p EXCEPT !.line = got, !.used = @ + 1]
             /\ p.req.state # "body" /\ ends =>
                  HeadUnit(u)[p] = [p EXCEPT !.line = <<>>, !.used = @ + 1, !.req = Cleared,
                                             !.asked = <<[path |-> p.req.path, form |-> <<>>]>>]
             /\ p.req.state # "body" /\ u.name = "nl" /\ ~ends =>
                  HeadUnit(u)[p] =
                    [p EXCEPT !.line = <<>>, !.used = @ + 1, !.req = OnLine(p.req, got[1]),
                              !.bad = @ \/ (p.req.state = "method" /\ got[1].name # "method")]
<1> DEFINE got == Append(p.line, u)
           ends == p.req.state = "head" /\ got = <<u>> /\ u.name = "nl" /\ p.req.length = 0
           q == [p EXCEPT !.line = <<>>, !.used = @ + 1]
<1>1. HeadUnit(u)[p] =
        CASE p.req.state = "body" -> p
          [] p.req.state # "body" /\ u.name # "nl" -> [q EXCEPT !.line = got]
          [] ends -> Complete(q, <<>>)
          [] OTHER -> [q EXCEPT !.req = OnLine(p.req, got[1]),
                                !.bad = @ \/ (p.req.state = "method" /\ got[1].name # "method")]
  BY Zenon DEF HeadUnit
<1>2. CASE p.req.state = "body"
  BY <1>1, <1>2
<1>3. CASE p.req.state # "body" /\ u.name # "nl"
  BY <1>1, <1>3 DEF Progress
<1>4. CASE p.req.state # "body" /\ ends
  <2>1. HeadUnit(u)[p] = Complete(q, <<>>)
    BY <1>1, <1>4
  <2> QED
  BY <1>4, <2>1 DEF Progress, Complete
<1>5. CASE p.req.state # "body" /\ u.name = "nl" /\ ~ends
  <2>1. HeadUnit(u)[p] = [q EXCEPT !.req = OnLine(p.req, got[1]),
                                !.bad = @ \/ (p.req.state = "method" /\ got[1].name # "method")]
    BY <1>1, <1>5
  <2> QED
  BY <1>5, <2>1 DEF Progress
<1> QED
  BY <1>2, <1>3, <1>4, <1>5

LEMMA OnLineOwn ==
  ASSUME NEW c, kind[c] \in Kinds, NEW r \in OwnRequest(c, kind[c]), NEW u \in Own(c)
  PROVE  OnLine(r, u) \in OwnRequest(c, kind[c])
<1> DEFINE k == kind[c]
<1>1. u.of = c /\ Len(Form(k)) \in Nat
  BY DEF Own, Form, Kinds
<1>2. CASE r.state = "method" /\ u.name = "method"
  BY <1>1, <1>2 DEF OnLine, OwnRequest
<1>3. CASE r.state = "head" /\ u.name = "length"
  BY <1>1, <1>3 DEF OnLine, OwnRequest
<1>4. CASE r.state = "head" /\ u.name = "nl" /\ r.length # 0
  BY <1>1, <1>4 DEF OnLine, OwnRequest
<1>5. CASE /\ ~(r.state = "method" /\ u.name = "method")
           /\ ~(r.state = "head" /\ u.name = "length")
           /\ ~(r.state = "head" /\ u.name = "nl" /\ r.length # 0)
  BY <1>5 DEF OnLine
<1> QED
  BY <1>2, <1>3, <1>4, <1>5

LEMMA ClearedOwn == \A c, k : Cleared \in OwnRequest(c, k)
  BY EmptySeq DEF Cleared, OwnRequest, OwnLine

LEMMA StayProgress ==
  ASSUME NEW c, NEW k, NEW n \in Nat, NEW p \in OwnProgress(c, k, n)
  PROVE  p \in OwnProgress(c, k, n + 1)
<1> DEFINE U == 0 .. n
           V == 0 .. n + 1
           v == p.used + 1
<1>1. v \in V /\ U \subseteq V
  BY DEF OwnProgress
<1>2. p \in [line : OwnLine(c), req : OwnRequest(c, k), bad : BOOLEAN, used : U,
             asked : OwnAsked(c, k)]
  BY DEF OwnProgress
<1>3. p \in
        [line : OwnLine(c), req : OwnRequest(c, k), bad : BOOLEAN, used : V,
         asked : OwnAsked(c, k)]
  <2> HIDE DEF U, V, v
  <2> QED
    BY <1>1, <1>2
<1> QED
  BY <1>3 DEF OwnProgress

LEMMA LineProgress ==
  ASSUME NEW c, NEW k, NEW n \in Nat, NEW p \in OwnProgress(c, k, n),
         NEW l \in OwnLine(c)
  PROVE  [p EXCEPT !.line = l, !.used = @ + 1] \in OwnProgress(c, k, n + 1)
<1> DEFINE U == 0 .. n
           V == 0 .. n + 1
           v == p.used + 1
<1>1. v \in V /\ U \subseteq V
  BY DEF OwnProgress
<1>2. p \in [line : OwnLine(c), req : OwnRequest(c, k), bad : BOOLEAN, used : U,
             asked : OwnAsked(c, k)]
  BY DEF OwnProgress
<1>3. [p EXCEPT !.line = l, !.used = v] \in
        [line : OwnLine(c), req : OwnRequest(c, k), bad : BOOLEAN, used : V,
         asked : OwnAsked(c, k)]
  <2> HIDE DEF U, V, v
  <2> QED
    BY <1>1, <1>2
<1> QED
  BY <1>3 DEF OwnProgress

LEMMA AskedProgress ==
  ASSUME NEW c, NEW k, NEW n \in Nat, NEW p \in OwnProgress(c, k, n),
         NEW l \in OwnLine(c), NEW r \in OwnRequest(c, k), NEW a \in OwnAsked(c, k)
  PROVE  [p EXCEPT !.line = l, !.used = @ + 1, !.req = r, !.asked = a] \in OwnProgress(c, k, n + 1)
<1> DEFINE U == 0 .. n
           V == 0 .. n + 1
           v == p.used + 1
<1>1. v \in V /\ U \subseteq V
  BY DEF OwnProgress
<1>2. p \in [line : OwnLine(c), req : OwnRequest(c, k), bad : BOOLEAN, used : U,
             asked : OwnAsked(c, k)]
  BY DEF OwnProgress
<1>3. [p EXCEPT !.line = l, !.used = v, !.req = r, !.asked = a] \in
        [line : OwnLine(c), req : OwnRequest(c, k), bad : BOOLEAN, used : V,
         asked : OwnAsked(c, k)]
  <2> HIDE DEF U, V, v
  <2> QED
    BY <1>1, <1>2
<1> QED
  BY <1>3 DEF OwnProgress

LEMMA RequestProgress ==
  ASSUME NEW c, NEW k, NEW n \in Nat, NEW p \in OwnProgress(c, k, n),
         NEW l \in OwnLine(c), NEW r \in OwnRequest(c, k), NEW b \in BOOLEAN
  PROVE  [p EXCEPT !.line = l, !.used = @ + 1, !.req = r, !.bad = b] \in OwnProgress(c, k, n + 1)
<1> DEFINE U == 0 .. n
           V == 0 .. n + 1
           v == p.used + 1
<1>1. v \in V /\ U \subseteq V
  BY DEF OwnProgress
<1>2. p \in [line : OwnLine(c), req : OwnRequest(c, k), bad : BOOLEAN, used : U,
             asked : OwnAsked(c, k)]
  BY DEF OwnProgress
<1>3. [p EXCEPT !.line = l, !.used = v, !.req = r, !.bad = b] \in
        [line : OwnLine(c), req : OwnRequest(c, k), bad : BOOLEAN, used : V,
         asked : OwnAsked(c, k)]
  <2> HIDE DEF U, V, v
  <2> QED
    BY <1>1, <1>2
<1> QED
  BY <1>3 DEF OwnProgress

LEMMA HeadUnitOwn ==
  ASSUME NEW c, kind[c] \in Kinds, NEW n \in Nat, NEW p \in OwnProgress(c, kind[c], n),
         NEW u \in Own(c)
  PROVE  HeadUnit(u)[p] \in OwnProgress(c, kind[c], n + 1)
<1> DEFINE k == kind[c]
           got == Append(p.line, u)
           ends == p.req.state = "head" /\ got = <<u>> /\ u.name = "nl" /\ p.req.length = 0
<1>1. p \in Progress
  BY OwnIsProgress
<1>2. /\ p.line \in OwnLine(c) /\ p.req \in OwnRequest(c, k) /\ p.bad \in BOOLEAN
      /\ p.used \in 0 .. n /\ p.asked \in OwnAsked(c, k)
  BY DEF OwnProgress
<1>3. got \in OwnLine(c) /\ got[1] \in Own(c) /\ <<>> \in OwnLine(c)
  BY <1>2 DEF OwnLine
<1>4. CASE p.req.state = "body"
  <2>1. HeadUnit(u)[p] = p
    BY <1>1, <1>4, HeadUnitCases
  <2> QED
    BY <1>2, <2>1, StayProgress
<1>5. CASE p.req.state # "body" /\ u.name # "nl"
  <2>1. HeadUnit(u)[p] = [p EXCEPT !.line = got, !.used = @ + 1]
    BY <1>1, <1>5, HeadUnitCases
  <2> QED
    <3>1. got \in OwnLine(c)
      BY <1>3
    <3> HIDE DEF k, got, ends
    <3>2. [p EXCEPT !.line = got, !.used = @ + 1] \in OwnProgress(c, kind[c], n + 1)
      BY <3>1, LineProgress, Zenon
    <3> QED
      BY <2>1, <3>2, Zenon
<1>6. CASE p.req.state # "body" /\ ends
  <2>1. HeadUnit(u)[p] = [p EXCEPT !.line = <<>>, !.used = @ + 1, !.req = Cleared,
                                   !.asked = <<[path |-> p.req.path, form |-> <<>>]>>]
    BY <1>1, <1>6, HeadUnitCases
  <2>2. p.req.path = k
    BY <1>2, <1>6 DEF OwnRequest
  <2>3. <<[path |-> p.req.path, form |-> <<>>]>> \in OwnAsked(c, k)
    BY <1>3, <2>2 DEF OwnAsked
  <2> DEFINE l == <<>>
             a == <<[path |-> p.req.path, form |-> <<>>]>>
  <2>4. HeadUnit(u)[p] = [p EXCEPT !.line = l, !.used = @ + 1, !.req = Cleared, !.asked = a]
        /\ l \in OwnLine(c) /\ Cleared \in OwnRequest(c, k) /\ a \in OwnAsked(c, k)
    BY <1>3, <2>1, <2>3, ClearedOwn
  <2> HIDE DEF l, a, k, got, ends
  <2>5. [p EXCEPT !.line = l, !.used = @ + 1, !.req = Cleared, !.asked = a]
          \in OwnProgress(c, k, n + 1)
    BY <1>2, <2>4, AskedProgress, Zenon DEF k
  <2> QED
    BY <2>4, <2>5, Zenon DEF k
<1>7. CASE p.req.state # "body" /\ u.name = "nl" /\ ~ends
  <2>1. HeadUnit(u)[p] =
          [p EXCEPT !.line = <<>>, !.used = @ + 1, !.req = OnLine(p.req, got[1]),
                    !.bad = @ \/ (p.req.state = "method" /\ got[1].name # "method")]
    BY <1>1, <1>7, HeadUnitCases
  <2>2. OnLine(p.req, got[1]) \in OwnRequest(c, k)
    BY <1>2, <1>3, OnLineOwn
  <2>3. (p.bad \/ (p.req.state = "method" /\ got[1].name # "method")) \in BOOLEAN
    OBVIOUS
  <2> DEFINE l == <<>>
             r == OnLine(p.req, got[1])
             b == p.bad \/ (p.req.state = "method" /\ got[1].name # "method")
  <2>4. HeadUnit(u)[p] = [p EXCEPT !.line = l, !.used = @ + 1, !.req = r, !.bad = b]
        /\ l \in OwnLine(c) /\ r \in OwnRequest(c, k) /\ b \in BOOLEAN
    BY <1>3, <2>1, <2>2, <2>3, Zenon
  <2> HIDE DEF l, r, b, k, got, ends
  <2>5. [p EXCEPT !.line = l, !.used = @ + 1, !.req = r, !.bad = b]
          \in OwnProgress(c, k, n + 1)
    BY <2>4, RequestProgress, Zenon DEF k
  <2> QED
    BY <2>4, <2>5, Zenon DEF k
<1> QED
  BY <1>4, <1>5, <1>6, <1>7

\* The loop goes from unit to unit.
HeadBase(s) == [line |-> line[s], req |-> req[s], bad |-> FALSE, asked |-> <<>>, used |-> 0]

LEMMA HeadLoopRuns ==
  ASSUME NEW s, NEW buf, Len(buf) \in Nat
  PROVE  \E run : /\ HeadLoop(s, buf) = run[Len(buf)]
                  /\ GoesUp(run, Len(buf), HeadBase(s), [n \in 1 .. Len(buf) |-> HeadUnit(buf[n])])
<1> DEFINE N == Len(buf)
           base == HeadBase(s)
           F == [n \in 1 .. N |-> HeadUnit(buf[n])]
           Is(r) == r = [n \in 0 .. N |-> IF n = 0 THEN base ELSE HeadUnit(buf[n])[r[n - 1]]]
           run == CHOOSE r : Is(r)
<1>1. \E r : Is(r)
  <2>1. PICK r : IsUp(r, N, base, F)
    BY UpExists
  <2>2. r = [n \in 0 .. N |-> IF n = 0 THEN base ELSE HeadUnit(buf[n])[r[n - 1]]]
    <3> HIDE DEF base
    <3>1. \A n \in 0 .. N : n # 0 => F[n] = HeadUnit(buf[n])
      OBVIOUS
    <3> QED
      BY <2>1, <3>1 DEF IsUp
  <2> QED
    BY <2>2
<1>2. Is(run)
  BY <1>1, Zenon
<1>3. HeadLoop(s, buf) = run[N]
  BY Zenon DEF HeadLoop, HeadBase
<1>4. GoesUp(run, N, base, F)
  <2> HIDE DEF base, run
  <2>1. \A n \in 0 .. N : run[n] = IF n = 0 THEN base ELSE HeadUnit(buf[n])[run[n - 1]]
    BY <1>2, Zenon
  <2>2. \A n \in 1 .. N : n \in 0 .. N /\ n # 0
    OBVIOUS
  <2> QED
    BY <2>1, <2>2 DEF GoesUp
<1> QED
  BY <1>3, <1>4, Zenon

LEMMA HeadLoopOwn ==
  ASSUME NEW s, NEW c, kind[c] \in Kinds, NEW buf \in OwnLine(c),
         line[s] \in OwnLine(c), req[s] \in OwnRequest(c, kind[c])
  PROVE  HeadLoop(s, buf) \in OwnProgress(c, kind[c], Len(buf))
<1> DEFINE N == Len(buf)
           good == [n \in 0 .. N |-> OwnProgress(c, kind[c], n)]
           base == HeadBase(s)
           F == [n \in 1 .. N |-> HeadUnit(buf[n])]
<1>1. N \in Nat /\ \A n \in 1 .. N : buf[n] \in Own(c)
  BY DEF OwnLine
<1>2. base \in OwnProgress(c, kind[c], 0)
  <2>1. <<>> \in OwnAsked(c, kind[c])
    BY DEF OwnAsked
  <2>2. FALSE \in BOOLEAN /\ 0 \in 0 .. 0
    OBVIOUS
  <2> QED
    BY <2>1, <2>2 DEF OwnProgress, HeadBase
<1>3. PICK run : HeadLoop(s, buf) = run[N] /\ GoesUp(run, N, base, F)
  BY <1>1, HeadLoopRuns, Zenon
<1>4. \A n \in 1 .. N : \A x \in good[n - 1] : F[n][x] \in good[n]
  <2> SUFFICES ASSUME NEW n \in 1 .. N, NEW x \in OwnProgress(c, kind[c], n - 1)
               PROVE  HeadUnit(buf[n])[x] \in OwnProgress(c, kind[c], n)
    BY <1>1
  <2>1. n - 1 \in Nat /\ buf[n] \in Own(c) /\ n - 1 + 1 = n
    BY <1>1
  <2> QED
    BY <2>1, HeadUnitOwn
<1>5. base \in good[0]
  BY <1>1, <1>2
<1>6. \A n \in 0 .. N : run[n] \in good[n]
  <2> HIDE DEF good, base, F
  <2> QED
    BY <1>1, <1>3, <1>4, <1>5, UpValues
<1> QED
  BY <1>1, <1>3, <1>6

-----------------------------------------------------------------------------
(* The second loop.                                                        *)

LEMMA IndexFalls ==
  ASSUME NEW N \in Nat
  PROVE  Falls([i \in 0 .. N |-> NextIndex(i, N - i, N)], N)
  BY DEF Falls, NextIndex

\* The pieces begin with the rest of the read; what follows, when the index goes
\* back, is made of parts of it.
LEMMA PiecesAre ==
  ASSUME NEW V, NEW buf \in Seq(V), NEW i \in 0 .. Len(buf)
  PROVE  /\ i = Len(buf) => Pieces(buf, i) = <<>>
         /\ i # Len(buf) =>
              \E more \in Seq(V) : /\ Pieces(buf, i) = SubSeq(buf, i + 1, Len(buf)) \o more
                                   /\ i = 0 => more = <<>>
<1> DEFINE N == Len(buf)
           next == [j \in 0 .. N |-> NextIndex(j, N - j, N)]
           F == [j \in 0 .. N |-> [q \in Seq(V) |-> SubSeq(buf, j + 1, N) \o q]]
           Is(f) == f = [j \in 0 .. N |-> IF j = N THEN <<>>
                                          ELSE SubSeq(buf, j + 1, N) \o f[NextIndex(j, N - j, N)]]
           from == CHOOSE f : Is(f)
<1>1. N \in Nat
  OBVIOUS
<1>2. \A j \in 0 .. N : SubSeq(buf, j + 1, N) \in Seq(V)
  OBVIOUS
<1>3. Falls(next, N) /\ Keeps(F, N, Seq(V)) /\ <<>> \in Seq(V)
  <2>1. Keeps(F, N, Seq(V))
    BY <1>2 DEF Keeps
  <2> QED
    BY <1>1, <2>1, IndexFalls
<1>4. \E f : Is(f)
  <2>1. PICK f : IsDown(f, N, next, <<>>, F)
    <3> HIDE DEF N, next, F
    <3> QED
      BY <1>1, <1>3, DownExists
  <2>2. GoesDown(f, N, next, <<>>, F)
    <3> HIDE DEF N, next, F
    <3>1. \A j \in 0 .. N : f[j] = IF j = N THEN <<>> ELSE F[j][f[next[j]]]
      BY <2>1, Zenon DEF IsDown
    <3>2. N \in 0 .. N
      BY <1>1
    <3> QED
      BY <3>1, <3>2 DEF GoesDown
  <2>3. \A j \in 0 .. N : f[j] \in Seq(V)
    <3> HIDE DEF N, next, F
    <3> QED
      BY <1>1, <1>3, <2>2, DownValues
  <2>4. f = [j \in 0 .. N |-> IF j = N THEN <<>>
                              ELSE SubSeq(buf, j + 1, N) \o f[NextIndex(j, N - j, N)]]
    <3>1. ASSUME NEW j \in 0 .. N, j # N
          PROVE  F[j][f[next[j]]] = SubSeq(buf, j + 1, N) \o f[NextIndex(j, N - j, N)]
      <4>1. next[j] = NextIndex(j, N - j, N) /\ next[j] \in 0 .. N
        BY <1>1, <1>3, <3>1 DEF Falls
      <4>2. f[next[j]] \in Seq(V)
        BY <2>3, <4>1
      <4> QED
        BY <4>1, <4>2
    <3> HIDE DEF next, F
    <3> QED
      BY <2>1, <3>1 DEF IsDown
  <2> QED
    BY <2>4
<1>5. Is(from)
  BY <1>4, Zenon
<1>6. Pieces(buf, i) = from[i]
  BY Zenon DEF Pieces
<1>7. \A j \in 0 .. N : from[j] = IF j = N THEN <<>>
                                  ELSE SubSeq(buf, j + 1, N) \o from[NextIndex(j, N - j, N)]
  <2> HIDE DEF from
  <2> QED
    BY <1>5, Zenon
<1>8. \A j \in 0 .. N : from[j] \in Seq(V)
  <2> DEFINE Q == Seq(V) \union {from[j] : j \in 0 .. N}
             G == [j \in 0 .. N |-> [q \in Q |-> SubSeq(buf, j + 1, N) \o q]]
  <2>1. GoesDown(from, N, next, <<>>, G)
    <3> HIDE DEF from
    <3>1. ASSUME NEW j \in 0 .. N, j # N PROVE from[j] = G[j][from[next[j]]]
      <4>1. next[j] = NextIndex(j, N - j, N) /\ next[j] \in 0 .. N
        BY <1>1, <1>3, <3>1 DEF Falls
      <4>2. from[next[j]] \in Q
        BY <4>1
      <4>3. G[j][from[next[j]]] = SubSeq(buf, j + 1, N) \o from[next[j]]
        BY <4>2
      <4> QED
        BY <1>7, <3>1, <4>1, <4>3
    <3>2. from[N] = <<>>
      BY <1>1, <1>7
    <3> HIDE DEF G, next
    <3> QED
      BY <3>1, <3>2 DEF GoesDown
  <2>2. Keeps(G, N, Seq(V))
    <3> HIDE DEF from
    <3> QED
      BY <1>2 DEF Keeps
  <2> HIDE DEF N, next, G, from
  <2> QED
    BY <1>1, <1>3, <2>1, <2>2, DownValues
<1> HIDE DEF from, next, F
<1>9. CASE i = N
  BY <1>1, <1>6, <1>7, <1>9
<1>10. CASE i # N
  <2> DEFINE at == NextIndex(i, N - i, N)
  <2>1. at \in 0 .. N /\ (i = 0 => at = N)
    BY <1>1, <1>10 DEF NextIndex
  <2>2. from[at] \in Seq(V) /\ (i = 0 => from[at] = <<>>)
    BY <1>1, <1>7, <1>8, <2>1
  <2>3. Pieces(buf, i) = SubSeq(buf, i + 1, N) \o from[at]
    BY <1>6, <1>7, <1>10
  <2> QED
    BY <1>10, <2>2, <2>3
<1> QED
  BY <1>9, <1>10

LEMMA BodyLoopCases ==
  ASSUME NEW buf, NEW p \in Progress
  PROVE  LET all == p.req.content \o Pieces(buf, p.used)
         IN  /\ p.req.state # "body" => BodyLoop(buf)[p] = p
             /\ p.req.state = "body" /\ Whole(p.req, all) =>
                  BodyLoop(buf)[p] =
                    [p EXCEPT !.req = Cleared,
                              !.asked = <<[path |-> p.req.path,
                                           form |-> SubSeq(all, 1, p.req.length)]>>]
             /\ p.req.state = "body" /\ ~Whole(p.req, all) =>
                  BodyLoop(buf)[p] = [p EXCEPT !.req.content = all]
<1> DEFINE all == p.req.content \o Pieces(buf, p.used)
<1>1. BodyLoop(buf)[p] =
        IF p.req.state # "body" THEN p
        ELSE IF Whole(p.req, all) THEN Complete(p, SubSeq(all, 1, p.req.length))
        ELSE [p EXCEPT !.req.content = all]
  BY Zenon DEF BodyLoop
<1> HIDE DEF all
<1> QED
  BY <1>1, Zenon DEF all, Complete

LEMMA BodyLoopOwn ==
  ASSUME NEW c, NEW k \in Kinds, NEW buf \in OwnLine(c), NEW p \in OwnProgress(c, k, Len(buf))
  PROVE  BodyLoop(buf)[p] \in OwnProgress(c, k, Len(buf))
<1> DEFINE N == Len(buf)
           all == p.req.content \o Pieces(buf, p.used)
<1>1. N \in Nat /\ buf \in Seq(Own(c))
  BY DEF OwnLine
<1>2. p \in Progress /\ p.req \in OwnRequest(c, k) /\ p.used \in 0 .. N
  BY <1>1, OwnIsProgress DEF OwnProgress
<1>3. Pieces(buf, p.used) \in Seq(Own(c))
  <2>1. CASE p.used = N
    BY <1>1, <1>2, <2>1, PiecesAre
  <2>2. CASE p.used # N
    <3>1. PICK more \in Seq(Own(c)) : Pieces(buf, p.used) = SubSeq(buf, p.used + 1, N) \o more
      BY <1>1, <1>2, <2>2, PiecesAre
    <3>2. SubSeq(buf, p.used + 1, N) \in Seq(Own(c))
      BY <1>1, <1>2
    <3> QED
      BY <3>1, <3>2
  <2> QED
    BY <2>1, <2>2
<1>4. p.req.content \in Seq(Own(c)) /\ p.req.length \in Nat
  BY <1>2 DEF OwnRequest, OwnLine
<1>5. all \in Seq(Own(c))
  <2> DEFINE x == p.req.content
             y == Pieces(buf, p.used)
  <2>1. x \in Seq(Own(c)) /\ y \in Seq(Own(c))
    BY <1>3, <1>4
  <2>2. x \o y \in Seq(Own(c))
    <3> HIDE DEF x, y
    <3> QED
      BY <2>1
  <2> QED
    BY <2>2
<1> HIDE DEF all
<1>6. CASE p.req.state # "body"
  <2>1. BodyLoop(buf)[p] = p
    BY <1>2, <1>6, BodyLoopCases, Zenon
  <2> QED
    BY <2>1
<1>7. CASE p.req.state = "body" /\ Whole(p.req, all)
  <2> DEFINE form == SubSeq(all, 1, p.req.length)
             a == <<[path |-> p.req.path, form |-> form]>>
  <2>1. BodyLoop(buf)[p] = [p EXCEPT !.req = Cleared, !.asked = a]
    BY <1>2, <1>7, BodyLoopCases, Zenon DEF all
  <2>2. form \in OwnLine(c)
    BY <1>4, <1>5, <1>7 DEF Whole, OwnLine
  <2>3. p.req.path = k
    BY <1>2, <1>7 DEF OwnRequest
  <2>4. a \in OwnAsked(c, k)
    <3> HIDE DEF form
    <3> QED
      BY <2>2, <2>3 DEF OwnAsked
  <2>5. Cleared \in OwnRequest(c, k)
    BY ClearedOwn
  <2> HIDE DEF a, form
  <2> QED
    BY <2>1, <2>4, <2>5 DEF OwnProgress
<1>8. CASE p.req.state = "body" /\ ~Whole(p.req, all)
  <2>1. BodyLoop(buf)[p] = [p EXCEPT !.req.content = all]
    BY <1>2, <1>8, BodyLoopCases, Zenon DEF all
  <2> DEFINE r == [p.req EXCEPT !.content = all]
  <2>2. r \in OwnRequest(c, k)
    BY <1>2, <1>5, <1>8 DEF OwnRequest, OwnLine, Whole
  <2>3. BodyLoop(buf)[p] = [p EXCEPT !.req = r]
    BY <1>2, <2>1 DEF Progress, Request
  <2> HIDE DEF r
  <2> QED
    BY <2>2, <2>3 DEF OwnProgress
<1> QED
  BY <1>6, <1>7, <1>8

\* Whatever a read holds, the machine makes of it what is the client's own.
LEMMA RecvOwn ==
  ASSUME NEW s, NEW c, kind[c] \in Kinds, NEW buf \in OwnLine(c),
         line[s] \in OwnLine(c), req[s] \in OwnRequest(c, kind[c])
  PROVE  RecvProcess(s, buf) \in OwnProgress(c, kind[c], Len(buf))
  BY HeadLoopOwn, BodyLoopOwn DEF RecvProcess

-----------------------------------------------------------------------------
(* The streams.                                                            *)

LEMMA NameSeqs ==
  /\ <<"method", "nl", "nl">> \in Seq(Names)
  /\ <<"method", "nl", "length", "nl", "nl">> \in Seq(Names)
  /\ <<"pwd">> \in Seq(Names) /\ <<"T0", "T1">> \in Seq(Names) /\ <<"mac">> \in Seq(Names)
  /\ <<>> \in Seq(Names)
<1>1. /\ "method" \in Names /\ "nl" \in Names /\ "length" \in Names /\ "pwd" \in Names
      /\ "T0" \in Names /\ "T1" \in Names /\ "mac" \in Names
  BY DEF Names
<1> QED
  BY <1>1

LEMMA StreamOwn ==
  ASSUME NEW c \in Conns, kind[c] \in Kinds
  PROVE  Stream(c) \in Seq(Own(c))
<1> DEFINE names == Header(kind[c]) \o Form(kind[c])
<1>1. names \in Seq(Names)
  <2>1. Header(kind[c]) \in Seq(Names)
    BY NameSeqs DEF Header
  <2>2. Form(kind[c]) \in Seq(Names)
    BY NameSeqs DEF Form, Kinds
  <2> DEFINE h == Header(kind[c])
             f == Form(kind[c])
  <2>3. h \o f \in Seq(Names)
    <3> HIDE DEF h, f
    <3>1. h \in Seq(Names) /\ f \in Seq(Names)
      BY <2>1, <2>2 DEF h, f
    <3> QED
      BY <3>1
  <2> QED
    BY <2>3
<1> HIDE DEF names
<1>2. \A n \in 1 .. Len(names) : [of |-> c, name |-> names[n]] \in Own(c)
  BY <1>1 DEF Own, Unit
<1>3. Stream(c) = [n \in 1 .. Len(names) |-> [of |-> c, name |-> names[n]]]
  BY Zenon DEF Stream, names
<1>4. Stream(c) \in [1 .. Len(names) -> Own(c)]
  BY <1>2, <1>3
<1>5. Len(names) \in Nat
  BY <1>1
<1> QED
  BY <1>4, <1>5, SeqDef

U(c, n) == [of |-> c, name |-> n]

LEMMA SaveStream ==
  ASSUME NEW c \in Conns, kind[c] = "save"
  PROVE  /\ Len(Stream(c)) = 7 /\ Len(Header("save")) = 5 /\ Len(Form("save")) = 2
         /\ Stream(c)[1] = U(c, "method") /\ Stream(c)[2] = U(c, "nl")
         /\ Stream(c)[3] = U(c, "length") /\ Stream(c)[4] = U(c, "nl")
         /\ Stream(c)[5] = U(c, "nl")
         /\ Stream(c)[6] = U(c, "T0") /\ Stream(c)[7] = U(c, "T1")
<1> DEFINE h == <<"method", "nl", "length", "nl", "nl">>
           f == <<"T0", "T1">>
           names == h \o f
<1>1. h = Header("save") /\ f = Form("save")
  BY DEF Header, Form
<1>2. Len(h) = 5 /\ Len(f) = 2 /\ h \in Seq(Names) /\ f \in Seq(Names)
  BY NameSeqs
<1>3. /\ Len(names) = 7
      /\ names[1] = "method" /\ names[2] = "nl" /\ names[3] = "length" /\ names[4] = "nl"
      /\ names[5] = "nl" /\ names[6] = "T0" /\ names[7] = "T1"
  BY <1>2, ConcatProperties
<1> HIDE DEF names
<1>4. Stream(c) = [n \in 1 .. Len(names) |-> [of |-> c, name |-> names[n]]]
  BY <1>1, Zenon DEF Stream, names
<1>5. Len(Stream(c)) = Len(names)
  BY <1>3, <1>4
<1> QED
  BY <1>1, <1>2, <1>3, <1>4, <1>5 DEF U

LEMMA UnitsOwn ==
  ASSUME NEW c \in Conns, kind[c] \in Kinds, pos[c] \in Nat,
         NEW n \in 1 .. Len(Stream(c)) - pos[c]
  PROVE  /\ Units(c, n) \in Seq(Own(c)) /\ Len(Units(c, n)) = n
         /\ \A j \in 1 .. n : Units(c, n)[j] = Stream(c)[pos[c] + j]
<1> DEFINE st == Stream(c)
           p == pos[c]
<1>1. st \in Seq(Own(c)) /\ p \in Nat
  BY StreamOwn
<1>2. n \in 1 .. Len(st) - p /\ Units(c, n) = SubSeq(st, p + 1, p + n)
  BY DEF Units
<1> HIDE DEF st, p
<1>3. n \in Int /\ n >= 1 /\ p + n <= Len(st)
  BY <1>1, <1>2
<1>4. /\ SubSeq(st, p + 1, p + n) \in Seq(Own(c))
      /\ Len(SubSeq(st, p + 1, p + n)) = n
      /\ \A j \in 1 .. n : SubSeq(st, p + 1, p + n)[j] = st[p + j]
  BY <1>1, <1>3
<1> QED
  BY <1>2, <1>4 DEF st, p

-----------------------------------------------------------------------------
(* A save whose head and form do not come torn: what the machine holds     *)
(* after the first m units, of the five of the head and two of the form.   *)

SaveLine(c, m) ==
  CASE m = 1 -> <<U(c, "method")>> [] m = 3 -> <<U(c, "length")>> [] OTHER -> <<>>

SaveRequest(c, m) ==
  CASE m \in {0, 1} -> Cleared
    [] m \in {2, 3} -> [state |-> "head", path |-> "save", length |-> 0, content |-> <<>>]
    [] m = 4 -> [state |-> "head", path |-> "save", length |-> 2, content |-> <<>>]
    [] m = 5 -> [state |-> "body", path |-> "save", length |-> 2, content |-> <<>>]
    [] m = 6 -> [state |-> "body", path |-> "save", length |-> 2, content |-> <<U(c, "T0")>>]

\* The first loop, begun after p units, when it has come to m units.
SaveHead(c, p, m) ==
  [line |-> SaveLine(c, m), req |-> SaveRequest(c, m), bad |-> FALSE, used |-> m - p,
   asked |-> <<>>]

LEMMA RequestIs ==
  ASSUME NEW c, NEW k, NEW st \in {"method", "head", "body"}, NEW pa \in {Nil, k},
         NEW le \in Nat, NEW co \in OwnLine(c), st # "method" => pa = k,
         co # <<>> => st = "body" /\ Len(co) < le
  PROVE  [state |-> st, path |-> pa, length |-> le, content |-> co] \in OwnRequest(c, k)
  BY DEF OwnRequest

LEMMA SaveTypes ==
  ASSUME NEW c \in Conns, NEW m \in 0 .. 6
  PROVE  SaveLine(c, m) \in OwnLine(c) /\ SaveRequest(c, m) \in OwnRequest(c, "save")
<1>1. \A n \in Names : U(c, n) \in Own(c)
  BY DEF U, Own, Unit
<1>2. U(c, "method") \in Own(c) /\ U(c, "length") \in Own(c) /\ U(c, "T0") \in Own(c)
  BY <1>1 DEF Names
<1>3. /\ <<U(c, "method")>> \in Seq(Own(c)) /\ <<U(c, "length")>> \in Seq(Own(c))
      /\ <<U(c, "T0")>> \in Seq(Own(c)) /\ <<>> \in Seq(Own(c))
      /\ Len(<<U(c, "T0")>>) = 1
  BY <1>2
<1>4. SaveLine(c, m) \in OwnLine(c)
  BY <1>3 DEF SaveLine, OwnLine
<1>5. CASE m \in 0 .. 1
  <2>1. m \in {0, 1}
    BY <1>5
  <2>2. SaveRequest(c, m) = Cleared
    BY <2>1 DEF SaveRequest
  <2> QED
    BY <1>4, <2>2, ClearedOwn
<1>6. CASE m \in 2 .. 6
  <2> DEFINE t == <<U(c, "T0")>>
             e == <<>>
             In(st, le, co) == [state |-> st, path |-> "save", length |-> le, content |-> co]
  <2>1. SaveRequest(c, m) \in {In("head", 0, e), In("head", 2, e), In("body", 2, e),
                               In("body", 2, t)}
    <3>1. m \in {2, 3, 4, 5, 6}
      BY <1>6
    <3> QED
      BY <3>1 DEF SaveRequest
  <2>2. t \in OwnLine(c) /\ Len(t) = 1 /\ e \in OwnLine(c)
    BY <1>3 DEF OwnLine
  <2>3. In("head", 0, e) \in OwnRequest(c, "save") /\ In("head", 2, e) \in OwnRequest(c, "save")
        /\ In("body", 2, e) \in OwnRequest(c, "save")
    BY <2>2, RequestIs
  <2>4. In("body", 2, t) \in OwnRequest(c, "save")
    <3> DEFINE st == "body"
               le == 2
               pa == "save"
    <3>1. /\ t \in OwnLine(c) /\ Len(t) < le /\ le \in Nat /\ pa \in {Nil, "save"} /\ pa = "save"
          /\ st \in {"method", "head", "body"} /\ st = "body"
      BY <2>2
    <3> HIDE DEF t, st, le, pa
    <3>2. [state |-> st, path |-> pa, length |-> le, content |-> t] \in OwnRequest(c, "save")
      BY <3>1, RequestIs
    <3> QED
      BY <3>2 DEF st, le, pa
  <2> HIDE DEF In
  <2> QED
    BY <1>4, <2>1, <2>3, <2>4
<1> QED
  BY <1>5, <1>6

LEMMA SaveHeadType ==
  ASSUME NEW c \in Conns, NEW p \in 0 .. 6, NEW m \in p .. 6
  PROVE  SaveHead(c, p, m) \in Progress
<1>1. SaveLine(c, m) \in OwnLine(c) /\ SaveRequest(c, m) \in OwnRequest(c, "save")
  BY SaveTypes
<1>2. "save" \in Kinds /\ m - p \in 0 .. 6 /\ FALSE \in BOOLEAN
  BY DEF Kinds
<1>3. <<>> \in OwnAsked(c, "save")
  BY DEF OwnAsked
<1>4. SaveHead(c, p, m) \in OwnProgress(c, "save", 6)
  BY <1>1, <1>2, <1>3 DEF SaveHead, OwnProgress
<1> QED
  BY <1>2, <1>4, OwnIsProgress

\* The text of a line, or the end of a line that is no error.
LEMMA HeadText ==
  ASSUME NEW l, NEW r, NEW n, NEW a, NEW u, u.name # "nl", r.state # "body",
         [line |-> l, req |-> r, bad |-> FALSE, used |-> n, asked |-> a] \in Progress
  PROVE  HeadUnit(u)[[line |-> l, req |-> r, bad |-> FALSE, used |-> n, asked |-> a]] =
           [line |-> Append(l, u), req |-> r, bad |-> FALSE, used |-> n + 1, asked |-> a]
<1> DEFINE x == [line |-> l, req |-> r, bad |-> FALSE, used |-> n, asked |-> a]
<1>1. x \in Progress /\ x.req.state # "body" /\ x.line = l
  OBVIOUS
<1>2. HeadUnit(u)[x] = [x EXCEPT !.line = Append(l, u), !.used = @ + 1]
  <2> HIDE DEF x
  <2> QED
    BY <1>1, HeadUnitCases
<1> QED
  BY <1>2

LEMMA HeadNl ==
  ASSUME NEW l, NEW r, NEW n, NEW a, NEW u, u.name = "nl", r.state \in {"method", "head"},
         [line |-> l, req |-> r, bad |-> FALSE, used |-> n, asked |-> a] \in Progress,
         ~(r.state = "head" /\ Append(l, u) = <<u>> /\ r.length = 0),
         r.state = "method" => Append(l, u)[1].name = "method"
  PROVE  HeadUnit(u)[[line |-> l, req |-> r, bad |-> FALSE, used |-> n, asked |-> a]] =
           [line |-> <<>>, req |-> OnLine(r, Append(l, u)[1]), bad |-> FALSE, used |-> n + 1,
            asked |-> a]
<1> DEFINE x == [line |-> l, req |-> r, bad |-> FALSE, used |-> n, asked |-> a]
           t == Append(l, u)[1]
           b == FALSE \/ (r.state = "method" /\ t.name # "method")
<1>1. x \in Progress /\ x.req = r /\ x.line = l /\ x.bad = FALSE
  OBVIOUS
<1>2. HeadUnit(u)[x] = [x EXCEPT !.line = <<>>, !.used = @ + 1, !.req = OnLine(r, t), !.bad = b]
  <2> HIDE DEF x
  <2>1. x.req.state # "body" /\ Append(x.line, u) = Append(l, u)
    BY <1>1
  <2>2. HeadUnit(u)[x] =
          [x EXCEPT !.line = <<>>, !.used = @ + 1, !.req = OnLine(x.req, Append(x.line, u)[1]),
                    !.bad = @ \/ (x.req.state = "method" /\ Append(x.line, u)[1].name # "method")]
    BY <1>1, <2>1, HeadUnitCases, Zenon
  <2> QED
    BY <1>1, <2>2, Zenon
<1>3. b = FALSE
  OBVIOUS
<1> HIDE DEF b, t
<1> QED
  BY <1>2, <1>3 DEF t

\* What the machine does with the lines of the head of a save.
LEMMA SaveOnLine ==
  ASSUME NEW c, kind[c] = "save"
  PROVE  /\ OnLine(SaveRequest(c, 1), U(c, "method")) = SaveRequest(c, 2)
         /\ OnLine(SaveRequest(c, 3), U(c, "length")) = SaveRequest(c, 4)
         /\ OnLine(SaveRequest(c, 4), U(c, "nl")) = SaveRequest(c, 5)
<1>1. OnLine(SaveRequest(c, 1), U(c, "method")) = SaveRequest(c, 2)
  <2> DEFINE t == U(c, "method")
             r == SaveRequest(c, 1)
  <2>1. t.name = "method" /\ kind[t.of] = "save"
    BY DEF U
  <2>2. r = [state |-> "method", path |-> Nil, length |-> 0, content |-> <<>>]
    BY DEF SaveRequest, Cleared
  <2>3. OnLine(r, t) = [r EXCEPT !.state = "head", !.path = kind[t.of]]
    <3> HIDE DEF t, r
    <3> QED
      BY <2>1, <2>2 DEF OnLine
  <2>4. SaveRequest(c, 2) = [state |-> "head", path |-> "save", length |-> 0, content |-> <<>>]
    BY DEF SaveRequest
  <2>5. OnLine(r, t) = SaveRequest(c, 2)
    <3> HIDE DEF t, r
    <3> QED
      BY <2>1, <2>2, <2>3, <2>4
  <2> QED
    BY <2>5, Zenon
<1>2. OnLine(SaveRequest(c, 3), U(c, "length")) = SaveRequest(c, 4)
  <2> DEFINE t == U(c, "length")
             r == SaveRequest(c, 3)
  <2>1. t.name = "length" /\ kind[t.of] = "save" /\ Len(Form("save")) = 2
    BY DEF U, Form
  <2>2. r = [state |-> "head", path |-> "save", length |-> 0, content |-> <<>>]
    BY DEF SaveRequest
  <2>3. OnLine(r, t) = [r EXCEPT !.length = Len(Form(kind[t.of]))]
    <3> HIDE DEF t, r
    <3> QED
      BY <2>1, <2>2 DEF OnLine
  <2>4. SaveRequest(c, 4) = [state |-> "head", path |-> "save", length |-> 2, content |-> <<>>]
    BY DEF SaveRequest
  <2>5. OnLine(r, t) = SaveRequest(c, 4)
    <3> HIDE DEF t, r
    <3> QED
      BY <2>1, <2>2, <2>3, <2>4
  <2> QED
    BY <2>5, Zenon
<1>3. OnLine(SaveRequest(c, 4), U(c, "nl")) = SaveRequest(c, 5)
  BY DEF SaveRequest, OnLine, U
<1> QED
  BY <1>1, <1>2, <1>3

\* Each unit of the head moves it on.
LEMMA SaveHeadStep ==
  ASSUME NEW c \in Conns, kind[c] = "save", NEW p \in 0 .. 4, NEW m \in p .. 4
  PROVE  HeadUnit(Stream(c)[m + 1])[SaveHead(c, p, m)] = SaveHead(c, p, m + 1)
<1> DEFINE x == SaveHead(c, p, m)
           u == Stream(c)[m + 1]
<1>1. x \in Progress
  BY SaveHeadType
<1>2. x = [line |-> SaveLine(c, m), req |-> SaveRequest(c, m), bad |-> FALSE,
           used |-> m - p, asked |-> <<>>]
  BY DEF SaveHead
<1>3. m - p + 1 = m + 1 - p
  OBVIOUS
<1>4. CASE m \in {0, 2}
  <2>1. u = U(c, IF m = 0 THEN "method" ELSE "length")
    <3>1. CASE m = 0
      BY <3>1, SaveStream
    <3>2. CASE m = 2
      BY <3>2, SaveStream
    <3> QED
      BY <1>4, <3>1, <3>2
  <2>5. u.name # "nl" /\ SaveRequest(c, m).state # "body"
    BY <1>4, <2>1 DEF U, SaveRequest, Cleared
  <2>2. HeadUnit(u)[x] = [line |-> Append(SaveLine(c, m), u), req |-> SaveRequest(c, m),
                          bad |-> FALSE, used |-> m - p + 1, asked |-> <<>>]
    <3> HIDE DEF x, u
    <3> QED
      BY <1>1, <1>2, <2>5, HeadText
  <2>3. Append(SaveLine(c, m), u) = SaveLine(c, m + 1)
    <3>1. CASE m = 0
      BY <2>1, <3>1 DEF SaveLine
    <3>2. CASE m = 2
      BY <2>1, <3>2 DEF SaveLine
    <3> QED
      BY <1>4, <3>1, <3>2
  <2>4. SaveRequest(c, m) = SaveRequest(c, m + 1)
    BY <1>4 DEF SaveRequest
  <2> QED
    BY <1>3, <2>2, <2>3, <2>4 DEF SaveHead
<1>5. CASE m \in {1, 3, 4}
  <2> DEFINE t == Append(SaveLine(c, m), u)[1]
  <2>1. u = U(c, "nl")
    <3>1. CASE m = 1
      BY <3>1, SaveStream
    <3>2. CASE m = 3
      BY <3>2, SaveStream
    <3>3. CASE m = 4
      BY <3>3, SaveStream
    <3> QED
      BY <1>5, <3>1, <3>2, <3>3
  <2>10. u.name = "nl"
    BY <2>1 DEF U
  <2>2. SaveRequest(c, m).state \in {"method", "head"}
    BY <1>5 DEF SaveRequest, Cleared
  <2>3. t = IF m = 1 THEN U(c, "method") ELSE IF m = 3 THEN U(c, "length") ELSE U(c, "nl")
    BY <1>5, <2>1 DEF SaveLine
  <2>4. ~(/\ SaveRequest(c, m).state = "head" /\ Append(SaveLine(c, m), u) = <<u>>
          /\ SaveRequest(c, m).length = 0)
    <3>1. CASE m = 1
      BY <3>1 DEF SaveRequest, Cleared
    <3>2. CASE m = 3
      <4>1. Len(Append(SaveLine(c, m), u)) = 2 /\ Len(<<u>>) = 1
        BY <3>2 DEF SaveLine
      <4> QED
        BY <4>1
    <3>3. CASE m = 4
      BY <3>3 DEF SaveRequest
    <3> QED
      BY <1>5, <3>1, <3>2, <3>3
  <2>5. SaveRequest(c, m).state = "method" => t.name = "method"
    BY <1>5, <2>3 DEF SaveRequest, Cleared, U
  <2>6. HeadUnit(u)[x] = [line |-> <<>>, req |-> OnLine(SaveRequest(c, m), t), bad |-> FALSE,
                          used |-> m - p + 1, asked |-> <<>>]
    <3> DEFINE l == SaveLine(c, m)
               r == SaveRequest(c, m)
               a == <<>>
               n == m - p
    <3>1. /\ x = [line |-> l, req |-> r, bad |-> FALSE, used |-> n, asked |-> a]
          /\ r.state \in {"method", "head"}
          /\ ~(r.state = "head" /\ Append(l, u) = <<u>> /\ r.length = 0)
          /\ r.state = "method" => Append(l, u)[1].name = "method"
      BY <1>2, <2>2, <2>4, <2>5
    <3> HIDE DEF x, u, l, r, a, n
    <3>2. HeadUnit(u)[x] = [line |-> <<>>, req |-> OnLine(r, Append(l, u)[1]), bad |-> FALSE,
                            used |-> n + 1, asked |-> a]
      BY <1>1, <2>10, <3>1, HeadNl
    <3> QED
      BY <3>2 DEF l, r, a, n
  <2>7. SaveLine(c, m + 1) = <<>>
    BY <1>5 DEF SaveLine
  <2>8. OnLine(SaveRequest(c, m), t) = SaveRequest(c, m + 1)
    <3> HIDE DEF t
    <3> QED
      BY <1>5, <2>3, SaveOnLine
  <2>9. SaveHead(c, p, m + 1) =
          [line |-> SaveLine(c, m + 1), req |-> SaveRequest(c, m + 1), bad |-> FALSE,
           used |-> m + 1 - p, asked |-> <<>>]
    BY DEF SaveHead
  <2> HIDE DEF t
  <2> QED
    BY <1>3, <2>6, <2>7, <2>8, <2>9, Zenon
<1> QED
  BY <1>4, <1>5

\* How far the first loop, begun after p units, comes with j more.
Reach(p, j) == IF p >= 5 THEN p ELSE IF p + j < 5 THEN p + j ELSE 5

LEMMA SaveHeadLoop ==
  ASSUME NEW s, NEW c \in Conns, kind[c] = "save", NEW p \in 0 .. 6, pos[c] = p,
         NEW n \in 1 .. 7 - p, line[s] = SaveLine(c, p), req[s] = SaveRequest(c, p)
  PROVE  HeadLoop(s, Units(c, n)) = SaveHead(c, p, Reach(p, n))
<1> DEFINE buf == Units(c, n)
           F == [j \in 1 .. n |-> HeadUnit(buf[j])]
           good == [j \in 0 .. n |-> {SaveHead(c, p, Reach(p, j))}]
           base == HeadBase(s)
<1>1. "save" \in Kinds /\ p \in Nat /\ p \in Int /\ n \in Nat /\ n \in Int /\ Len(Stream(c)) = 7
  BY SaveStream DEF Kinds
<1>2. Len(buf) = n /\ \A j \in 1 .. n : buf[j] = Stream(c)[p + j]
  BY <1>1, UnitsOwn
<1>3. PICK run : HeadLoop(s, buf) = run[n] /\ GoesUp(run, n, base, F)
  <2> HIDE DEF buf, base
  <2> QED
    BY <1>1, <1>2, HeadLoopRuns DEF base
<1>4. base \in good[0]
  <2>1. Reach(p, 0) = p /\ p - p = 0
    BY DEF Reach
  <2>2. base = SaveHead(c, p, p)
    BY <2>1 DEF HeadBase, SaveHead
  <2> QED
    BY <1>1, <2>1, <2>2
<1>5. ASSUME NEW j \in 1 .. n
      PROVE  HeadUnit(buf[j])[SaveHead(c, p, Reach(p, j - 1))] = SaveHead(c, p, Reach(p, j))
  <2> DEFINE m == Reach(p, j - 1)
  <2>1. CASE m < 5
    <3>1. p \in 0 .. 4 /\ m = p + j - 1 /\ m \in p .. 4 /\ m + 1 = Reach(p, j) /\ m + 1 = p + j
      BY <1>1, <2>1 DEF Reach
    <3>2. buf[j] = Stream(c)[m + 1]
      BY <1>2, <3>1
    <3> HIDE DEF m, buf
    <3>3. HeadUnit(Stream(c)[m + 1])[SaveHead(c, p, m)] = SaveHead(c, p, m + 1)
      BY <3>1, SaveHeadStep
    <3> QED
      BY <3>1, <3>2, <3>3 DEF m
  <2>2. CASE ~(m < 5)
    <3>1. m \in 5 .. 6 /\ m \in p .. 6 /\ m = Reach(p, j)
      BY <1>1, <2>2 DEF Reach
    <3> HIDE DEF m, buf
    <3>2. SaveHead(c, p, m).req.state = "body"
      <4>1. m \in {5, 6}
        BY <3>1
      <4> QED
        BY <4>1 DEF SaveHead, SaveRequest
    <3>3. SaveHead(c, p, m) \in Progress
      BY <3>1, SaveHeadType
    <3>4. HeadUnit(buf[j])[SaveHead(c, p, m)] = SaveHead(c, p, m)
      BY <3>2, <3>3, HeadUnitCases, Zenon
    <3> QED
      BY <3>1, <3>4 DEF m
  <2> QED
    BY <2>1, <2>2
<1>6. \A j \in 1 .. n : \A x \in good[j - 1] : F[j][x] \in good[j]
  <2> HIDE DEF buf
  <2> SUFFICES ASSUME NEW j \in 1 .. n, NEW x \in good[j - 1] PROVE F[j][x] \in good[j]
    OBVIOUS
  <2>1. x = SaveHead(c, p, Reach(p, j - 1)) /\ F[j] = HeadUnit(buf[j])
        /\ good[j] = {SaveHead(c, p, Reach(p, j))}
    BY <1>1
  <2> HIDE DEF F, good
  <2> QED
    BY <1>5, <2>1
<1>7. run[n] \in good[n]
  <2>1. n \in 0 .. n
    BY <1>1
  <2> HIDE DEF good, base, F
  <2> QED
    BY <1>1, <1>3, <1>4, <1>6, <2>1, UpValues
<1> QED
  BY <1>1, <1>3, <1>7

-----------------------------------------------------------------------------
(* The second loop on a save: what it has of the content.                 *)

LEMMA Concat ==
  ASSUME NEW V, NEW a \in Seq(V), NEW b \in Seq(V)
  PROVE  /\ a \o b \in Seq(V) /\ Len(a \o b) = Len(a) + Len(b)
         /\ \A i \in 1 .. Len(a) : (a \o b)[i] = a[i]
         /\ \A i \in 1 .. Len(b) : (a \o b)[Len(a) + i] = b[i]
<1>1. Len(a) \in Nat /\ Len(b) \in Nat
  OBVIOUS
<1>2. /\ a \o b \in Seq(V) /\ Len(a \o b) = Len(a) + Len(b)
      /\ \A i \in 1 .. Len(a) + Len(b) :
           (a \o b)[i] = IF i <= Len(a) THEN a[i] ELSE b[i - Len(a)]
  BY ConcatProperties
<1> QED
  BY <1>1, <1>2

\* The n elements of x are those of st from p + 1 on.
Copies(x, n, st, p) == \A j \in 1 .. n : x[j] = st[p + j]

\* What the second loop takes of a read whose units are those of st from p + 1
\* on, when d of them are used: at least the rest of the read.
LEMMA RestIs ==
  ASSUME NEW V, NEW st, NEW buf \in Seq(V), NEW p \in Nat, Copies(buf, Len(buf), st, p),
         NEW d \in 0 .. Len(buf)
  PROVE  /\ Pieces(buf, d) \in Seq(V) /\ Len(Pieces(buf, d)) >= Len(buf) - d
         /\ d = 0 \/ d = Len(buf) => Len(Pieces(buf, d)) = Len(buf) - d
         /\ Copies(Pieces(buf, d), Len(buf) - d, st, p + d)
<1> DEFINE n == Len(buf)
           new == Pieces(buf, d)
<1>1. n \in Nat /\ d \in Nat /\ d <= n
  OBVIOUS
<1>2. CASE d = n
  <2>1. new = <<>>
    BY <1>2, PiecesAre
  <2>2. <<>> \in Seq(V) /\ Len(<<>>) = 0
    OBVIOUS
  <2> HIDE DEF new
  <2>3. Copies(new, n - d, st, p + d)
    BY <1>1, <1>2 DEF Copies
  <2> QED
    BY <1>1, <1>2, <2>1, <2>2, <2>3 DEF new
<1>3. CASE d # n
  <2>1. PICK more \in Seq(V) : new = SubSeq(buf, d + 1, n) \o more /\ (d = 0 => more = <<>>)
    BY <1>3, PiecesAre
  <2> DEFINE part == SubSeq(buf, d + 1, n)
  <2>2. part \in Seq(V) /\ Len(part) = n - d /\ \A i \in 1 .. n - d : part[i] = buf[d + i]
    <3>1. d + 1 \in Nat /\ d + 1 >= 1 /\ n - (d + 1) + 1 = n - d /\ n = Len(buf)
      BY <1>1
    <3> HIDE DEF n
    <3>2. \A i \in d + 1 .. n : buf[i] \in V
      BY <1>1, <3>1
    <3>3. /\ part \in Seq(V) /\ Len(part) = IF d + 1 <= n THEN n - (d + 1) + 1 ELSE 0
          /\ \A i \in 1 .. n - (d + 1) + 1 : part[i] = buf[d + 1 + i - 1]
      BY <1>1, <3>1, <3>2, SubSeqProperties
    <3> HIDE DEF part
    <3>4. part \in Seq(V) /\ Len(part) = n - d
      <4>1. d + 1 <= n
        BY <1>1, <1>3
      <4>2. part \in Seq(V) /\ Len(part) = n - (d + 1) + 1
        BY <3>3, <4>1, Zenon
      <4> QED
        BY <3>1, <4>2, Zenon
    <3>5. ASSUME NEW i \in 1 .. n - d PROVE part[i] = buf[d + i]
      <4>1. i \in 1 .. n - (d + 1) + 1 /\ d + 1 + i - 1 = d + i
        BY <1>1
      <4> QED
        BY <3>3, <4>1
    <3> QED
      BY <3>4, <3>5
  <2>3. \A i \in 1 .. n - d : d + i \in 1 .. n /\ p + (d + i) = (p + d) + i
    BY <1>1
  <2>4. Len(more) \in Nat /\ (d = 0 => Len(more) = 0)
    BY <2>1
  <2> HIDE DEF part, new
  <2>5. new = part \o more
    BY <2>1 DEF part
  <2>6. new \in Seq(V) /\ Len(new) = n - d + Len(more) /\ \A i \in 1 .. n - d : new[i] = part[i]
    <3>1. /\ part \o more \in Seq(V) /\ Len(part \o more) = Len(part) + Len(more)
          /\ \A i \in 1 .. Len(part) : (part \o more)[i] = part[i]
      <4>1. part \in Seq(V) /\ more \in Seq(V)
        BY <2>1, <2>2
      <4> QED
        BY <4>1, Concat
    <3> QED
      BY <2>2, <2>5, <3>1
  <2>7. Copies(new, n - d, st, p + d)
    BY <2>2, <2>3, <2>6 DEF Copies
  <2>8. new \in Seq(V) /\ Len(new) >= n - d /\ (d = 0 => Len(new) = n - d)
    BY <1>1, <2>4, <2>6
  <2> QED
    BY <1>1, <1>3, <2>7, <2>8 DEF new
<1> QED
  BY <1>2, <1>3

\* The same with the content that came before, from b + 1 on.
LEMMA AllIs ==
  ASSUME NEW V, NEW st, NEW buf \in Seq(V), NEW p \in Nat, Copies(buf, Len(buf), st, p),
         NEW d \in 0 .. Len(buf), NEW b \in Nat, NEW old \in Seq(V),
         Copies(old, Len(old), st, b), p + d = b + Len(old)
  PROVE  LET all == old \o Pieces(buf, d)
         IN  /\ all \in Seq(V) /\ Len(all) >= p + Len(buf) - b
             /\ d = 0 \/ d = Len(buf) => Len(all) = p + Len(buf) - b
             /\ Copies(all, p + Len(buf) - b, st, b)
<1> DEFINE n == Len(buf)
           e == Len(old)
           new == Pieces(buf, d)
           all == old \o new
<1>1. n \in Nat /\ e \in Nat /\ d \in Nat /\ d <= n /\ p + d = b + e /\ Len(old) = e
  OBVIOUS
<1>2. /\ new \in Seq(V) /\ Len(new) >= n - d /\ (d = 0 \/ d = n => Len(new) = n - d)
      /\ Copies(new, n - d, st, p + d)
  <2>1. /\ Pieces(buf, d) \in Seq(V) /\ Len(Pieces(buf, d)) >= Len(buf) - d
        /\ d = 0 \/ d = Len(buf) => Len(Pieces(buf, d)) = Len(buf) - d
        /\ Copies(Pieces(buf, d), Len(buf) - d, st, p + d)
    BY RestIs
  <2> QED
    BY <2>1
<1>3. Copies(old, e, st, b)
  OBVIOUS
<1> HIDE DEF new, n, e
<1>4. /\ all \in Seq(V) /\ Len(all) = e + Len(new)
      /\ \A i \in 1 .. e : all[i] = old[i]
      /\ \A i \in 1 .. Len(new) : all[e + i] = new[i]
  <2>1. new \in Seq(V)
    BY <1>2
  <2>2. /\ old \o new \in Seq(V) /\ Len(old \o new) = Len(old) + Len(new)
        /\ \A i \in 1 .. Len(old) : (old \o new)[i] = old[i]
        /\ \A i \in 1 .. Len(new) : (old \o new)[Len(old) + i] = new[i]
    BY <2>1, Concat
  <2> QED
    BY <1>1, <2>2
<1>5. Len(new) \in Nat
  BY <1>2
<1> HIDE DEF all
<1>6. Copies(all, p + n - b, st, b)
  <2> SUFFICES ASSUME NEW i \in 1 .. p + n - b PROVE all[i] = st[b + i]
    BY DEF Copies
  <2>1. CASE i <= e
    BY <1>1, <1>3, <1>4, <2>1 DEF Copies
  <2>2. CASE i > e
    <3> DEFINE j == i - e
    <3>1. j \in 1 .. n - d /\ j \in 1 .. Len(new) /\ e + j = i /\ p + d + j = b + i
      BY <1>1, <1>2, <1>5, <2>2
    <3> HIDE DEF j
    <3>2. all[e + j] = new[j] /\ new[j] = st[p + d + j]
      BY <1>2, <1>4, <3>1 DEF Copies
    <3> QED
      BY <3>1, <3>2
  <2> QED
    BY <1>1, <2>1, <2>2
<1>7. Len(all) >= p + n - b /\ ((d = 0 \/ d = n) => Len(all) = p + n - b)
  <2>1. Len(all) = e + Len(new) /\ Len(new) >= n - d /\ ((d = 0 \/ d = n) => Len(new) = n - d)
    BY <1>2, <1>4
  <2> QED
    BY <1>1, <1>5, <2>1
<1> QED
  BY <1>4, <1>6, <1>7 DEF all, new, n

\* The content of a save after m units.
LEMMA SaveOld ==
  ASSUME NEW c \in Conns, kind[c] = "save", NEW m \in {5, 6}
  PROVE  /\ SaveRequest(c, m).content \in Seq(Own(c))
         /\ Len(SaveRequest(c, m).content) = m - 5
         /\ Copies(SaveRequest(c, m).content, m - 5, Stream(c), 5)
<1>1. CASE m = 5
  <2>1. SaveRequest(c, m).content = <<>> /\ m - 5 = 0
    BY <1>1 DEF SaveRequest
  <2>2. <<>> \in Seq(Own(c)) /\ Len(<<>>) = 0 /\ Copies(<<>>, 0, Stream(c), 5)
    BY DEF Copies
  <2> QED
    BY <2>1, <2>2
<1>2. CASE m = 6
  <2> DEFINE x == SaveRequest(c, m).content
             u == U(c, "T0")
  <2>1. x = <<u>> /\ m - 5 = 1
    BY <1>2 DEF SaveRequest
  <2>2. u \in Own(c)
    BY DEF U, Own, Unit, Names
  <2>3. u = Stream(c)[6]
    BY SaveStream
  <2> HIDE DEF x, u
  <2>4. x \in Seq(Own(c)) /\ Len(x) = 1 /\ x[1] = u
    BY <2>1, <2>2
  <2>5. Copies(x, 1, Stream(c), 5)
    BY <2>3, <2>4 DEF Copies
  <2> QED
    BY <2>1, <2>4, <2>5 DEF x
<1> QED
  BY <1>1, <1>2

\* What the second loop has of the content: the fields that have come, in order,
\* and never a field too many before the last one is there.
LEMMA SaveContent ==
  ASSUME NEW c \in Conns, kind[c] = "save", NEW p \in 0 .. 6, pos[c] = p,
         NEW n \in 1 .. 7 - p, p >= 5 \/ p + n = 5 \/ p + n = 7, Reach(p, n) >= 5
  PROVE  LET m   == Reach(p, n)
             all == SaveRequest(c, m).content \o Pieces(Units(c, n), m - p)
         IN  /\ all \in Seq(Own(c)) /\ Len(all) >= p + n - 5
             /\ p + n < 7 => Len(all) = p + n - 5
             /\ Copies(all, p + n - 5, Stream(c), 5)
<1> DEFINE buf == Units(c, n)
           m == Reach(p, n)
           d == m - p
           old == SaveRequest(c, m).content
           V == Own(c)
           st == Stream(c)
           b == 5
           q == p
           new == Pieces(buf, d)
<1>1. "save" \in Kinds /\ p \in Nat /\ n \in Nat /\ Len(Stream(c)) = 7
  BY SaveStream DEF Kinds
<1>2. buf \in Seq(V) /\ Len(buf) = n /\ Copies(buf, Len(buf), st, q)
  <2>1. buf \in Seq(V) /\ Len(buf) = n /\ \A j \in 1 .. n : buf[j] = Stream(c)[p + j]
    BY <1>1, UnitsOwn
  <2> HIDE DEF buf
  <2> QED
    BY <2>1 DEF Copies
<1>3. m \in {5, 6} /\ d \in 0 .. n /\ (p + n < 7 => d = 0 \/ d = n) /\ b \in Nat /\ b = 5
      /\ q + d = m /\ q \in Nat /\ p = q
  BY <1>1 DEF Reach
<1>4. old \in Seq(V) /\ Len(old) = m - b /\ Copies(old, m - b, st, b)
  BY <1>3, SaveOld
<1> HIDE DEF buf, old, V, st, b, q, m, d
<1>5. d \in 0 .. Len(buf) /\ q + d = b + Len(old) /\ Copies(old, Len(old), st, b)
      /\ buf \in Seq(V) /\ Copies(buf, Len(buf), st, q) /\ old \in Seq(V) /\ q \in Nat /\ b \in Nat
  BY <1>1, <1>2, <1>3, <1>4
<1>6. /\ old \o Pieces(buf, d) \in Seq(V) /\ Len(old \o Pieces(buf, d)) >= q + Len(buf) - b
      /\ d = 0 \/ d = Len(buf) => Len(old \o Pieces(buf, d)) = q + Len(buf) - b
      /\ Copies(old \o Pieces(buf, d), q + Len(buf) - b, st, b)
  BY <1>5, AllIs
<1>7. q + Len(buf) - b = p + n - 5
  BY <1>2, <1>3
<1>8. old \o new = old \o Pieces(buf, d)
  OBVIOUS
<1> HIDE DEF new
<1>9. /\ old \o new \in Seq(V) /\ Len(old \o new) >= p + n - 5
      /\ p + n < 7 => Len(old \o new) = p + n - 5
      /\ Copies(old \o new, p + n - 5, st, b)
  BY <1>2, <1>3, <1>6, <1>7, <1>8
<1> QED
  BY <1>9 DEF buf, old, V, st, b, d, m, new

\* In the body, the request differs in its content only.
BodyRequest(co) == [state |-> "body", path |-> "save", length |-> 2, content |-> co]

LEMMA SaveInBody ==
  ASSUME NEW c, NEW m \in {5, 6}
  PROVE  /\ SaveLine(c, m) = <<>>
         /\ SaveRequest(c, m) = BodyRequest(SaveRequest(c, m).content)
<1>1. SaveLine(c, m) = <<>>
  BY DEF SaveLine
<1>2. CASE m = 5
  <2>1. SaveRequest(c, m) = BodyRequest(<<>>)
    BY <1>2 DEF SaveRequest, BodyRequest
  <2> QED
    BY <1>1, <2>1 DEF BodyRequest
<1>3. CASE m = 6
  <2> DEFINE t == <<U(c, "T0")>>
  <2>1. SaveRequest(c, m) = BodyRequest(t)
    BY <1>3 DEF SaveRequest, BodyRequest
  <2> HIDE DEF t
  <2> QED
    BY <1>1, <2>1 DEF BodyRequest
<1> QED
  BY <1>2, <1>3

\* The first loop in the body, and what the second one makes of it.
InBody(co, used) ==
  [line |-> <<>>, req |-> BodyRequest(co), bad |-> FALSE, used |-> used, asked |-> <<>>]

LEMMA SaveHeadBody ==
  ASSUME NEW c, NEW m \in {5, 6}, NEW p
  PROVE  SaveHead(c, p, m) = InBody(SaveRequest(c, m).content, m - p)
<1> DEFINE d == m - p
           l == SaveLine(c, m)
           r == SaveRequest(c, m)
<1>1. SaveHead(c, p, m) = [line |-> l, req |-> r, bad |-> FALSE, used |-> d, asked |-> <<>>]
  BY DEF SaveHead
<1>2. l = <<>> /\ r = BodyRequest(SaveRequest(c, m).content)
  BY SaveInBody
<1> HIDE DEF d, l, r
<1> QED
  BY <1>1, <1>2, Zenon DEF InBody, d

LEMMA BodyAdds ==
  ASSUME NEW buf, NEW co, NEW used, InBody(co, used) \in Progress,
         ~(Len(co \o Pieces(buf, used)) >= 2)
  PROVE  BodyLoop(buf)[InBody(co, used)] = InBody(co \o Pieces(buf, used), used)
<1> DEFINE h == InBody(co, used)
           new == Pieces(buf, used)
           all == co \o new
<1>1. /\ h.req = BodyRequest(co) /\ h.req.state = "body" /\ h.req.content = co
      /\ h.used = used /\ h.req.length = 2
  BY DEF InBody, BodyRequest
<1>2. h \in Progress /\ h.req.state = "body"
  BY <1>1
<1>3. h.req.content \o Pieces(buf, h.used) = all
  <2> HIDE DEF h
  <2> QED
    BY <1>1
<1>4. ~Whole(h.req, h.req.content \o Pieces(buf, h.used))
  <2> HIDE DEF h
  <2> QED
    BY <1>1, <1>3 DEF Whole
<1>5. BodyLoop(buf)[h] = [h EXCEPT !.req.content = h.req.content \o Pieces(buf, h.used)]
  <2> HIDE DEF h
  <2> QED
    BY <1>2, <1>4, BodyLoopCases, Zenon
<1>6. BodyLoop(buf)[h] = [h EXCEPT !.req.content = all]
  <2> HIDE DEF h, all
  <2> QED
    BY <1>3, <1>5
<1>7. [h EXCEPT !.req.content = all] = InBody(all, used)
  <2> DEFINE r == BodyRequest(co)
  <2>1. [r EXCEPT !.content = all] = BodyRequest(all)
    <3> HIDE DEF all
    <3> QED
      BY DEF BodyRequest
  <2>2. h = [line |-> <<>>, req |-> r, bad |-> FALSE, used |-> used, asked |-> <<>>]
    BY DEF InBody
  <2>3. InBody(all, used) =
          [line |-> <<>>, req |-> BodyRequest(all), bad |-> FALSE, used |-> used, asked |-> <<>>]
    BY DEF InBody
  <2> HIDE DEF all, r, h
  <2>4. [h EXCEPT !.req.content = all] = [h EXCEPT !.req = [h.req EXCEPT !.content = all]]
    BY <1>2 DEF Progress, Request
  <2>5. h.req = r
    BY <2>2
  <2> DEFINE t == BodyRequest(all)
  <2>6. [h EXCEPT !.req.content = all] = [h EXCEPT !.req = t]
    BY <2>1, <2>4, <2>5, Zenon
  <2> HIDE DEF t
  <2>7. [h EXCEPT !.req = t] =
          [line |-> <<>>, req |-> t, bad |-> FALSE, used |-> used, asked |-> <<>>]
    <3> DEFINE e == <<>>
               no == FALSE
    <3>1. h = [line |-> e, req |-> r, bad |-> no, used |-> used, asked |-> e]
      BY <2>2
    <3> HIDE DEF e, no
    <3>2. [h EXCEPT !.req = t] = [line |-> e, req |-> t, bad |-> no, used |-> used, asked |-> e]
      BY <3>1
    <3> QED
      BY <3>2 DEF e, no
  <2> QED
    BY <2>3, <2>6, <2>7 DEF t
<1> HIDE DEF h, all
<1>8. BodyLoop(buf)[h] = InBody(all, used)
  BY <1>6, <1>7
<1> QED
  BY <1>8 DEF h, all

LEMMA BodyEnds ==
  ASSUME NEW buf, NEW co, NEW used, InBody(co, used) \in Progress,
         Len(co \o Pieces(buf, used)) >= 2
  PROVE  LET r == BodyLoop(buf)[InBody(co, used)]
         IN  /\ r.line = <<>> /\ r.req = Cleared /\ r.bad = FALSE
             /\ r.asked = <<[path |-> "save", form |-> SubSeq(co \o Pieces(buf, used), 1, 2)]>>
<1> DEFINE h == InBody(co, used)
           new == Pieces(buf, used)
           all == co \o new
           form == SubSeq(all, 1, 2)
           asked == <<[path |-> "save", form |-> form]>>
<1>1. /\ h.req = BodyRequest(co) /\ h.req.state = "body" /\ h.req.content = co
      /\ h.used = used /\ h.req.length = 2 /\ h.req.path = "save"
  BY DEF InBody, BodyRequest
<1>2. h \in Progress /\ h.req.state = "body"
  BY <1>1
<1>3. h.req.content \o Pieces(buf, h.used) = all
  <2> HIDE DEF h
  <2> QED
    BY <1>1
<1>4. Whole(h.req, h.req.content \o Pieces(buf, h.used))
  <2> HIDE DEF h
  <2> QED
    BY <1>1, <1>3 DEF Whole
<1>5. BodyLoop(buf)[h] =
        [h EXCEPT !.req = Cleared,
                  !.asked = <<[path |-> h.req.path,
                    form |-> SubSeq(h.req.content \o Pieces(buf, h.used), 1, h.req.length)]>>]
  <2> HIDE DEF h
  <2> QED
    BY <1>2, <1>4, BodyLoopCases, Zenon
<1>6. BodyLoop(buf)[h] = [h EXCEPT !.req = Cleared, !.asked = asked]
  <2> HIDE DEF h, all
  <2> QED
    BY <1>1, <1>3, <1>5
<1> HIDE DEF asked, all
<1>7. LET r == [h EXCEPT !.req = Cleared, !.asked = asked]
      IN  r.line = <<>> /\ r.req = Cleared /\ r.bad = FALSE /\ r.asked = asked
  BY DEF InBody
<1> HIDE DEF h
<1> QED
  BY <1>6, <1>7 DEF h, asked, all

-----------------------------------------------------------------------------
(* A whole read of a save.                                                 *)

\* What the machine makes of a read of a save, when the read leaves some of it
\* to come, and when it is the last one.
SaveSame(s, c, p) ==
  /\ p \in 0 .. 6 /\ pos[c] = p /\ line[s] = SaveLine(c, p) /\ req[s] = SaveRequest(c, p)

SaveForm(c, form) ==
  form \in Seq(Own(c)) /\ Len(form) = 2 /\ form[1] = U(c, "T0") /\ form[2] = U(c, "T1")

LEMMA SavePart ==
  ASSUME NEW s, NEW c \in Conns, kind[c] = "save", NEW p \in 0 .. 6, SaveSame(s, c, p),
         NEW n \in 1 .. 6 - p, p >= 5 \/ p + n <= 5
  PROVE  LET r == RecvProcess(s, Units(c, n))
         IN  /\ r.line = SaveLine(c, p + n) /\ r.req = SaveRequest(c, p + n)
             /\ r.bad = FALSE /\ r.asked = <<>>
<1> DEFINE buf == Units(c, n)
           m == Reach(p, n)
           h == SaveHead(c, p, m)
           k == p + n
           l == SaveLine(c, k)
           r == SaveRequest(c, k)
           a == <<>>
<1>1. n \in 1 .. 7 - p /\ k \in p .. 6 /\ m \in p .. 6
  BY DEF Reach
<1>2. RecvProcess(s, buf) = BodyLoop(buf)[h]
  <2> HIDE DEF buf, h
  <2>1. pos[c] = p /\ line[s] = SaveLine(c, p) /\ req[s] = SaveRequest(c, p)
    BY DEF SaveSame
  <2>2. HeadLoop(s, Units(c, n)) = SaveHead(c, p, Reach(p, n))
    BY <1>1, <2>1, SaveHeadLoop
  <2> QED
    BY <2>2, Zenon DEF RecvProcess, h, buf
<1>3. h \in Progress
  BY <1>1, SaveHeadType
<1>4. CASE k < 5
  <2>1. m = k /\ m \in {0, 1, 2, 3, 4}
    BY <1>1, <1>4 DEF Reach
  <2> HIDE DEF m
  <2>2. h.req.state # "body"
    BY <2>1 DEF SaveHead, SaveRequest, Cleared
  <2>3. BodyLoop(buf)[h] = h
    <3> HIDE DEF h, buf
    <3> QED
      BY <1>3, <2>2, BodyLoopCases, Zenon
  <2>4. h.line = l /\ h.req = r /\ h.bad = FALSE /\ h.asked = a
    <3> HIDE DEF l, r, a, k
    <3> QED
      BY <2>1 DEF SaveHead, l, r, a
  <2> QED
    BY <1>2, <2>3, <2>4
<1>5. CASE ~(k < 5)
  <2> DEFINE co == SaveRequest(c, m).content
             d == m - p
             all == co \o Pieces(buf, d)
  <2>1. m \in {5, 6} /\ k \in {5, 6} /\ p <= m /\ m >= 5 /\ p + n < 7 /\ (p >= 5 \/ p + n = 5)
    BY <1>1, <1>5 DEF Reach
  <2>2. all \in Seq(Own(c)) /\ Len(all) = k - 5 /\ Copies(all, k - 5, Stream(c), 5)
    <3>1. pos[c] = p /\ n \in 1 .. 7 - p /\ Reach(p, n) >= 5 /\ (p >= 5 \/ p + n = 5 \/ p + n = 7)
      BY <1>1, <2>1 DEF SaveSame
    <3>2. /\ all \in Seq(Own(c)) /\ (p + n < 7 => Len(all) = p + n - 5)
          /\ Copies(all, p + n - 5, Stream(c), 5)
      BY <3>1, SaveContent
    <3> HIDE DEF all
    <3> QED
      BY <2>1, <3>2
  <2>3. all = r.content
    <3> HIDE DEF all, m, k, d, co
    <3>1. CASE k = 5
      BY <2>2, <3>1 DEF SaveRequest
    <3>2. CASE k = 6
      <4> DEFINE u == U(c, "T0")
      <4>1. all[1] = u
        BY <2>2, <3>2, SaveStream DEF Copies
      <4>2. r.content = <<u>>
        BY <3>2 DEF SaveRequest
      <4> HIDE DEF u, r
      <4>3. all = <<u>>
        BY <2>2, <3>2, <4>1
      <4> QED
        BY <4>2, <4>3
    <3> QED
      BY <2>1, <3>1, <3>2
  <2>4. h = InBody(co, d)
    <3> HIDE DEF m
    <3> QED
      BY <2>1, SaveHeadBody
  <2>5. BodyLoop(buf)[InBody(co, d)] = InBody(all, d)
    <3>1. InBody(co, d) \in Progress
      BY <1>3, <2>4
    <3>2. ~(Len(all) >= 2)
      <4> HIDE DEF all, k
      <4> QED
        BY <2>1, <2>2
    <3> HIDE DEF co, d, buf
    <3> QED
      BY <3>1, <3>2, BodyAdds
  <2>6. l = <<>> /\ r = BodyRequest(r.content)
    <3> HIDE DEF k
    <3> QED
      BY <2>1, SaveInBody
  <2> HIDE DEF all, h, buf, l, r, k, d, co, m
  <2>7. /\ InBody(all, d).line = <<>> /\ InBody(all, d).req = BodyRequest(all)
        /\ InBody(all, d).bad = FALSE /\ InBody(all, d).asked = <<>>
    BY DEF InBody
  <2>8. RecvProcess(s, buf) = InBody(all, d)
    BY <1>2, <2>4, <2>5
  <2> QED
    BY <2>3, <2>6, <2>7, <2>8 DEF buf, l, r, k
<1> QED
  BY <1>4, <1>5

LEMMA SaveWhole ==
  ASSUME NEW s, NEW c \in Conns, kind[c] = "save", NEW p \in 0 .. 6, SaveSame(s, c, p)
  PROVE  LET r == RecvProcess(s, Units(c, 7 - p))
         IN  /\ r.line = <<>> /\ r.req = Cleared /\ r.bad = FALSE
             /\ \E form : SaveForm(c, form) /\ r.asked = <<[path |-> "save", form |-> form]>>
<1> DEFINE n == 7 - p
           buf == Units(c, n)
           m == Reach(p, n)
           h == SaveHead(c, p, m)
           d == m - p
           co == SaveRequest(c, m).content
           all == co \o Pieces(buf, d)
           form == SubSeq(all, 1, 2)
<1>1. /\ n \in 1 .. 7 - p /\ m \in {5, 6} /\ p <= m /\ m \in p .. 6 /\ m >= 5 /\ p + n = 7
      /\ pos[c] = p /\ line[s] = SaveLine(c, p) /\ req[s] = SaveRequest(c, p)
  BY DEF SaveSame, Reach
<1>2. RecvProcess(s, buf) = BodyLoop(buf)[h]
  <2> HIDE DEF n
  <2>1. HeadLoop(s, Units(c, n)) = SaveHead(c, p, Reach(p, n))
    BY <1>1, SaveHeadLoop
  <2> QED
    BY <2>1, Zenon DEF RecvProcess
<1>3. all \in Seq(Own(c)) /\ Len(all) >= 2 /\ Copies(all, 2, Stream(c), 5)
  <2>1. p + n - 5 = 2
    BY <1>1
  <2> HIDE DEF n
  <2>2. all \in Seq(Own(c)) /\ Len(all) >= p + n - 5 /\ Copies(all, p + n - 5, Stream(c), 5)
    BY <1>1, SaveContent
  <2> HIDE DEF all
  <2> QED
    BY <2>1, <2>2
<1>4. h = InBody(co, d) /\ h \in Progress
  <2> HIDE DEF m
  <2> QED
    BY <1>1, SaveHeadBody, SaveHeadType
<1> HIDE DEF n, buf, m, h, co, d
<1>5. LET r == BodyLoop(buf)[InBody(co, d)]
      IN  /\ r.line = <<>> /\ r.req = Cleared /\ r.bad = FALSE
          /\ r.asked = <<[path |-> "save", form |-> form]>>
  BY <1>3, <1>4, BodyEnds
<1>6. SaveForm(c, form)
  <2> HIDE DEF all
  <2>1. form \in Seq(Own(c)) /\ Len(form) = 2 /\ form[1] = all[1] /\ form[2] = all[2]
    BY <1>3
  <2>2. all[1] = Stream(c)[6] /\ all[2] = Stream(c)[7]
    BY <1>3 DEF Copies
  <2> QED
    BY <2>1, <2>2, SaveStream DEF SaveForm
<1> HIDE DEF form
<1> QED
  BY <1>2, <1>4, <1>5, <1>6, Zenon DEF n, buf

-----------------------------------------------------------------------------
(* The invariant.                                                          *)

\* What the slots and the clock leave of TypeOK.
WebType ==
  /\ server \in {"no_init", "wait", "idle"}
  /\ closeReq \in [Slots -> BOOLEAN]
  /\ pass \in BOOLEAN /\ age \in Nat
  /\ store \in [ssid : Conns \union {Nil}, psk : Conns \union {Nil}]
  /\ told \in Conns \union {Nil}
  /\ kind \in [Conns -> Kinds]
  /\ pos \in [Conns -> Nat]
  /\ left \subseteq Conns /\ torn \subseteq Conns /\ faults \in Nat

\* The line and the request of a slot are made of its client's units; and those
\* of a save that is not torn are exactly what its units so far make of them.
SlotInv(s) ==
  /\ req[s].content # <<>> => Len(req[s].content) < req[s].length
  /\ slot[s] # Nil =>
       /\ line[s] \in OwnLine(slot[s]) /\ req[s] \in OwnRequest(slot[s], kind[slot[s]])
       /\ kind[slot[s]] = "save" /\ slot[s] \notin torn => SaveSame(s, slot[s], pos[slot[s]])

RequestInv ==
  /\ line \in [Slots -> Seq(Unit)] /\ req \in [Slots -> Request]
  /\ \A s \in Slots : SlotInv(s)

PosInv == \A c \in Conns : conn[c] = "coming" => pos[c] = 0

\* A close that is asked for is done before the next event.
CloseInv == \A s \in Slots : slot[s] # Nil => ~closeReq[s]

WebInv == TableInv /\ WebType /\ RequestInv /\ PosInv /\ CloseInv /\ SavedUnlessTorn

LEMMA SameSlot ==
  ASSUME NEW s, SlotInv(s), slot'[s] = slot[s], line'[s] = line[s], req'[s] = req[s],
         kind' = kind, torn \subseteq torn', slot[s] # Nil => pos'[slot[s]] = pos[slot[s]]
  PROVE  SlotInv(s)'
  BY DEF SlotInv, SaveSame

LEMMA SameRequests ==
  ASSUME RequestInv, slot' = slot, line' = line, req' = req, kind' = kind, torn' = torn, pos' = pos
  PROVE  RequestInv'
  BY SameSlot DEF RequestInv

\* A form of both fields is saved whole.
LEMMA FormSaved ==
  ASSUME NEW c, NEW form, SaveForm(c, form)
  PROVE  SavedFields(c, form) = [ssid |-> c, psk |-> c]
<1> DEFINE First(n) == form[n].name = "T0" /\ \A m \in 1 .. n - 1 : form[m].name # "T0"
           at == CHOOSE n \in DOMAIN form : First(n)
           rest == SubSeq(form, 2, 2)
<1>1. DOMAIN form = {1, 2} /\ form[1].name = "T0" /\ form[2].name = "T1" /\ Len(form) = 2
  BY DEF SaveForm, U
<1>2. Has(form, "T0")
  BY <1>1, Zenon DEF Has
<1>3. at = 1
  <2>1. First(1) /\ ~First(2)
    BY <1>1
  <2> HIDE DEF First
  <2>2. at \in DOMAIN form /\ First(at)
    BY <1>1, <2>1
  <2> QED
    BY <1>1, <2>1, <2>2
<1>4. After(form, "T0") = rest
  <2>1. After(form, "T0") = SubSeq(form, at + 1, Len(form))
    BY <1>2, Zenon DEF After
  <2>2. at + 1 = 2 /\ Len(form) = 2
    BY <1>1, <1>3
  <2> QED
    BY <2>1, <2>2, Zenon
<1>5. Has(rest, "T1")
  <2>1. rest \in Seq(Own(c)) /\ Len(rest) = 1 /\ rest[1] = form[2]
    <3>1. form \in Seq(Own(c)) /\ Len(form) = 2
      BY DEF SaveForm
    <3> QED
      BY <3>1
  <2>2. 1 \in DOMAIN rest
    BY <2>1
  <2> QED
    BY <1>1, <2>1, <2>2, Zenon DEF Has
<1> QED
  BY <1>2, <1>4, <1>5, Zenon DEF SavedFields

LEMMA WebInit == Init => WebInv
<1> SUFFICES ASSUME Init PROVE WebInv
  OBVIOUS
<1>1. TableInv
  BY TableInit
<1>2. WebType /\ PosInv /\ CloseInv /\ SavedUnlessTorn
  BY WebAssumption DEF Init, WebType, PosInv, CloseInv, SavedUnlessTorn, SavedAsSent
<1>3. Cleared \in Request /\ Cleared.content = <<>> /\ <<>> \in Seq(Unit)
  BY DEF Cleared, Request
<1>4. RequestInv
  BY <1>3 DEF Init, RequestInv, SlotInv
<1> QED
  BY <1>1, <1>2, <1>4 DEF WebInv

\* A save is told only of a request for one, whose form is the content.
LEMMA ProcessStep ==
  ASSUME WebType, NEW c \in Conns, NEW k \in Kinds, NEW form, ReqProcess(c, k, form)
  PROVE  /\ pass' \in BOOLEAN /\ age' \in Nat
         /\ store' \in [ssid : Conns \union {Nil}, psk : Conns \union {Nil}]
         /\ UNCHANGED result \/ (k = "save" /\ store' = SavedFields(c, form) /\ told' = c)
<1>1. ASSUME Expire PROVE pass' \in BOOLEAN /\ age' \in Nat
  <2>1. (pass' = pass /\ age' = age) \/ (pass' = FALSE /\ age' = 0)
    BY <1>1, Zenon DEF Expire, Forget, login
  <2>2. CASE pass' = pass /\ age' = age
    BY <2>2 DEF WebType
  <2>3. CASE pass' = FALSE /\ age' = 0
    BY <2>3
  <2> QED
    BY <2>1, <2>2, <2>3
<1>2. SavedFields(c, form) \in [ssid : Conns \union {Nil}, psk : Conns \union {Nil}]
  BY DEF SavedFields, WebType
<1>3. UNCHANGED result => store' \in [ssid : Conns \union {Nil}, psk : Conns \union {Nil}]
  BY DEF result, WebType
<1>4. CASE k \in {"login", "wrong_login"}
  <2>1. ReqLogin(k, form)
    BY <1>4 DEF ReqProcess
  <2>2. UNCHANGED result /\ ((pass' = TRUE /\ age' = 0) \/ Expire)
    BY <2>1, Zenon DEF ReqLogin
  <2>3. ASSUME pass' = TRUE, age' = 0 PROVE pass' \in BOOLEAN /\ age' \in Nat
    BY <2>3
  <2>4. pass' \in BOOLEAN /\ age' \in Nat
    BY <1>1, <2>2, <2>3
  <2> QED
    BY <1>3, <2>2, <2>4
<1>5. CASE k = "save"
  <2>1. ReqSave(c, form)
    BY <1>5 DEF ReqProcess
  <2>2. Expire /\ (UNCHANGED result \/ (store' = SavedFields(c, form) /\ told' = c))
    BY <2>1, Zenon DEF ReqSave
  <2> QED
    BY <1>1, <1>2, <1>3, <1>5, <2>2
<1>6. CASE k \in {"mac", "bad_mac"}
  <2>1. Expire /\ UNCHANGED result
    BY <1>6 DEF ReqProcess
  <2> QED
    BY <1>1, <1>3, <2>1
<1>7. CASE k \notin {"login", "wrong_login", "save", "mac", "bad_mac"}
  <2>1. UNCHANGED <<login, result>>
    BY <1>7 DEF ReqProcess
  <2>2. pass' \in BOOLEAN /\ age' \in Nat
    BY <2>1 DEF login, WebType
  <2> QED
    BY <1>3, <2>1, <2>2
<1> QED
  BY <1>4, <1>5, <1>6, <1>7

-----------------------------------------------------------------------------
(* The steps.                                                              *)

\* What a read does to a slot, apart from the login and the store: the slot
\* and the other slots keep to the invariant, and what is asked of a save that is
\* not torn is its whole form.
LEMMA ReadStep ==
  ASSUME WebInv, NEW s \in Slots, slot[s] # Nil, kind' = kind,
         NEW n \in 1 .. Len(Stream(slot[s])) - pos[slot[s]], Read(slot[s], n)
  PROVE  LET c == slot[s]
             p == RecvProcess(s, Units(c, n))
         IN  /\ p \in OwnProgress(c, kind[c], n)
             /\ pos' \in [Conns -> Nat] /\ torn' \subseteq Conns /\ torn \subseteq torn'
             /\ \A d \in Conns : d # c => pos'[d] = pos[d]
             /\ kind[c] = "save" /\ c \notin torn' =>
                  \/ /\ pos'[c] \in 0 .. 6 /\ p.line = SaveLine(c, pos'[c])
                     /\ p.req = SaveRequest(c, pos'[c]) /\ p.asked = <<>>
                  \/ \E form : SaveForm(c, form) /\ p.asked = <<[path |-> "save", form |-> form]>>
<1> DEFINE c == slot[s]
           p == RecvProcess(s, Units(c, n))
           q == pos[c]
<1>1. /\ c \in Conns /\ kind[c] \in Kinds /\ pos \in [Conns -> Nat] /\ q \in Nat
      /\ torn \subseteq Conns /\ SlotInv(s)
  BY DEF WebInv, TableInv, TableType, WebType, RequestInv
<1>2. line[s] \in OwnLine(c) /\ req[s] \in OwnRequest(c, kind[c])
  BY <1>1 DEF SlotInv
<1>3. Units(c, n) \in OwnLine(c) /\ Len(Units(c, n)) = n
  BY <1>1, UnitsOwn DEF OwnLine
<1>4. p \in OwnProgress(c, kind[c], n)
  <2>1. p \in OwnProgress(c, kind[c], Len(Units(c, n)))
    <3> HIDE DEF c
    <3> QED
      BY <1>1, <1>2, <1>3, RecvOwn
  <2> HIDE DEF p, c
  <2> QED
    BY <1>3, <2>1
<1>5. /\ pos' = [pos EXCEPT ![c] = @ + n]
      /\ torn' = IF /\ kind[c] = "save" /\ pos'[c] < Len(Stream(c))
                    /\ pos[c] < Len(Header("save")) /\ Len(Header("save")) < pos'[c]
                 THEN torn \union {c} ELSE torn
  BY DEF Read
<1> HIDE DEF c, p, q
<1>6. n \in Nat
  <2>1. Len(Stream(c)) \in Nat
    BY <1>1, StreamOwn
  <2> QED
    BY <1>1, <2>1 DEF c, q
<1>7. /\ pos' \in [Conns -> Nat] /\ pos'[c] = q + n /\ \A d \in Conns : d # c => pos'[d] = pos[d]
      /\ torn' \subseteq Conns /\ torn \subseteq torn'
  BY <1>1, <1>5, <1>6 DEF q
<1>8. ASSUME kind[c] = "save", c \notin torn'
      PROVE  \/ /\ pos'[c] \in 0 .. 6 /\ p.line = SaveLine(c, pos'[c])
                /\ p.req = SaveRequest(c, pos'[c]) /\ p.asked = <<>>
             \/ \E form : SaveForm(c, form) /\ p.asked = <<[path |-> "save", form |-> form]>>
  <2>1. SaveSame(s, c, q) /\ q \in 0 .. 6
    BY <1>1, <1>7, <1>8 DEF SlotInv, SaveSame, c, q
  <2>2. Len(Stream(c)) = 7 /\ Len(Header("save")) = 5
    BY <1>1, <1>8, SaveStream
  <2>3. n \in 1 .. 7 - q
    BY <2>2 DEF c, q
  <2>4. ~(q + n < 7 /\ q < 5 /\ 5 < q + n)
    BY <1>5, <1>7, <1>8, <2>2 DEF q
  <2>5. CASE q + n < 7
    <3>1. n \in 1 .. 6 - q /\ (q >= 5 \/ q + n <= 5) /\ q + n \in 0 .. 6
      BY <2>1, <2>3, <2>4, <2>5
    <3>2. p.line = SaveLine(c, q + n) /\ p.req = SaveRequest(c, q + n) /\ p.asked = <<>>
      BY <1>1, <1>8, <2>1, <3>1, SavePart DEF p
    <3> QED
      BY <1>7, <3>1, <3>2
  <2>6. CASE ~(q + n < 7)
    <3>1. n = 7 - q
      BY <2>1, <2>3, <2>6
    <3>2. p = RecvProcess(s, Units(c, 7 - q))
      BY <3>1 DEF p
    <3>3. \E form : /\ SaveForm(c, form)
                   /\ RecvProcess(s, Units(c, 7 - q)).asked = <<[path |-> "save", form |-> form]>>
      BY <1>1, <1>8, <2>1, SaveWhole
    <3> QED
      BY <3>2, <3>3
  <2> QED
    BY <2>5, <2>6
<1> QED
  BY <1>4, <1>7, <1>8 DEF c, p

\* The slot of a read afterwards, when its client keeps it.
LEMMA ReadSlot ==
  ASSUME WebInv, NEW s \in Slots, slot[s] # Nil, kind' = kind,
         NEW n \in 1 .. Len(Stream(slot[s])) - pos[slot[s]], Read(slot[s], n),
         LET p == RecvProcess(s, Units(slot[s], n))
         IN  /\ line' = [line EXCEPT ![s] = p.line]
             /\ req' = [req EXCEPT ![s] = p.req],
         \/ slot' = slot /\ RecvProcess(s, Units(slot[s], n)).asked = <<>>
         \/ Close(s)
  PROVE  RequestInv'
<1> DEFINE c == slot[s]
           p == RecvProcess(s, Units(c, n))
<1>1. /\ c \in Conns /\ kind[c] \in Kinds /\ c # Nil
      /\ line \in [Slots -> Seq(Unit)] /\ req \in [Slots -> Request]
      /\ slot \in [Slots -> Conns \union {Nil}]
      /\ \A t \in Slots : SlotInv(t)
      /\ \A t \in Slots : slot[t] = c => t = s
  BY DEF WebInv, TableInv, TableType, WebType, RequestInv, SlotsMatch
<1>2. /\ p \in OwnProgress(c, kind[c], n)
      /\ torn \subseteq torn'
      /\ \A d \in Conns : d # c => pos'[d] = pos[d]
      /\ kind[c] = "save" /\ c \notin torn' =>
           \/ /\ pos'[c] \in 0 .. 6 /\ p.line = SaveLine(c, pos'[c])
              /\ p.req = SaveRequest(c, pos'[c]) /\ p.asked = <<>>
           \/ \E form : SaveForm(c, form) /\ p.asked = <<[path |-> "save", form |-> form]>>
  BY ReadStep
<1>3. /\ line' = [line EXCEPT ![s] = p.line] /\ req' = [req EXCEPT ![s] = p.req]
      /\ \/ slot' = slot /\ p.asked = <<>>
         \/ Close(s)
  OBVIOUS
<1>4. \A t \in Slots : slot'[t] = slot[t] \/ (t = s /\ slot'[t] = Nil)
  BY <1>1, <1>3 DEF Close
<1> HIDE DEF c, p
<1>5. p.line \in OwnLine(c) /\ p.req \in OwnRequest(c, kind[c])
  BY <1>2 DEF OwnProgress
<1>6. OwnLine(c) \subseteq Seq(Unit) /\ OwnRequest(c, kind[c]) \subseteq Request
  BY <1>1, OwnUnit, SeqSub, OwnIsProgress DEF OwnLine
<1>7. line' \in [Slots -> Seq(Unit)] /\ req' \in [Slots -> Request]
  BY <1>1, <1>3, <1>5, <1>6
<1>8. line'[s] = p.line /\ req'[s] = p.req
  BY <1>1, <1>3
<1>9. SlotInv(s)'
  <2>1. req'[s].content # <<>> => Len(req'[s].content) < req'[s].length
    BY <1>5, <1>8 DEF OwnRequest
  <2>2. ASSUME slot'[s] # Nil PROVE slot'[s] = c /\ p.asked = <<>>
    BY <1>1, <1>3, <2>2 DEF c, Close
  <2>3. ASSUME slot'[s] # Nil, kind[c] = "save", c \notin torn'
        PROVE  /\ pos'[c] \in 0 .. 6 /\ line'[s] = SaveLine(c, pos'[c])
               /\ req'[s] = SaveRequest(c, pos'[c])
    <3>1. \A x : <<x>> # <<>>
      OBVIOUS
    <3>2. \/ /\ pos'[c] \in 0 .. 6 /\ p.line = SaveLine(c, pos'[c])
             /\ p.req = SaveRequest(c, pos'[c])
          \/ \E form : p.asked = <<[path |-> "save", form |-> form]>>
      BY <1>2, <2>3, Zenon
    <3>3. /\ pos'[c] \in 0 .. 6 /\ p.line = SaveLine(c, pos'[c])
          /\ p.req = SaveRequest(c, pos'[c])
      BY <2>2, <2>3, <3>1, <3>2, Zenon
    <3> QED
      BY <1>8, <3>3, Zenon
  <2> QED
    BY <1>5, <1>8, <2>1, <2>2, <2>3 DEF SlotInv, SaveSame
<1>10. ASSUME NEW t \in Slots, t # s PROVE SlotInv(t)'
  <2>1. slot'[t] = slot[t] /\ line'[t] = line[t] /\ req'[t] = req[t]
    BY <1>1, <1>3, <1>4, <1>10
  <2>2. slot[t] # Nil => slot[t] \in Conns /\ slot[t] # c
    BY <1>1, <1>10
  <2> QED
    BY <1>1, <1>2, <2>1, <2>2, SameSlot
<1> QED
  BY <1>7, <1>9, <1>10 DEF RequestInv

LEMMA ReceiveStep ==
  ASSUME WebInv, NEW s \in Slots, Receive(s)
  PROVE  WebType' /\ RequestInv' /\ PosInv' /\ SavedUnlessTorn'
<1> DEFINE c == slot[s]
<1>1. slot[s] # Nil /\ kind' = kind /\ server' = server /\ left' = left /\ faults' = faults
  BY Zenon DEF Receive
<1>2. PICK n \in 1 .. Len(Stream(slot[s])) - pos[slot[s]] :
        /\ Read(slot[s], n)
        /\ LET p == RecvProcess(s, Units(slot[s], n))
           IN  /\ line' = [line EXCEPT ![s] = p.line]
               /\ req' = [req EXCEPT ![s] = p.req]
               /\ closeReq' = [closeReq EXCEPT ![s] = @ \/ p.bad \/ p.asked # <<>>]
               /\ IF p.asked # <<>>
                  THEN ReqProcess(slot[s], p.asked[1].path, p.asked[1].form)
                  ELSE UNCHANGED <<login, result>>
               /\ IF closeReq'[s] THEN Close(s) ELSE UNCHANGED <<slot, conn>>
  BY Zenon DEF Receive
<1> DEFINE p == RecvProcess(s, Units(c, n))
<1>3. /\ c \in Conns /\ kind[c] \in Kinds /\ closeReq \in [Slots -> BOOLEAN] /\ WebType
      /\ conn \in [Conns -> {"coming", "open", "closed"}] /\ conn[c] = "open"
      /\ PosInv /\ SavedUnlessTorn
  BY <1>1 DEF WebInv, TableInv, TableType, SlotsMatch, WebType
<1>4. /\ p \in OwnProgress(c, kind[c], n)
      /\ pos' \in [Conns -> Nat] /\ torn' \subseteq Conns /\ torn \subseteq torn'
      /\ \A d \in Conns : d # c => pos'[d] = pos[d]
      /\ kind[c] = "save" /\ c \notin torn' =>
           \/ /\ pos'[c] \in 0 .. 6 /\ p.line = SaveLine(c, pos'[c])
              /\ p.req = SaveRequest(c, pos'[c]) /\ p.asked = <<>>
           \/ \E form : SaveForm(c, form) /\ p.asked = <<[path |-> "save", form |-> form]>>
  BY <1>1, <1>2, ReadStep
<1>5. /\ line' = [line EXCEPT ![s] = p.line] /\ req' = [req EXCEPT ![s] = p.req]
      /\ closeReq' = [closeReq EXCEPT ![s] = @ \/ p.bad \/ p.asked # <<>>]
      /\ IF p.asked # <<>> THEN ReqProcess(c, p.asked[1].path, p.asked[1].form)
         ELSE UNCHANGED <<login, result>>
      /\ IF closeReq'[s] THEN Close(s) ELSE UNCHANGED <<slot, conn>>
  BY <1>2, Zenon
<1>6. \/ slot' = slot /\ p.asked = <<>> /\ conn' = conn
      \/ Close(s)
  <2>1. closeReq'[s] = (closeReq[s] \/ p.bad \/ p.asked # <<>>)
    BY <1>3, <1>5
  <2>2. CASE closeReq'[s]
    BY <1>5, <2>2
  <2>3. CASE ~closeReq'[s]
    BY <1>5, <2>1, <2>3
  <2> QED
    BY <2>2, <2>3
<1>7. RequestInv'
  <2>1. LET r == RecvProcess(s, Units(slot[s], n))
        IN  /\ line' = [line EXCEPT ![s] = r.line] /\ req' = [req EXCEPT ![s] = r.req]
            /\ \/ slot' = slot /\ r.asked = <<>>
               \/ Close(s)
    BY <1>5, <1>6, Zenon
  <2> QED
    BY <1>1, <1>2, <2>1, ReadSlot
<1> HIDE DEF c, p
<1>8. /\ pass' \in BOOLEAN /\ age' \in Nat
      /\ store' \in [ssid : Conns \union {Nil}, psk : Conns \union {Nil}]
      /\ \/ UNCHANGED result
         \/ /\ kind[c] = "save" /\ p.asked # <<>> /\ told' = c
            /\ store' = SavedFields(c, p.asked[1].form)
  <2>1. CASE p.asked # <<>>
    <3> DEFINE k == p.asked[1].path
               form == p.asked[1].form
    <3>1. ReqProcess(c, k, form)
      BY <1>5, <2>1
    <3>2. k = kind[c]
      <4>1. p.asked \in Seq([path : {kind[c]}, form : OwnLine(c)])
        BY <1>4 DEF OwnProgress, OwnAsked
      <4>2. p.asked[1] \in [path : {kind[c]}, form : OwnLine(c)]
        <5> DEFINE S == [path : {kind[c]}, form : OwnLine(c)]
                   a == p.asked
        <5>1. a \in Seq(S) /\ a # <<>>
          BY <2>1, <4>1
        <5> HIDE DEF S, a
        <5>2. a[1] \in S
          BY <5>1
        <5> QED
          BY <5>2 DEF S, a
      <4> QED
        BY <4>2
    <3> HIDE DEF k, form
    <3>3. /\ pass' \in BOOLEAN /\ age' \in Nat
          /\ store' \in [ssid : Conns \union {Nil}, psk : Conns \union {Nil}]
          /\ UNCHANGED result \/ (k = "save" /\ store' = SavedFields(c, form) /\ told' = c)
      BY <1>3, <3>1, <3>2, ProcessStep
    <3> QED
      BY <2>1, <3>2, <3>3, Zenon DEF form
  <2>2. CASE ~(p.asked # <<>>)
    <3>1. UNCHANGED <<login, result>>
      BY <1>5, <2>2
    <3> QED
      BY <1>3, <3>1 DEF login, result, WebType
  <2> QED
    BY <2>1, <2>2
<1>9. WebType'
  <2>1. closeReq' \in [Slots -> BOOLEAN]
    BY <1>3, <1>5
  <2>2. told' \in Conns \union {Nil}
    <3>1. told \in Conns \union {Nil}
      BY <1>3 DEF WebType
    <3> QED
      BY <1>3, <1>8, <3>1 DEF result
  <2> QED
    BY <1>1, <1>3, <1>4, <1>8, <2>1, <2>2 DEF WebType
<1>10. PosInv'
  <2>1. \A d \in Conns : conn'[d] = "coming" => conn[d] = "coming" /\ d # c
    BY <1>3, <1>6 DEF Close, c
  <2> QED
    BY <1>3, <1>4, <2>1 DEF PosInv
<1>11. SavedUnlessTorn'
  <2>1. CASE UNCHANGED result
    BY <1>3, <1>4, <2>1 DEF SavedUnlessTorn, SavedAsSent, result
  <2>2. CASE /\ kind[c] = "save" /\ p.asked # <<>> /\ told' = c
             /\ store' = SavedFields(c, p.asked[1].form)
    <3> SUFFICES ASSUME c \notin torn' PROVE store' = [ssid |-> c, psk |-> c]
      BY <2>2 DEF SavedUnlessTorn, SavedAsSent
    <3>1. PICK form : SaveForm(c, form) /\ p.asked = <<[path |-> "save", form |-> form]>>
      BY <1>4, <2>2, Zenon
    <3>2. p.asked[1].form = form
      BY <3>1
    <3>3. SavedFields(c, form) = [ssid |-> c, psk |-> c]
      BY <3>1, FormSaved
    <3> QED
      BY <2>2, <3>2, <3>3
  <2> QED
    BY <1>8, <2>1, <2>2
<1> QED
  BY <1>7, <1>9, <1>10, <1>11

\* Nothing of a request changes.
LEMMA QuietStep ==
  ASSUME WebInv, UNCHANGED <<table, result, kind, pos, torn>>,
         server' \in {"no_init", "wait", "idle"}, left' \subseteq Conns, faults' \in Nat,
         pass' \in BOOLEAN, age' \in Nat, \A c \in Conns : conn'[c] = "coming" => conn[c] = "coming"
  PROVE  WebType' /\ RequestInv' /\ PosInv' /\ SavedUnlessTorn'
<1>1. RequestInv'
  BY SameRequests DEF WebInv, table
<1>2. WebType'
  BY DEF WebInv, WebType, table, result
<1>3. PosInv' /\ SavedUnlessTorn'
  BY DEF WebInv, PosInv, SavedUnlessTorn, SavedAsSent, result
<1> QED
  BY <1>1, <1>2, <1>3

\* A slot that is nobody's has nothing to keep but its types.
LEMMA NoClient ==
  ASSUME NEW s, slot'[s] = Nil, req'[s].content # <<>> => Len(req'[s].content) < req'[s].length
  PROVE  SlotInv(s)'
  BY DEF SlotInv

LEMMA ClearedType == Cleared \in Request /\ Cleared.content = <<>> /\ <<>> \in Seq(Unit)
  BY DEF Cleared, Request

LEMMA AcceptStep ==
  ASSUME WebInv, NEW c \in Conns, Accept(c) \/ AcceptFails(c)
  PROVE  WebType' /\ RequestInv' /\ PosInv' /\ SavedUnlessTorn'
<1>1. PICK f \in Slots : /\ slot[f] = Nil /\ ClearSlot(f)
                         /\ slot' = [slot EXCEPT ![f] = c] \/ slot' = slot
  BY FirstFreeIsFree DEF Accept, AcceptFails, TakeSlot
<1>2. /\ slot \in [Slots -> Conns \union {Nil}] /\ line \in [Slots -> Seq(Unit)]
      /\ req \in [Slots -> Request] /\ closeReq \in [Slots -> BOOLEAN]
      /\ \A s \in Slots : SlotInv(s)
      /\ pos[c] = 0 /\ conn \in [Conns -> {"coming", "open", "closed"}]
      /\ kind' = kind /\ pos' = pos /\ torn' = torn
  BY DEF WebInv, TableInv, TableType, WebType, RequestInv, PosInv, Accept, AcceptFails
<1>3. /\ line' = [line EXCEPT ![f] = <<>>] /\ req' = [req EXCEPT ![f] = Cleared]
      /\ closeReq' = [closeReq EXCEPT ![f] = FALSE]
  BY <1>1 DEF ClearSlot
<1>4. /\ line' \in [Slots -> Seq(Unit)] /\ req' \in [Slots -> Request]
      /\ line'[f] = <<>> /\ req'[f] = Cleared /\ closeReq' \in [Slots -> BOOLEAN]
  BY <1>1, <1>2, <1>3, ClearedType
<1>5. SlotInv(f)'
  <2>1. req'[f].content = <<>>
    BY <1>4, ClearedType
  <2>2. CASE slot'[f] = Nil
    BY <2>1, <2>2, NoClient
  <2>3. CASE slot'[f] # Nil
    <3>1. slot'[f] = c
      BY <1>1, <1>2, <2>3
    <3>2. <<>> \in OwnLine(c) /\ Cleared \in OwnRequest(c, kind[c])
      BY ClearedOwn DEF OwnLine
    <3>3. SaveLine(c, 0) = <<>> /\ SaveRequest(c, 0) = Cleared
      BY DEF SaveLine, SaveRequest
    <3>4. SaveSame(f, c, pos[c])'
      BY <1>1, <1>2, <1>4, <3>3 DEF SaveSame
    <3> QED
      BY <1>2, <1>4, <2>1, <3>1, <3>2, <3>4 DEF SlotInv
  <2> QED
    BY <2>2, <2>3
<1>6. ASSUME NEW t \in Slots, t # f PROVE SlotInv(t)'
  <2>1. slot'[t] = slot[t] /\ line'[t] = line[t] /\ req'[t] = req[t]
    BY <1>1, <1>2, <1>3, <1>6
  <2> QED
    BY <1>1, <1>2, <2>1, SameSlot
<1>7. RequestInv'
  BY <1>4, <1>5, <1>6 DEF RequestInv
<1>8. /\ server' = server /\ left' = left /\ faults' \in Nat /\ UNCHANGED <<login, result>>
      /\ \A d \in Conns : conn'[d] = "coming" => conn[d] = "coming"
  BY <1>2 DEF Accept, AcceptFails, WebInv, WebType
<1>9. WebType'
  BY <1>2, <1>4, <1>8 DEF WebInv, WebType, login, result
<1>10. PosInv' /\ SavedUnlessTorn'
  BY <1>2, <1>8 DEF WebInv, PosInv, SavedUnlessTorn, SavedAsSent, result
<1> QED
  BY <1>7, <1>9, <1>10

LEMMA RemoteStep ==
  ASSUME WebInv, NEW s \in Slots, RemoteClose(s)
  PROVE  WebType' /\ RequestInv' /\ PosInv' /\ SavedUnlessTorn'
<1> DEFINE c == slot[s]
<1>1. /\ c \in Conns /\ c # Nil /\ kind[c] \in Kinds /\ slot \in [Slots -> Conns \union {Nil}]
      /\ line \in [Slots -> Seq(Unit)] /\ req \in [Slots -> Request]
      /\ conn \in [Conns -> {"coming", "open", "closed"}]
      /\ \A t \in Slots : SlotInv(t)
  BY WebAssumption DEF WebInv, TableInv, TableType, WebType, RequestInv, RemoteClose
<1>2. /\ line[s] \in OwnLine(c) /\ req[s] \in OwnRequest(c, kind[c])
  BY <1>1 DEF SlotInv
<1>3. /\ slot' = [slot EXCEPT ![s] = Nil] /\ conn' = [conn EXCEPT ![c] = "closed"]
      /\ line' = line /\ UNCHANGED <<server, closeReq, login, result, kind, pos, left, torn, faults>>
      /\ req' = IF line[s] = <<>> THEN req ELSE [req EXCEPT ![s] = OnLine(req[s], line[s][1])]
  BY <1>1 DEF RemoteClose, Close
<1> HIDE DEF c
<1>4. req'[s] \in OwnRequest(c, kind[c]) /\ \A t \in Slots : t # s => req'[t] = req[t]
  <2>1. CASE line[s] = <<>>
    BY <1>2, <1>3, <2>1
  <2>2. CASE line[s] # <<>>
    <3>1. line[s][1] \in Own(c)
      BY <1>2, <2>2 DEF OwnLine
    <3>2. OnLine(req[s], line[s][1]) \in OwnRequest(c, kind[c])
      BY <1>1, <1>2, <3>1, OnLineOwn
    <3> QED
      BY <1>1, <1>3, <2>2, <3>2
  <2> QED
    BY <2>1, <2>2
<1>5. req' \in [Slots -> Request]
  <2>1. req'[s] \in Request
    BY <1>1, <1>4, OwnIsProgress
  <2>2. req' = [req EXCEPT ![s] = req'[s]]
    BY <1>1, <1>3
  <2> QED
    BY <1>1, <2>1, <2>2
<1>6. SlotInv(s)'
  <2>1. slot'[s] = Nil
    BY <1>1, <1>3
  <2>2. req'[s].content # <<>> => Len(req'[s].content) < req'[s].length
    BY <1>4 DEF OwnRequest
  <2> QED
    BY <2>1, <2>2, NoClient
<1>7. ASSUME NEW t \in Slots, t # s PROVE SlotInv(t)'
  <2>1. slot'[t] = slot[t] /\ line'[t] = line[t] /\ req'[t] = req[t]
    BY <1>1, <1>3, <1>4, <1>7
  <2> QED
    BY <1>1, <1>3, <2>1, SameSlot
<1>8. RequestInv'
  BY <1>1, <1>3, <1>5, <1>6, <1>7 DEF RequestInv
<1>9. WebType' /\ PosInv' /\ SavedUnlessTorn'
  <2>1. \A d \in Conns : conn'[d] = "coming" => conn[d] = "coming"
    BY <1>1, <1>3
  <2>2. WebType'
    BY <1>3 DEF WebInv, WebType, login, result
  <2>3. PosInv' /\ SavedUnlessTorn'
    BY <1>3, <2>1 DEF WebInv, PosInv, SavedUnlessTorn, SavedAsSent, result
  <2> QED
    BY <2>2, <2>3
<1> QED
  BY <1>8, <1>9

LEMMA RebootStep ==
  ASSUME WebInv, NEW s \in Slots, ReceiveReboot(s)
  PROVE  WebType' /\ RequestInv' /\ PosInv' /\ SavedUnlessTorn'
<1> DEFINE c == slot[s]
<1>1. /\ slot[s] # Nil /\ kind' = kind /\ left' = left /\ faults' = faults /\ server' = "no_init"
      /\ slot' = [t \in Slots |-> Nil] /\ line' = [t \in Slots |-> <<>>]
      /\ req' = [t \in Slots |-> Cleared] /\ closeReq' = [t \in Slots |-> FALSE]
      /\ conn' = [d \in Conns |-> IF conn[d] = "open" THEN "closed" ELSE conn[d]]
      /\ pass' = FALSE /\ age' = 0 /\ UNCHANGED result
  BY DEF ReceiveReboot, Forget
<1>2. PICK n \in 1 .. Len(Stream(slot[s])) - pos[slot[s]] : Read(slot[s], n)
  BY Zenon DEF ReceiveReboot
<1>3. /\ pos' \in [Conns -> Nat] /\ torn' \subseteq Conns /\ torn \subseteq torn'
      /\ \A d \in Conns : d # c => pos'[d] = pos[d]
  BY <1>1, <1>2, ReadStep
<1>4. RequestInv'
  <2>1. line' \in [Slots -> Seq(Unit)] /\ req' \in [Slots -> Request]
    BY <1>1, ClearedType
  <2>2. ASSUME NEW t \in Slots PROVE SlotInv(t)'
    <3>1. slot'[t] = Nil /\ req'[t].content = <<>>
      BY <1>1, ClearedType
    <3> QED
      BY <3>1, NoClient
  <2> QED
    BY <2>1, <2>2 DEF RequestInv
<1>5. WebType'
  BY <1>1, <1>3 DEF WebInv, WebType, result
<1>6. PosInv'
  <2>1. c \in Conns /\ conn[c] = "open"
    BY <1>1 DEF WebInv, TableInv, TableType, SlotsMatch
  <2> HIDE DEF c
  <2>2. \A d \in Conns : conn'[d] = "coming" => conn[d] = "coming" /\ d # c
    BY <1>1, <2>1
  <2> QED
    BY <1>3, <2>2 DEF WebInv, PosInv
<1>7. SavedUnlessTorn'
  BY <1>1, <1>3 DEF WebInv, SavedUnlessTorn, SavedAsSent, result
<1> QED
  BY <1>4, <1>5, <1>6, <1>7

LEMMA CloseStep == WebInv /\ [Next]_vars => CloseInv'
<1> SUFFICES ASSUME WebInv, [Next]_vars, NEW t \in Slots, slot'[t] # Nil
             PROVE  ~closeReq'[t]
  BY DEF CloseInv
<1>1. /\ slot \in [Slots -> Conns \union {Nil}] /\ closeReq \in [Slots -> BOOLEAN]
      /\ \A s \in Slots : slot[s] # Nil => ~closeReq[s]
  BY DEF WebInv, TableInv, TableType, WebType, CloseInv
<1>2. CASE UNCHANGED <<slot, closeReq>>
  BY <1>1, <1>2
<1>3. ASSUME NEW c \in Conns, Accept(c) \/ AcceptFails(c) PROVE ~closeReq'[t]
  <2>1. PICK f \in Slots : /\ ClearSlot(f)
                           /\ slot' = [slot EXCEPT ![f] = c] \/ slot' = slot
    BY <1>3, FirstFreeIsFree DEF Accept, AcceptFails, TakeSlot
  <2>2. closeReq' = [closeReq EXCEPT ![f] = FALSE]
    BY <2>1 DEF ClearSlot
  <2> QED
    BY <1>1, <2>1, <2>2
<1>4. ASSUME NEW s \in Slots, Receive(s) PROVE ~closeReq'[t]
  <2>1. PICK p : /\ closeReq' = [closeReq EXCEPT ![s] = closeReq[s] \/ p.bad \/ p.asked # <<>>]
                 /\ IF closeReq'[s] THEN Close(s) ELSE UNCHANGED <<slot, conn>>
    BY <1>4, Zenon DEF Receive
  <2>2. CASE t = s
    <3>1. slot[s] # Nil /\ (closeReq'[s] => slot'[s] = Nil)
      BY <1>1, <1>4, <2>1 DEF Receive, Close
    <3> QED
      BY <2>2, <3>1
  <2>3. CASE t # s
    <3>1. slot'[t] = slot[t] /\ closeReq'[t] = closeReq[t]
      BY <1>1, <2>1, <2>3 DEF Close
    <3> QED
      BY <1>1, <3>1
  <2> QED
    BY <2>2, <2>3
<1>5. ASSUME NEW s \in Slots, ReceiveReboot(s) PROVE FALSE
  BY <1>5 DEF ReceiveReboot
<1>6. ASSUME NEW s \in Slots, RemoteClose(s) PROVE ~closeReq'[t]
  BY <1>1, <1>6 DEF RemoteClose, Close
<1> QED
  BY <1>2, <1>3, <1>4, <1>5, <1>6
  DEF Next, Event, Timer, ServerInit, ServerRetry, ServerInitFails, Refuse, Leave, Elapse,
      table, vars

LEMMA WebStep == WebInv /\ [Next]_vars => WebInv'
<1> SUFFICES ASSUME WebInv, [Next]_vars PROVE WebInv'
  OBVIOUS
<1> DEFINE Kept == WebType' /\ RequestInv' /\ PosInv' /\ SavedUnlessTorn'
<1>1. TableInv'
  BY TableStep DEF WebInv
<1>2. /\ server \in {"no_init", "wait", "idle"} /\ left \subseteq Conns /\ faults \in Nat
      /\ pass \in BOOLEAN /\ age \in Nat /\ conn \in [Conns -> {"coming", "open", "closed"}]
  BY DEF WebInv, WebType, TableInv, TableType
<1>3. ASSUME Timer \/ ServerInitFails \/ Elapse PROVE Kept
  BY <1>2, <1>3, QuietStep DEF Timer, ServerInit, ServerRetry, ServerInitFails, Elapse, login
<1>4. ASSUME NEW c \in Conns, Refuse(c) \/ Leave(c) PROVE Kept
  BY <1>2, <1>4, QuietStep DEF Refuse, Leave, login
<1>5. ASSUME NEW c \in Conns, Accept(c) \/ AcceptFails(c) PROVE Kept
  BY <1>5, AcceptStep
<1>6. ASSUME NEW s \in Slots, Receive(s) PROVE Kept
  BY <1>6, ReceiveStep
<1>7. ASSUME NEW s \in Slots, ReceiveReboot(s) \/ RemoteClose(s) PROVE Kept
  BY <1>7, RebootStep, RemoteStep
<1>8. ASSUME UNCHANGED vars PROVE Kept
  BY <1>2, <1>8, QuietStep DEF vars, table, login, result
<1> HIDE DEF Kept
<1>9. Kept
  BY <1>3, <1>4, <1>5, <1>6, <1>7, <1>8 DEF Next, Event
<1> QED
  BY <1>1, <1>9, CloseStep DEF WebInv, Kept

-----------------------------------------------------------------------------
LEMMA WebAlways == Spec => []WebInv
  BY WebInit, WebStep, PTL DEF Spec

\* The types hold for any number of slots and clients, and among them that the
\* content of a request under way is shorter than its Content-Length
\* (__recv_process clears the request as soon as it has all of it).
THEOREM TypeCorrect == Spec => []TypeOK
<1>1. WebInv => TypeOK
  BY DEF WebInv, TableInv, TableType, WebType, RequestInv, SlotInv, TypeOK
<1> QED
  BY <1>1, WebAlways, PTL

\* Whatever the network makes of the streams, and however often the slots change
\* hands, no line and no request holds a unit of another client, and no client is
\* closed by another's mark: __web_process clears the slot when it accepts.
THEOREM RequestsOwn == Spec => []OwnUnits
<1>1. WebInv => OwnUnits
  <2> SUFFICES ASSUME WebInv, NEW s \in Slots, slot[s] # Nil
               PROVE  /\ \A n \in DOMAIN line[s] : line[s][n].of = slot[s]
                      /\ \A n \in DOMAIN req[s].content : req[s].content[n].of = slot[s]
                      /\ req[s].path # Nil => req[s].path = kind[slot[s]]
                      /\ ~closeReq[s]
    BY DEF OwnUnits
  <2>1. line[s] \in Seq(Own(slot[s])) /\ req[s] \in OwnRequest(slot[s], kind[slot[s]])
    BY DEF WebInv, RequestInv, SlotInv, OwnLine
  <2>2. req[s].content \in Seq(Own(slot[s])) /\ req[s].path \in {Nil, kind[slot[s]]}
    BY <2>1 DEF OwnRequest, OwnLine
  <2>3. ASSUME NEW q \in Seq(Own(slot[s])), NEW n \in DOMAIN q PROVE q[n].of = slot[s]
    BY DEF Own
  <2>4. ~closeReq[s]
    BY DEF WebInv, CloseInv
  <2> QED
    BY <2>1, <2>2, <2>3, <2>4
<1> QED
  BY <1>1, WebAlways, PTL

\* Whoever is told that saving succeeded has the SSID and the password of one
\* form in the store, unless the form came in part with the end of its head.
THEOREM SavedWhole == Spec => []SavedUnlessTorn
<1>1. WebInv => SavedUnlessTorn
  BY DEF WebInv
<1> QED
  BY <1>1, WebAlways, PTL

=============================================================================
