--------------------------- MODULE CfgStoreProofs ---------------------------
(***************************************************************************)
(* Proofs about CfgStore for every set of threads, every number of saves   *)
(* and of restarts: its type invariant, and what the mutex of cfg.c gives  *)
(* the readers (ReaderSeesWhole) and the writers (NoLostUpdate), although  *)
(* the mirror is copied without it.                                        *)
(***************************************************************************)
EXTENDS CfgStore, TLAPS

\* The stages of a thread inside a locked rewrite of the current file, the
\* stages of file_copy, and those that belong to cfg_init or to a save.
Rewriting  == {"set_write", "cnt_write"}
Copying    == {"stat", "trunc", "read", "write", "sync_end"}
InitStages == {"init0", "init1", "decide", "failed"} \union Copying
SaveStages == {"idle", "cnt_get", "cnt_set", "sync"} \union Rewriting \union Copying

\* A copy that moves chunks still has one to move; an edited config_t is
\* never without its keys.
LocalInv ==
  \A t \in Threads : /\ pc[t] \in {"read", "write"} => left[t] # 0
                     /\ pc[t] = "set_write" => buf[t].tl # Nil

TypeInv == TypeOK /\ LocalInv

(***************************************************************************)
(* The invariant behind both properties.  The mutex marks exactly the      *)
(* threads that are rewriting the current file (MutexInv); what they are   *)
(* about to write is whole and forgets no other thread's key (BufInv); and *)
(* cfg_init hands over a whole file (ScanInv, BootInv).                    *)
(***************************************************************************)
PhaseInv ==
  /\ phase = "boot" => /\ pc[Main] \in InitStages
                       /\ \A t \in Threads \ {Main} : pc[t] = "off"
  /\ phase = "run" => \A t \in Threads : pc[t] \in SaveStages

MutexInv == \A t \in Threads : pc[t] \in Rewriting <=> mutex = t

Current == Whole(cache[cur]) /\ cache[cur].tl = latest

FreeInv == phase = "run" /\ mutex = Nil => Current

BufInv ==
  \A t \in Threads :
     /\ pc[t] = "set_write" =>
          buf[t].hd # Nil /\ buf[t].tl = [latest EXCEPT ![t] = attempt[t]]
     /\ pc[t] = "cnt_write" => buf[t].hd # Nil /\ buf[t].tl = latest

ScanInv ==
  phase = "boot" =>
     /\ pc[Main] \in {"init1", "decide"} /\ writeCnt[0] >= 0 => Whole(cache[0])
     /\ pc[Main] = "decide" /\ writeCnt[1] >= 0 => Whole(cache[1])

BootInv == phase = "boot" /\ pc[Main] \in Copying => Current

LockInv  == PhaseInv /\ MutexInv /\ FreeInv /\ BufInv /\ ScanInv /\ BootInv
StoreInv == TypeInv /\ LockInv

-----------------------------------------------------------------------------
(* Facts about the operators.                                              *)

LEMMA ConstantFacts ==
  /\ Main \in Threads /\ CntMax \in Nat \ {0}
  /\ Nil \notin Counts /\ Nil \notin Threads /\ Nil \notin Values
  BY CfgAssumption DEF Counts, Values

LEMMA ContentFacts ==
  ASSUME NEW c \in Content
  PROVE  /\ c.hd \in Counts \union {Nil} /\ c.tl \in Values \union {Nil}
         /\ Keys(c) \in Values
         /\ Whole(c) => c.hd \in Counts /\ c.tl \in Values /\ Keys(c) = c.tl
         /\ InitCount(c) \in Counts
         /\ InitCount(c) >= 0 => c = Empty \/ Whole(c)
<1>1. c.hd \in Counts \union {Nil} /\ c.tl \in Values \union {Nil}
  BY DEF Content
<1>2. NoKeys \in Values
  BY DEF NoKeys, Values
<1>3. Keys(c) \in Values
  BY <1>1, <1>2 DEF Keys
<1>4. Whole(c) => c.hd \in Counts /\ c.tl \in Values /\ Keys(c) = c.tl
  BY <1>1 DEF Whole, Keys
<1>5. 0 \in Counts /\ -1 \in Counts
  BY ConstantFacts DEF Counts
<1>6. InitCount(c) \in Counts
  BY <1>1, <1>4, <1>5 DEF InitCount
<1>7. InitCount(c) >= 0 => c = Empty \/ Whole(c)
  BY DEF InitCount
<1> QED
  BY <1>1, <1>3, <1>4, <1>6, <1>7

LEMMA EmptyContent == Empty \in Content
  BY DEF Empty, Content

LEMMA NextCountsType == \A n \in Counts : NextCounts(n) \subseteq Counts
  BY ConstantFacts DEF NextCounts, Counts

\* The mirror is never the current file.
LEMMA MirrorIsOther == cur \in Files => Mirror \in Files /\ Mirror # cur
  BY DEF Files, Mirror

LEMMA PutType ==
  ASSUME cache \in [Files -> Content], onDisk \in [Files -> SUBSET Content],
         NEW f \in Files, NEW c \in Content, Put(f, c)
  PROVE  cache' \in [Files -> Content] /\ onDisk' \in [Files -> SUBSET Content]
  BY DEF Put

LEMMA SyncType ==
  ASSUME cache \in [Files -> Content], Sync
  PROVE  cache' \in [Files -> Content] /\ onDisk' \in [Files -> SUBSET Content]
  BY DEF Sync

LEMMA GotoType ==
  ASSUME pc \in [Threads -> Stages], NEW t, NEW s \in Stages, Goto(t, s)
  PROVE  pc' \in [Threads -> Stages]
  BY DEF Goto

-----------------------------------------------------------------------------
(* Type correctness, one lemma per step.                                   *)

LEMMA TypeInit == Init => TypeInv
<1> SUFFICES ASSUME Init PROVE TypeInv
  OBVIOUS
<1>1. 0 \in Counts
  BY ConstantFacts DEF Counts
<1>2. cache \in [Files -> Content] /\ onDisk \in [Files -> SUBSET Content]
  BY EmptyContent DEF Init
<1>3. buf \in [Threads -> Content]
  BY EmptyContent DEF Init
<1>4. pc \in [Threads -> Stages]
  BY DEF Init, Stages
<1>5. NoKeys \in Values
  BY DEF NoKeys, Values
<1>6. LocalInv
  BY DEF Init, LocalInv
<1> QED
  BY <1>1, <1>2, <1>3, <1>4, <1>5, <1>6 DEF Init, TypeInv, TypeOK, Files

LEMMA TypeStep == TypeInv /\ [Next]_vars => TypeInv'
<1> SUFFICES ASSUME TypeInv, [Next]_vars PROVE TypeInv'
  OBVIOUS
<1>1. ASSUME NEW t \in Threads, SetBegin(t) PROVE TypeInv'
  <2>1. cache[cur] \in Content /\ cur \in Files
    BY DEF TypeInv, TypeOK
  <2>2. attempt' \in Values
    BY <1>1 DEF SetBegin, TypeInv, TypeOK, Values
  <2>3. CASE Readable(cache[cur])
    <3>1. [Keys(cache[cur]) EXCEPT ![t] = attempt'[t]] \in Values
      BY <2>1, <2>2, ContentFacts DEF Values
    <3>2. [hd |-> cache[cur].hd, tl |-> [Keys(cache[cur]) EXCEPT ![t] = attempt'[t]]] \in Content
      BY <2>1, <3>1 DEF Content
    <3>3. buf' \in [Threads -> Content]
      BY <1>1, <2>3, <3>2 DEF SetBegin, TypeInv, TypeOK
    <3>4. cache' \in [Files -> Content] /\ onDisk' \in [Files -> SUBSET Content]
      BY <1>1, <2>1, <2>3, PutType, EmptyContent DEF SetBegin, TypeInv, TypeOK
    <3>5. pc' \in [Threads -> Stages]
      BY <1>1, <2>3, GotoType DEF SetBegin, Stages, TypeInv, TypeOK
    <3>6. buf'[t].tl # Nil
      <4>1. buf'[t].tl = [Keys(cache[cur]) EXCEPT ![t] = attempt'[t]]
        BY <1>1, <2>3 DEF SetBegin, TypeInv, TypeOK
      <4> QED
        BY <3>1, <4>1, ConstantFacts
    <3>7. LocalInv'
      BY <1>1, <2>3, <3>6 DEF SetBegin, Goto, LocalInv, TypeInv, TypeOK
    <3>8. mutex' \in Threads \union {Nil}
      BY <1>1, <2>3 DEF SetBegin
    <3> QED
      BY <1>1, <2>2, <3>3, <3>4, <3>5, <3>7, <3>8 DEF SetBegin, TypeInv, TypeOK, bootVars
  <2>4. CASE ~Readable(cache[cur])
    BY <1>1, <2>2, <2>4 DEF SetBegin, TypeInv, TypeOK, LocalInv, bootVars
  <2> QED
    BY <2>3, <2>4
<1>2. ASSUME NEW t \in Threads, SetWrite(t) PROVE TypeInv'
  <2>1. buf[t] \in Content /\ cur \in Files
    BY DEF TypeInv, TypeOK
  <2>2. latest' \in Values
    <3>1. buf[t].tl \in Values
      BY <1>2, <2>1, ContentFacts DEF SetWrite, TypeInv, LocalInv
    <3> QED
      BY <1>2, <3>1 DEF SetWrite, TypeInv, TypeOK, Values
  <2>3. cache' \in [Files -> Content] /\ onDisk' \in [Files -> SUBSET Content]
    BY <1>2, <2>1, <2>2, PutType, EmptyContent DEF SetWrite, TypeInv, TypeOK
  <2>4. pc' \in [Threads -> Stages]
    BY <1>2, GotoType DEF SetWrite, Stages, TypeInv, TypeOK
  <2> QED
    BY <1>2, <2>1, <2>2, <2>3, <2>4 DEF SetWrite, TypeInv, TypeOK, LocalInv, Goto, bootVars, Values
<1>3. ASSUME NEW t \in Threads, CntGet(t) PROVE TypeInv'
  <2>1. num' \in [Threads -> Counts]
    BY <1>3, ContentFacts, NextCountsType, ConstantFacts DEF CntGet, TypeInv, TypeOK, Counts
  <2>2. cache' \in [Files -> Content] /\ onDisk' \in [Files -> SUBSET Content]
    BY <1>3, <2>1 DEF CntGet, fileVars, TypeInv, TypeOK
  <2>3. pc' \in [Threads -> Stages]
    BY <1>3, GotoType DEF CntGet, Stages, TypeInv, TypeOK
  <2> QED
    BY <1>3, <2>1, <2>2, <2>3 DEF CntGet, TypeInv, TypeOK, LocalInv, Goto, fileVars, bootVars, history
<1>4. ASSUME NEW t \in Threads, CntSet(t) PROVE TypeInv'
  <2>1. cache[cur] \in Content /\ cur \in Files
    BY DEF TypeInv, TypeOK
  <2>2. [hd |-> num[t], tl |-> Keys(cache[cur])] \in Content
    BY <2>1, ContentFacts DEF Content, TypeInv, TypeOK
  <2>3. buf' \in [Threads -> Content]
    BY <1>4, <2>2 DEF CntSet, TypeInv, TypeOK
  <2>4. cache' \in [Files -> Content] /\ onDisk' \in [Files -> SUBSET Content]
    BY <1>4, <2>1, PutType, EmptyContent DEF CntSet, TypeInv, TypeOK
  <2>5. pc' \in [Threads -> Stages]
    BY <1>4, GotoType DEF CntSet, Stages, TypeInv, TypeOK
  <2>6. mutex' \in Threads \union {Nil} /\ LocalInv'
    BY <1>4 DEF CntSet, Goto, LocalInv, TypeInv, TypeOK
  <2> QED
    BY <1>4, <2>3, <2>4, <2>5, <2>6 DEF CntSet, TypeInv, TypeOK, bootVars, history
<1>5. ASSUME NEW t \in Threads, CntWrite(t) PROVE TypeInv'
  <2>1. buf[t] \in Content /\ cur \in Files
    BY DEF TypeInv, TypeOK
  <2>2. cache' \in [Files -> Content] /\ onDisk' \in [Files -> SUBSET Content]
    BY <1>5, <2>1, PutType, EmptyContent DEF CntWrite, TypeInv, TypeOK
  <2>3. pc' \in [Threads -> Stages]
    BY <1>5, GotoType DEF CntWrite, Stages, TypeInv, TypeOK
  <2> QED
    BY <1>5, <2>1, <2>2, <2>3 DEF CntWrite, TypeInv, TypeOK, LocalInv, Goto, bootVars, history
<1>6. ASSUME NEW t \in Threads, SyncSave(t) PROVE TypeInv'
  <2>1. cache' \in [Files -> Content] /\ onDisk' \in [Files -> SUBSET Content]
    BY <1>6, SyncType DEF SyncSave, TypeInv, TypeOK
  <2>2. pc' \in [Threads -> Stages]
    BY <1>6, GotoType DEF SyncSave, Stages, TypeInv, TypeOK
  <2> QED
    BY <1>6, <2>1, <2>2 DEF SyncSave, TypeInv, TypeOK, LocalInv, Goto, bootVars, history
<1>7. ASSUME NEW t \in Threads, CopyStat(t) PROVE TypeInv'
  <2>1. left' \in [Threads -> 0 .. 2]
    BY <1>7 DEF CopyStat, TypeInv, TypeOK
  <2>2. cache' \in [Files -> Content] /\ onDisk' \in [Files -> SUBSET Content]
    BY <1>7, <2>1 DEF CopyStat, fileVars, TypeInv, TypeOK
  <2>3. pc' \in [Threads -> Stages]
    BY <1>7, GotoType DEF CopyStat, Stages, TypeInv, TypeOK
  <2> QED
    BY <1>7, <2>1, <2>2, <2>3 DEF CopyStat, TypeInv, TypeOK, LocalInv, Goto, fileVars, bootVars, history
<1>8. ASSUME NEW t \in Threads, CopyTrunc(t) PROVE TypeInv'
  <2>1. cache' \in [Files -> Content] /\ onDisk' \in [Files -> SUBSET Content]
    BY <1>8, PutType, EmptyContent, MirrorIsOther DEF CopyTrunc, TypeInv, TypeOK
  <2>2. pc' \in [Threads -> Stages]
    BY <1>8, GotoType DEF CopyTrunc, Stages, TypeInv, TypeOK
  <2> QED
    BY <1>8, <2>1, <2>2 DEF CopyTrunc, TypeInv, TypeOK, LocalInv, Goto, bootVars, history
<1>9. ASSUME NEW t \in Threads, CopyRead(t) PROVE TypeInv'
  <2>1. cache[cur] \in Content
    BY DEF TypeInv, TypeOK
  <2>2. buf' \in [Threads -> Content]
    BY <1>9, <2>1 DEF CopyRead, TypeInv, TypeOK
  <2>3. left[t] # 0 \/ pc'[t] = "sync_end" \/ pc[t] # "read"
    BY DEF TypeInv, LocalInv
  <2>4. cache' \in [Files -> Content] /\ onDisk' \in [Files -> SUBSET Content]
    BY <1>9, <2>1, <2>2, <2>3 DEF CopyRead, fileVars, TypeInv, TypeOK
  <2>5. pc' \in [Threads -> Stages]
    BY <1>9, GotoType DEF CopyRead, Stages, TypeInv, TypeOK
  <2> QED
    BY <1>9, <2>1, <2>2, <2>3, <2>4, <2>5 DEF CopyRead, TypeInv, TypeOK, LocalInv, Goto, fileVars, bootVars, history
<1>10. ASSUME NEW t \in Threads, CopyWrite(t) PROVE TypeInv'
  <2>1. buf[t] \in Content /\ cache[Mirror] \in Content /\ Mirror \in Files
    BY MirrorIsOther DEF TypeInv, TypeOK
  <2>2. /\ [cache[Mirror] EXCEPT !.hd = buf[t].hd] \in Content
        /\ [cache[Mirror] EXCEPT !.tl = buf[t].tl] \in Content
    BY <2>1 DEF Content
  <2>3. cache' \in [Files -> Content] /\ onDisk' \in [Files -> SUBSET Content]
    BY <1>10, <2>1, <2>2, PutType DEF CopyWrite, TypeInv, TypeOK
  <2>4. pc' \in [Threads -> Stages]
    BY <1>10, GotoType DEF CopyWrite, Stages, TypeInv, TypeOK
  <2>5. left[t] \in 1 .. 2
    BY <1>10 DEF CopyWrite, TypeInv, TypeOK, LocalInv
  <2>6. left' \in [Threads -> 0 .. 2]
    BY <1>10, <2>5 DEF CopyWrite, TypeInv, TypeOK
  <2>7. LocalInv'
    BY <1>10, <2>5 DEF CopyWrite, Goto, TypeInv, TypeOK, LocalInv
  <2> QED
    BY <1>10, <2>3, <2>4, <2>6, <2>7 DEF CopyWrite, TypeInv, TypeOK, bootVars, history
<1>11. ASSUME NEW t \in Threads, SaveReturn(t) PROVE TypeInv'
  <2>1. cache' \in [Files -> Content] /\ onDisk' \in [Files -> SUBSET Content]
    BY <1>11, SyncType DEF SaveReturn, TypeInv, TypeOK
  <2>2. pc' \in [Threads -> Stages]
    BY <1>11, GotoType DEF SaveReturn, Stages, TypeInv, TypeOK
  <2> QED
    BY <1>11, <2>1, <2>2 DEF SaveReturn, TypeInv, TypeOK, LocalInv, Goto, bootVars, Values
<1>12. ASSUME NEW f \in Files, InitFile(f) PROVE TypeInv'
  <2>1. cache[f] \in Content
    BY DEF TypeInv, TypeOK
  <2>2. [hd |-> 0, tl |-> NoKeys] \in Content
    BY ConstantFacts DEF Content, Counts, NoKeys, Values
  <2>3. cache' \in [Files -> Content] /\ onDisk' \in [Files -> SUBSET Content]
    BY <1>12, <2>2, PutType, EmptyContent DEF InitFile, fileVars, TypeInv, TypeOK
  <2>4. pc' \in [Threads -> Stages]
    BY <1>12, GotoType DEF InitFile, Stages, TypeInv, TypeOK
  <2>5. writeCnt' \in [Files -> Counts]
    BY <1>12, <2>1, ContentFacts DEF InitFile, TypeInv, TypeOK
  <2>6. LocalInv'
    BY <1>12 DEF InitFile, Goto, TypeInv, TypeOK, LocalInv
  <2> QED
    BY <1>12, <2>3, <2>4, <2>5, <2>6 DEF InitFile, TypeInv, TypeOK, history
<1>13. CASE InitDecide
  <2>1. NewerFile \in Files
    BY DEF NewerFile, Files
  <2>2. Keys(cache[NewerFile]) \in Values
    BY <2>1, ContentFacts DEF TypeInv, TypeOK
  <2>3. pc' \in [Threads -> Stages]
    BY <1>13, GotoType, ConstantFacts DEF InitDecide, Started, Stages, TypeInv, TypeOK
  <2>4. LocalInv'
    BY <1>13 DEF InitDecide, Started, Goto, TypeInv, TypeOK, LocalInv
  <2> QED
    BY <1>13, <2>1, <2>2, <2>3, <2>4 DEF InitDecide, Started, TypeInv, TypeOK, fileVars
<1>14. CASE InitEnd
  <2>1. cache' \in [Files -> Content] /\ onDisk' \in [Files -> SUBSET Content]
    BY <1>14, SyncType DEF InitEnd, TypeInv, TypeOK
  <2>2. pc' \in [Threads -> Stages] /\ LocalInv'
    BY <1>14 DEF InitEnd, Started, Stages, LocalInv
  <2> QED
    BY <1>14, <2>1, <2>2 DEF InitEnd, Started, TypeInv, TypeOK, history
<1>15. CASE Restart
  <2>1. 0 \in Counts
    BY ConstantFacts DEF Counts
  <2>2. cache' \in [Files -> Content] /\ onDisk' \in [Files -> SUBSET Content]
    <3>1. PICK image \in [Files -> UNION {onDisk[f] : f \in Files}] :
             /\ \A f \in Files : image[f] \in onDisk[f]
             /\ cache' = image
             /\ onDisk' = [f \in Files |-> {image[f]}]
      BY <1>15 DEF Restart
    <3>2. \A f \in Files : image[f] \in Content
      BY <3>1 DEF TypeInv, TypeOK
    <3> QED
      BY <3>1, <3>2
  <2>3. pc' \in [Threads -> Stages] /\ LocalInv'
    BY <1>15 DEF Restart, Stages, LocalInv
  <2>4. buf' \in [Threads -> Content]
    BY <1>15, EmptyContent DEF Restart
  <2> QED
    BY <1>15, <2>1, <2>2, <2>3, <2>4 DEF Restart, TypeInv, TypeOK, Files, history
<1>16. CASE UNCHANGED vars
  BY <1>16 DEF vars, TypeInv, TypeOK, LocalInv
<1> QED
  BY <1>1, <1>2, <1>3, <1>4, <1>5, <1>6, <1>7, <1>8, <1>9, <1>10, <1>11, <1>12, <1>13,
     <1>14, <1>15, <1>16 DEF Next, SaveStep, InitStep

\* Every variable keeps its type: the count stays in its range, and file_copy
\* never has a negative number of chunks left to move.
THEOREM TypeCorrect == Spec => []TypeOK
<1>1. TypeInv => TypeOK
  BY DEF TypeInv
<1> QED
  BY <1>1, TypeInit, TypeStep, PTL DEF Spec

-----------------------------------------------------------------------------
(* What the mutex protects.                                                *)

LEMMA StoreInit == Init => StoreInv
<1> SUFFICES ASSUME Init PROVE LockInv
  BY TypeInit DEF StoreInv
<1>1. PhaseInv
  BY ConstantFacts DEF Init, PhaseInv, InitStages
<1>2. MutexInv
  BY ConstantFacts DEF Init, MutexInv, Rewriting
<1>3. FreeInv /\ BufInv /\ ScanInv /\ BootInv
  BY ConstantFacts DEF Init, FreeInv, BufInv, ScanInv, BootInv, Copying
<1> QED
  BY <1>1, <1>2, <1>3 DEF LockInv

\* Which phase and which thread a stage belongs to.
LEMMA StageFacts ==
  ASSUME StoreInv, NEW t \in Threads
  PROVE  /\ phase \in {"boot", "run"}
         /\ pc[t] \in SaveStages \ Copying => phase = "run"
         /\ phase = "boot" /\ pc[t] \in Copying => t = Main
         /\ pc[Main] \in InitStages \ Copying => phase = "boot"
  BY ConstantFacts DEF StoreInv, LockInv, TypeInv, TypeOK, PhaseInv, InitStages, SaveStages,
     Copying, Rewriting

\* When the mutex is free nobody is rewriting, and the current file is whole.
LEMMA FreeFacts ==
  ASSUME StoreInv, phase = "run", mutex = Nil
  PROVE  Current /\ \A t \in Threads : pc[t] \notin Rewriting
  BY ConstantFacts DEF StoreInv, LockInv, FreeInv, MutexInv

(***************************************************************************)
(* A step that neither rewrites the current file nor touches the mutex:    *)
(* the steps of file_copy among them.                                      *)
(***************************************************************************)
LEMMA QuietStep ==
  ASSUME StoreInv, NEW t \in Threads, NEW s, Goto(t, s),
         cache'[cur] = cache[cur], cur' = cur, mutex' = mutex, phase' = phase,
         writeCnt' = writeCnt, latest' = latest, attempt' = attempt,
         \A u \in Threads \ {t} : buf'[u] = buf[u],
         pc[t] \notin Rewriting, s \in SaveStages \ Rewriting,
         phase = "boot" => pc[t] \in Copying /\ s \in Copying
  PROVE  LockInv'
<1>1. /\ pc \in [Threads -> Stages] /\ pc'[t] = s
      /\ \A u \in Threads \ {t} : pc'[u] = pc[u]
  BY DEF Goto, StoreInv, TypeInv, TypeOK
<1>2. phase = "boot" => t = Main
  BY StageFacts
<1>3. PhaseInv'
  BY <1>1, <1>2, ConstantFacts DEF StoreInv, LockInv, PhaseInv, InitStages
<1>4. MutexInv'
  BY <1>1 DEF StoreInv, LockInv, MutexInv
<1>5. FreeInv' /\ BootInv'
  BY <1>1, <1>2 DEF StoreInv, LockInv, FreeInv, BootInv, Current, Whole
<1>6. BufInv'
  BY <1>1 DEF StoreInv, LockInv, BufInv, Rewriting
<1>7. ScanInv'
  BY <1>1, <1>2 DEF ScanInv, Copying
<1> QED
  BY <1>3, <1>4, <1>5, <1>6, <1>7 DEF LockInv

LEMMA QuietActions ==
  ASSUME StoreInv, NEW t \in Threads,
         \/ CntGet(t) \/ SyncSave(t) \/ CopyStat(t) \/ CopyTrunc(t)
         \/ CopyRead(t) \/ CopyWrite(t) \/ SaveReturn(t)
  PROVE  LockInv'
<1> DEFINE Quiet(s) ==
      /\ Goto(t, s)
      /\ cache'[cur] = cache[cur] /\ cur' = cur /\ mutex' = mutex /\ phase' = phase
      /\ writeCnt' = writeCnt /\ latest' = latest /\ attempt' = attempt
      /\ \A u \in Threads \ {t} : buf'[u] = buf[u]
      /\ pc[t] \notin Rewriting /\ s \in SaveStages \ Rewriting
      /\ phase = "boot" => pc[t] \in Copying /\ s \in Copying
<1>1. CASE CntGet(t)
  <2>1. phase = "run"
    BY <1>1, StageFacts DEF CntGet, SaveStages, Copying
  <2>2. Quiet("cnt_set")
    BY <1>1, <2>1 DEF CntGet, SaveStages, Rewriting, fileVars, bootVars, history
  <2> QED
    BY <2>2, QuietStep
<1>2. CASE SyncSave(t)
  <2>1. phase = "run"
    BY <1>2, StageFacts DEF SyncSave, SaveStages, Copying
  <2>2. Quiet("stat")
    BY <1>2, <2>1 DEF SyncSave, Sync, SaveStages, Copying, Rewriting, bootVars, history
  <2> QED
    BY <2>2, QuietStep
<1>3. CASE CopyStat(t)
  <2>1. Quiet("trunc")
    BY <1>3 DEF CopyStat, SaveStages, Copying, Rewriting, fileVars, bootVars, history
  <2> QED
    BY <2>1, QuietStep
<1>4. CASE CopyTrunc(t)
  <2>1. cache'[cur] = cache[cur]
    BY <1>4, MirrorIsOther DEF CopyTrunc, Put, StoreInv, TypeInv, TypeOK
  <2>2. PICK s \in {"sync_end", "read"} : Goto(t, s)
    BY <1>4 DEF CopyTrunc
  <2>3. Quiet(s)
    BY <1>4, <2>1, <2>2 DEF CopyTrunc, SaveStages, Copying, Rewriting, bootVars, history
  <2> QED
    BY <2>3, QuietStep
<1>5. CASE CopyRead(t)
  <2>1. PICK s \in {"sync_end", "write"} : Goto(t, s)
    BY <1>5 DEF CopyRead
  <2>2. \A u \in Threads \ {t} : buf'[u] = buf[u]
    BY <1>5 DEF CopyRead, StoreInv, TypeInv, TypeOK
  <2>3. Quiet(s)
    BY <1>5, <2>1, <2>2 DEF CopyRead, SaveStages, Copying, Rewriting, fileVars, bootVars, history
  <2> QED
    BY <2>3, QuietStep
<1>6. CASE CopyWrite(t)
  <2>1. cache'[cur] = cache[cur]
    BY <1>6, MirrorIsOther DEF CopyWrite, Put, StoreInv, TypeInv, TypeOK
  <2>2. PICK s \in {"sync_end", "read"} : Goto(t, s)
    BY <1>6 DEF CopyWrite
  <2>3. Quiet(s)
    BY <1>6, <2>1, <2>2 DEF CopyWrite, SaveStages, Copying, Rewriting, bootVars, history
  <2> QED
    BY <2>3, QuietStep
<1>7. CASE SaveReturn(t)
  <2>1. Quiet("idle")
    BY <1>7 DEF SaveReturn, Sync, SaveStages, Copying, Rewriting, bootVars
  <2> QED
    BY <2>1, QuietStep
<1> QED
  BY <1>1, <1>2, <1>3, <1>4, <1>5, <1>6, <1>7

(***************************************************************************)
(* The two locked rewrites of the current file.                            *)
(***************************************************************************)
\* A rewrite begins: the file is empty, what it will hold is in buf[t].
LEMMA BeginStep ==
  ASSUME StoreInv, NEW t \in Threads, NEW s \in Rewriting, Goto(t, s),
         phase = "run", mutex = Nil,
         mutex' = t, phase' = phase, latest' = latest,
         \A u \in Threads \ {t} : buf'[u] = buf[u] /\ attempt'[u] = attempt[u],
         buf'[t].hd # Nil,
         s = "set_write" => buf'[t].tl = [latest EXCEPT ![t] = attempt'[t]],
         s = "cnt_write" => buf'[t].tl = latest
  PROVE  LockInv'
<1>1. pc'[t] = s /\ \A u \in Threads \ {t} : pc'[u] = pc[u]
  BY DEF Goto, StoreInv, TypeInv, TypeOK
<1>2. PhaseInv'
  BY <1>1 DEF StoreInv, LockInv, PhaseInv, SaveStages
<1>3. MutexInv'
  BY <1>1, FreeFacts DEF MutexInv
<1>4. FreeInv' /\ BootInv' /\ ScanInv'
  BY ConstantFacts DEF FreeInv, BootInv, ScanInv
<1>5. BufInv'
  <2>1. \A u \in Threads \ {t} : pc'[u] \notin Rewriting
    BY <1>1, FreeFacts
  <2>2. pc'[t] = "set_write" => buf'[t].tl = [latest' EXCEPT ![t] = attempt'[t]]
    BY <1>1
  <2>3. pc'[t] = "cnt_write" => buf'[t].tl = latest'
    BY <1>1
  <2> SUFFICES ASSUME NEW u \in Threads, u = t
               PROVE  /\ pc'[u] = "set_write" =>
                           /\ buf'[u].hd # Nil
                           /\ buf'[u].tl = [latest' EXCEPT ![u] = attempt'[u]]
                      /\ pc'[u] = "cnt_write" => buf'[u].hd # Nil /\ buf'[u].tl = latest'
    BY <2>1 DEF BufInv, Rewriting
  <2> QED
    BY <2>2, <2>3
<1> QED
  BY <1>2, <1>3, <1>4, <1>5 DEF LockInv

LEMMA SetBeginStep ==
  ASSUME StoreInv, NEW t \in Threads, SetBegin(t)
  PROVE  LockInv'
<1>1. cache[cur] \in Content /\ cur \in Files
  BY DEF StoreInv, TypeInv, TypeOK
<1>2. Current
  BY FreeFacts DEF SetBegin
<1>3. Readable(cache[cur]) /\ Keys(cache[cur]) = latest /\ cache[cur].hd # Nil
  BY <1>1, <1>2, ContentFacts DEF Current, Readable, Whole
<1>4. /\ buf'[t].hd # Nil
      /\ buf'[t].tl = [latest EXCEPT ![t] = attempt'[t]]
      /\ \A u \in Threads \ {t} : buf'[u] = buf[u] /\ attempt'[u] = attempt[u]
  BY <1>3 DEF SetBegin, StoreInv, TypeInv, TypeOK, Values
<1>5. Goto(t, "set_write") /\ mutex' = t /\ phase' = phase /\ latest' = latest
  BY <1>3 DEF SetBegin, bootVars
<1> QED
  BY <1>4, <1>5, BeginStep DEF SetBegin, Rewriting

LEMMA CntSetStep ==
  ASSUME StoreInv, NEW t \in Threads, CntSet(t)
  PROVE  LockInv'
<1>1. cache[cur] \in Content /\ cur \in Files /\ num[t] \in Counts
  BY DEF StoreInv, TypeInv, TypeOK
<1>2. phase = "run"
  BY StageFacts DEF CntSet, SaveStages, Copying
<1>3. Current
  BY <1>2, FreeFacts DEF CntSet
<1>4. Readable(cache[cur]) /\ Keys(cache[cur]) = latest
  BY <1>1, <1>3, ContentFacts DEF Current, Readable
<1>5. /\ buf'[t].hd # Nil /\ buf'[t].tl = latest
      /\ \A u \in Threads \ {t} : buf'[u] = buf[u] /\ attempt'[u] = attempt[u]
  BY <1>1, <1>4, ConstantFacts DEF CntSet, history, StoreInv, TypeInv, TypeOK
<1>6. Goto(t, "cnt_write") /\ mutex' = t /\ phase' = phase /\ latest' = latest
  BY <1>4 DEF CntSet, bootVars, history
<1> QED
  BY <1>2, <1>5, <1>6, BeginStep DEF CntSet, Rewriting

\* A rewrite ends: the file holds what the thread wrote, and nobody else is in
\* the middle of one.
LEMMA EndStep ==
  ASSUME StoreInv, NEW t \in Threads, pc[t] \in Rewriting,
         NEW s \in SaveStages \ Rewriting, Goto(t, s),
         Put(cur, buf[t]), mutex' = Nil, cur' = cur, phase' = phase,
         buf[t].hd # Nil, buf[t].tl = latest', latest' \in Values
  PROVE  LockInv'
<1>1. pc'[t] = s /\ \A u \in Threads \ {t} : pc'[u] = pc[u]
  BY DEF Goto, StoreInv, TypeInv, TypeOK
<1>2. phase = "run"
  BY StageFacts DEF SaveStages, Rewriting, Copying
<1>3. \A u \in Threads \ {t} : pc[u] \notin Rewriting
  BY DEF StoreInv, LockInv, MutexInv
<1>4. PhaseInv'
  BY <1>1, <1>2 DEF StoreInv, LockInv, PhaseInv
<1>5. MutexInv' /\ BufInv'
  BY <1>1, <1>3, ConstantFacts DEF MutexInv, BufInv, Rewriting
<1>6. cache'[cur] = buf[t]
  BY DEF Put, StoreInv, TypeInv, TypeOK
<1>7. FreeInv' /\ BootInv' /\ ScanInv'
  BY <1>2, <1>6, ConstantFacts DEF FreeInv, Current, Whole, BootInv, ScanInv
<1> QED
  BY <1>4, <1>5, <1>7 DEF LockInv

LEMMA SetWriteStep ==
  ASSUME StoreInv, NEW t \in Threads, SetWrite(t)
  PROVE  LockInv'
<1>1. buf[t].hd # Nil /\ buf[t].tl = [latest EXCEPT ![t] = attempt[t]]
  BY DEF SetWrite, StoreInv, LockInv, BufInv
<1>2. latest \in [Threads -> Nat] /\ attempt[t] \in Nat
  BY DEF StoreInv, TypeInv, TypeOK, Values
<1>3. buf[t].tl[t] = attempt[t]
  BY <1>1, <1>2
<1>4. latest' = [latest EXCEPT ![t] = attempt[t]]
  BY <1>3 DEF SetWrite
<1>5. buf[t].tl = latest' /\ latest' \in Values
  BY <1>1, <1>2, <1>4 DEF Values
<1> QED
  BY <1>1, <1>5, EndStep DEF SetWrite, SaveStages, Rewriting, bootVars

LEMMA CntWriteStep ==
  ASSUME StoreInv, NEW t \in Threads, CntWrite(t)
  PROVE  LockInv'
<1>1. buf[t].hd # Nil /\ buf[t].tl = latest
  BY DEF CntWrite, StoreInv, LockInv, BufInv
<1>2. latest' = latest /\ latest \in Values
  BY DEF CntWrite, history, StoreInv, TypeInv, TypeOK
<1> QED
  BY <1>1, <1>2, EndStep DEF CntWrite, SaveStages, Rewriting, bootVars

(***************************************************************************)
(* cfg_init, and a restart.                                                *)
(***************************************************************************)
LEMMA InitFileStep ==
  ASSUME StoreInv, NEW f \in Files, InitFile(f)
  PROVE  LockInv'
<1> DEFINE here == IF f = 0 THEN "init0" ELSE "init1"
           next == IF f = 0 THEN "init1" ELSE "decide"
<1>1. cache[f] \in Content /\ pc[Main] = here /\ phase = "boot"
  BY StageFacts, ConstantFacts DEF InitFile, InitStages, Copying, StoreInv, TypeInv, TypeOK
<1>2. /\ pc'[Main] = next /\ \A t \in Threads \ {Main} : pc'[t] = pc[t] /\ pc[t] = "off"
      /\ phase' = "boot" /\ mutex' = mutex
  BY <1>1, ConstantFacts DEF InitFile, Goto, StoreInv, LockInv, PhaseInv, TypeInv, TypeOK
<1>3. PhaseInv' /\ MutexInv' /\ BufInv'
  BY <1>1, <1>2, ConstantFacts DEF PhaseInv, InitStages, MutexInv, BufInv, Rewriting,
     StoreInv, LockInv
<1>4. FreeInv' /\ BootInv'
  BY <1>2 DEF FreeInv, BootInv, Copying
<1>5. writeCnt'[f] >= 0 => Whole(cache'[f])
  <2>1. writeCnt'[f] = InitCount(cache[f])
    BY DEF InitFile, StoreInv, TypeInv, TypeOK
  <2>2. CASE Whole(cache[f])
    BY <2>2 DEF InitFile, fileVars
  <2>3. CASE ~Whole(cache[f]) /\ cache[f] = Empty
    <3>1. cache'[f] = [hd |-> 0, tl |-> NoKeys]
      BY <2>3 DEF InitFile, Put, StoreInv, TypeInv, TypeOK
    <3>2. 0 # Nil /\ NoKeys # Nil
      BY ConstantFacts DEF Counts, NoKeys, Values
    <3> QED
      BY <3>1, <3>2 DEF Whole
  <2>4. CASE ~Whole(cache[f]) /\ cache[f] # Empty
    BY <1>1, <2>1, <2>4, ContentFacts
  <2> QED
    BY <2>2, <2>3, <2>4
<1>6. \A g \in Files \ {f} : writeCnt'[g] = writeCnt[g] /\ cache'[g] = cache[g]
  BY DEF InitFile, Put, fileVars, StoreInv, TypeInv, TypeOK
<1>7. ScanInv'
  BY <1>1, <1>2, <1>5, <1>6 DEF ScanInv, Files, StoreInv, LockInv
<1> QED
  BY <1>3, <1>4, <1>7 DEF LockInv

\* The file cfg_init goes on with has a count it could read: it is whole.
LEMMA InitDecideStep ==
  ASSUME StoreInv, InitDecide
  PROVE  LockInv'
<1>1. pc[Main] = "decide" /\ phase = "boot" /\ Main \in Threads
  BY StageFacts, ConstantFacts DEF InitDecide, InitStages, Copying
<1>2. writeCnt[0] \in Int /\ writeCnt[1] \in Int /\ cache \in [Files -> Content]
  BY ConstantFacts DEF StoreInv, TypeInv, TypeOK, Files, Counts
<1>3. mutex = Nil
  BY <1>1, ConstantFacts DEF StoreInv, LockInv, PhaseInv, MutexInv, Rewriting, TypeInv, TypeOK
<1>4. /\ pc' \in [Threads -> Stages]
      /\ mutex' = mutex /\ cache' = cache
  BY TypeStep DEF InitDecide, fileVars, Next, InitStep, StoreInv, TypeInv, TypeOK
<1>5. CASE writeCnt[0] < 0 /\ writeCnt[1] < 0
  <2>1. pc' = [pc EXCEPT ![Main] = "failed"] /\ phase' = "boot"
    BY <1>1, <1>5 DEF InitDecide, Goto
  <2>2. pc'[Main] = "failed" /\ \A t \in Threads \ {Main} : pc'[t] = "off"
    BY <1>1, <2>1 DEF StoreInv, LockInv, PhaseInv, TypeInv, TypeOK
  <2> QED
    BY <1>3, <1>4, <2>1, <2>2, ConstantFacts DEF LockInv, PhaseInv, MutexInv, FreeInv, BufInv,
       ScanInv, BootInv, Rewriting, Copying, InitStages
<1>6. CASE ~(writeCnt[0] < 0 /\ writeCnt[1] < 0)
  <2>1. Whole(cache[NewerFile]) /\ NewerFile \in Files
    BY <1>1, <1>2, <1>6 DEF NewerFile, Files, StoreInv, LockInv, ScanInv
  <2>2. cur' = NewerFile /\ latest' = Keys(cache[NewerFile])
    BY <1>6 DEF InitDecide
  <2>3. Keys(cache[NewerFile]) = cache[NewerFile].tl
    BY <1>2, <2>1, ContentFacts
  <2>4. Current'
    BY <1>4, <2>1, <2>2, <2>3 DEF Current, Whole
  <2>5. CASE writeCnt[0] # writeCnt[1]
    <3>1. pc' = [pc EXCEPT ![Main] = "stat"] /\ phase' = "boot"
      BY <1>1, <1>6, <2>5 DEF InitDecide, Goto
    <3>2. pc'[Main] = "stat" /\ \A t \in Threads \ {Main} : pc'[t] = "off"
      BY <1>1, <3>1 DEF StoreInv, LockInv, PhaseInv, TypeInv, TypeOK
    <3> QED
      BY <1>3, <1>4, <2>4, <3>1, <3>2, ConstantFacts DEF LockInv, PhaseInv, MutexInv, FreeInv,
         BufInv, ScanInv, BootInv, Rewriting, Copying, InitStages
  <2>6. CASE writeCnt[0] = writeCnt[1]
    <3>1. phase' = "run" /\ pc' = [t \in Threads |-> "idle"]
      BY <1>6, <2>6 DEF InitDecide, Started
    <3> QED
      BY <1>3, <1>4, <2>4, <3>1, ConstantFacts DEF LockInv, PhaseInv, MutexInv, FreeInv, BufInv,
         ScanInv, BootInv, Rewriting, SaveStages
  <2> QED
    BY <2>5, <2>6
<1> QED
  BY <1>5, <1>6

LEMMA InitEndStep ==
  ASSUME StoreInv, InitEnd
  PROVE  LockInv'
<1>1. Current /\ mutex = Nil
  BY ConstantFacts DEF InitEnd, StoreInv, LockInv, PhaseInv, MutexInv, BootInv, Copying, Rewriting,
     TypeInv, TypeOK
<1>2. Current' /\ mutex' = Nil /\ phase' = "run" /\ pc' = [t \in Threads |-> "idle"]
  BY <1>1 DEF InitEnd, Started, Sync, history, Current, Whole
<1> QED
  BY <1>2, ConstantFacts DEF LockInv, PhaseInv, MutexInv, FreeInv, BufInv, ScanInv, BootInv,
     Rewriting, SaveStages

LEMMA RestartStep == Restart => LockInv'
<1> SUFFICES ASSUME Restart PROVE LockInv'
  OBVIOUS
<1>1. phase' = "boot" /\ mutex' = Nil /\ pc'[Main] = "init0"
      /\ \A t \in Threads \ {Main} : pc'[t] = "off"
  BY ConstantFacts DEF Restart
<1> QED
  BY <1>1, ConstantFacts DEF LockInv, PhaseInv, MutexInv, FreeInv, BufInv, ScanInv, BootInv,
     Rewriting, Copying, InitStages

LEMMA StoreStep == StoreInv /\ [Next]_vars => StoreInv'
<1> SUFFICES ASSUME StoreInv, [Next]_vars PROVE LockInv'
  BY TypeStep DEF StoreInv
<1>1. ASSUME NEW t \in Threads, SetBegin(t) PROVE LockInv'
  BY <1>1, SetBeginStep
<1>2. ASSUME NEW t \in Threads, SaveStep(t) PROVE LockInv'
  BY <1>2, SetWriteStep, CntSetStep, CntWriteStep, QuietActions DEF SaveStep
<1>3. ASSUME InitStep PROVE LockInv'
  BY <1>3, InitFileStep, InitDecideStep, InitEndStep DEF InitStep
<1>4. CASE UNCHANGED vars
  BY <1>4 DEF vars, StoreInv, LockInv, PhaseInv, MutexInv, FreeInv, BufInv, ScanInv, BootInv,
     Current, Whole
<1> QED
  BY <1>1, <1>2, <1>3, <1>4, RestartStep DEF Next

\* Every reader that takes the mutex finds a complete configuration, whatever
\* saves and mirror copies the other threads are in the middle of, and after
\* any number of power losses.
THEOREM ReadersSeeWhole == Spec => []ReaderSeesWhole
<1>1. StoreInv => ReaderSeesWhole
  BY DEF StoreInv, LockInv, FreeInv, Current, ReaderSeesWhole
<1> QED
  BY <1>1, StoreInit, StoreStep, PTL DEF Spec

\* No thread's save undoes another's: the current file holds, for every thread,
\* the value it saved last.
THEOREM UpdatesKept == Spec => []NoLostUpdate
<1>1. StoreInv => NoLostUpdate
  BY DEF StoreInv, LockInv, FreeInv, Current, NoLostUpdate
<1> QED
  BY <1>1, StoreInit, StoreStep, PTL DEF Spec

=============================================================================
