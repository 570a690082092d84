------------------------------ MODULE CfgStore ------------------------------
(***************************************************************************)
(* The configuration store (application/source/cfg.c with file_copy of     *)
(* utilities/source/file.c): one current file and its mirror, saved to by  *)
(* several threads, re-read after every restart.                           *)
(*                                                                         *)
(* A save rewrites the current file under a mutex, then bumps the write    *)
(* count in the same file (a second locked rewrite), then copies the       *)
(* current file over the mirror, and this copy takes no lock.  cfg_init    *)
(* compares the two write counts and goes on with the larger.              *)
(*                                                                         *)
(* A file is abstracted to two 512-byte chunks, the unit file_copy moves:  *)
(* hd, which holds the group "cfg" with the write count (the group that    *)
(* __cfg_init creates first), and tl, which holds every other key.  One    *)
(* key per thread stands for the keys that thread saves.  The medium keeps *)
(* any image a file had since the last sync(): fclose does not sync.       *)
(***************************************************************************)
EXTENDS Integers

CONSTANTS
  Threads,      \* the threads that save (main, wifi_ctl, jlink_ctl, web)
  Main,         \* the thread that calls cfg_init
  Nil,          \* no chunk, no lock holder
  CntMax,       \* INT_MAX of the write count
  MaxSaves,     \* bound: saves each thread starts
  MaxRestarts   \* bound: restarts (power loss or reboot -f)

ASSUME CfgAssumption ==
  /\ Main \in Threads
  /\ CntMax \in Nat \ {0}
  /\ MaxSaves \in Nat
  /\ MaxRestarts \in Nat
  /\ Nil \notin Int
  /\ Nil \notin Threads
  /\ Nil \notin [Threads -> Nat]

Counts == -1 .. CntMax                \* -1 stands for every negative count
Values == [Threads -> Nat]            \* 0: the key is absent
Content == [hd : Counts \union {Nil}, tl : Values \union {Nil}]
Files == {0, 1}                       \* CFG_PATH0, CFG_PATH1

VARIABLES
  cache,     \* [Files -> Content]: what a read of the file returns
  onDisk,    \* [Files -> SUBSET Content]: images a power loss may leave
  cur,       \* __g_cfg_cur_num
  mutex,     \* __g_mutex: its holder or Nil
  pc,        \* [Threads -> Stages]: where each thread is in its call
  num,       \* [Threads -> Int]: local num of __write_cnt
  left,      \* [Threads -> 0..2]: chunks file_copy still has to move
  buf,       \* [Threads -> Content]: config_t being edited; buf of file_copy
  phase,     \* "boot" while cfg_init runs, then "run"
  writeCnt,  \* [Files -> Counts]: write_cnt[2] of cfg_init
  attempt,   \* history: [Threads -> Nat], saves started
  latest,    \* history: [Threads -> Nat], value last put in the current file
  returned   \* history: [Threads -> Nat], last save that returned

VARIABLE restarts   \* restarts so far

fileVars == <<cache, onDisk>>
bootVars == <<cur, phase, writeCnt>>
history  == <<attempt, latest, returned>>
vars == <<cache, onDisk, cur, mutex, pc, num, left, buf, phase, writeCnt,
          attempt, latest, returned, restarts>>

Stages == {"off", "init0", "init1", "decide", "failed",
           "idle", "set_write", "cnt_get", "cnt_set", "cnt_write", "sync",
           "stat", "trunc", "read", "write", "sync_end"}

NoKeys == [t \in Threads |-> 0]
Empty  == [hd |-> Nil, tl |-> Nil]

\* config_read_file accepts a complete file and an empty one; a file cut after
\* its first chunk has an open group, one that lost it starts with zeros.
Whole(f)    == f.hd # Nil /\ f.tl # Nil
Readable(f) == Whole(f) \/ f = Empty
Keys(f)     == IF f.tl = Nil THEN NoKeys ELSE f.tl

\* Mutant: the two arguments of file_copy are exchanged.
MirrorSwapped == cur

Mirror == 1 - cur

\* num++ with "if (num <= 0) num = 1": past INT_MAX the increment is undefined;
\* the compiled test keeps the negative value or replaces it.
NextCounts(n) == IF n < CntMax THEN {IF n < 0 THEN 1 ELSE n + 1} ELSE {1, -1}

-----------------------------------------------------------------------------
(* Writes reach the page cache now and the medium at any later moment.     *)

Put(f, c) ==
  /\ cache'  = [cache EXCEPT ![f] = c]
  /\ onDisk' = [onDisk EXCEPT ![f] = @ \union {c}]

Sync ==
  /\ onDisk' = [f \in Files |-> {cache[f]}]
  /\ UNCHANGED cache

Goto(t, s) == pc' = [pc EXCEPT ![t] = s]

-----------------------------------------------------------------------------
(* cfg_int_set / cfg_str_set of a key outside the group "cfg".             *)

\* lock, config_read_file, edit, fopen(.., "wt"): the file is empty until the
\* buffered text is flushed.  An unreadable file ends the call with an error.
SetBegin(t) ==
  /\ phase = "run" /\ pc[t] = "idle" /\ mutex = Nil
  /\ attempt[t] < MaxSaves
  /\ attempt' = [attempt EXCEPT ![t] = @ + 1]
  /\ IF Readable(cache[cur])
     THEN /\ mutex' = t
          /\ buf' = [buf EXCEPT ![t] =
                       [hd |-> cache[cur].hd,
                        tl |-> [Keys(cache[cur]) EXCEPT ![t] = attempt'[t]]]]
          /\ Put(cur, Empty)
          /\ Goto(t, "set_write")
     ELSE UNCHANGED <<mutex, buf, cache, onDisk, pc>>
  /\ UNCHANGED <<num, left, bootVars, latest, returned, restarts>>

\* fclose and unlock, in cfg_int_set and again for the write count.
SetWrite(t) ==
  /\ pc[t] = "set_write"
  /\ Put(cur, buf[t])
  /\ mutex' = Nil
  /\ latest' = [latest EXCEPT ![t] = buf[t].tl[t]]
  /\ Goto(t, "cnt_get")
  /\ UNCHANGED <<num, left, buf, bootVars, attempt, returned, restarts>>

\* __write_cnt: cfg_int_get("cfg", "write_cnt"), its own lock and unlock.
CntGet(t) ==
  /\ pc[t] = "cnt_get" /\ mutex = Nil
  /\ \E n \in IF Whole(cache[cur]) THEN NextCounts(cache[cur].hd) ELSE {0} :
        num' = [num EXCEPT ![t] = n]
  /\ Goto(t, "cnt_set")
  /\ UNCHANGED <<fileVars, mutex, left, buf, bootVars, history, restarts>>

\* Mutant: cfg_int_set of the write count forgets to lock.
CntSetUnlocked(t) ==
  /\ pc[t] = "cnt_set"
  /\ mutex' = t
  /\ buf' = [buf EXCEPT ![t] = [hd |-> num[t], tl |-> Keys(cache[cur])]]
  /\ Put(cur, Empty)
  /\ Goto(t, "cnt_write")
  /\ UNCHANGED <<num, left, bootVars, history, restarts>>

\* cfg_int_set("cfg", "write_cnt", num): the second locked rewrite.
CntSet(t) ==
  /\ pc[t] = "cnt_set" /\ mutex = Nil
  /\ IF Readable(cache[cur])
     THEN /\ mutex' = t
          /\ buf' = [buf EXCEPT ![t] = [hd |-> num[t], tl |-> Keys(cache[cur])]]
          /\ Put(cur, Empty)
          /\ Goto(t, "cnt_write")
     ELSE /\ Goto(t, "sync")
          /\ UNCHANGED <<mutex, buf, cache, onDisk>>
  /\ UNCHANGED <<num, left, bootVars, history, restarts>>

\* Mutant: the write count's cfg_int_set returns without unlocking.
CntWriteHeld(t) ==
  /\ pc[t] = "cnt_write"
  /\ Put(cur, buf[t])
  /\ Goto(t, "sync")
  /\ UNCHANGED <<mutex, num, left, buf, bootVars, history, restarts>>

CntWrite(t) ==
  /\ pc[t] = "cnt_write"
  /\ Put(cur, buf[t])
  /\ mutex' = Nil
  /\ Goto(t, "sync")
  /\ UNCHANGED <<num, left, buf, bootVars, history, restarts>>

\* Mutant: no sync() between the write count and the copy.
SyncSaveSkipped(t) ==
  /\ pc[t] = "sync"
  /\ Goto(t, "stat")
  /\ UNCHANGED <<fileVars, mutex, num, left, buf, bootVars, history, restarts>>

SyncSave(t) ==
  /\ pc[t] = "sync"
  /\ Sync
  /\ Goto(t, "stat")
  /\ UNCHANGED <<mutex, num, left, buf, bootVars, history, restarts>>

-----------------------------------------------------------------------------
(* file_copy(current, mirror), called without the mutex.                   *)

\* Mutant: the chunk loop runs once more than the size asks for.
CopyStatOneMore(t) ==
  /\ pc[t] = "stat"
  /\ left' = [left EXCEPT ![t] = IF cache[cur] = Empty THEN 0 ELSE 3]
  /\ Goto(t, "trunc")
  /\ UNCHANGED <<fileVars, mutex, num, buf, bootVars, history, restarts>>

CopyStat(t) ==
  /\ pc[t] = "stat"
  /\ left' = [left EXCEPT ![t] = IF cache[cur] = Empty THEN 0 ELSE 2]
  /\ Goto(t, "trunc")
  /\ UNCHANGED <<fileVars, mutex, num, buf, bootVars, history, restarts>>

CopyTrunc(t) ==
  /\ pc[t] = "trunc"
  /\ Put(Mirror, Empty)
  /\ Goto(t, IF left[t] = 0 THEN "sync_end" ELSE "read")
  /\ UNCHANGED <<mutex, num, left, buf, bootVars, history, restarts>>

\* A read that returns 0, the source having been truncated, ends the copy.
CopyRead(t) ==
  LET chunk == IF left[t] = 2 THEN cache[cur].hd ELSE cache[cur].tl
  IN  /\ pc[t] = "read"
      /\ buf' = [buf EXCEPT ![t] = cache[cur]]
      /\ Goto(t, IF chunk = Nil THEN "sync_end" ELSE "write")
      /\ UNCHANGED <<fileVars, mutex, num, left, bootVars, history, restarts>>

CopyWrite(t) ==
  /\ pc[t] = "write"
  /\ Put(Mirror, IF left[t] = 2 THEN [cache[Mirror] EXCEPT !.hd = buf[t].hd]
                                ELSE [cache[Mirror] EXCEPT !.tl = buf[t].tl])
  /\ left' = [left EXCEPT ![t] = @ - 1]
  /\ Goto(t, IF left[t] = 1 THEN "sync_end" ELSE "read")
  /\ UNCHANGED <<mutex, num, buf, bootVars, history, restarts>>

\* The last sync() of a save, after which the call returns to its caller.
SaveReturn(t) ==
  /\ pc[t] = "sync_end" /\ phase = "run"
  /\ Sync
  /\ returned' = [returned EXCEPT ![t] = attempt[t]]
  /\ Goto(t, "idle")
  /\ UNCHANGED <<mutex, num, left, buf, bootVars, attempt, latest, restarts>>

-----------------------------------------------------------------------------
(* cfg_init, in the main thread before the others exist.                   *)

\* Mutant: a missing or empty file counts as one that cannot be read.
InitCountEmptyRefused(c) == IF Whole(c) THEN c.hd ELSE -1

\* What __cfg_init returns for a file with content c.
InitCount(c) == IF c = Empty THEN 0 ELSE IF Whole(c) THEN c.hd ELSE -1

\* __cfg_init(file f): give a missing or empty file the count 0, remove one that
\* does not parse (an absent file and an empty one behave alike from here on).
InitFile(f) ==
  /\ pc[Main] = IF f = 0 THEN "init0" ELSE "init1"
  /\ writeCnt' = [writeCnt EXCEPT ![f] = InitCount(cache[f])]
  /\ IF Whole(cache[f])
     THEN UNCHANGED fileVars
     ELSE Put(f, IF cache[f] = Empty THEN [hd |-> 0, tl |-> NoKeys] ELSE Empty)
  /\ Goto(Main, IF f = 0 THEN "init1" ELSE "decide")
  /\ UNCHANGED <<mutex, num, left, buf, cur, phase, history, restarts>>

Started ==
  /\ phase' = "run"
  /\ pc' = [t \in Threads |-> "idle"]

\* Mutant: the comparison of the two write counts is reversed.
OlderFile == IF writeCnt[1] < writeCnt[0] THEN 1 ELSE 0

\* The file cfg_init goes on with: the larger count, the first when equal.
NewerFile == IF writeCnt[1] > writeCnt[0] THEN 1 ELSE 0

InitDecide ==
  /\ pc[Main] = "decide"
  /\ IF writeCnt[0] < 0 /\ writeCnt[1] < 0
     THEN Goto(Main, "failed") /\ UNCHANGED <<cur, phase, latest>>
     ELSE /\ cur' = NewerFile
          /\ latest' = Keys(cache[NewerFile])
          /\ IF writeCnt[0] # writeCnt[1]
             THEN Goto(Main, "stat") /\ UNCHANGED phase
             ELSE Started
  /\ UNCHANGED <<fileVars, mutex, num, left, buf, writeCnt, attempt, returned,
                 restarts>>

\* The sync() after the copy of cfg_init; then main starts the other threads.
InitEnd ==
  /\ pc[Main] = "sync_end" /\ phase = "boot"
  /\ Sync
  /\ Started
  /\ UNCHANGED <<mutex, num, left, buf, cur, writeCnt, history, restarts>>

-----------------------------------------------------------------------------
\* Power loss, or reboot -f: each file is one of the images it went through
\* since the last sync; the process starts again from its entry point.
Restart ==
  /\ restarts < MaxRestarts
  /\ restarts' = restarts + 1
  /\ \E image \in [Files -> UNION {onDisk[f] : f \in Files}] :
        /\ \A f \in Files : image[f] \in onDisk[f]
        /\ cache' = image
        /\ onDisk' = [f \in Files |-> {image[f]}]
  /\ phase' = "boot" /\ cur' = 0 /\ mutex' = Nil
  /\ writeCnt' = [f \in Files |-> 0]
  /\ pc' = [t \in Threads |-> IF t = Main THEN "init0" ELSE "off"]
  /\ num' = [t \in Threads |-> 0]
  /\ left' = [t \in Threads |-> 0]
  /\ buf' = [t \in Threads |-> Empty]
  /\ UNCHANGED history

Init ==
  /\ cache = [f \in Files |-> Empty]
  /\ onDisk = [f \in Files |-> {Empty}]
  /\ cur = 0 /\ mutex = Nil /\ phase = "boot" /\ restarts = 0
  /\ pc = [t \in Threads |-> IF t = Main THEN "init0" ELSE "off"]
  /\ num = [t \in Threads |-> 0]
  /\ left = [t \in Threads |-> 0]
  /\ buf = [t \in Threads |-> Empty]
  /\ writeCnt = [f \in Files |-> 0]
  /\ attempt = NoKeys /\ latest = NoKeys /\ returned = NoKeys

\* What a thread does once its save has begun.
SaveStep(t) ==
  \/ SetWrite(t) \/ CntGet(t) \/ CntSet(t) \/ CntWrite(t) \/ SyncSave(t)
  \/ CopyStat(t) \/ CopyTrunc(t) \/ CopyRead(t) \/ CopyWrite(t)
  \/ SaveReturn(t)

InitStep == (\E f \in Files : InitFile(f)) \/ InitDecide \/ InitEnd

Next ==
  \/ \E t \in Threads : SetBegin(t) \/ SaveStep(t)
  \/ InitStep
  \/ Restart

Spec == Init /\ [][Next]_vars

\* The kernel runs every thread and lets a waiting one have the mutex: it is
\* held across one rewrite of the file only.
FairSpec == Spec /\ WF_vars(InitStep) /\ \A t \in Threads : WF_vars(SaveStep(t))

-----------------------------------------------------------------------------
(* Properties.                                                             *)

TypeOK ==
  /\ cache \in [Files -> Content]
  /\ onDisk \in [Files -> SUBSET Content]
  /\ cur \in Files
  /\ mutex \in Threads \union {Nil}
  /\ pc \in [Threads -> Stages]
  /\ num \in [Threads -> Counts]
  /\ left \in [Threads -> 0 .. 2]
  /\ buf \in [Threads -> Content]
  /\ phase \in {"boot", "run"}
  /\ writeCnt \in [Files -> Counts]
  /\ attempt \in Values /\ latest \in Values /\ returned \in Values
  /\ restarts \in Nat

\* A cfg_*_get never meets a half-written configuration: whenever the mutex is
\* free, the current file is complete, whatever copies are under way.
ReaderSeesWhole ==
  phase = "run" /\ mutex = Nil => Whole(cache[cur])

\* No save is lost to another thread's read-modify-write: whenever the mutex
\* is free, the current file holds the last value every thread put in it.
NoLostUpdate ==
  phase = "run" /\ mutex = Nil => cache[cur].tl = latest

\* A save whose call returned is in effect after any restart
\* (the web page says of it that saving succeeded, web.c:664).
SavedSurvives ==
  phase = "run" /\ mutex = Nil =>
     \A t \in Threads : cache[cur].tl[t] >= returned[t]

\* A restart always finds a configuration to go on with: cfg_init never fails.
BootSucceeds == pc[Main] # "failed"

\* cfg_init overwrites a readable file only with one at least as recent in
\* every key: its messages say "cfg0 is newer than cfg1, copy cfg0 to cfg1".
PicksNewer ==
  (phase = "boot" /\ pc[Main] = "stat" /\ Whole(cache[Mirror])) =>
     \A t \in Threads : cache[cur].tl[t] >= cache[Mirror].tl[t]

\* What a reader gets: while the mutex is held it waits, and before the end of
\* cfg_init there is none.
Visible ==
  IF phase = "boot" THEN returned ELSE IF mutex = Nil THEN cache[cur].tl ELSE latest

\* With one thread that saves, the two files, the write counts and the syncs
\* amount to a store whose saves are atomic and durable, whenever power fails.
Store == INSTANCE DurableStore
           WITH up <- phase = "run", now <- Visible, tried <- attempt, kept <- returned
ImplementsStore == Store!Spec

\* Every save returns, and so does cfg_init, when the power stays on.
SaveReturns == \A t \in Threads : (pc[t] # "idle") ~> (pc[t] = "idle")

=============================================================================
