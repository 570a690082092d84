-------------------------- MODULE CfgDurableProofs --------------------------
(***************************************************************************)
(* Proofs about CfgStore when one thread saves: whatever images of the two *)
(* files a power loss leaves, cfg_init finds one to go on with, it is the  *)
(* newer one, and it holds every save that returned; the two files, the    *)
(* write counts and the syncs implement DurableStore.                      *)
(***************************************************************************)
EXTENDS CfgStoreProofs

\* Only the main thread saves, and the device does not live long enough for
\* the write count to reach INT_MAX.
OneWriter == Threads = {Main} /\ MaxSaves <= CntMax

\* The setting cfg_init finds in a file with content c.
Saved(c) == IF Whole(c) THEN c.tl[Main] ELSE 0

(***************************************************************************)
(* The invariant.  A power loss may leave any image of the one file with   *)
(* any image of the other (PairInv): if c's write count is at least d's,   *)
(* cfg_init can go on with c and finds in it all that has to be there.     *)
(***************************************************************************)
Wins(c, d) ==
  InitCount(c) >= InitCount(d) =>
     /\ InitCount(c) >= 0
     /\ Saved(c) >= returned[Main]
     /\ returned[Main] > 0 => InitCount(c) > 0
     /\ InitCount(c) > InitCount(d) => Saved(c) >= Saved(d)

PairInv == \A f \in Files : \A c \in onDisk[f], d \in onDisk[1 - f] : Wins(c, d)

\* No image is ahead of the saves begun: neither its count nor its setting.
Image(c) == /\ c.hd # Nil => c.hd \in 0 .. attempt[Main]
            /\ Whole(c) => c.tl[Main] <= attempt[Main]

ImageInv ==
  /\ \A f \in Files : cache[f] \in onDisk[f] /\ \A c \in onDisk[f] : Image(c)
  /\ returned[Main] <= attempt[Main] /\ attempt[Main] <= MaxSaves

\* Every image of file f has the write count n and all that has to be kept.
At(f, n) ==
  /\ n >= 0 /\ (returned[Main] > 0 => n > 0)
  /\ \A c \in onDisk[f] : InitCount(c) = n /\ Saved(c) >= returned[Main]

\* While the current file is rewritten the mirror stays as it was: one count
\* behind once the write count is bumped.
SaveInv ==
  phase = "run" =>
     /\ pc[Main] = "idle" => At(Mirror, cache[cur].hd)
     /\ pc[Main] = "set_write" =>
          buf[Main].hd < attempt[Main] /\ At(Mirror, buf[Main].hd)
     /\ pc[Main] \in {"cnt_get", "cnt_set"} =>
          cache[cur].hd < attempt[Main] /\ At(Mirror, cache[cur].hd)
     /\ pc[Main] = "cnt_set" => num[Main] = cache[cur].hd + 1
     /\ pc[Main] = "cnt_write" =>
          buf[Main].hd <= attempt[Main] /\ At(Mirror, buf[Main].hd - 1)
     /\ pc[Main] = "sync" => At(Mirror, cache[cur].hd - 1)
     /\ pc[Main] \in Copying => cache[cur].hd > 0
     /\ pc[Main] \notin {"idle", "set_write"} => latest[Main] = attempt[Main]

\* While the mirror is rewritten the current file stays as it is.
CopyInv ==
  pc[Main] \in Copying =>
     /\ At(cur, cache[cur].hd)
     /\ pc[Main] = "trunc" => left[Main] = 2
     /\ pc[Main] \in {"read", "write"} =>
          cache[Mirror] = IF left[Main] = 2 THEN Empty ELSE [hd |-> cache[cur].hd, tl |-> Nil]
     /\ pc[Main] = "write" => buf[Main] = cache[cur]
     /\ pc[Main] = "sync_end" => cache[Mirror] = cache[cur]
     /\ phase = "boot" /\ pc[Main] = "stat" => Saved(cache[Mirror]) <= Saved(cache[cur])

\* What cfg_init has noted of a file, and done to it.
Scanned(f) ==
  /\ writeCnt[f] >= 0 => /\ Whole(cache[f]) /\ cache[f].hd = writeCnt[f]
                         /\ \A c \in onDisk[f] : InitCount(c) = writeCnt[f]
  /\ writeCnt[f] < 0 => cache[f] = Empty

BootScan ==
  phase = "boot" =>
     /\ pc[Main] = "init0" => onDisk[0] = {cache[0]}
     /\ pc[Main] \in {"init0", "init1"} => onDisk[1] = {cache[1]}
     /\ pc[Main] \in {"init1", "decide"} => Scanned(0)
     /\ pc[Main] = "init1" /\ writeCnt[0] < 0 => InitCount(cache[1]) >= 0
     /\ pc[Main] = "decide" => Scanned(1) /\ (writeCnt[0] >= 0 \/ writeCnt[1] >= 0)
     /\ pc[Main] # "failed"

DurableInv == PairInv /\ ImageInv /\ SaveInv /\ CopyInv /\ BootScan

-----------------------------------------------------------------------------
(* Facts about images.                                                     *)

\* The only thread is Main, and cur and Mirror are the two files.
LEMMA OneThread ==
  ASSUME OneWriter, StoreInv
  PROVE  /\ Main \in Threads /\ \A t \in Threads : t = Main
         /\ cur \in Files /\ Mirror \in Files /\ Mirror = 1 - cur /\ cur = 1 - Mirror
         /\ Mirror # cur /\ \A f \in Files : f = cur \/ f = Mirror
         /\ returned[Main] \in Nat /\ attempt[Main] \in Nat /\ latest[Main] \in Nat
  BY ConstantFacts DEF OneWriter, Files, Mirror, StoreInv, TypeInv, TypeOK, Values

LEMMA ImageFacts ==
  ASSUME NEW c \in Content
  PROVE  /\ InitCount(c) \in Int /\ InitCount(c) >= -1
         /\ Saved(c) \in Nat
         /\ Whole(c) => InitCount(c) = c.hd /\ c # Empty
         /\ Whole(c) => Saved(c) = c.tl[Main]
         /\ ~Whole(c) => Saved(c) = 0
         /\ ~Whole(c) /\ c # Empty => InitCount(c) = -1
<1>1. InitCount(c) \in Int /\ InitCount(c) >= -1
  BY ContentFacts, ConstantFacts DEF Counts
<1>2. Whole(c) => c.tl[Main] \in Nat
  BY ContentFacts, ConstantFacts DEF Values
<1>3. Saved(c) \in Nat
  BY <1>2 DEF Saved
<1>4. Whole(c) => c # Empty
  BY DEF Whole, Empty
<1> QED
  BY <1>1, <1>3, <1>4 DEF InitCount, Saved

LEMMA EmptyImage ==
  /\ Empty \in Content /\ ~Whole(Empty) /\ InitCount(Empty) = 0 /\ Saved(Empty) = 0
  /\ Image(Empty) /\ Empty.hd = Nil /\ Empty.tl = Nil
  BY EmptyContent DEF Empty, Whole, InitCount, Saved, Image

\* An empty image beside any image of a file that holds what has to be kept.
LEMMA EmptyWins ==
  ASSUME returned[Main] \in Nat, NEW n \in Int, n >= 0, returned[Main] > 0 => n > 0,
         NEW d \in Content, InitCount(d) = n, Saved(d) >= returned[Main]
  PROVE  Wins(Empty, d) /\ Wins(d, Empty)
  BY EmptyImage, ImageFacts DEF Wins

\* So with one that does not parse.
LEMMA BrokenWins ==
  ASSUME returned[Main] \in Nat, NEW n \in Int, n >= 0, returned[Main] > 0 => n > 0,
         NEW d \in Content, InitCount(d) = n, Saved(d) >= returned[Main],
         NEW c \in Content, ~Whole(c), c # Empty
  PROVE  Wins(c, d) /\ Wins(d, c)
  BY ImageFacts DEF Wins

\* And with a whole one that is no older.
LEMMA WholeWins ==
  ASSUME returned[Main] \in Nat, NEW n \in Int, n >= 0, returned[Main] > 0 => n > 0,
         NEW d \in Content, InitCount(d) = n, Saved(d) >= returned[Main],
         NEW c \in Content, Whole(c), c.hd \in Int, c.hd >= n, Saved(c) >= returned[Main],
         c.hd > n => Saved(c) >= Saved(d)
  PROVE  Wins(c, d) /\ Wins(d, c)
  BY ImageFacts DEF Wins

\* A write adds an image that wins or loses as it should against every image
\* of the other file.
LEMMA PutPair ==
  ASSUME StoreInv, PairInv, NEW f \in Files, NEW c, Put(f, c),
         returned' = returned,
         \A d \in onDisk[1 - f] : Wins(c, d) /\ Wins(d, c)
  PROVE  PairInv'
<1>1. 1 - f \in Files /\ 1 - (1 - f) = f /\ 1 - f # f /\ \A g \in Files : g = f \/ g = 1 - f
  BY DEF Files
<1>2. onDisk'[f] = onDisk[f] \union {c} /\ onDisk'[1 - f] = onDisk[1 - f]
  BY <1>1 DEF Put, StoreInv, TypeInv, TypeOK
<1>3. \A x, y : Wins(x, y) => Wins(x, y)'
  BY DEF Wins, InitCount, Saved
<1>4. \A x \in onDisk'[f], y \in onDisk'[1 - f] : Wins(x, y) /\ Wins(y, x)
  BY <1>1, <1>2 DEF PairInv
<1> QED
  BY <1>1, <1>3, <1>4 DEF PairInv

LEMMA PutImage ==
  ASSUME OneWriter, StoreInv, ImageInv, NEW f \in Files, NEW c, Put(f, c),
         returned' = returned, attempt'[Main] \in Nat, attempt'[Main] >= attempt[Main],
         attempt'[Main] <= MaxSaves, Image(c)'
  PROVE  ImageInv'
<1>1. \A g \in Files : onDisk'[g] = (IF g = f THEN onDisk[g] \union {c} ELSE onDisk[g])
                       /\ cache'[g] = (IF g = f THEN c ELSE cache[g])
  BY DEF Put, StoreInv, TypeInv, TypeOK
<1>2. ASSUME NEW g \in Files, NEW d \in onDisk[g] PROVE Image(d)'
  <2>1. d \in Content /\ attempt[Main] \in Nat
    BY OneThread DEF StoreInv, TypeInv, TypeOK
  <2>2. Whole(d) => d.tl[Main] \in Nat
    BY <2>1, ContentFacts, ConstantFacts DEF Values
  <2> QED
    BY <2>1, <2>2 DEF ImageInv, Image, Whole
<1>3. returned'[Main] <= attempt'[Main]
  BY OneThread DEF ImageInv
<1> QED
  BY <1>1, <1>2, <1>3 DEF ImageInv

\* A step that leaves both files alone.
LEMMA SameImages ==
  ASSUME PairInv, ImageInv, UNCHANGED fileVars, returned' = returned, attempt' = attempt
  PROVE  PairInv' /\ ImageInv'
  BY DEF fileVars, PairInv, Wins, InitCount, Saved, ImageInv, Image, Whole

\* A write to f beside a file whose images agree on the count n.
LEMMA PutAt ==
  ASSUME OneWriter, StoreInv, PairInv, NEW f \in Files, NEW c \in Content, Put(f, c),
         returned' = returned, NEW n \in Int, At(1 - f, n),
         Whole(c) => /\ c.hd >= n /\ Saved(c) >= returned[Main]
                     /\ c.hd > n => \A d \in onDisk[1 - f] : Saved(c) >= Saved(d)
  PROVE  PairInv'
<1>1. returned[Main] \in Nat /\ onDisk[1 - f] \subseteq Content
  BY OneThread DEF Files, StoreInv, TypeInv, TypeOK
<1>2. ASSUME NEW d \in onDisk[1 - f] PROVE Wins(c, d) /\ Wins(d, c)
  <2>1. d \in Content /\ InitCount(d) = n /\ Saved(d) >= returned[Main]
        /\ n >= 0 /\ (returned[Main] > 0 => n > 0)
    BY <1>1 DEF At
  <2>2. CASE Whole(c)
    <3>1. c.hd \in Int
      BY <2>2, ContentFacts, ConstantFacts DEF Counts
    <3> QED
      BY <1>1, <2>1, <2>2, <3>1, WholeWins
  <2>3. CASE c = Empty
    BY <1>1, <2>1, <2>3, EmptyWins
  <2>4. CASE ~Whole(c) /\ c # Empty
    BY <1>1, <2>1, <2>4, BrokenWins
  <2> QED
    BY <2>2, <2>3, <2>4
<1> QED
  BY <1>2, PutPair

\* What a write to one file leaves of the other.
LEMMA PutOther ==
  ASSUME StoreInv, NEW f \in Files, NEW c, Put(f, c)
  PROVE  /\ cache'[f] = c /\ onDisk'[f] = onDisk[f] \union {c}
         /\ cache'[1 - f] = cache[1 - f] /\ onDisk'[1 - f] = onDisk[1 - f]
  BY DEF Put, Files, StoreInv, TypeInv, TypeOK

LEMMA GotoMain ==
  ASSUME OneWriter, StoreInv, NEW s, Goto(Main, s)
  PROVE  pc'[Main] = s
  BY OneThread DEF Goto, StoreInv, TypeInv, TypeOK

-----------------------------------------------------------------------------
(* The steps of a save.                                                    *)

LEMMA SetBeginDurable ==
  ASSUME OneWriter, StoreInv, DurableInv, SetBegin(Main)
  PROVE  DurableInv'
<1> DEFINE n == cache[cur].hd
<1>1. phase = "run" /\ pc[Main] = "idle" /\ Whole(cache[cur]) /\ cache[cur] \in Content
  BY OneThread, FreeFacts DEF SetBegin, Current, StoreInv, TypeInv, TypeOK
<1>2. n \in Int /\ Readable(cache[cur]) /\ At(1 - cur, n)
  BY <1>1, ContentFacts, ConstantFacts, OneThread DEF Counts, Readable, DurableInv, SaveInv
<1>3. /\ Put(cur, Empty) /\ Goto(Main, "set_write")
      /\ attempt' = [attempt EXCEPT ![Main] = @ + 1] /\ attempt[Main] < MaxSaves
      /\ buf'[Main].hd = n
      /\ cur' = cur /\ phase' = phase /\ returned' = returned
  BY <1>2, OneThread DEF SetBegin, bootVars, StoreInv, TypeInv, TypeOK
<1>4. attempt'[Main] = attempt[Main] + 1
  BY <1>3, OneThread DEF StoreInv, TypeInv, TypeOK, Values
<1>5. n <= attempt[Main]
  BY <1>1, <1>2, OneThread DEF DurableInv, ImageInv, Image, Whole
<1>6. PairInv'
  BY <1>2, <1>3, OneThread, EmptyImage, PutAt DEF DurableInv
<1>7. Image(Empty)'
  BY EmptyImage DEF Image, Whole, Empty
<1>8. ImageInv'
  BY <1>3, <1>4, <1>7, CfgAssumption, OneThread, PutImage DEF DurableInv
<1>9. pc'[Main] = "set_write" /\ onDisk'[Mirror] = onDisk[Mirror]
  BY <1>3, GotoMain, OneThread, PutOther
<1>10. SaveInv'
  BY <1>1, <1>2, <1>3, <1>4, <1>5, <1>9, OneThread
  DEF SaveInv, Copying, At, Mirror, InitCount, Saved, Whole
<1>11. CopyInv' /\ BootScan'
  BY <1>1, <1>3, <1>9 DEF CopyInv, Copying, BootScan
<1> QED
  BY <1>6, <1>8, <1>10, <1>11 DEF DurableInv

LEMMA SetWriteDurable ==
  ASSUME OneWriter, StoreInv, DurableInv, SetWrite(Main)
  PROVE  DurableInv'
<1> DEFINE n == buf[Main].hd
<1>1. phase = "run" /\ pc[Main] = "set_write" /\ buf[Main] \in Content
  BY OneThread, StageFacts DEF SetWrite, SaveStages, Rewriting, Copying, StoreInv, TypeInv, TypeOK
<1>2. n # Nil /\ buf[Main].tl = [latest EXCEPT ![Main] = attempt[Main]]
  BY <1>1, OneThread DEF StoreInv, LockInv, BufInv
<1>3. /\ Whole(buf[Main]) /\ n \in Int
      /\ buf[Main].tl[Main] = attempt[Main] /\ Saved(buf[Main]) = attempt[Main]
  <2>1. buf[Main].tl # Nil
    BY <1>1, OneThread DEF StoreInv, TypeInv, LocalInv
  <2>2. latest \in [Threads -> Nat]
    BY DEF StoreInv, TypeInv, TypeOK, Values
  <2>3. buf[Main].tl[Main] = attempt[Main]
    BY <1>2, <2>2, OneThread
  <2> QED
    BY <1>1, <1>2, <2>1, <2>3, ImageFacts, ContentFacts, ConstantFacts DEF Whole, Counts
<1>4. n < attempt[Main] /\ At(1 - cur, n)
  BY <1>1, OneThread DEF DurableInv, SaveInv
<1>5. /\ Put(cur, buf[Main]) /\ Goto(Main, "cnt_get")
      /\ latest'[Main] = attempt[Main]
      /\ cur' = cur /\ phase' = phase /\ attempt' = attempt /\ returned' = returned
  BY <1>3, OneThread DEF SetWrite, bootVars, StoreInv, TypeInv, TypeOK, Values
<1>6. returned[Main] <= attempt[Main] /\ attempt[Main] <= MaxSaves
  BY DEF DurableInv, ImageInv
<1>7. PairInv'
  BY <1>1, <1>3, <1>4, <1>5, <1>6, OneThread, PutAt DEF DurableInv
<1>8. n >= 0
  BY <1>4 DEF At
<1>9. Image(buf[Main])
  BY <1>3, <1>4, <1>8, OneThread DEF Image
<1>10. ImageInv'
  BY <1>5, <1>6, <1>9, OneThread, PutImage DEF DurableInv, Image, Whole
<1>11. /\ pc'[Main] = "cnt_get" /\ cache'[cur] = buf[Main]
       /\ onDisk'[Mirror] = onDisk[Mirror]
  BY <1>5, GotoMain, OneThread, PutOther
<1>12. SaveInv'
  BY <1>1, <1>4, <1>5, <1>11, OneThread DEF SaveInv, Copying, At, Mirror, InitCount, Saved, Whole
<1>13. CopyInv' /\ BootScan'
  BY <1>1, <1>5, <1>11 DEF CopyInv, Copying, BootScan
<1> QED
  BY <1>7, <1>10, <1>12, <1>13 DEF DurableInv

\* The count read is the one of the last save: it does not overflow.
LEMMA CntGetDurable ==
  ASSUME OneWriter, StoreInv, DurableInv, CntGet(Main)
  PROVE  DurableInv'
<1> DEFINE n == cache[cur].hd
<1>1. phase = "run" /\ pc[Main] = "cnt_get" /\ cache[cur] \in Content
  BY OneThread, StageFacts DEF CntGet, SaveStages, Rewriting, Copying, StoreInv, TypeInv, TypeOK
<1>2. Whole(cache[cur])
  BY <1>1, FreeFacts DEF CntGet, Current
<1>3. n < attempt[Main] /\ At(Mirror, n) /\ attempt[Main] <= MaxSaves /\ n \in Int
  BY <1>1, <1>2, ContentFacts, ConstantFacts DEF DurableInv, SaveInv, ImageInv, Counts
<1>4. NextCounts(n) = {n + 1}
  <2>1. n < CntMax /\ n >= 0
    BY <1>3, ConstantFacts, OneThread, CfgAssumption DEF OneWriter, At
  <2>2. ~(n < 0)
    BY <1>3, <2>1
  <2> QED
    BY <2>1, <2>2, Zenon DEF NextCounts
<1>5. num'[Main] = n + 1
  BY <1>2, <1>4, OneThread DEF CntGet, StoreInv, TypeInv, TypeOK
<1>6. pc'[Main] = "cnt_set"
  BY GotoMain DEF CntGet
<1>7. UNCHANGED <<fileVars, bootVars, history>>
  BY DEF CntGet
<1>8. PairInv' /\ ImageInv'
  BY <1>7, SameImages DEF DurableInv, history
<1>9. SaveInv'
  BY <1>1, <1>5, <1>6, <1>7
  DEF DurableInv, SaveInv, Copying, At, Mirror, InitCount, Saved, Whole, fileVars, bootVars, history
<1>10. CopyInv' /\ BootScan'
  BY <1>1, <1>6, <1>7 DEF CopyInv, Copying, BootScan, bootVars
<1> QED
  BY <1>8, <1>9, <1>10 DEF DurableInv

LEMMA CntSetDurable ==
  ASSUME OneWriter, StoreInv, DurableInv, CntSet(Main)
  PROVE  DurableInv'
<1> DEFINE n == cache[cur].hd
<1>1. phase = "run" /\ pc[Main] = "cnt_set" /\ cache[cur] \in Content
  BY OneThread, StageFacts DEF CntSet, SaveStages, Rewriting, Copying, StoreInv, TypeInv, TypeOK
<1>2. Whole(cache[cur])
  BY <1>1, FreeFacts DEF CntSet, Current
<1>3. /\ n < attempt[Main] /\ At(1 - cur, n) /\ n \in Int /\ num[Main] = n + 1
      /\ latest[Main] = attempt[Main] /\ attempt[Main] <= MaxSaves
  BY <1>1, <1>2, ContentFacts, ConstantFacts, OneThread DEF DurableInv, SaveInv, ImageInv, Counts
<1>4. /\ Put(cur, Empty) /\ Goto(Main, "cnt_write") /\ buf'[Main].hd = n + 1
      /\ cur' = cur /\ phase' = phase /\ latest' = latest
      /\ attempt' = attempt /\ returned' = returned
  BY <1>2, <1>3, OneThread DEF CntSet, Readable, bootVars, history, StoreInv, TypeInv, TypeOK
<1>5. PairInv'
  BY <1>3, <1>4, OneThread, EmptyImage, PutAt DEF DurableInv
<1>6. ImageInv'
  BY <1>3, <1>4, EmptyImage, OneThread, PutImage DEF DurableInv, Image, Whole
<1>7. pc'[Main] = "cnt_write" /\ onDisk'[Mirror] = onDisk[Mirror]
  BY <1>4, GotoMain, OneThread, PutOther
<1>8. SaveInv'
  BY <1>1, <1>3, <1>4, <1>7, OneThread DEF SaveInv, Copying, At, Mirror, InitCount, Saved, Whole
<1>9. CopyInv' /\ BootScan'
  BY <1>1, <1>4, <1>7 DEF CopyInv, Copying, BootScan
<1> QED
  BY <1>5, <1>6, <1>8, <1>9 DEF DurableInv

LEMMA CntWriteDurable ==
  ASSUME OneWriter, StoreInv, DurableInv, CntWrite(Main)
  PROVE  DurableInv'
<1> DEFINE n == buf[Main].hd
<1>1. phase = "run" /\ pc[Main] = "cnt_write" /\ buf[Main] \in Content
  BY OneThread, StageFacts DEF CntWrite, SaveStages, Rewriting, Copying, StoreInv, TypeInv, TypeOK
<1>2. n # Nil /\ buf[Main].tl = latest
  BY <1>1, OneThread DEF StoreInv, LockInv, BufInv
<1>3. /\ n <= attempt[Main] /\ At(1 - cur, n - 1) /\ latest[Main] = attempt[Main]
      /\ attempt[Main] <= MaxSaves /\ returned[Main] <= attempt[Main]
  BY <1>1, OneThread DEF DurableInv, SaveInv, ImageInv
<1>4. Whole(buf[Main]) /\ n \in Int /\ n >= 0 /\ Saved(buf[Main]) = attempt[Main]
  <2>1. buf[Main].tl # Nil
    BY <1>2, ConstantFacts DEF StoreInv, TypeInv, TypeOK
  <2>2. n \in Int /\ Whole(buf[Main])
    BY <1>1, <1>2, <2>1, ContentFacts, ConstantFacts DEF Whole, Counts
  <2> QED
    BY <1>1, <1>2, <1>3, <2>2, ImageFacts DEF At
<1>5. \A d \in onDisk[1 - cur] : Saved(d) <= attempt[Main]
  <2> SUFFICES ASSUME NEW d \in onDisk[1 - cur] PROVE Saved(d) <= attempt[Main]
    OBVIOUS
  <2>1. d \in Content /\ Image(d)
    BY OneThread DEF DurableInv, ImageInv, StoreInv, TypeInv, TypeOK
  <2> QED
    BY <2>1, OneThread, ImageFacts DEF Image
<1>6. /\ Put(cur, buf[Main]) /\ Goto(Main, "sync")
      /\ cur' = cur /\ phase' = phase /\ latest' = latest
      /\ attempt' = attempt /\ returned' = returned
  BY DEF CntWrite, bootVars, history
<1>7. PairInv'
  BY <1>1, <1>3, <1>4, <1>5, <1>6, OneThread, PutAt DEF DurableInv
<1>8. Image(buf[Main])
  BY <1>1, <1>3, <1>4, OneThread, ImageFacts DEF Image
<1>9. ImageInv'
  BY <1>3, <1>6, <1>8, OneThread, PutImage DEF DurableInv, Image, Whole
<1>10. /\ pc'[Main] = "sync" /\ cache'[cur] = buf[Main]
       /\ onDisk'[Mirror] = onDisk[Mirror]
  BY <1>6, GotoMain, OneThread, PutOther
<1>11. SaveInv'
  BY <1>1, <1>3, <1>6, <1>10, OneThread DEF SaveInv, Copying, At, Mirror, InitCount, Saved, Whole
<1>12. CopyInv' /\ BootScan'
  BY <1>1, <1>6, <1>10 DEF CopyInv, Copying, BootScan
<1> QED
  BY <1>7, <1>9, <1>11, <1>12 DEF DurableInv

\* sync() leaves each file one image, the one it has.
LEMMA SyncImages ==
  ASSUME PairInv, ImageInv, Sync, returned' = returned, attempt' = attempt
  PROVE  PairInv' /\ ImageInv'
<1>1. /\ \A f \in Files : 1 - f \in Files /\ cache[f] \in onDisk[f]
      /\ cache' = cache /\ \A f \in Files : onDisk'[f] = {cache[f]}
  BY DEF Sync, Files, ImageInv
<1>2. PairInv'
  BY <1>1 DEF PairInv, Wins, InitCount, Saved
<1>3. ImageInv'
  BY <1>1 DEF ImageInv, Image, Whole
<1> QED
  BY <1>2, <1>3

\* From here on the medium has the new count and the new setting.
LEMMA SyncSaveDurable ==
  ASSUME OneWriter, StoreInv, DurableInv, SyncSave(Main)
  PROVE  DurableInv'
<1> DEFINE n == cache[cur].hd
<1>1. phase = "run" /\ pc[Main] = "sync" /\ mutex = Nil /\ cache[cur] \in Content
  <2>1. phase = "run" /\ pc[Main] = "sync" /\ cache[cur] \in Content
    BY OneThread, StageFacts
    DEF SyncSave, SaveStages, Rewriting, Copying, StoreInv, TypeInv, TypeOK
  <2>2. mutex # Main
    BY <2>1, OneThread DEF StoreInv, LockInv, MutexInv, Rewriting
  <2> QED
    BY <2>1, <2>2, OneThread DEF StoreInv, TypeInv, TypeOK
<1>2. Whole(cache[cur]) /\ cache[cur].tl = latest
  BY <1>1, FreeFacts DEF Current
<1>3. n \in Int /\ Saved(cache[cur]) = attempt[Main] /\ InitCount(cache[cur]) = n
  BY <1>1, <1>2, ContentFacts, ConstantFacts DEF Saved, DurableInv, SaveInv, Counts, InitCount, Empty, Whole
<1>4. At(Mirror, n - 1) /\ returned[Main] <= attempt[Main]
  BY <1>1 DEF DurableInv, SaveInv, ImageInv
<1>5. /\ Sync /\ Goto(Main, "stat") /\ cur' = cur /\ phase' = phase /\ latest' = latest
      /\ attempt' = attempt /\ returned' = returned
  BY DEF SyncSave, bootVars, history
<1>6. PairInv' /\ ImageInv'
  BY <1>5, SyncImages DEF DurableInv
<1>7. pc'[Main] = "stat" /\ cache' = cache /\ onDisk'[cur] = {cache[cur]}
  BY <1>5, GotoMain, OneThread DEF Sync
<1>8. SaveInv' /\ BootScan'
  BY <1>1, <1>3, <1>4, <1>5, <1>7 DEF DurableInv, SaveInv, BootScan, At
<1>9. CopyInv'
  BY <1>1, <1>3, <1>4, <1>5, <1>7, OneThread DEF CopyInv, At, Copying, InitCount, Saved, Whole
<1> QED
  BY <1>6, <1>8, <1>9 DEF DurableInv

-----------------------------------------------------------------------------
(* file_copy, in a save and in cfg_init.                                   *)

\* What holds of the current file while it is copied.
LEMMA CopyFacts ==
  ASSUME OneWriter, StoreInv, DurableInv, pc[Main] \in Copying
  PROVE  /\ Whole(cache[cur]) /\ cache[cur] \in Content /\ cache[cur].tl = latest
         /\ mutex = Nil
         /\ cache[cur].hd \in Int /\ InitCount(cache[cur]) = cache[cur].hd
         /\ At(cur, cache[cur].hd) /\ cache[cur].hd >= 0
         /\ Saved(cache[cur]) = cache[cur].tl[Main] /\ Saved(cache[cur]) >= returned[Main]
         /\ Image(cache[cur])
<1>1. cache[cur] \in Content /\ cache[cur] \in onDisk[cur] /\ Image(cache[cur])
  BY OneThread DEF DurableInv, ImageInv, StoreInv, TypeInv, TypeOK
<1>2. mutex = Nil
  BY OneThread DEF StoreInv, TypeInv, TypeOK, LockInv, MutexInv, Copying, Rewriting
<1>3. Whole(cache[cur]) /\ cache[cur].tl = latest
  BY <1>2, FreeFacts, StageFacts, OneThread DEF StoreInv, LockInv, BootInv, Current
<1>4. At(cur, cache[cur].hd)
  BY DEF DurableInv, CopyInv
<1> QED
  BY <1>1, <1>2, <1>3, <1>4, ImageFacts, ContentFacts, ConstantFacts DEF Counts, At

LEMMA CopyStatDurable ==
  ASSUME OneWriter, StoreInv, DurableInv, CopyStat(Main)
  PROVE  DurableInv'
<1>1. pc[Main] = "stat" /\ pc[Main] \in Copying
  BY DEF CopyStat, Copying
<1>2. cache[cur] # Empty
  BY <1>1, CopyFacts, EmptyImage
<1>3. left'[Main] = 2 /\ pc'[Main] = "trunc"
  BY <1>2, OneThread, GotoMain DEF CopyStat, StoreInv, TypeInv, TypeOK
<1>4. UNCHANGED <<fileVars, bootVars, history>>
  BY DEF CopyStat
<1>5. PairInv' /\ ImageInv'
  BY <1>4, SameImages DEF DurableInv, history
<1>6. SaveInv' /\ BootScan'
  BY <1>1, <1>3, <1>4 DEF DurableInv, SaveInv, BootScan, Copying, fileVars, bootVars, history
<1>7. CopyInv'
  BY <1>1, <1>3, <1>4
  DEF DurableInv, CopyInv, At, InitCount, Saved, Whole, Copying, fileVars, bootVars, history
<1> QED
  BY <1>5, <1>6, <1>7 DEF DurableInv

\* A write to the mirror: empty, cut, or the copy of the current file.
LEMMA CopyPut ==
  ASSUME OneWriter, StoreInv, DurableInv, pc[Main] \in Copying,
         NEW c \in Content, Put(Mirror, c), c = cache[cur] \/ (~Whole(c) /\ Image(c)),
         UNCHANGED <<bootVars, history>>
  PROVE  /\ PairInv' /\ ImageInv'
         /\ cache'[cur] = cache[cur] /\ onDisk'[cur] = onDisk[cur] /\ cache'[Mirror] = c
<1>1. Image(c) /\ (Whole(c) => c = cache[cur])
  BY CopyFacts
<1>2. PairInv'
  BY <1>1, CopyFacts, OneThread, PutAt DEF history, DurableInv
<1>3. ImageInv'
  BY <1>1, OneThread, PutImage DEF history, DurableInv, ImageInv, Image, Whole
<1> QED
  BY <1>2, <1>3, OneThread, PutOther

\* The rest of the invariant, when the copy goes on from stage to stage.
LEMMA CopyStage ==
  ASSUME OneWriter, StoreInv, DurableInv, pc[Main] \in Copying,
         NEW s \in Copying \ {"stat"}, Goto(Main, s), UNCHANGED <<bootVars, history>>,
         cache'[cur] = cache[cur], onDisk'[cur] = onDisk[cur],
         s = "trunc" => left'[Main] = 2,
         s \in {"read", "write"} =>
           cache'[Mirror] = IF left'[Main] = 2 THEN Empty ELSE [hd |-> cache[cur].hd, tl |-> Nil],
         s = "write" => buf'[Main] = cache[cur],
         s = "sync_end" => cache'[Mirror] = cache[cur]
  PROVE  SaveInv' /\ CopyInv' /\ BootScan'
<1>1. pc'[Main] = s /\ Mirror' = Mirror /\ cur' = cur /\ phase' = phase /\ returned' = returned
      /\ latest' = latest /\ attempt' = attempt
  BY GotoMain DEF Mirror, bootVars, history
<1>2. SaveInv'
  BY <1>1 DEF DurableInv, SaveInv, Copying
<1>3. BootScan'
  BY <1>1 DEF BootScan, Copying
<1>4. At(cur, cache[cur].hd)'
  BY <1>1 DEF DurableInv, CopyInv, At, InitCount, Saved, Whole
<1>5. CopyInv'
  BY <1>1, <1>4 DEF CopyInv
<1> QED
  BY <1>2, <1>3, <1>5

LEMMA CopyTruncDurable ==
  ASSUME OneWriter, StoreInv, DurableInv, CopyTrunc(Main)
  PROVE  DurableInv'
<1>1. pc[Main] \in Copying /\ left[Main] = 2
  BY DEF CopyTrunc, Copying, DurableInv, CopyInv
<1>2. Put(Mirror, Empty) /\ Goto(Main, "read") /\ left' = left /\ UNCHANGED <<bootVars, history>>
  BY <1>1 DEF CopyTrunc
<1>3. /\ PairInv' /\ ImageInv'
      /\ cache'[cur] = cache[cur] /\ onDisk'[cur] = onDisk[cur] /\ cache'[Mirror] = Empty
  BY <1>1, <1>2, EmptyImage, CopyPut
<1>4. "read" \in Copying \ {"stat"}
  BY DEF Copying
<1>5. SaveInv' /\ CopyInv' /\ BootScan'
  BY <1>1, <1>2, <1>3, <1>4, CopyStage
<1> QED
  BY <1>3, <1>5 DEF DurableInv

LEMMA CopyReadDurable ==
  ASSUME OneWriter, StoreInv, DurableInv, CopyRead(Main)
  PROVE  DurableInv'
<1>1. pc[Main] \in Copying /\ pc[Main] = "read"
  BY DEF CopyRead, Copying
<1>2. cache[cur].hd # Nil /\ cache[cur].tl # Nil
  BY <1>1, CopyFacts DEF Whole
<1>3. /\ Goto(Main, "write") /\ buf'[Main] = cache[cur] /\ left' = left
      /\ UNCHANGED fileVars /\ UNCHANGED <<bootVars, history>>
  BY <1>2, OneThread DEF CopyRead, StoreInv, TypeInv, TypeOK
<1>4. PairInv' /\ ImageInv'
  BY <1>3, SameImages DEF DurableInv, history
<1>5. "write" \in Copying \ {"stat"}
  BY DEF Copying
<1>6. SaveInv' /\ CopyInv' /\ BootScan'
  BY <1>1, <1>3, <1>5, CopyStage DEF DurableInv, CopyInv, fileVars
<1> QED
  BY <1>4, <1>6 DEF DurableInv

\* The first chunk, then the second, which makes the mirror a whole copy.
LEMMA CopyWriteDurable ==
  ASSUME OneWriter, StoreInv, DurableInv, CopyWrite(Main)
  PROVE  DurableInv'
<1>1. /\ pc[Main] \in Copying /\ pc[Main] = "write" /\ buf[Main] = cache[cur]
      /\ cache[Mirror] = IF left[Main] = 2 THEN Empty ELSE [hd |-> cache[cur].hd, tl |-> Nil]
      /\ left[Main] \in {1, 2}
  BY OneThread DEF CopyWrite, Copying, DurableInv, CopyInv, StoreInv, TypeInv, TypeOK, LocalInv
<1>2. /\ cache[cur] \in Content /\ Whole(cache[cur]) /\ Image(cache[cur])
      /\ cache[cur] = [hd |-> cache[cur].hd, tl |-> cache[cur].tl]
  BY <1>1, CopyFacts DEF Content
<1>3. UNCHANGED <<bootVars, history>> /\ left'[Main] = left[Main] - 1
  BY <1>1, OneThread DEF CopyWrite, StoreInv, TypeInv, TypeOK
<1>4. CASE left[Main] = 2
  <2> DEFINE cut == [hd |-> cache[cur].hd, tl |-> Nil]
  <2>1. Put(Mirror, cut) /\ Goto(Main, "read")
    BY <1>1, <1>4 DEF CopyWrite, Empty
  <2>2. cut \in Content /\ ~Whole(cut) /\ Image(cut)
    BY <1>2 DEF Content, Whole, Image
  <2>3. /\ PairInv' /\ ImageInv'
        /\ cache'[cur] = cache[cur] /\ onDisk'[cur] = onDisk[cur] /\ cache'[Mirror] = cut
    BY <1>1, <1>3, <2>1, <2>2, CopyPut
  <2>4. "read" \in Copying \ {"stat"} /\ left'[Main] # 2
    BY <1>3, <1>4 DEF Copying
  <2>5. SaveInv' /\ CopyInv' /\ BootScan'
    BY <1>1, <1>3, <2>1, <2>3, <2>4, CopyStage
  <2> QED
    BY <2>3, <2>5 DEF DurableInv
<1>5. CASE left[Main] = 1
  <2>1. Put(Mirror, cache[cur]) /\ Goto(Main, "sync_end")
    BY <1>1, <1>2, <1>5 DEF CopyWrite
  <2>2. /\ PairInv' /\ ImageInv'
        /\ cache'[cur] = cache[cur] /\ onDisk'[cur] = onDisk[cur] /\ cache'[Mirror] = cache[cur]
    BY <1>1, <1>2, <1>3, <2>1, CopyPut
  <2>3. "sync_end" \in Copying \ {"stat"}
    BY DEF Copying
  <2>4. SaveInv' /\ CopyInv' /\ BootScan'
    BY <1>1, <1>3, <2>1, <2>2, <2>3, CopyStage
  <2> QED
    BY <2>2, <2>4 DEF DurableInv
<1> QED
  BY <1>1, <1>4, <1>5

\* The save returns with both files the same on the medium.
LEMMA SaveReturnDurable ==
  ASSUME OneWriter, StoreInv, DurableInv, SaveReturn(Main)
  PROVE  DurableInv'
<1> DEFINE c == cache[cur]
<1>1. pc[Main] \in Copying /\ phase = "run" /\ cache[Mirror] = c
      /\ latest[Main] = attempt[Main]
  BY DEF SaveReturn, Copying, DurableInv, CopyInv, SaveInv
<1>2. /\ c \in Content /\ Whole(c) /\ Image(c) /\ InitCount(c) = c.hd /\ c.hd \in Int
      /\ Saved(c) = attempt[Main] /\ c.hd >= 0 /\ (returned[Main] > 0 => c.hd > 0)
  BY <1>1, CopyFacts DEF At
<1>3. /\ Sync /\ returned' = [returned EXCEPT ![Main] = attempt[Main]] /\ Goto(Main, "idle")
      /\ cur' = cur /\ phase' = phase /\ attempt' = attempt
  BY DEF SaveReturn, bootVars
<1>4. returned'[Main] = attempt[Main] /\ pc'[Main] = "idle" /\ Mirror' = Mirror
  BY <1>3, OneThread, GotoMain DEF Mirror, StoreInv, TypeInv, TypeOK, Values
<1>5. cache' = cache /\ \A f \in Files : cache[f] = c /\ onDisk'[f] = {c}
  BY <1>1, <1>3, OneThread DEF Sync
<1>6. PairInv'
  <2> SUFFICES ASSUME NEW x, NEW y, x = c, y = c PROVE Wins(x, y)'
    BY <1>5 DEF PairInv, Files
  <2>1. InitCount(x) > 0 /\ InitCount(x) = InitCount(y) /\ Saved(x) = attempt[Main]
    BY <1>1, <1>2 DEF DurableInv, SaveInv
  <2>2. attempt[Main] \in Nat /\ InitCount(x) \in Int
    BY <1>2, OneThread
  <2> QED
    BY <1>4, <2>1, <2>2 DEF Wins, InitCount, Saved
<1>7. ImageInv'
  BY <1>2, <1>3, <1>4, <1>5, OneThread DEF DurableInv, ImageInv, Image, Whole
<1>8. At(Mirror, c.hd)'
  <2>1. c.hd > 0
    BY <1>1 DEF DurableInv, SaveInv
  <2>2. \A d \in onDisk'[Mirror'] : d = c
    BY <1>4, <1>5, OneThread
  <2>3. c' = c
    BY <1>3, <1>5
  <2>4. attempt[Main] >= attempt[Main]
    BY OneThread
  <2> HIDE DEF c
  <2>5. \A d \in onDisk'[Mirror'] : InitCount(d) = c.hd /\ Saved(d) >= returned'[Main]
    BY <1>2, <1>4, <2>2, <2>4
  <2> QED
    BY <1>2, <1>4, <2>1, <2>3, <2>5 DEF At, InitCount, Saved
<1>9. SaveInv'
  BY <1>3, <1>4, <1>5, <1>8 DEF SaveInv, Copying
<1>10. CopyInv' /\ BootScan'
  BY <1>1, <1>3, <1>4 DEF CopyInv, Copying, BootScan
<1> QED
  BY <1>6, <1>7, <1>9, <1>10 DEF DurableInv

-----------------------------------------------------------------------------
(* cfg_init, and a restart.                                                *)

\* What is known of the two files at each stage of the scan.
LEMMA InitFileDurable ==
  ASSUME OneWriter, StoreInv, DurableInv, NEW f \in Files, InitFile(f)
  PROVE  DurableInv'
<1> DEFINE g == 1 - f
           here == IF f = 0 THEN "init0" ELSE "init1"
           next == IF f = 0 THEN "init1" ELSE "decide"
           c == cache[f]
<1>1. /\ phase = "boot" /\ pc[Main] = here /\ c \in Content /\ onDisk[f] = {c}
      /\ f \in {0, 1} /\ g \in Files /\ cache[g] \in onDisk[g] /\ \A d \in onDisk[g] : d \in Content
  BY StageFacts, ConstantFacts
  DEF InitFile, InitStages, Copying, Files, StoreInv, TypeInv, TypeOK, DurableInv, BootScan, ImageInv
<1>2. /\ phase' = "boot" /\ pc'[Main] = next /\ cur' = cur
      /\ attempt' = attempt /\ returned' = returned
  BY <1>1, GotoMain DEF InitFile, history
<1>3. writeCnt'[f] = InitCount(c) /\ writeCnt'[g] = writeCnt[g]
  BY <1>1 DEF InitFile, StoreInv, TypeInv, TypeOK
<1>4. cache'[g] = cache[g] /\ onDisk'[g] = onDisk[g]
  BY <1>1, PutOther DEF InitFile, fileVars
<1>5. returned[Main] \in Nat /\ InitCount(c) \in Int /\ InitCount(c) >= -1
  BY <1>1, OneThread, ImageFacts
<1>6. ASSUME Whole(c) PROVE PairInv' /\ ImageInv' /\ Scanned(f)'
  <2>1. UNCHANGED fileVars
    BY <1>6 DEF InitFile
  <2>2. PairInv' /\ ImageInv'
    BY <1>2, <2>1, SameImages DEF DurableInv
  <2>3. InitCount(c) = c.hd /\ c.hd >= 0
    BY <1>1, <1>6, ImageFacts, OneThread DEF DurableInv, ImageInv, Image, Whole
  <2>4. cache'[f] = c /\ onDisk'[f] = {c} /\ writeCnt'[f] = c.hd
    BY <1>1, <1>3, <2>1, <2>3 DEF fileVars
  <2>5. Scanned(f)'
    <3> SUFFICES ASSUME NEW x, x = c PROVE Scanned(f)'
      OBVIOUS
    <3>1. Whole(x) /\ InitCount(x) = x.hd /\ x.hd >= 0
      BY <1>6, <2>3
    <3>2. cache'[f] = x /\ onDisk'[f] = {x} /\ writeCnt'[f] = x.hd
      BY <2>4
    <3>3. ~(x.hd < 0)
      BY <2>3, <3>1, ContentFacts, ConstantFacts, <1>6, <1>1 DEF Counts
    <3> HIDE DEF c
    <3> QED
      BY <3>1, <3>2, <3>3 DEF Scanned, InitCount, Whole
  <2> QED
    BY <2>2, <2>5
<1>7. ASSUME c = Empty PROVE PairInv' /\ ImageInv' /\ Scanned(f)'
  <2> DEFINE z == [hd |-> 0, tl |-> NoKeys]
  <2>1. /\ z \in Content /\ Whole(z) /\ InitCount(z) = 0 /\ Saved(z) = 0
        /\ z.hd = 0 /\ z.tl[Main] = 0
    <3>1. 0 \in Counts /\ NoKeys \in Values /\ NoKeys[Main] = 0
      BY ConstantFacts DEF Counts, NoKeys, Values
    <3>2. z \in Content /\ Whole(z)
      BY <3>1, ConstantFacts DEF Content, Whole
    <3> QED
      BY <3>1, <3>2, ImageFacts
  <2>2. Put(f, z) /\ ~Whole(c)
    BY <1>7, EmptyImage DEF InitFile
  <2>3. \A d \in onDisk[g] : Wins(z, d) /\ Wins(d, z)
    <3>1. \A d \in onDisk[g] : Wins(Empty, d) /\ Wins(d, Empty)
      BY <1>1, <1>7 DEF DurableInv, PairInv
    <3> QED
      BY <2>1, <3>1, EmptyImage DEF Wins
  <2>4. PairInv'
    BY <1>2, <2>2, <2>3, PutPair DEF DurableInv
  <2>5. ImageInv'
    BY <1>2, <2>1, <2>2, OneThread, PutImage DEF DurableInv, ImageInv, Image, Whole
  <2>6. cache'[f] = z /\ onDisk'[f] = {Empty, z} /\ writeCnt'[f] = 0
    BY <1>1, <1>3, <1>7, <2>2, PutOther, EmptyImage
  <2>7. Scanned(f)'
    BY <2>1, <2>6, EmptyImage DEF Scanned, InitCount, Whole, Empty
  <2> QED
    BY <2>4, <2>5, <2>7
<1>8. ASSUME ~Whole(c) /\ c # Empty PROVE PairInv' /\ ImageInv' /\ Scanned(f)'
  <2>1. Put(f, Empty) /\ InitCount(c) = -1
    BY <1>1, <1>8, ImageFacts DEF InitFile
  <2>2. \A d \in onDisk[g] : Wins(Empty, d) /\ Wins(d, Empty)
    <3> SUFFICES ASSUME NEW d \in onDisk[g] PROVE Wins(Empty, d) /\ Wins(d, Empty)
      OBVIOUS
    <3>1. Wins(d, c) /\ d \in Content
      BY <1>1 DEF DurableInv, PairInv, Files
    <3>2. InitCount(d) \in Int /\ InitCount(d) >= -1
      BY <3>1, ImageFacts
    <3> QED
      BY <1>5, <2>1, <3>1, <3>2, EmptyWins DEF Wins
  <2>3. PairInv'
    BY <1>2, <2>1, <2>2, PutPair DEF DurableInv
  <2>4. ImageInv'
    BY <1>2, <2>1, EmptyImage, OneThread, PutImage DEF DurableInv, ImageInv, Image, Whole
  <2>5. cache'[f] = Empty /\ writeCnt'[f] = -1
    BY <1>3, <2>1, PutOther
  <2>6. Scanned(f)'
    BY <2>5 DEF Scanned
  <2> QED
    BY <2>3, <2>4, <2>6
<1>9. PairInv' /\ ImageInv' /\ Scanned(f)'
  BY <1>6, <1>7, <1>8
<1>10. CASE f = 0
  <2>1. pc[Main] = "init0" /\ pc'[Main] = "init1" /\ g = 1
    BY <1>1, <1>2, <1>10
  <2>2. onDisk'[1] = {cache'[1]}
    BY <1>1, <1>4, <2>1 DEF DurableInv, BootScan
  <2>3. writeCnt'[0] < 0 => InitCount(cache[1]) >= 0
    <3>1. Wins(cache[1], c) /\ InitCount(cache[1]) \in Int /\ InitCount(cache[1]) >= -1
      BY <1>1, <1>10, <2>1, ImageFacts DEF DurableInv, PairInv, Files
    <3> QED
      BY <1>3, <1>5, <1>10, <3>1 DEF Wins
  <2>4. BootScan'
    BY <1>4, <1>9, <1>10, <2>1, <2>2, <2>3 DEF BootScan, InitCount, Whole, Empty
  <2>5. SaveInv' /\ CopyInv'
    BY <1>2, <2>1 DEF SaveInv, CopyInv, Copying
  <2> QED
    BY <1>9, <2>4, <2>5 DEF DurableInv
<1>11. CASE f = 1
  <2>1. pc[Main] = "init1" /\ pc'[Main] = "decide" /\ g = 0
    BY <1>1, <1>2, <1>11
  <2>2. Scanned(0)'
    BY <1>1, <1>3, <1>4, <2>1 DEF DurableInv, BootScan, Scanned, InitCount, Whole, Empty
  <2>3. writeCnt'[0] >= 0 \/ writeCnt'[1] >= 0
    <3>1. writeCnt[0] \in Int /\ (writeCnt[0] < 0 => InitCount(cache[1]) >= 0)
      BY <1>1, <2>1, ConstantFacts DEF DurableInv, BootScan, StoreInv, TypeInv, TypeOK, Counts, Files
    <3> QED
      BY <1>3, <1>11, <2>1, <3>1
  <2>4. BootScan'
    BY <1>9, <1>11, <2>1, <2>2, <2>3 DEF BootScan
  <2>5. SaveInv' /\ CopyInv'
    BY <1>2, <2>1 DEF SaveInv, CopyInv, Copying
  <2> QED
    BY <1>9, <2>4, <2>5 DEF DurableInv
<1> QED
  BY <1>1, <1>10, <1>11

\* One of the two files is always good, and the newer one has all it must.
LEMMA InitDecideDurable ==
  ASSUME OneWriter, StoreInv, DurableInv, InitDecide
  PROVE  DurableInv'
<1> DEFINE k == NewerFile
           m == 1 - k
           n == writeCnt[k]
<1>1. /\ phase = "boot" /\ pc[Main] = "decide" /\ k \in Files /\ m \in Files /\ m # k
      /\ writeCnt[0] \in Int /\ writeCnt[1] \in Int
  BY StageFacts, ConstantFacts
  DEF InitDecide, InitStages, Copying, NewerFile, Files, Counts, StoreInv, TypeInv, TypeOK
<1>2. Scanned(k) /\ Scanned(m) /\ (writeCnt[0] >= 0 \/ writeCnt[1] >= 0)
  BY <1>1 DEF DurableInv, BootScan, Files
<1>3. n >= 0 /\ n \in Int /\ writeCnt[m] <= n /\ writeCnt[m] \in Int /\ (writeCnt[m] = n <=> writeCnt[0] = writeCnt[1])
  BY <1>1, <1>2 DEF NewerFile, Files
<1>4. /\ cache[k] \in onDisk[k] /\ cache[m] \in onDisk[m]
      /\ onDisk[k] \subseteq Content /\ onDisk[m] \subseteq Content
      /\ \A c \in onDisk[k], d \in onDisk[m] : Wins(c, d) /\ Wins(d, c)
  <2>1. 1 - m = k
    BY <1>1 DEF Files
  <2> QED
    BY <1>1, <2>1 DEF DurableInv, ImageInv, PairInv, StoreInv, TypeInv, TypeOK
<1>5. Whole(cache[k]) /\ cache[k].hd = n /\ \A c \in onDisk[k] : InitCount(c) = n
  BY <1>2, <1>3 DEF Scanned
<1>6. InitCount(cache[m]) <= n /\ InitCount(cache[m]) \in Int
  <2>1. CASE writeCnt[m] >= 0
    BY <1>2, <1>3, <1>4, <2>1 DEF Scanned
  <2>2. CASE writeCnt[m] < 0
    BY <1>2, <1>3, <2>2, EmptyImage DEF Scanned
  <2> QED
    BY <1>3, <2>1, <2>2
<1>7. At(k, n)
  BY <1>3, <1>4, <1>5, <1>6 DEF At, Wins
<1>8. /\ UNCHANGED fileVars /\ attempt' = attempt /\ returned' = returned
      /\ cur' = k /\ Mirror' = m
      /\ IF writeCnt[m] # n THEN Goto(Main, "stat") /\ phase' = "boot" ELSE Started
  BY <1>1, <1>2, <1>3 DEF InitDecide, Mirror
<1>9. PairInv' /\ ImageInv'
  BY <1>8, SameImages DEF DurableInv
<1>10. CASE writeCnt[m] # n
  <2>1. pc'[Main] = "stat" /\ phase' = "boot"
    BY <1>8, <1>10, GotoMain
  <2>2. Saved(cache[m]) <= Saved(cache[k])
    <3>1. CASE writeCnt[m] >= 0
      BY <1>2, <1>3, <1>4, <1>5, <1>10, <3>1 DEF Scanned, Wins
    <3>2. CASE writeCnt[m] < 0
      <4>1. Saved(cache[k]) \in Nat /\ Saved(cache[m]) = 0
        BY <1>2, <1>4, <3>2, EmptyImage, ImageFacts DEF Scanned
      <4> QED
        BY <4>1
    <3> QED
      BY <1>3, <3>1, <3>2
  <2>3. CopyInv'
    <3>1. At(cur, cache[cur].hd)'
      BY <1>5, <1>7, <1>8 DEF At, fileVars, InitCount, Saved, Whole
    <3>2. (Saved(cache[Mirror]) <= Saved(cache[cur]))'
      BY <1>8, <2>2 DEF fileVars, Saved, Whole
    <3> QED
      BY <2>1, <3>1, <3>2 DEF CopyInv
  <2>4. SaveInv' /\ BootScan'
    BY <2>1 DEF SaveInv, BootScan
  <2> QED
    BY <1>9, <2>3, <2>4 DEF DurableInv
<1>11. CASE writeCnt[m] = n
  <2>1. pc'[Main] = "idle" /\ phase' = "run"
    BY <1>8, <1>11, ConstantFacts DEF Started
  <2>2. \A d \in onDisk[m] : InitCount(d) = n
    BY <1>2, <1>3, <1>11 DEF Scanned
  <2>3. At(m, n)
    BY <1>3, <1>4, <1>5, <1>7, <2>2 DEF At, Wins
  <2>4. At(Mirror, cache[cur].hd)'
    BY <1>5, <1>8, <2>3 DEF At, fileVars, InitCount, Saved, Whole
  <2>5. SaveInv' /\ CopyInv' /\ BootScan'
    BY <2>1, <2>4 DEF SaveInv, CopyInv, Copying, BootScan
  <2> QED
    BY <1>9, <2>5 DEF DurableInv
<1> QED
  BY <1>10, <1>11

LEMMA InitEndDurable ==
  ASSUME OneWriter, StoreInv, DurableInv, InitEnd
  PROVE  DurableInv'
<1> DEFINE c == cache[cur]
<1>1. pc[Main] \in Copying /\ cache[Mirror] = c
  BY DEF InitEnd, Copying, DurableInv, CopyInv
<1>2. At(cur, c.hd) /\ c.hd = InitCount(c)
  BY <1>1, CopyFacts
<1>3. /\ Sync /\ pc'[Main] = "idle" /\ phase' = "run" /\ cur' = cur /\ Mirror' = Mirror
      /\ attempt' = attempt /\ returned' = returned
  BY ConstantFacts DEF InitEnd, Started, Mirror, history
<1>4. PairInv' /\ ImageInv'
  BY <1>3, SyncImages DEF DurableInv
<1>5. c \in onDisk[cur] /\ cache' = cache /\ onDisk'[Mirror] = {c}
  BY <1>1, <1>3, OneThread DEF Sync, DurableInv, ImageInv
<1>6. At(Mirror, cache[cur].hd)'
  BY <1>2, <1>3, <1>5 DEF At, InitCount, Saved, Whole
<1>7. SaveInv' /\ CopyInv' /\ BootScan'
  BY <1>3, <1>6 DEF SaveInv, CopyInv, Copying, BootScan
<1> QED
  BY <1>4, <1>7 DEF DurableInv

\* A power loss: any image of the one file with any image of the other.
LEMMA RestartDurable ==
  ASSUME OneWriter, StoreInv, DurableInv, Restart
  PROVE  DurableInv'
<1>1. PICK image \in [Files -> UNION {onDisk[f] : f \in Files}] :
        /\ \A f \in Files : image[f] \in onDisk[f]
        /\ cache' = image
        /\ onDisk' = [f \in Files |-> {image[f]}]
  BY DEF Restart
<1>2. phase' = "boot" /\ pc'[Main] = "init0" /\ attempt' = attempt /\ returned' = returned
  BY ConstantFacts DEF Restart, history
<1>3. PairInv'
  BY <1>1, <1>2 DEF DurableInv, PairInv, Files, Wins, InitCount, Saved
<1>4. ImageInv'
  BY <1>1, <1>2 DEF DurableInv, ImageInv, Image, Whole
<1>5. SaveInv' /\ CopyInv' /\ BootScan'
  BY <1>1, <1>2 DEF SaveInv, CopyInv, Copying, BootScan, Files
<1> QED
  BY <1>3, <1>4, <1>5 DEF DurableInv

-----------------------------------------------------------------------------
(* The inductive invariant of one writer.                                  *)

LEMMA DurableInit ==
  ASSUME OneWriter, Init
  PROVE  DurableInv
<1>1. /\ attempt[Main] = 0 /\ returned[Main] = 0 /\ pc[Main] = "init0" /\ phase = "boot"
      /\ \A f \in Files : cache[f] = Empty /\ onDisk[f] = {Empty} /\ 1 - f \in Files
  BY ConstantFacts DEF Init, NoKeys, Files
<1>2. PairInv
  BY <1>1, EmptyImage DEF PairInv, Wins
<1>3. ImageInv
  BY <1>1, EmptyImage, CfgAssumption DEF ImageInv
<1>4. SaveInv /\ CopyInv /\ BootScan
  BY <1>1 DEF SaveInv, CopyInv, Copying, BootScan, Files
<1> QED
  BY <1>2, <1>3, <1>4 DEF DurableInv

LEMMA DurableStep ==
  ASSUME OneWriter, StoreInv, DurableInv, [Next]_vars
  PROVE  DurableInv'
<1>1. ASSUME NEW t \in Threads, SetBegin(t) \/ SaveStep(t) PROVE DurableInv'
  <2>1. t = Main
    BY OneThread
  <2> QED
    BY <1>1, <2>1, SetBeginDurable, SetWriteDurable, CntGetDurable, CntSetDurable,
       CntWriteDurable, SyncSaveDurable, CopyStatDurable, CopyTruncDurable, CopyReadDurable,
       CopyWriteDurable, SaveReturnDurable DEF SaveStep
<1>2. ASSUME InitStep PROVE DurableInv'
  BY <1>2, InitFileDurable, InitDecideDurable, InitEndDurable DEF InitStep
<1>3. CASE UNCHANGED vars
  BY <1>3 DEF vars, DurableInv, PairInv, ImageInv, SaveInv, CopyInv, BootScan, Scanned, At,
     Wins, Image, InitCount, Saved, Whole, Mirror, Empty
<1> QED
  BY <1>1, <1>2, <1>3, RestartDurable DEF Next

LEMMA DurableAlways ==
  ASSUME OneWriter
  PROVE  Spec => [](StoreInv /\ DurableInv)
<1>1. Init => StoreInv /\ DurableInv
  BY StoreInit, DurableInit
<1>2. StoreInv /\ DurableInv /\ [Next]_vars => (StoreInv /\ DurableInv)'
  BY StoreStep, DurableStep
<1> QED
  BY <1>1, <1>2, PTL DEF Spec

\* A save whose call returned is in effect after any number of power losses,
\* at whatever step of a later save, of the copy or of cfg_init they come.
THEOREM SavesSurvive ==
  ASSUME OneWriter
  PROVE  Spec => []SavedSurvives
<1>1. ASSUME StoreInv, DurableInv PROVE SavedSurvives
  <2> SUFFICES ASSUME phase = "run", mutex = Nil PROVE cache[cur].tl[Main] >= returned[Main]
    BY <1>1, OneThread DEF SavedSurvives
  <2>1. /\ Whole(cache[cur]) /\ cache[cur].tl = latest /\ pc[Main] \notin Rewriting
        /\ cache[cur] \in Content
    BY <1>1, FreeFacts, OneThread DEF Current, StoreInv, TypeInv, TypeOK
  <2>2. CASE pc[Main] = "idle"
    <3>1. At(Mirror, cache[cur].hd) /\ cache[Mirror] \in onDisk[Mirror]
      BY <1>1, <2>2, OneThread DEF DurableInv, SaveInv, ImageInv
    <3>2. InitCount(cache[Mirror]) = cache[cur].hd /\ InitCount(cache[cur]) = cache[cur].hd
      BY <2>1, <3>1, ImageFacts DEF At
    <3>3. Wins(cache[cur], cache[Mirror])
      BY <1>1, <3>1, OneThread DEF DurableInv, PairInv, ImageInv
    <3>4. cache[cur].hd \in Int
      BY <2>1, ContentFacts, ConstantFacts DEF Counts
    <3> QED
      BY <2>1, <3>2, <3>3, <3>4 DEF Wins, Saved
  <2>3. CASE pc[Main] # "idle"
    <3>1. latest[Main] = attempt[Main]
      BY <1>1, <2>1, <2>3 DEF DurableInv, SaveInv, Rewriting
    <3> QED
      BY <1>1, <2>1, <3>1, OneThread DEF DurableInv, ImageInv
  <2> QED
    BY <2>2, <2>3
<1> QED
  BY <1>1, DurableAlways, PTL

\* cfg_init always finds a file to go on with: of the two, one is whole, or
\* both are still missing.
THEOREM BootsAlways ==
  ASSUME OneWriter
  PROVE  Spec => []BootSucceeds
<1>1. ASSUME StoreInv, DurableInv PROVE BootSucceeds
  BY <1>1, OneThread DEF BootSucceeds, DurableInv, BootScan, StoreInv, LockInv, PhaseInv,
     SaveStages, Rewriting, Copying, TypeInv, TypeOK
<1> QED
  BY <1>1, DurableAlways, PTL

\* The file cfg_init overwrites is never ahead of the one it goes on with.
THEOREM NewerIsPicked ==
  ASSUME OneWriter
  PROVE  Spec => []PicksNewer
<1>1. ASSUME StoreInv, DurableInv PROVE PicksNewer
  <2> SUFFICES ASSUME phase = "boot", pc[Main] = "stat", Whole(cache[Mirror])
               PROVE  cache[cur].tl[Main] >= cache[Mirror].tl[Main]
    BY <1>1, OneThread DEF PicksNewer
  <2>1. Saved(cache[Mirror]) <= Saved(cache[cur])
    BY <1>1 DEF DurableInv, CopyInv, Copying
  <2>2. Whole(cache[cur]) /\ Saved(cache[cur]) \in Nat /\ Saved(cache[Mirror]) \in Nat
    BY <1>1, CopyFacts, OneThread, ImageFacts DEF Copying, StoreInv, TypeInv, TypeOK
  <2> QED
    BY <2>1, <2>2 DEF Saved
<1> QED
  BY <1>1, DurableAlways, PTL

-----------------------------------------------------------------------------
(* The store implements DurableStore.                                      *)

LEMMA StoreBegins == Init => Store!Init
<1> SUFFICES ASSUME Init PROVE Store!Init
  OBVIOUS
<1>1. Visible = NoKeys /\ phase = "boot"
  BY DEF Init, Visible
<1> QED
  BY <1>1 DEF Init, Store!Init, NoKeys

LEMMA SetBeginStore ==
  ASSUME OneWriter, StoreInv, SetBegin(Main)
  PROVE  Store!Begin(Main)
<1>1. phase = "run" /\ mutex = Nil /\ Current
  BY FreeFacts DEF SetBegin
<1>2. Readable(cache[cur]) /\ Visible = latest
  BY <1>1 DEF Current, Readable, Visible
<1>3. mutex' = Main /\ phase' = phase /\ latest' = latest /\ returned' = returned
  BY <1>2 DEF SetBegin, bootVars
<1>4. Visible' = latest
  BY <1>1, <1>3, ConstantFacts DEF Visible
<1> QED
  BY <1>1, <1>2, <1>3, <1>4 DEF SetBegin, Store!Begin

LEMMA SetWriteStore ==
  ASSUME OneWriter, StoreInv, SetWrite(Main)
  PROVE  Store!Take(Main)
<1>1. phase = "run" /\ pc[Main] = "set_write" /\ mutex = Main /\ Main # Nil
  BY OneThread, StageFacts, ConstantFacts
  DEF SetWrite, SaveStages, Rewriting, Copying, StoreInv, LockInv, MutexInv
<1>2. Visible = latest /\ latest \in [Threads -> Nat]
  BY <1>1 DEF Visible, StoreInv, TypeInv, TypeOK, Values
<1>3. buf[Main].tl = [latest EXCEPT ![Main] = attempt[Main]]
  BY <1>1, OneThread DEF StoreInv, LockInv, BufInv
<1>4. /\ cache'[cur] = buf[Main] /\ mutex' = Nil /\ phase' = phase /\ cur' = cur
      /\ attempt' = attempt /\ returned' = returned
  BY OneThread, PutOther DEF SetWrite, bootVars
<1>5. Visible' = [Visible EXCEPT ![Main] = attempt[Main]]
  BY <1>1, <1>2, <1>3, <1>4 DEF Visible
<1> QED
  BY <1>1, <1>4, <1>5 DEF Store!Take

\* The steps a reader does not see: the write count and the mirror.
LEMMA HiddenSteps ==
  ASSUME OneWriter, StoreInv, DurableInv,
         \/ CntGet(Main) \/ CntSet(Main) \/ CntWrite(Main) \/ SyncSave(Main)
         \/ CopyStat(Main) \/ CopyTrunc(Main) \/ CopyRead(Main) \/ CopyWrite(Main)
  PROVE  UNCHANGED Store!vars
<1>1. UNCHANGED <<phase, cur, attempt, returned, latest>>
  BY DEF CntGet, CntSet, CntWrite, SyncSave, CopyStat, CopyTrunc, CopyRead, CopyWrite,
     bootVars, history
<1>2. Visible' = Visible
  <2>1. CASE phase = "boot"
    BY <1>1, <2>1 DEF Visible
  <2>2. CASE phase = "run" /\ mutex' = Nil
    <3>1. Visible' = latest'
      <4>1. StoreInv'
        <5>1. [Next]_vars
          BY OneThread DEF Next, SaveStep
        <5> QED
          BY <5>1, StoreStep
      <4> QED
        BY <1>1, <2>2, <4>1 DEF StoreInv, LockInv, FreeInv, Current, Visible
    <3>2. Visible = latest
      BY <2>2, FreeFacts DEF Visible, Current
    <3> QED
      BY <1>1, <3>1, <3>2
  <2>3. CASE phase = "run" /\ mutex' # Nil
    <3>1. Visible' = latest'
      BY <1>1, <2>3 DEF Visible
    <3>2. Visible = latest
      BY <2>3, FreeFacts DEF Visible, Current
    <3> QED
      BY <1>1, <3>1, <3>2
  <2> QED
    BY <2>1, <2>2, <2>3 DEF StoreInv, TypeInv, TypeOK
<1> QED
  BY <1>1, <1>2 DEF Store!vars

LEMMA SaveReturnStore ==
  ASSUME OneWriter, StoreInv, DurableInv, SaveReturn(Main)
  PROVE  Store!Return(Main)
<1>1. pc[Main] \in Copying /\ phase = "run" /\ latest[Main] = attempt[Main]
  BY DEF SaveReturn, Copying, DurableInv, SaveInv
<1>2. mutex = Nil /\ cache[cur].tl = latest
  BY <1>1, CopyFacts
<1>3. UNCHANGED <<phase, cur, attempt, mutex>> /\ cache' = cache
  BY DEF SaveReturn, Sync, bootVars
<1>4. Visible = latest /\ Visible' = Visible
  BY <1>1, <1>2, <1>3 DEF Visible
<1> QED
  BY <1>1, <1>3, <1>4 DEF SaveReturn, Store!Return

\* cfg_init is invisible until it ends; its end is the abstract start.
LEMMA StartStore ==
  ASSUME OneWriter, StoreInv, StoreInv', DurableInv', SavedSurvives',
         phase = "boot", phase' = "run", mutex' = Nil, UNCHANGED <<attempt, returned>>
  PROVE  Store!Start
<1> DEFINE now == cache'[cur'].tl
<1>1. Visible' = now /\ Whole(cache'[cur']) /\ cur' \in Files /\ cache'[cur'] \in Content
  <2>1. Current'
    BY DEF StoreInv, LockInv, FreeInv
  <2> QED
    BY <2>1 DEF Current, Whole, Visible, StoreInv, TypeInv, TypeOK
<1>2. now \in [Threads -> Nat]
  BY <1>1, ContentFacts DEF Values
<1>3. now[Main] >= returned[Main]
  BY OneThread DEF SavedSurvives
<1>4. now[Main] <= attempt[Main]
  BY <1>1 DEF DurableInv, ImageInv, Image, Whole
<1>5. \A t \in Threads : now[t] \in returned[t] .. attempt[t]
  BY <1>2, <1>3, <1>4, OneThread
<1> QED
  BY <1>1, <1>2, <1>5 DEF Store!Start

LEMMA InitStore ==
  ASSUME OneWriter, StoreInv, StoreInv', DurableInv', SavedSurvives', InitStep
  PROVE  Store!Start \/ UNCHANGED Store!vars
<1>1. phase = "boot" /\ UNCHANGED <<mutex, attempt, returned>>
  BY StageFacts, ConstantFacts
  DEF InitStep, InitFile, InitDecide, InitEnd, InitStages, Copying, history
<1>2. CASE phase' = "boot"
  BY <1>1, <1>2 DEF Store!vars, Visible
<1>3. CASE phase' = "run"
  <2>1. mutex = Nil
    BY <1>1, ConstantFacts
    DEF StoreInv, TypeInv, TypeOK, LockInv, PhaseInv, MutexInv, InitStages, Copying, Rewriting
  <2> QED
    BY <1>1, <1>3, <2>1, StartStore
<1> QED
  BY <1>2, <1>3 DEF StoreInv, TypeInv, TypeOK

LEMMA RestartStore == Restart => Store!Fail
  BY DEF Restart, history, Store!Fail, Visible

LEMMA StoreSteps ==
  ASSUME OneWriter, StoreInv, DurableInv, StoreInv', DurableInv', SavedSurvives', [Next]_vars
  PROVE  [Store!Next]_Store!vars
<1>1. ASSUME NEW t \in Threads, SetBegin(t) \/ SaveStep(t) PROVE [Store!Next]_Store!vars
  <2>1. t = Main /\ Main \in Threads
    BY OneThread
  <2>2. Store!Begin(Main) \/ Store!Take(Main) \/ Store!Return(Main) \/ UNCHANGED Store!vars
    BY <1>1, <2>1, SetBeginStore, SetWriteStore, HiddenSteps, SaveReturnStore DEF SaveStep
  <2> QED
    BY <2>1, <2>2 DEF Store!Next
<1>2. ASSUME InitStep PROVE [Store!Next]_Store!vars
  BY <1>2, InitStore DEF Store!Next
<1>3. ASSUME Restart PROVE [Store!Next]_Store!vars
  BY <1>3, RestartStore DEF Store!Next
<1>4. CASE UNCHANGED vars
  BY <1>4 DEF vars, Store!vars, Visible
<1> QED
  BY <1>1, <1>2, <1>3, <1>4 DEF Next

\* With one thread that saves, two files, two write counts and the syncs are a
\* store whose saves take effect at one moment and, once returned, stay.
THEOREM StoreImplemented ==
  ASSUME OneWriter
  PROVE  Spec => ImplementsStore
<1>1. Init => Store!Init
  BY StoreBegins
<1>2. /\ StoreInv /\ DurableInv /\ StoreInv' /\ DurableInv' /\ SavedSurvives' /\ [Next]_vars
      => [Store!Next]_Store!vars
  BY StoreSteps
<1> QED
  BY <1>1, <1>2, DurableAlways, SavesSurvive, PTL DEF Spec, ImplementsStore, Store!Spec

=============================================================================
