--------------------------- MODULE ContentProofs ---------------------------
(***************************************************************************)
(* What is handed on is whole and what is recorded is right, each part for *)
(* its own specification and for every value of its constants: the result  *)
(* of a task that was dispatched in chunks, an asset put together again,   *)
(* the tree a shader walks, the books of a render and its picture, the     *)
(* verdict of a comparison, and the counts of an experiment.               *)
(***************************************************************************)
EXTENDS ComponentProofs, Bvh, Validator, TileRender, MockWorker, FiniteSetTheorems

Data == INSTANCE DataLemmas

-----------------------------------------------------------------------------
(* KernelHost: the result.                                                 *)

\* The accumulator has the units that were dispatched, once each.
Accumulated ==
  /\ DOMAIN out = Candidates(req)
  /\ \A i \in 0 .. (req.count - 1) :
       out[Candidate(req.start + i)] = IF i < done THEN 1 ELSE 0

\* ResultIsWhole speaks of the end alone; what holds on the way is that the
\* accumulator of the device the task began on has what was dispatched.
WholeInv ==
  /\ HostInv
  /\ hpc \in {"final", "ok"} => done = req.count
  /\ hpc = "ok" => gpu = "own"
  /\ hpc \notin {"idle", "failed"} /\ gpu = "own" /\ InOneWindow(req) => Accumulated

\* The groups of a dispatch have room for its units.
LEMMA GroupsSuffice ==
  ASSUME NEW units \in Nat  PROVE  Groups(units) * WorkgroupSize >= units
<1> DEFINE g == WorkgroupSize
           s == units + g - 1
           q == s \div g
           p == g * q
<1>1. g \in Nat \ {0} /\ s \in Nat
  BY HostAssumption
<1>2. s = p + (s % g) /\ s % g \in 0 .. (g - 1) /\ q \in Nat
  BY <1>1, Data!DivMod
<1>3. p \in Nat /\ Groups(units) * WorkgroupSize = p
  BY <1>1, <1>2 DEF Groups
<1> HIDE DEF p, q
<1> QED
  BY <1>1, <1>2, <1>3

\* Units of a task that lies in one window are told apart by their low word.
LEMMA LowWordTells ==
  ASSUME NEW r \in Request, InOneWindow(r),
         NEW i \in 0 .. (r.count - 1), NEW j \in 0 .. (r.count - 1)
  PROVE  /\ Candidate(r.start + i) = <<r.start \div Window, (r.start + i) % Window>>
         /\ Candidate(r.start + i) = <<r.start \div Window, (r.start + j) % Window>> => i = j
         /\ Candidate(r.start + i) \in Candidates(r)
<1>1. /\ r.start \in Nat /\ r.count \in Nat /\ Window \in Nat \ {0}
      /\ r.start + i \in Units(r) /\ r.start + j \in Units(r)
  BY HostAssumption DEF Request, Units
<1>2. /\ (r.start + i) \div Window = r.start \div Window
      /\ (r.start + j) \div Window = r.start \div Window
  BY <1>1 DEF InOneWindow
<1> DEFINE p == Window * (r.start \div Window)
<1>3. /\ r.start + i = p + ((r.start + i) % Window) /\ (r.start + i) % Window \in Nat
      /\ r.start + j = p + ((r.start + j) % Window)
  <2>1. r.start + i \in Nat /\ r.start + j \in Nat
    BY <1>1
  <2>2. ASSUME NEW x \in Nat, x \div Window = r.start \div Window
        PROVE  x = p + (x % Window) /\ x % Window \in Nat
    <3>1. x = Window * (x \div Window) + (x % Window) /\ x % Window \in 0 .. (Window - 1)
      BY <1>1, Data!DivMod
    <3>2. Window * (x \div Window) = p
      BY <2>2, Zenon
    <3>3. x % Window \in Nat
      BY <1>1
    <3> HIDE DEF p
    <3> QED
      BY <3>1, <3>2, <3>3, Zenon
  <2> HIDE DEF p
  <2> QED
    BY <1>2, <2>1, <2>2
<1>4. (r.start + i) % Window = (r.start + j) % Window => i = j
  <2> HIDE DEF p
  <2>1. (r.start + i) % Window = (r.start + j) % Window => r.start + i = r.start + j
    BY <1>3
  <2> QED
    BY <1>1, <2>1
<1> QED
  BY <1>1, <1>2, <1>4 DEF Candidate, Candidates

\* A dispatch on the task's own device evaluates the next units, and no others.
LEMMA DispatchEvaluates ==
  ASSUME HostInv, InOneWindow(req), done < req.count, NEW i \in 0 .. (req.count - 1)
  PROVE  Candidate(req.start + i) \in Evaluated
           <=> done <= i /\ i < done + Smaller(req.chunk, req.count - done)
<1> DEFINE units == Smaller(req.chunk, req.count - done)
           c == Candidate(req.start + i)
           J == {j \in 0 .. (Groups(units) * WorkgroupSize - 1) : j < units}
<1>1. /\ req \in Request /\ req.start \in Nat /\ req.count \in Nat /\ done \in Nat
      /\ units \in Nat \ {0} /\ done + units <= req.count
  BY HostAssumption DEF HostInv, HostTypeOK, Request, Smaller
<1>2. J = 0 .. (units - 1)
  <2>1. Groups(units) * WorkgroupSize \in Int
    <3>1. WorkgroupSize \in Nat \ {0} /\ units + WorkgroupSize - 1 \in Nat
      BY <1>1, HostAssumption
    <3>2. (units + WorkgroupSize - 1) \div WorkgroupSize \in Nat
      BY <3>1, Data!DivMod
    <3> QED
      BY <3>1, <3>2 DEF Groups
  <2>2. Groups(units) * WorkgroupSize >= units
    BY <1>1, GroupsSuffice
  <2> HIDE DEF units
  <2> QED
    BY <1>1, <2>1, <2>2
<1>3. Evaluated = {<<req.start \div Window, (req.start + done + k) % Window>> : k \in J}
  BY DEF Evaluated
<1> HIDE DEF J, units
<1>4. ASSUME NEW k \in J
      PROVE  c = <<req.start \div Window, (req.start + done + k) % Window>> <=> i = done + k
  <2>1. done + k \in 0 .. (req.count - 1) /\ req.start + done + k = req.start + (done + k)
    BY <1>1, <1>2
  <2> QED
    BY <1>1, <2>1, LowWordTells
<1>5. c \in Evaluated <=> \E k \in J : i = done + k
  BY <1>3, <1>4
<1>6. (\E k \in J : i = done + k) <=> done <= i /\ i < done + units
  <2>1. ASSUME done <= i, i < done + units  PROVE  \E k \in J : i = done + k
    <3>1. i - done \in J /\ i = done + (i - done)
      BY <1>1, <1>2, <2>1
    <3> QED
      BY <3>1
  <2>2. ASSUME NEW k \in J, i = done + k  PROVE  done <= i /\ i < done + units
    BY <1>1, <1>2, <2>2
  <2> QED
    BY <2>1, <2>2
<1> QED
  BY <1>5, <1>6 DEF units

\* A dispatch adds its units to the accumulator.
LEMMA DispatchAccumulates ==
  ASSUME WholeInv, Dispatch  PROVE  WholeInv'
<1>1. HostInv /\ HostInv'
  BY DispatchKeeps DEF WholeInv
<1>2. /\ hpc = "loop" /\ hpc' \in {"timing", "yielding"} /\ done < req.count
      /\ req' = req /\ gpu' = gpu
      /\ done' = done + Smaller(req.chunk, req.count - done)
  BY DEF Dispatch
<1>3. ASSUME gpu = "own", InOneWindow(req)  PROVE  Accumulated'
  <2>1. Accumulated
    BY <1>2, <1>3 DEF WholeInv
  <2>2. out' = [c \in DOMAIN out |-> out[c] + (IF c \in Evaluated THEN 1 ELSE 0)]
    BY <1>3 DEF Dispatch
  <2>3. DOMAIN out' = Candidates(req)
    BY <2>1, <2>2 DEF Accumulated
  <2>4. ASSUME NEW i \in 0 .. (req.count - 1)
        PROVE  out'[Candidate(req.start + i)] = IF i < done' THEN 1 ELSE 0
    <3> DEFINE c == Candidate(req.start + i)
               n == Smaller(req.chunk, req.count - done)
    <3>1. /\ req \in Request /\ done \in Nat /\ req.count \in Nat /\ n \in Nat \ {0}
      BY <1>1, <1>2, HostAssumption DEF HostInv, HostTypeOK, Request, Smaller
    <3>2. c \in DOMAIN out
      BY <1>3, <2>1, <3>1, LowWordTells DEF Accumulated
    <3>3. out[c] = IF i < done THEN 1 ELSE 0
      BY <2>1 DEF Accumulated
    <3>4. c \in Evaluated <=> done <= i /\ i < done + n
      BY <1>1, <1>2, <1>3, DispatchEvaluates
    <3>5. out'[c] = out[c] + (IF c \in Evaluated THEN 1 ELSE 0)
      BY <2>2, <3>2
    <3>6. done' = done + n
      BY <1>2
    <3> HIDE DEF c, n
    <3>7. out'[c] = IF i < done' THEN 1 ELSE 0
      BY <3>1, <3>3, <3>4, <3>5, <3>6
    <3> QED
      BY <3>7 DEF c
  <2> QED
    BY <1>2, <2>3, <2>4 DEF Accumulated
<1> QED
  BY <1>1, <1>2, <1>3 DEF WholeInv, InOneWindow

\* Every other step leaves the accumulator alone.
LEMMA NextWholeInv ==
  ASSUME WholeInv, [HostNext]_hostVars  PROVE  WholeInv'
<1>1. HostInv /\ HostInv'
  BY NextHostInv DEF WholeInv
<1>2. ASSUME NEW s \in Starts, NEW n \in 1 .. MaxCount, NEW p \in 0 .. MaxCount,
             NEW t \in BOOLEAN, NEW e \in BOOLEAN, RunTask(s, n, p, t, e)
      PROVE  WholeInv'
  <2>1. /\ hpc' = "loop" /\ done' = 0 /\ gpu' = gpu /\ req' \in Request
        /\ out' = [c \in Candidates(req') |-> 0]
    BY <1>1, <1>2 DEF RunTask, HostInv, HostTypeOK
  <2>2. InOneWindow(req') => Accumulated'
    <3> SUFFICES ASSUME InOneWindow(req')  PROVE  Accumulated'
      OBVIOUS
    <3>1. \A i \in 0 .. (req'.count - 1) : Candidate(req'.start + i) \in Candidates(req')
      BY <2>1, LowWordTells
    <3> QED
      BY <2>1, <3>1 DEF Accumulated
  <2> QED
    BY <1>1, <2>1, <2>2 DEF WholeInv
<1>3. ASSUME UNCHANGED <<req, done, out>>, gpu' = "own" => gpu = "own",
             hpc' \notin {"idle", "failed"} => hpc \notin {"idle", "failed"},
             hpc' \in {"final", "ok"} => done = req.count,
             hpc' = "ok" => gpu' = "own"
      PROVE  WholeInv'
  BY <1>1, <1>3 DEF WholeInv, Accumulated, InOneWindow
<1>4. req.count \in Nat /\ done \in 0 .. req.count
  BY <1>1, HostAssumption DEF HostInv, HostTypeOK, Request
<1>5. CASE Refused \/ DeviceIsLost \/ Aborts
  BY <1>3, <1>5 DEF Refused, DeviceIsLost, Aborts, Ended
<1>6. CASE ReadTimestamps \/ Yield
  BY <1>3, <1>6 DEF ReadTimestamps, Yield
<1>7. CASE ReadBack
  BY <1>3, <1>4, <1>7 DEF ReadBack
<1>8. CASE ReadBackEnds
  BY <1>3, <1>8 DEF ReadBackEnds, MapSucceeds, WholeInv
<1>9. CASE HostDeviceLost
  BY <1>3, <1>9 DEF HostDeviceLost, WholeInv
<1>10. ASSUME NEW b \in Buffers, LateCallback(b)  PROVE  WholeInv'
  BY <1>3, <1>10 DEF LateCallback, WholeInv
<1>11. CASE UNCHANGED hostVars
  BY <1>3, <1>11 DEF hostVars, WholeInv
<1> QED
  BY <1>2, <1>5, <1>6, <1>7, <1>8, <1>9, <1>10, <1>11, DispatchAccumulates
  DEF HostNext, HostStep

\* However a range is cut into dispatches, timed, read back, interrupted or moved
\* to another device, the result that is sent has each candidate exactly once.
THEOREM ResultsAreWhole == HostSpec => []ResultIsWhole
<1>1. HostInit => WholeInv
  BY InitHostInv DEF HostInit, WholeInv
<1>2. WholeInv /\ [HostNext]_hostVars => WholeInv'
  BY NextWholeInv
<1>3. WholeInv => ResultIsWhole
  <2> SUFFICES ASSUME WholeInv, hpc = "ok", InOneWindow(req), NEW c \in Candidates(req)
               PROVE  out[c] = 1
    BY DEF ResultIsWhole
  <2>1. Accumulated /\ done = req.count /\ req.start \in Nat /\ req.count \in Nat
    BY HostAssumption DEF WholeInv, HostInv, HostTypeOK, Request
  <2>2. PICK u \in Units(req) : c = Candidate(u)
    BY DEF Candidates
  <2>3. u - req.start \in 0 .. (req.count - 1) /\ u = req.start + (u - req.start)
    BY <2>1, <2>2 DEF Units
  <2> QED
    BY <2>1, <2>2, <2>3 DEF Accumulated
<1> QED
  BY <1>1, <1>2, <1>3, PTL DEF HostSpec
-----------------------------------------------------------------------------
(* Wire: chunks.                                                           *)

\* The length of chunk i of an asset.
Length(size, i) ==
  IF i + 1 = ChunkCount(size) THEN size - (ChunkCount(size) - 1) * ChunkBytes ELSE ChunkBytes

\* The chunks of an asset are as many as it takes, and no more.
LEMMA ChunksSuffice ==
  ASSUME NEW size \in 1 .. (SizeMax - 1)
  PROVE  /\ ChunkCount(size) \in Nat \ {0}
         /\ ChunkBytes * ChunkCount(size) \in Nat
         /\ size <= ChunkBytes * ChunkCount(size)
         /\ ChunkBytes * ChunkCount(size) < size + ChunkBytes
<1> DEFINE g == ChunkBytes
           s == size + g - 1
           q == s \div g
           p == g * q
<1>1. g \in Nat \ {0} /\ s \in Nat /\ size \in Nat \ {0}
  BY WireAssumption
<1>2. s = p + (s % g) /\ s % g \in 0 .. (g - 1) /\ q \in Nat
  BY <1>1, Data!DivMod
<1>3. p \in Nat /\ ChunkCount(size) = q /\ ChunkBytes * ChunkCount(size) = p
  BY <1>1, <1>2 DEF ChunkCount
<1>4. q # 0
  <2>1. q = 0 => p = 0
    BY <1>1
  <2> HIDE DEF p, q
  <2> QED
    BY <1>1, <1>2, <1>3, <2>1
<1> HIDE DEF p, q
<1> QED
  BY <1>1, <1>2, <1>3, <1>4

\* A chunk begins inside the asset, where its index says, and does not go past it.
LEMMA ChunkPlace ==
  ASSUME NEW size \in 1 .. (SizeMax - 1), NEW i \in Nat, i < ChunkCount(size)
  PROVE  /\ i * ChunkBytes \in Nat /\ ChunkOffset(i) = i * ChunkBytes
         /\ i * ChunkBytes < size
         /\ Length(size, i) \in 1 .. ChunkBytes
         /\ i * ChunkBytes + Length(size, i) <= size
         /\ i + 1 = ChunkCount(size) => i * ChunkBytes + Length(size, i) = size
         /\ CutLength(size, i) = Length(size, i)
<1> DEFINE n == ChunkCount(size)
           a == ChunkBytes * i
           b == ChunkBytes * n
<1>1. /\ n \in Nat \ {0} /\ b \in Nat /\ size <= b /\ b < size + ChunkBytes
      /\ ChunkBytes \in Nat \ {0} /\ SizeMax \in Nat /\ size \in Nat /\ size < SizeMax
  BY ChunksSuffice, WireAssumption
<1>2. a \in Nat /\ a + ChunkBytes <= b
  BY <1>1, Data!MultiplesApart
<1>3. i * ChunkBytes = a
  BY <1>1
<1>4. i + 1 = n => a + ChunkBytes = b /\ (n - 1) * ChunkBytes = a
  BY <1>1
<1>5. i + 1 # n => a + ChunkBytes + ChunkBytes <= b
  <2> SUFFICES ASSUME i + 1 # n  PROVE  a + ChunkBytes + ChunkBytes <= b
    OBVIOUS
  <2> DEFINE c == ChunkBytes * (i + 1)
  <2>1. c = a + ChunkBytes
    BY <1>1
  <2>2. c + ChunkBytes <= b
    BY <1>1, Data!MultiplesApart
  <2> HIDE DEF a, b, c
  <2> QED
    BY <2>1, <2>2
<1>6. ChunkOffset(i) = a % SizeMax
  BY <1>3 DEF ChunkOffset
<1>7. \A k, d \in Nat : k < d => k % d = k
  OBVIOUS
<1> HIDE DEF a, b, n
<1>8. a < size
  BY <1>1, <1>2
<1>9. ChunkOffset(i) = a
  BY <1>1, <1>2, <1>6, <1>7, <1>8
<1>10. CASE i + 1 = n
  <2>1. Length(size, i) = size - a
    BY <1>4, <1>10 DEF Length, n
  <2> QED
    BY <1>1, <1>2, <1>3, <1>4, <1>8, <1>9, <1>10, <2>1 DEF CutLength
<1>11. CASE i + 1 # n
  <2>1. Length(size, i) = ChunkBytes
    BY <1>11 DEF Length, n
  <2> QED
    BY <1>1, <1>2, <1>3, <1>5, <1>8, <1>9, <1>11, <2>1 DEF CutLength, n
<1> QED
  BY <1>10, <1>11

\* ReassembledIsWhole needs to know of each chunk by itself that it has its place
\* and its length.
ChunkInv ==
  /\ assetSize \in 1 .. (SizeMax - 1)
  /\ \A i \in DOMAIN landed : /\ i \in 0 .. (ChunkCount(assetSize) - 1)
                              /\ landed[i] = Length(assetSize, i)
  /\ ServedIsTaken

\* What a holder cuts is what the worker wants.
LEMMA ServedFits ==
  ASSUME ChunkInv, NEW from \in Nat, NEW to \in Nat, NEW c \in Served(assetSize, from, to)
  PROVE  CheckAssetChunk(c, ChunkCount(assetSize)) /\ InsideBuffer(c) /\ Wanted(c)
<1>1. PICK i \in from .. (to - 1) :
        /\ i < ChunkCount(assetSize) /\ HasOffset(i)
        /\ c = [index |-> i, total |-> ChunkCount(assetSize), bytes |-> CutLength(assetSize, i)]
  BY DEF Served
<1>2. i \in Nat /\ ChunkBytes \in Nat \ {0} /\ ChunkCount(assetSize) \in Nat
  BY <1>1, ChunksSuffice, WireAssumption DEF ChunkInv
<1>3. /\ c.index = i /\ c.total = ChunkCount(assetSize)
      /\ c.bytes = Length(assetSize, i) /\ c.bytes \in 1 .. ChunkBytes
      /\ ChunkOffset(i) + c.bytes <= assetSize
  BY <1>1, <1>2, ChunkPlace DEF ChunkInv
<1> QED
  BY <1>1, <1>2, <1>3 DEF CheckAssetChunk, InsideBuffer, Wanted, Length

\* A chunk that is taken has its place and its length.
LEMMA HandleChunkKeeps ==
  ASSUME ChunkInv, NEW c, NEW holder \in BOOLEAN, HandleChunk(c, holder), c.index \in Nat,
         holder => CheckAssetChunk(c, ChunkCount(assetSize)) /\ InsideBuffer(c) /\ Wanted(c)
  PROVE  ChunkInv'
<1> DEFINE fits == CheckAssetChunk(c, ChunkCount(assetSize)) /\ InsideBuffer(c)
<1>1. assetSize' = assetSize
  BY DEF HandleChunk
<1>2. CASE /\ fits /\ c.index \in DOMAIN landed
           /\ fate' = [holder |-> holder, took |-> TRUE] /\ UNCHANGED landed
  BY <1>1, <1>2 DEF ChunkInv, ServedIsTaken
<1>3. CASE /\ fits /\ c.index \notin DOMAIN landed /\ Wanted(c)
           /\ fate' = [holder |-> holder, took |-> TRUE]
           /\ landed' = [i \in DOMAIN landed \cup {c.index} |->
                           IF i = c.index THEN c.bytes ELSE landed[i]]
  <2>1. c.index \in 0 .. (ChunkCount(assetSize) - 1) /\ c.bytes = Length(assetSize, c.index)
    <3>1. ChunkCount(assetSize) \in Nat \ {0}
      BY ChunksSuffice DEF ChunkInv
    <3>2. c.index < ChunkCount(assetSize)
      BY <1>3 DEF CheckAssetChunk
    <3> QED
      BY <1>3, <3>1, <3>2 DEF Wanted, Length
  <2>2. fate'.took
    BY <1>3
  <2> QED
    BY <1>1, <1>3, <2>1, <2>2 DEF ChunkInv, ServedIsTaken
<1>4. CASE /\ ~fits \/ (c.index \notin DOMAIN landed /\ ~Wanted(c))
           /\ fate' = [holder |-> holder, took |-> FALSE]
           /\ landed' = [i \in {} |-> 0]
  <2>1. ~holder /\ fate'.holder = holder
    BY <1>4
  <2> QED
    BY <1>1, <1>4, <2>1 DEF ChunkInv, ServedIsTaken
<1> QED
  BY <1>2, <1>3, <1>4 DEF HandleChunk

\* Every step keeps the chunks in their places.
LEMMA NextChunkInv ==
  ASSUME ChunkInv, [WireNext]_wireVars  PROVE  ChunkInv'
<1>1. ASSUME UNCHANGED <<assetSize, landed, fate>>  PROVE  ChunkInv'
  BY <1>1 DEF ChunkInv, ServedIsTaken
<1>2. ASSUME FrameArrives  PROVE  UNCHANGED <<assetSize, landed, fate>>
  BY <1>2 DEF FrameArrives, OwnArrives, StrangerArrives
<1>3. ChunkCount(assetSize) \in Nat \ {0}
  BY ChunksSuffice DEF ChunkInv
<1>4. ASSUME NEW i \in 0 .. (ChunkCount(assetSize) - 1), HolderSends(i, i + 1)
      PROVE  ChunkInv'
  <2>1. PICK c \in Served(assetSize, i, i + 1) : HandleChunk(c, TRUE)
    BY <1>4 DEF HolderSends
  <2>2. i \in Nat /\ i + 1 \in Nat
    BY <1>3
  <2>3. c.index \in Nat
    BY <1>3, <2>1, <2>2 DEF Served
  <2>4. CheckAssetChunk(c, ChunkCount(assetSize)) /\ InsideBuffer(c) /\ Wanted(c)
    BY <2>1, <2>2, ServedFits
  <2> QED
    BY <2>1, <2>3, <2>4, HandleChunkKeeps
<1>5. ASSUME NEW i \in 0 .. (ChunkCount(assetSize) + 1), NEW t, NEW n,
             StrangerSends([index |-> i, total |-> t, bytes |-> n])
      PROVE  ChunkInv'
  <2> DEFINE c == [index |-> i, total |-> t, bytes |-> n]
  <2>1. c.index \in Nat
    BY <1>3
  <2>2. HandleChunk(c, FALSE)
    BY <1>5 DEF StrangerSends
  <2> HIDE DEF c
  <2> QED
    BY <2>1, <2>2, HandleChunkKeeps
<1>6. ASSUME ChunkArrives  PROVE  ChunkInv'
  BY <1>4, <1>5, <1>6 DEF ChunkArrives
<1> QED
  BY <1>1, <1>2, <1>6 DEF WireNext, wireVars

\* In any one state: chunks that have their places and lengths are the asset.
LEMMA ChunksAreWhole ==
  ASSUME ChunkInv  PROVE  ReassembledIsWhole
<1> DEFINE n == ChunkCount(assetSize)
           bytes(i) == (i * ChunkBytes) .. (i * ChunkBytes + landed[i] - 1)
<1>1. /\ n \in Nat \ {0} /\ ChunkBytes \in Nat \ {0} /\ assetSize \in 1 .. (SizeMax - 1)
      /\ SizeMax \in Nat
  BY ChunksSuffice, WireAssumption DEF ChunkInv
<1>2. ASSUME NEW i \in DOMAIN landed
      PROVE  /\ i \in Nat /\ i < n /\ i * ChunkBytes \in Nat
             /\ landed[i] = Length(assetSize, i) /\ landed[i] \in 1 .. ChunkBytes
             /\ i * ChunkBytes + landed[i] <= assetSize
  <2>1. i \in Nat /\ i < n /\ landed[i] = Length(assetSize, i)
    BY <1>1 DEF ChunkInv
  <2> QED
    BY <1>1, <2>1, ChunkPlace
<1>3. ASSUME NEW i \in DOMAIN landed, NEW j \in DOMAIN landed, i < j
      PROVE  bytes(i) \cap bytes(j) = {}
  <2>1. ChunkBytes * i + ChunkBytes <= ChunkBytes * j
    BY <1>1, <1>2, <1>3, Data!MultiplesApart
  <2>2. ChunkBytes * i = i * ChunkBytes /\ ChunkBytes * j = j * ChunkBytes
    BY <1>1, <1>2
  <2> DEFINE a == i * ChunkBytes
             b == j * ChunkBytes
  <2>3. a \in Nat /\ b \in Nat /\ a + ChunkBytes <= b /\ landed[i] \in 1 .. ChunkBytes
    BY <1>2, <2>1, <2>2
  <2>4. bytes(i) = a .. (a + landed[i] - 1) /\ bytes(j) = b .. (b + landed[j] - 1)
    OBVIOUS
  <2>5. landed[j] \in Int
    BY <1>1, <1>2
  <2> HIDE DEF a, b, bytes
  <2> QED
    BY <1>1, <2>3, <2>4, <2>5
<1>4. ASSUME NEW i \in DOMAIN landed, NEW j \in DOMAIN landed, i # j
      PROVE  bytes(i) \cap bytes(j) = {}
  <2>1. i < j \/ j < i
    BY <1>2, <1>4
  <2> HIDE DEF bytes
  <2> QED
    BY <1>3, <2>1
<1>5. ASSUME Cardinality(DOMAIN landed) = n
      PROVE  UNION {bytes(i) : i \in DOMAIN landed} = 0 .. (assetSize - 1)
  <2>1. DOMAIN landed = 0 .. (n - 1)
    <3>1. 0 \in Int /\ n - 1 \in Int
      BY <1>1
    <3>2. /\ IsFiniteSet(0 .. (n - 1))
          /\ Cardinality(0 .. (n - 1)) = IF 0 > n - 1 THEN 0 ELSE (n - 1) - 0 + 1
      BY <3>1, FS_Interval
    <3>3. Cardinality(0 .. (n - 1)) = n
      BY <1>1, <3>2
    <3>4. DOMAIN landed \in SUBSET (0 .. (n - 1))
      BY <1>1, <1>2
    <3> HIDE DEF n
    <3> QED
      BY <1>5, <3>2, <3>3, <3>4, FS_Subset
  <2>2. ASSUME NEW i \in DOMAIN landed, NEW b \in bytes(i)  PROVE  b \in 0 .. (assetSize - 1)
    <3> DEFINE a == i * ChunkBytes
    <3>1. a \in Nat /\ a + landed[i] <= assetSize /\ landed[i] \in Int /\ assetSize \in Int
      BY <1>1, <1>2
    <3>2. b \in a .. (a + landed[i] - 1)
      OBVIOUS
    <3> HIDE DEF a
    <3> QED
      BY <3>1, <3>2
  <2>3. ASSUME NEW b \in 0 .. (assetSize - 1)  PROVE  \E i \in DOMAIN landed : b \in bytes(i)
    <3> DEFINE k == b \div ChunkBytes
               a == ChunkBytes * k
    <3>1. b = a + (b % ChunkBytes) /\ k \in Nat /\ b % ChunkBytes \in 0 .. (ChunkBytes - 1)
          /\ b \in Nat /\ b < assetSize
      <4>1. b \in Nat /\ b < assetSize
        BY <1>1
      <4>2. /\ b = ChunkBytes * (b \div ChunkBytes) + (b % ChunkBytes)
            /\ b \div ChunkBytes \in Nat /\ b % ChunkBytes \in 0 .. (ChunkBytes - 1)
        BY <1>1, <4>1, Data!DivMod
      <4> QED
        BY <4>1, <4>2, Zenon
    <3>2. a \in Nat /\ k * ChunkBytes = a
      BY <1>1, <3>1
    <3>3. k < n
      <4> SUFFICES ASSUME ~(k < n)  PROVE  FALSE
        OBVIOUS
      <4> DEFINE p == ChunkBytes * n
      <4>1. assetSize <= p /\ p \in Nat
        BY <1>1, ChunksSuffice
      <4>2. n < k => p + ChunkBytes <= a
        BY <1>1, <3>1, Data!MultiplesApart
      <4>3. n = k => p = a
        OBVIOUS
      <4>4. n < k \/ n = k
        BY <1>1, <3>1
      <4> HIDE DEF p, a, k
      <4> QED
        BY <1>1, <3>1, <3>2, <4>1, <4>2, <4>3, <4>4
    <3>4. k \in DOMAIN landed
      BY <1>1, <2>1, <3>1, <3>3
    <3>5. landed[k] = Length(assetSize, k) /\ landed[k] \in Int
      BY <1>1, <1>2, <3>4
    <3>6. b < a + landed[k]
      <4>1. CASE k + 1 = n
        <5>1. a + landed[k] = assetSize
          BY <1>1, <3>1, <3>2, <3>3, <3>5, <4>1, ChunkPlace
        <5> QED
          BY <3>1, <5>1
      <4>2. CASE k + 1 # n
        <5>1. landed[k] = ChunkBytes
          BY <3>5, <4>2 DEF Length
        <5> HIDE DEF a, k
        <5> QED
          BY <1>1, <3>1, <3>2, <5>1
      <4> QED
        BY <4>1, <4>2
    <3>7. bytes(k) = a .. (a + landed[k] - 1)
      BY <3>2
    <3> HIDE DEF a, k, bytes
    <3>8. b \in bytes(k)
      BY <3>1, <3>2, <3>5, <3>6, <3>7
    <3> QED
      BY <3>4, <3>8
  <2> HIDE DEF bytes
  <2> QED
    BY <2>2, <2>3
<1> QED
  BY <1>4, <1>5 DEF ReassembledIsWhole

\* For every chunk size and every width of size_t the two ends of a transfer agree
\* on how an asset is cut, whoever else sends chunks of it.
THEOREM ChunksAreAgreed == WireSpec => []ChunksAgree
<1>1. WireInit => ChunkInv
  BY WireAssumption DEF WireInit, WireBegins, ChunkInv, ServedIsTaken
<1>2. ChunkInv /\ [WireNext]_wireVars => ChunkInv'
  BY NextChunkInv
<1>3. ChunkInv => ChunksAgree
  BY ChunksAreWhole DEF ChunkInv, ChunksAgree
<1> QED
  BY <1>1, <1>2, <1>3, PTL DEF WireSpec
-----------------------------------------------------------------------------
(* Bvh: the walk.                                                          *)

Calls == [node : Nat, begin : Int, end : Int, depth : Nat]

\* The node array has no gaps and its words are numbers, whoever wrote it.
ArrayOK ==
  /\ \E n \in Nat : DOMAIN nodes = 0 .. (n - 1)
  /\ \A i \in DOMAIN nodes : nodes[i].at \in Int
  /\ work \in Seq(Calls)

\* What makes a node's number in the walk its own: a node that was reached was
\* reached from its one parent, and that parent is behind.
Reached(k) == visits[k] = 1 \/ \E p \in DOMAIN stack : stack[p] = k

Walked ==
  /\ StructureChecked
  /\ stack \in Seq(Indices)
  /\ visits \in [Indices -> {0, 1}]
  /\ \A p, q \in DOMAIN stack : stack[p] = stack[q] => p = q
  /\ \A p \in DOMAIN stack : visits[stack[p]] = 0
  /\ \A i \in Inner : \A k \in Children(i) : Reached(k) => visits[i] = 1

WalkInv == ArrayOK /\ (bpc = "walk" => Walked)

\* The indices of the array are its domain.
LEMMA ArrayIndices ==
  ASSUME ArrayOK
  PROVE  Indices = DOMAIN nodes /\ NodeCount \in Nat /\ IsFiniteSet(Indices)
<1>1. PICK n \in Nat : DOMAIN nodes = 0 .. (n - 1)
  BY DEF ArrayOK
<1>2. 0 \in Int /\ n - 1 \in Int
  OBVIOUS
<1>3. /\ IsFiniteSet(0 .. (n - 1))
      /\ Cardinality(0 .. (n - 1)) = IF 0 > n - 1 THEN 0 ELSE (n - 1) - 0 + 1
  BY <1>2, FS_Interval
<1>4. Cardinality(DOMAIN nodes) = n
  BY <1>1, <1>3
<1> QED
  BY <1>1, <1>3, <1>4 DEF Indices, NodeCount

\* In an array that loads, children are nodes other than the root, and a child has
\* one parent.
LEMMA OneParent ==
  ASSUME ArrayOK, StructureChecked, NEW i \in Inner
  PROVE  /\ i \in Indices /\ nodes[i].at \in Nat
         /\ Children(i) \subseteq Indices \ {0}
         /\ nodes[i].at # nodes[i].at + 1
         /\ \A j \in Inner : Children(i) \cap Children(j) # {} => i = j
<1>1. Indices = DOMAIN nodes /\ NodeCount \in Nat /\ IsFiniteSet(Indices)
  BY ArrayIndices
<1>2. i \in Indices /\ i \in Nat /\ nodes[i].at \in Int
  <2>1. i \in Indices
    BY DEF Inner
  <2>2. i \in Nat
    BY <2>1 DEF Indices
  <2> QED
    BY <1>1, <2>1, <2>2 DEF ArrayOK
<1>3. nodes[i].at > i /\ nodes[i].at + 1 < NodeCount
  BY <1>2 DEF StructureChecked, IndicesChecked, Inner
<1>4. Indices = 0 .. (NodeCount - 1)
  BY DEF Indices, NodeCount
<1>5. nodes[i].at \in Nat /\ Children(i) \subseteq Indices \ {0}
  BY <1>1, <1>2, <1>3, <1>4 DEF Children
<1>6. ASSUME NEW j \in Inner, NEW k \in Children(i), k \in Children(j)  PROVE  i = j
  <2> DEFINE P == {m \in Inner : k \in Children(m)}
  <2>1. k \in Indices /\ k # 0
    BY <1>5
  <2>2. Cardinality(P) = 1
    BY <2>1 DEF StructureChecked, IsTree
  <2>3. P \in SUBSET Indices
    BY DEF Inner
  <2>4. IsFiniteSet(P)
    BY <1>1, <2>3, FS_Subset
  <2>5. i \in P /\ j \in P
    BY <1>6
  <2> HIDE DEF P
  <2>6. PICK x : P = {x}
    BY <2>2, <2>4, FS_Singleton
  <2> QED
    BY <2>5, <2>6
<1> QED
  BY <1>2, <1>5, <1>6

\* A leaf of the builder.
LEMMA MakeLeafKeeps ==
  ASSUME ArrayOK, MakeLeaf  PROVE  ArrayOK'
<1> DEFINE c == Head(work)
<1>1. work \in Seq(Calls) /\ work # <<>>
  BY DEF ArrayOK, MakeLeaf
<1>2. c \in Calls /\ Tail(work) \in Seq(Calls)
  BY <1>1
<1>3. /\ nodes' = [nodes EXCEPT ![c.node] =
                     [leaf |-> TRUE, at |-> c.begin, count |-> c.end - c.begin]]
      /\ work' = Tail(work)
  BY DEF MakeLeaf
<1>4. c.begin \in Int
  BY <1>2 DEF Calls
<1> HIDE DEF c
<1>5. DOMAIN nodes' = DOMAIN nodes /\ \A i \in DOMAIN nodes : nodes'[i].at \in Int
  BY <1>3, <1>4 DEF ArrayOK
<1> QED
  BY <1>2, <1>3, <1>5 DEF ArrayOK

\* An inner node of the builder, and its two children.
LEMMA SplitKeeps ==
  ASSUME ArrayOK, Split  PROVE  ArrayOK'
<1> DEFINE c == Head(work)
           left == NodeCount
<1>1. work \in Seq(Calls) /\ work # <<>>
  BY DEF ArrayOK, Split
<1>2. c \in Calls /\ Tail(work) \in Seq(Calls)
  BY <1>1
<1>3. c.begin \in Int /\ c.end \in Int /\ c.depth \in Nat
  BY <1>2 DEF Calls
<1>4. Indices = DOMAIN nodes /\ left \in Nat /\ Indices = 0 .. (left - 1)
  BY ArrayIndices DEF Indices, NodeCount
<1>5. PICK split \in (c.begin + 1) .. (c.end - 1) :
        work' = SubCalls(c, left, split) \o Tail(work)
  BY DEF Split
<1>6. nodes' = [i \in Indices \cup {left, left + 1} |->
                  IF i = c.node THEN [leaf |-> FALSE, at |-> left, count |-> 0]
                    ELSE IF i \in Indices THEN nodes[i] ELSE Blank]
  BY DEF Split
<1> HIDE DEF c, left
<1>7. DOMAIN nodes' = 0 .. ((left + 2) - 1) /\ left + 2 \in Nat
  <2>1. DOMAIN nodes' = Indices \cup {left, left + 1}
    BY <1>6
  <2> QED
    BY <1>4, <2>1
<1>8. ASSUME NEW i \in DOMAIN nodes'  PROVE  nodes'[i].at \in Int
  <2>1. i \in Indices => nodes[i].at \in Int
    BY <1>4 DEF ArrayOK
  <2>2. Blank.at \in Int
    BY DEF Blank
  <2> QED
    BY <1>4, <1>6, <1>8, <2>1, <2>2
<1>9. SubCalls(c, left, split) \in Seq(Calls)
  <2>1. /\ Call(left, c.begin, split, c.depth + 1) \in Calls
        /\ Call(left + 1, split, c.end, c.depth + 1) \in Calls
    BY <1>3, <1>4 DEF Call, Calls
  <2> QED
    BY <2>1 DEF SubCalls
<1>10. work' \in Seq(Calls)
  BY <1>2, <1>5, <1>9
<1> QED
  BY <1>7, <1>8, <1>10 DEF ArrayOK

\* The walk begins at the root.
LEMMA LoadBvhKeeps ==
  ASSUME ArrayOK, LoadBvh  PROVE  WalkInv'
<1>1. /\ bpc' = IF Loads THEN "walk" ELSE "refused"
      /\ stack' = <<0>> /\ visits' = [i \in Indices |-> 0]
      /\ UNCHANGED <<nodes, work, prims>>
  BY DEF LoadBvh
<1>2. ArrayOK'
  BY <1>1 DEF ArrayOK
<1>3. /\ Indices' = Indices /\ Inner' = Inner /\ (\A i : Children(i)' = Children(i))
      /\ StructureChecked' = StructureChecked
  BY <1>1 DEF Indices, Inner, Children, StructureChecked, NodeCount, IndicesChecked, IsTree
<1>4. ASSUME StructureChecked  PROVE  Walked'
  <2>1. 0 \in Indices
    BY <1>4, ArrayIndices DEF StructureChecked, Indices, NodeCount
  <2>2. /\ stack' \in Seq(Indices) /\ DOMAIN stack' = {1} /\ stack'[1] = 0
    BY <1>1, <2>1
  <2>3. visits' \in [Indices -> {0, 1}] /\ \A k \in Indices : visits'[k] = 0
    BY <1>1
  <2>4. ASSUME NEW i \in Inner, NEW k \in Children(i)  PROVE  ~Reached(k)'
    <3>1. k \in Indices /\ k # 0
      BY <1>4, <2>4, OneParent
    <3> QED
      BY <2>2, <2>3, <3>1 DEF Reached
  <2> QED
    BY <1>3, <1>4, <2>1, <2>2, <2>3, <2>4 DEF Walked
<1> QED
  BY <1>1, <1>2, <1>4 DEF WalkInv, Loads

\* A sequence without its last entry.
LEMMA WithoutLast ==
  ASSUME NEW S, NEW s \in Seq(S), s # <<>>
  PROVE  /\ Len(s) \in Nat \ {0} /\ DOMAIN s = 1 .. Len(s) /\ Len(s) \in DOMAIN s
         /\ s[Len(s)] \in S
         /\ SubSeq(s, 1, Len(s) - 1) \in Seq(S)
         /\ Len(SubSeq(s, 1, Len(s) - 1)) = Len(s) - 1 /\ DOMAIN SubSeq(s, 1, Len(s) - 1) = 1 .. (Len(s) - 1)
         /\ \A p \in 1 .. (Len(s) - 1) : SubSeq(s, 1, Len(s) - 1)[p] = s[p]
<1> DEFINE n == Len(s)
           t == SubSeq(s, 1, n - 1)
<1>1. n \in Nat \ {0} /\ DOMAIN s = 1 .. n /\ n \in DOMAIN s /\ s[n] \in S
  OBVIOUS
<1>2. 1 \in Int /\ n - 1 \in Int /\ \A i \in 1 .. (n - 1) : s[i] \in S
  BY <1>1
<1>3. /\ t \in Seq(S) /\ Len(t) = IF 1 <= n - 1 THEN (n - 1) - 1 + 1 ELSE 0
      /\ \A i \in 1 .. (n - 1) - 1 + 1 : t[i] = s[1 + i - 1]
  BY <1>2, Data!SubSeqProperties
<1> HIDE DEF t, n
<1>4. Len(t) = n - 1
  BY <1>1, <1>3
<1>5. DOMAIN t = 1 .. (n - 1)
  BY <1>3, <1>4
<1>6. ASSUME NEW p \in 1 .. (n - 1)  PROVE  t[p] = s[p]
  <2>1. p \in 1 .. (n - 1) - 1 + 1 /\ 1 + p - 1 = p
    BY <1>1
  <2> QED
    BY <1>3, <2>1
<1> QED
  BY <1>1, <1>3, <1>4, <1>5, <1>6 DEF t, n

\* A sequence with two entries appended.
LEMMA WithTwoMore ==
  ASSUME NEW S, NEW s \in Seq(S), NEW a \in S, NEW b \in S
  PROVE  /\ s \o <<a, b>> \in Seq(S) /\ DOMAIN (s \o <<a, b>>) = 1 .. (Len(s) + 2)
         /\ (s \o <<a, b>>)[Len(s) + 1] = a /\ (s \o <<a, b>>)[Len(s) + 2] = b
         /\ \A p \in 1 .. Len(s) : (s \o <<a, b>>)[p] = s[p]
<1> DEFINE two == <<a, b>>
           t == s \o two
           n == Len(s)
<1>1. two \in Seq(S) /\ Len(two) = 2 /\ two[1] = a /\ two[2] = b
  OBVIOUS
<1> HIDE DEF two
<1>2. t \in Seq(S) /\ Len(t) = n + 2 /\ n \in Nat
  <2>1. n \in Nat
    OBVIOUS
  <2>2. t \in Seq(S) /\ Len(t) = n + Len(two)
    BY <1>1, Data!ConcatProperties
  <2> QED
    BY <1>1, <2>1, <2>2
<1>3. \A p \in 1 .. (n + 2) : t[p] = IF p <= n THEN s[p] ELSE two[p - n]
  BY <1>1, <1>2, Data!ConcatProperties
<1> HIDE DEF t, n
<1>4. t[n + 1] = a /\ t[n + 2] = b
  BY <1>1, <1>2, <1>3
<1>5. \A p \in 1 .. n : t[p] = s[p]
  BY <1>2, <1>3
<1>6. DOMAIN t = 1 .. (n + 2)
  BY <1>2
<1> QED
  BY <1>2, <1>4, <1>5, <1>6 DEF t, two, n

\* What is left of the stack when its last entry is taken.
LEMMA PoppedStack ==
  ASSUME NEW S, stack \in Seq(S), stack # <<>>
  PROVE  /\ Last \in S /\ Last = stack[Len(stack)] /\ Len(stack) \in DOMAIN stack
         /\ Popped \in Seq(S) /\ DOMAIN Popped = 1 .. Len(Popped) /\ Len(Popped) \in Nat
         /\ \A p \in DOMAIN Popped : p \in DOMAIN stack /\ p # Len(stack)
                                       /\ Popped[p] = stack[p]
<1> DEFINE n == Len(stack)
<1>1. /\ n \in Nat \ {0} /\ DOMAIN stack = 1 .. n /\ n \in DOMAIN stack /\ stack[n] \in S
      /\ Popped \in Seq(S) /\ Len(Popped) = n - 1 /\ DOMAIN Popped = 1 .. (n - 1)
      /\ \A p \in 1 .. (n - 1) : Popped[p] = stack[p]
  BY WithoutLast DEF Popped
<1> HIDE DEF n
<1>2. ASSUME NEW p \in DOMAIN Popped  PROVE  p \in 1 .. n /\ p # n /\ p \in 1 .. (n - 1)
  BY <1>1
<1>3. \A p \in DOMAIN Popped : p \in DOMAIN stack /\ p # n /\ Popped[p] = stack[p]
  BY <1>1, <1>2
<1>4. DOMAIN Popped = 1 .. Len(Popped) /\ Len(Popped) \in Nat
  BY <1>1
<1> QED
  BY <1>1, <1>3, <1>4 DEF Last, n

\* A step of the walk takes the last entry, and pushes at most its children.
LEMMA WalkStep ==
  ASSUME ArrayOK, Walked, stack # <<>>, UNCHANGED <<nodes, prims>>,
         visits' = [visits EXCEPT ![Last] = @ + 1],
         \/ stack' = Popped
         \/ Last \in Inner /\ stack' = Popped \o <<nodes[Last].at, nodes[Last].at + 1>>
  PROVE  Walked'
<1>1. /\ Indices' = Indices /\ Inner' = Inner /\ (\A i : Children(i)' = Children(i))
      /\ StructureChecked' = StructureChecked
  BY DEF Indices, Inner, Children, StructureChecked, NodeCount, IndicesChecked, IsTree
<1>2. /\ StructureChecked /\ stack \in Seq(Indices) /\ visits \in [Indices -> {0, 1}]
      /\ \A p, q \in DOMAIN stack : stack[p] = stack[q] => p = q
      /\ \A p \in DOMAIN stack : visits[stack[p]] = 0
  BY DEF Walked
<1>3. /\ Last \in Indices /\ Last = stack[Len(stack)] /\ Len(stack) \in DOMAIN stack
      /\ Popped \in Seq(Indices) /\ DOMAIN Popped = 1 .. Len(Popped) /\ Len(Popped) \in Nat
      /\ \A p \in DOMAIN Popped : p \in DOMAIN stack /\ p # Len(stack)
                                    /\ Popped[p] = stack[p]
  BY <1>2, PoppedStack
<1>4. /\ visits' \in [Indices -> {0, 1}] /\ visits'[Last] = 1 /\ visits[Last] = 0
      /\ \A k \in Indices \ {Last} : visits'[k] = visits[k]
  BY <1>2, <1>3
<1>5. \A p \in DOMAIN Popped : Popped[p] \in Indices /\ Popped[p] # Last
                                 /\ visits'[Popped[p]] = 0
  BY <1>2, <1>3, <1>4
<1>6. \A p, q \in DOMAIN Popped : Popped[p] = Popped[q] => p = q
  BY <1>2, <1>3
<1>7. ASSUME NEW i \in Inner, NEW k \in Children(i),
             visits'[k] = 1 \/ \E p \in DOMAIN Popped : Popped[p] = k
      PROVE  visits'[i] = 1
  <2>1. k \in Indices /\ i \in Indices
    BY <1>2, OneParent
  <2>2. Reached(k)
    BY <1>3, <1>4, <1>7, <2>1 DEF Reached
  <2>3. visits[i] = 1
    BY <2>2 DEF Walked
  <2> QED
    BY <1>4, <2>1, <2>3
<1>8. CASE stack' = Popped
  BY <1>1, <1>2, <1>3, <1>4, <1>5, <1>6, <1>7, <1>8 DEF Walked, Reached
<1>9. CASE Last \in Inner /\ stack' = Popped \o <<nodes[Last].at, nodes[Last].at + 1>>
  <2> DEFINE a == nodes[Last].at
             n == Len(Popped)
  <2>1. /\ a \in Indices /\ a + 1 \in Indices /\ a # a + 1
        /\ a \in Children(Last) /\ a + 1 \in Children(Last)
        /\ \A j \in Inner : Children(Last) \cap Children(j) # {} => Last = j
    BY <1>2, <1>9, OneParent DEF Children
  <2>2. ASSUME NEW k \in Children(Last)  PROVE  ~Reached(k)
    BY <1>4, <1>9, <2>2 DEF Walked
  <2> HIDE DEF a
  <2>3. stack' = Popped \o <<a, a + 1>>
    BY <1>9 DEF a
  <2>4. /\ stack' \in Seq(Indices) /\ DOMAIN stack' = 1 .. (n + 2)
        /\ stack'[n + 1] = a /\ stack'[n + 2] = a + 1
        /\ \A p \in 1 .. n : stack'[p] = Popped[p]
    <3> DEFINE b == a + 1
    <3>1. stack' = Popped \o <<a, b>> /\ a \in Indices /\ b \in Indices
      BY <2>1, <2>3
    <3> HIDE DEF b
    <3>2. /\ stack' \in Seq(Indices) /\ DOMAIN stack' = 1 .. (Len(Popped) + 2)
          /\ stack'[Len(Popped) + 1] = a /\ stack'[Len(Popped) + 2] = b
          /\ \A p \in 1 .. Len(Popped) : stack'[p] = Popped[p]
      <4> DEFINE t == Popped \o <<a, b>>
      <4>1. Popped \in Seq(Indices)
        BY <1>3
      <4>2. /\ t \in Seq(Indices) /\ DOMAIN t = 1 .. (Len(Popped) + 2)
            /\ t[Len(Popped) + 1] = a /\ t[Len(Popped) + 2] = b
            /\ \A p \in 1 .. Len(Popped) : t[p] = Popped[p]
        BY <3>1, <4>1, WithTwoMore
      <4>3. stack' = t
        BY <3>1
      <4> QED
        BY <4>2, <4>3, Zenon
    <3> QED
      BY <3>2 DEF b
  <2>5. ASSUME NEW k \in {a, a + 1}
        PROVE  /\ visits'[k] = 0 /\ \A p \in 1 .. n : stack'[p] # k
    <3>1. ~Reached(k) /\ k \in Indices
      BY <2>1, <2>2
    <3>2. visits[k] = 0 /\ \A p \in DOMAIN stack : stack[p] # k
      BY <1>2, <3>1 DEF Reached
    <3>3. k # Last
      BY <1>3, <3>2
    <3> QED
      BY <1>3, <1>4, <2>4, <3>1, <3>2, <3>3
  <2>6. \A p \in DOMAIN stack' : visits'[stack'[p]] = 0
    BY <1>3, <1>5, <2>4, <2>5
  <2>7. \A p, q \in DOMAIN stack' : stack'[p] = stack'[q] => p = q
    <3> SUFFICES ASSUME NEW p \in 1 .. (n + 2), NEW q \in 1 .. (n + 2), stack'[p] = stack'[q]
                 PROVE  p = q
      BY <2>4
    <3>1. /\ p \in 1 .. n \/ p = n + 1 \/ p = n + 2
          /\ q \in 1 .. n \/ q = n + 1 \/ q = n + 2
      BY <1>3
    <3>2. p \in 1 .. n /\ q \in 1 .. n => p = q
      BY <1>3, <1>6, <2>4
    <3> QED
      BY <2>1, <2>4, <2>5, <3>1, <3>2
  <2>8. ASSUME NEW i \in Inner, NEW k \in Children(i),
               visits'[k] = 1 \/ \E p \in DOMAIN stack' : stack'[p] = k
        PROVE  visits'[i] = 1
    <3>1. CASE k \in {a, a + 1}
      <4>1. k \in Children(Last)
        BY <2>1, <3>1
      <4>2. i = Last
        BY <2>1, <4>1
      <4> QED
        BY <1>4, <4>2
    <3>2. CASE k \notin {a, a + 1}
      <4>1. visits'[k] = 1 \/ \E p \in DOMAIN Popped : Popped[p] = k
        <5>1. \A p \in 1 .. (n + 2) : p \in 1 .. n \/ p = n + 1 \/ p = n + 2
          BY <1>3
        <5> QED
          BY <1>3, <2>4, <2>8, <3>2, <5>1
      <4> QED
        BY <1>7, <4>1
    <3> QED
      BY <3>1, <3>2
  <2> QED
    BY <1>1, <1>2, <1>4, <2>4, <2>6, <2>7, <2>8 DEF Walked, Reached
<1> QED
  BY <1>8, <1>9

\* Every step keeps the array and the walk in order.
LEMMA NextWalkInv ==
  ASSUME WalkInv, [BvhNext]_bvhVars  PROVE  WalkInv'
<1>1. ArrayOK
  BY DEF WalkInv
<1>2. CASE MakeLeaf \/ Split
  <2>1. ArrayOK'
    BY <1>1, <1>2, MakeLeafKeeps, SplitKeeps
  <2>2. bpc' = "build"
    BY <1>2 DEF MakeLeaf, Split
  <2> QED
    BY <2>1, <2>2 DEF WalkInv
<1>3. CASE Serialize \/ WalkDone
  <2>1. UNCHANGED <<nodes, work>> /\ bpc' # "walk"
    BY <1>3 DEF Serialize, WalkDone
  <2> QED
    BY <1>1, <2>1 DEF WalkInv, ArrayOK
<1>4. CASE LoadBvh
  BY <1>1, <1>4, LoadBvhKeeps
<1>5. CASE VisitLeaf \/ VisitInner
  <2>1. /\ bpc = "walk" /\ stack # <<>> /\ UNCHANGED <<nodes, prims, work>>
        /\ visits' = [visits EXCEPT ![Last] = @ + 1]
    BY <1>5 DEF VisitLeaf, VisitInner
  <2>2. Walked
    BY <2>1 DEF WalkInv
  <2>3. \/ stack' = Popped
        \/ Last \in Inner /\ stack' = Popped \o <<nodes[Last].at, nodes[Last].at + 1>>
    <3>1. Last \in Indices
      BY <2>1, <2>2, PoppedStack DEF Walked
    <3> QED
      BY <1>5, <3>1 DEF VisitLeaf, VisitInner, Inner
  <2>4. Walked'
    BY <1>1, <2>1, <2>2, <2>3, WalkStep
  <2> QED
    BY <1>1, <2>1, <2>4 DEF WalkInv, ArrayOK
<1>6. CASE UNCHANGED bvhVars
  <2>1. UNCHANGED <<bpc, prims, nodes, work, stack, visits>>
    BY <1>6 DEF bvhVars
  <2>2. /\ Indices' = Indices /\ Inner' = Inner /\ (\A i : Children(i)' = Children(i))
        /\ StructureChecked' = StructureChecked
    BY <2>1 DEF Indices, Inner, Children, StructureChecked, NodeCount, IndicesChecked, IsTree
  <2>3. ArrayOK'
    BY <1>1, <2>1 DEF ArrayOK
  <2>4. Walked => Walked'
    BY <2>1, <2>2 DEF Walked, Reached
  <2> QED
    BY <2>1, <2>3, <2>4 DEF WalkInv
<1> QED
  BY <1>2, <1>3, <1>4, <1>5, <1>6 DEF BvhNext

\* A scene to build and a blob to load are arrays without gaps.
LEMMA InitWalkInv == BvhInit => WalkInv
<1> SUFFICES ASSUME BvhInit  PROVE  WalkInv
  OBVIOUS
<1>1. ASSUME NEW n \in 1 .. MaxPrims, NEW colours \in ScenePalettes, SceneOf(n, colours)
      PROVE  WalkInv
  <2>1. bpc = "build" /\ nodes = [i \in {0} |-> Blank] /\ work = <<Call(0, 0, n, 1)>>
    BY <1>1 DEF SceneOf
  <2>2. DOMAIN nodes = 0 .. (1 - 1) /\ nodes[0] = Blank /\ Blank.at \in Int
    BY <2>1 DEF Blank
  <2>3. Call(0, 0, n, 1) \in Calls
    BY BvhAssumption DEF Call, Calls
  <2> QED
    BY <2>1, <2>2, <2>3 DEF WalkInv, ArrayOK
<1>2. ASSUME NEW n \in 1 .. MaxNodes, NEW colours \in BlobPalettes,
             NEW blob \in [0 .. (n - 1) -> BlobNodes], Blob(blob, colours)
      PROVE  WalkInv
  <2>1. bpc = "load" /\ nodes = blob /\ work = <<>> /\ n \in Nat
    BY <1>2, BvhAssumption DEF Blob
  <2>2. DOMAIN nodes = 0 .. (n - 1) /\ \A i \in DOMAIN nodes : nodes[i] \in BlobNodes
    BY <2>1
  <2>3. \A i \in DOMAIN nodes : nodes[i].at \in Int
    BY <2>2, BvhAssumption DEF Node
  <2> QED
    BY <2>1, <2>2, <2>3 DEF WalkInv, ArrayOK
<1> QED
  BY <1>1, <1>2 DEF BvhInit

\* Whatever blob LoadBvh accepts, of any size, the shader's walk takes no node twice
\* and reads no node that is not there.
THEOREM LoadedTreesAreWalkable == BvhSpec => []LoadedIsWalkable
<1>1. BvhInit => WalkInv
  BY InitWalkInv
<1>2. WalkInv /\ [BvhNext]_bvhVars => WalkInv'
  BY NextWalkInv
<1>3. WalkInv => LoadedIsWalkable
  BY DEF WalkInv, Walked, LoadedIsWalkable
<1> QED
  BY <1>1, <1>2, <1>3, PTL DEF BvhSpec

-----------------------------------------------------------------------------
(* Bvh: the builder, the loader and the walk on one tree.                  *)

Listed(s) == {s[k] : k \in DOMAIN s}
OwnNodes(s) == \A k, l \in DOMAIN s : s[k].node = s[l].node => k = l
Waiting == {c.node : c \in Listed(work)}
Scene == 0 .. (prims - 1)

\* The tree so far, with d the depth of each node and o the node that is to hold
\* each primitive: a node whose call is to come is blank and owns the range of the call,
\* a leaf that is made owns what it lists, and an inner node owns nothing.
Laid(d, o) ==
  /\ 0 \in Indices /\ d \in [Indices -> Nat] /\ o \in [Scene -> Indices] /\ d[0] = 1
  /\ OwnNodes(work)
  /\ \A c \in Listed(work) :
       /\ c.node \in Indices /\ nodes[c.node].leaf /\ d[c.node] = c.depth
       /\ 0 <= c.begin /\ c.begin < c.end /\ c.end <= prims
       /\ \A p \in Scene : o[p] = c.node <=> c.begin <= p /\ p < c.end
  /\ \A i \in Indices : nodes[i].leaf /\ i \notin Waiting =>
       /\ nodes[i].count \in Int /\ nodes[i].count > 0
       /\ nodes[i].at + nodes[i].count <= prims
       /\ \A p \in Scene : o[p] = i <=> nodes[i].at <= p /\ p < nodes[i].at + nodes[i].count
  /\ \A i \in Inner :
       /\ nodes[i].count = 0 /\ nodes[i].at > i /\ nodes[i].at + 1 < NodeCount
       /\ \A p \in Scene : o[p] # i
       /\ \A k \in Children(i) : d[k] = d[i] + 1
       /\ \A j \in Inner : Children(i) \cap Children(j) # {} => i = j
  /\ \A k \in Indices \ {0} : \E i \in Inner : k \in Children(i)
  /\ \A i \in Indices : i \notin Waiting => d[i] <= deepest
  /\ deepest \in Nat
  /\ work = <<>> \/ deepest # 0 => \E i \in Indices : d[i] = deepest

\* The walk so far: a primitive was tested as often as its node was taken, and, if
\* the tree fits, what was not taken waits on the stack or under such a node.
Covered(d, o) ==
  /\ tested \in [Scene -> Nat] /\ \A p \in Scene : tested[p] = visits[o[p]]
  /\ deepest <= StackSize =>
       /\ \A k \in DOMAIN stack : k <= d[stack[k]]
       /\ \A i \in Indices : visits[i] = 0 =>
            \/ \E k \in DOMAIN stack : stack[k] = i
            \/ \E j \in Inner : i \in Children(j) /\ visits[j] = 0

TreeInv ==
  /\ WalkInv
  /\ built =>
       /\ prims \in Nat \ {0} /\ palette \in ScenePalettes
       /\ bpc # "build" => work = <<>>
       /\ \E d, o : Laid(d, o) /\ (bpc = "walk" => Covered(d, o))
  /\ bpc \in {"build", "overrun"} => built
  /\ OverrunIsOverCaps
  /\ EveryPrimitiveTested

\* The call that is taken, and those that are left.
LEMMA CallTaken ==
  ASSUME NEW s \in Seq(Calls), s # <<>>, OwnNodes(s)
  PROVE  /\ Head(s) \in Calls /\ Tail(s) \in Seq(Calls) /\ OwnNodes(Tail(s))
         /\ Listed(s) = {Head(s)} \cup Listed(Tail(s))
         /\ \A c \in Listed(Tail(s)) : c.node # Head(s).node
<1> DEFINE n == Len(s)
           t == Tail(s)
<1>1. /\ n \in Nat \ {0} /\ DOMAIN s = 1 .. n /\ Head(s) = s[1] /\ Head(s) \in Calls
      /\ t \in Seq(Calls) /\ DOMAIN t = 1 .. (n - 1) /\ \A k \in 1 .. (n - 1) : t[k] = s[k + 1]
  OBVIOUS
<1> HIDE DEF n, t
<1>2. \A k \in 1 .. (n - 1) : k + 1 \in 1 .. n /\ k + 1 # 1
  BY <1>1
<1>3. \A k \in 1 .. n : k = 1 \/ (k - 1 \in 1 .. (n - 1) /\ k = (k - 1) + 1)
  BY <1>1
<1>4. OwnNodes(t)
  <2> SUFFICES ASSUME NEW k \in 1 .. (n - 1), NEW l \in 1 .. (n - 1), t[k].node = t[l].node
               PROVE  k = l
    BY <1>1 DEF OwnNodes
  <2>1. s[k + 1].node = s[l + 1].node /\ k + 1 \in DOMAIN s /\ l + 1 \in DOMAIN s
    BY <1>1, <1>2
  <2>2. k + 1 = l + 1
    BY <2>1 DEF OwnNodes
  <2> QED
    BY <2>2
<1>5. Listed(s) \subseteq {Head(s)} \cup Listed(t)
  <2> SUFFICES ASSUME NEW k \in 1 .. n  PROVE  s[k] = s[1] \/ \E l \in 1 .. (n - 1) : s[k] = t[l]
    BY <1>1 DEF Listed
  <2> QED
    BY <1>1, <1>3
<1>6. {Head(s)} \cup Listed(t) \subseteq Listed(s)
  <2>1. 1 \in 1 .. n
    BY <1>1
  <2> QED
    BY SMTT(30), <1>1, <1>2, <2>1 DEF Listed
<1>7. ASSUME NEW c \in Listed(t), c.node = Head(s).node  PROVE  FALSE
  <2>1. PICK k \in 1 .. (n - 1) : c = s[k + 1] /\ k + 1 \in 1 .. n /\ k + 1 # 1
    BY <1>1, <1>2 DEF Listed
  <2>2. 1 \in 1 .. n
    BY <1>1
  <2> QED
    BY <1>1, <1>7, <2>1, <2>2 DEF OwnNodes
<1> QED
  BY <1>1, <1>4, <1>5, <1>6, <1>7 DEF t

\* Two calls for nodes of their own, ahead of the others.
LEMMA CallsAdded ==
  ASSUME NEW t \in Seq(Calls), NEW a \in Calls, NEW b \in Calls, OwnNodes(t),
         a.node # b.node, \A c \in Listed(t) : c.node # a.node /\ c.node # b.node
  PROVE  /\ OwnNodes(<<a, b>> \o t)
         /\ Listed(<<a, b>> \o t) = {a, b} \cup Listed(t)
<1> DEFINE n == Len(t)
           two == <<a, b>>
           r == two \o t
<1>1. two \in Seq(Calls) /\ Len(two) = 2 /\ two[1] = a /\ two[2] = b /\ n \in Nat
      /\ DOMAIN t = 1 .. n
  OBVIOUS
<1> HIDE DEF two
<1>2. r \in Seq(Calls) /\ Len(r) = 2 + n
      /\ \A p \in 1 .. (2 + n) : r[p] = IF p <= 2 THEN two[p] ELSE t[p - 2]
  <2>1. r \in Seq(Calls) /\ Len(r) = 2 + n
    <3>1. t \in Seq(Calls)
      OBVIOUS
    <3>2. r \in Seq(Calls) /\ Len(r) = Len(two) + n
      BY <1>1, <3>1, Data!ConcatProperties
    <3> QED
      BY <1>1, <3>2
  <2>2. \A p \in 1 .. (2 + n) : r[p] = IF p <= 2 THEN two[p] ELSE t[p - 2]
    <3>1. \A p \in 1 .. (Len(two) + Len(t)) :
            (two \o t)[p] = IF p <= Len(two) THEN two[p] ELSE t[p - Len(two)]
      BY <1>1, Data!ConcatProperties
    <3> QED
      BY <1>1, <3>1
  <2> QED
    BY <2>1, <2>2
<1> HIDE DEF r, n
<1>3. DOMAIN r = 1 .. (2 + n) /\ r[1] = a /\ r[2] = b
  BY <1>1, <1>2
<1>4. \A p \in 1 .. (2 + n) : p = 1 \/ p = 2 \/ (p - 2 \in 1 .. n /\ r[p] = t[p - 2])
  BY <1>1, <1>2
<1>5. \A p \in 1 .. n : p + 2 \in 1 .. (2 + n) /\ r[p + 2] = t[p]
  BY <1>1, <1>2
<1>6. Listed(r) = {a, b} \cup Listed(t)
  <2>1. Listed(r) \subseteq {a, b} \cup Listed(t)
    BY <1>1, <1>3, <1>4 DEF Listed
  <2>2. Listed(t) \subseteq Listed(r)
    BY <1>1, <1>3, <1>5 DEF Listed
  <2>3. {a, b} \subseteq Listed(r)
    BY <1>1, <1>3 DEF Listed
  <2> QED
    BY <2>1, <2>2, <2>3
<1>7. OwnNodes(r)
  <2> SUFFICES ASSUME NEW p \in 1 .. (2 + n), NEW q \in 1 .. (2 + n), r[p].node = r[q].node
               PROVE  p = q
    BY <1>3 DEF OwnNodes
  <2>1. ASSUME NEW x \in 1 .. (2 + n), x # 1, x # 2
        PROVE  x - 2 \in 1 .. n /\ r[x] = t[x - 2] /\ r[x] \in Listed(t)
    BY <1>1, <1>4, <2>1 DEF Listed
  <2>2. CASE p # 1 /\ p # 2 /\ q # 1 /\ q # 2
    <3>1. p - 2 = q - 2
      BY <1>1, <2>1, <2>2 DEF OwnNodes
    <3> QED
      BY <3>1
  <2>3. CASE (p = 1 \/ p = 2) /\ (q = 1 \/ q = 2)
    BY <1>3, <2>3
  <2>4. CASE (p = 1 \/ p = 2) /\ q # 1 /\ q # 2
    BY <1>3, <2>1, <2>4
  <2>5. CASE p # 1 /\ p # 2 /\ (q = 1 \/ q = 2)
    BY <1>3, <2>1, <2>5
  <2> QED
    BY <2>2, <2>3, <2>4, <2>5
<1> QED
  BY <1>6, <1>7 DEF r, two

\* A leaf is made of the node whose turn it is; the others stay as they are.
LEMMA LeafLaid ==
  ASSUME ArrayOK, NEW d, NEW o, Laid(d, o), prims \in Nat \ {0}, MakeLeaf
  PROVE  Laid(d, o)'
<1> DEFINE c == Head(work)
           x == c.node
<1>1. work \in Seq(Calls) /\ work # <<>> /\ OwnNodes(work)
  BY DEF ArrayOK, MakeLeaf, Laid
<1>2. /\ c \in Calls /\ OwnNodes(Tail(work))
      /\ Listed(work) = {c} \cup Listed(Tail(work))
      /\ \A e \in Listed(Tail(work)) : e.node # x
  BY <1>1, CallTaken
<1>3. /\ nodes' = [nodes EXCEPT ![x] =
                     [leaf |-> TRUE, at |-> c.begin, count |-> c.end - c.begin]]
      /\ deepest' = Deeper(c.depth) /\ work' = Tail(work) /\ prims' = prims
  BY DEF MakeLeaf
<1>4. /\ x \in Indices /\ nodes[x].leaf /\ d[x] = c.depth /\ c.depth \in Nat
      /\ c.begin \in Int /\ c.end \in Int
      /\ 0 <= c.begin /\ c.begin < c.end /\ c.end <= prims
      /\ \A p \in Scene : o[p] = x <=> c.begin <= p /\ p < c.end
  BY <1>2 DEF Laid, Calls
<1>5. Indices = DOMAIN nodes
  BY ArrayIndices
<1> HIDE DEF c, x
<1>6. /\ DOMAIN nodes' = DOMAIN nodes
      /\ nodes'[x] = [leaf |-> TRUE, at |-> c.begin, count |-> c.end - c.begin]
      /\ \A i \in Indices : i # x => nodes'[i] = nodes[i]
  BY <1>3, <1>4, <1>5
<1>7. NodeCount' = NodeCount /\ Indices' = Indices /\ Scene' = Scene
  BY <1>3, <1>6 DEF NodeCount, Indices, Scene
<1>8. Inner' = Inner /\ x \notin Inner /\ \A i \in Inner : nodes'[i] = nodes[i]
  <2>1. \A i \in Indices : nodes'[i].leaf <=> nodes[i].leaf
    BY <1>4, <1>6
  <2>2. x \notin Inner
    BY <1>4 DEF Inner
  <2>3. Inner' = Inner
    BY <1>7, <2>1 DEF Inner
  <2> QED
    BY <1>6, <2>2, <2>3 DEF Inner
<1>9. \A i \in Inner : Children(i)' = Children(i)
  BY <1>8 DEF Children
<1>10. Waiting = {x} \cup Waiting' /\ x \notin Waiting'
  <2>1. Waiting' = {f.node : f \in Listed(Tail(work))}
    BY <1>3 DEF Waiting
  <2>2. Waiting = {x} \cup {f.node : f \in Listed(Tail(work))}
    BY <1>2 DEF Waiting, x
  <2> QED
    BY <1>2, <2>1, <2>2
<1>12. /\ deepest \in Nat /\ deepest' \in Nat /\ deepest <= deepest' /\ c.depth <= deepest'
       /\ deepest' = c.depth \/ deepest' = deepest
  BY <1>3, <1>4 DEF Deeper, Laid
<1>13. /\ (0 \in Indices /\ d \in [Indices -> Nat] /\ o \in [Scene -> Indices] /\ d[0] = 1)'
       /\ OwnNodes(work')
  BY <1>2, <1>3, <1>7 DEF Laid
<1>14. \A e \in Listed(work') :
         /\ e.node \in Indices /\ nodes'[e.node].leaf /\ d[e.node] = e.depth
         /\ 0 <= e.begin /\ e.begin < e.end /\ e.end <= prims
         /\ \A p \in Scene : o[p] = e.node <=> e.begin <= p /\ p < e.end
  BY <1>2, <1>3, <1>6 DEF Laid
<1>15. ASSUME NEW i \in Indices, nodes'[i].leaf, i \notin Waiting'
       PROVE  /\ nodes'[i].count \in Int /\ nodes'[i].count > 0
              /\ nodes'[i].at + nodes'[i].count <= prims
              /\ \A p \in Scene : o[p] = i <=>
                   nodes'[i].at <= p /\ p < nodes'[i].at + nodes'[i].count
  <2>1. CASE i = x
    <3>1. nodes'[i].at = c.begin /\ nodes'[i].count = c.end - c.begin
      BY <1>6, <2>1
    <3>2. c.begin + (c.end - c.begin) = c.end
      BY <1>4
    <3> QED
      BY <1>4, <2>1, <3>1, <3>2
  <2>2. CASE i # x
    <3>1. i \notin Waiting /\ nodes[i].leaf /\ nodes'[i] = nodes[i]
      BY <1>6, <1>10, <1>15, <2>2
    <3> QED
      BY <3>1 DEF Laid
  <2> QED
    BY <2>1, <2>2
<1>16. \A i \in Inner :
         /\ nodes'[i].count = 0 /\ nodes'[i].at > i /\ nodes'[i].at + 1 < NodeCount
         /\ \A p \in Scene : o[p] # i
         /\ \A k \in Children(i) : d[k] = d[i] + 1
         /\ \A j \in Inner : Children(i) \cap Children(j) # {} => i = j
  BY <1>8 DEF Laid
<1>17. \A k \in Indices \ {0} : \E i \in Inner : k \in Children(i)
  BY DEF Laid
<1>18. ASSUME NEW i \in Indices, i \notin Waiting'  PROVE  d[i] <= deepest'
  <2>1. CASE i = x
    BY <1>4, <1>12, <2>1
  <2>2. CASE i # x
    <3>1. d[i] <= deepest /\ d[i] \in Nat
      BY <1>10, <1>18, <2>2 DEF Laid
    <3> QED
      BY <1>12, <3>1
  <2> QED
    BY <2>1, <2>2
<1>19. ASSUME work' = <<>> \/ deepest' # 0  PROVE  \E i \in Indices : d[i] = deepest'
  <2>1. CASE deepest' = c.depth
    BY <1>4, <2>1
  <2>2. CASE deepest' = deepest /\ deepest # 0
    BY <2>2 DEF Laid
  <2>3. CASE deepest' = deepest /\ deepest = 0
    BY <1>4, <1>12, <2>3
  <2> QED
    BY <1>12, <2>1, <2>2, <2>3
<1> QED
  BY <1>3, <1>7, <1>8, <1>9, <1>12, <1>13, <1>14, <1>15, <1>16, <1>17, <1>18, <1>19 DEF Laid

\* An inner node is made: its two children come at the end of the array and wait, each
\* with its half of the range.
LEMMA SplitLaid ==
  ASSUME ArrayOK, NEW d, NEW o, Laid(d, o), prims \in Nat \ {0}, Split
  PROVE  \E e, q : Laid(e, q)'
<1> SUFFICES ASSUME NEW c, NEW L, c = Head(work), L = NodeCount
             PROVE  \E e, q : Laid(e, q)'
  OBVIOUS
<1> DEFINE x == c.node
           R == L + 1
<1>1. work \in Seq(Calls) /\ work # <<>> /\ OwnNodes(work)
  BY DEF ArrayOK, Split, Laid
<1>2. /\ c \in Calls /\ Tail(work) \in Seq(Calls) /\ OwnNodes(Tail(work))
      /\ Listed(work) = {c} \cup Listed(Tail(work))
      /\ \A e \in Listed(Tail(work)) : e.node # x
  BY <1>1, CallTaken DEF x
<1>3. PICK split \in (c.begin + 1) .. (c.end - 1) : work' = SubCalls(c, L, split) \o Tail(work)
  BY DEF Split
<1>4. /\ nodes' = [i \in Indices \cup {L, R} |->
                     IF i = x THEN [leaf |-> FALSE, at |-> L, count |-> 0]
                       ELSE IF i \in Indices THEN nodes[i] ELSE Blank]
      /\ deepest' = Deeper(c.depth) /\ prims' = prims
  BY DEF Split
<1>5. /\ x \in Indices /\ nodes[x].leaf /\ d[x] = c.depth /\ c.depth \in Nat
      /\ c.begin \in Int /\ c.end \in Int
      /\ 0 <= c.begin /\ c.begin < c.end /\ c.end <= prims
      /\ \A p \in Scene : o[p] = x <=> c.begin <= p /\ p < c.end
  BY <1>2 DEF Laid, Calls
<1>6. split \in Int /\ c.begin < split /\ split < c.end
  BY <1>3, <1>5
<1>7. L \in Nat /\ Indices = 0 .. (L - 1)
  BY ArrayIndices DEF Indices, NodeCount
<1> DEFINE A == Call(L, c.begin, split, c.depth + 1)
           B == Call(R, split, c.end, c.depth + 1)
<1>8. /\ A \in Calls /\ B \in Calls
      /\ A.node = L /\ A.begin = c.begin /\ A.end = split /\ A.depth = c.depth + 1
      /\ B.node = R /\ B.begin = split /\ B.end = c.end /\ B.depth = c.depth + 1
  BY <1>5, <1>6, <1>7 DEF Call, Calls
<1>9. work' = <<A, B>> \o Tail(work)
  BY <1>3 DEF SubCalls
<1> HIDE DEF x, A, B
<1>10. L \notin Indices /\ R \notin Indices /\ L # R /\ L # x /\ R # x /\ L > x /\ L > 0 /\ x \in Nat
  BY <1>5, <1>7
<1>11. /\ DOMAIN nodes' = Indices \cup {L, R}
       /\ nodes'[x] = [leaf |-> FALSE, at |-> L, count |-> 0]
       /\ \A i \in Indices : i # x => nodes'[i] = nodes[i]
       /\ nodes'[L] = Blank /\ nodes'[R] = Blank
  BY <1>4, <1>5, <1>10
<1>12. /\ NodeCount' = L + 2 /\ Indices' = Indices \cup {L, R}
       /\ Indices' = 0 .. (L + 1) /\ Scene' = Scene
  <2>1. DOMAIN nodes' = 0 .. (L + 1)
    BY <1>7, <1>11
  <2>2. Cardinality(0 .. (L + 1)) = L + 2
    <3>1. 0 \in Int /\ L + 1 \in Int /\ ~(0 > L + 1) /\ (L + 1) - 0 + 1 = L + 2
      BY <1>7
    <3> QED
      BY <3>1, FS_Interval
  <2>3. NodeCount' = L + 2
    BY <2>1, <2>2 DEF NodeCount
  <2>4. Indices' = 0 .. ((L + 2) - 1)
    BY <2>1, <2>2 DEF Indices
  <2>5. (L + 2) - 1 = L + 1
    BY <1>7
  <2>6. Indices' = Indices \cup {L, R}
    BY <1>11, <2>1, <2>4, <2>5
  <2>7. Scene' = Scene
    BY <1>4 DEF Scene
  <2> QED
    BY <2>3, <2>4, <2>5, <2>6, <2>7
<1>13. \A f \in Listed(Tail(work)) : f \in Listed(work) /\ f.node \in Indices /\ f.node # x
  BY <1>2 DEF Laid
<1>14. OwnNodes(work') /\ Listed(work') = {A, B} \cup Listed(Tail(work))
  <2>1. \A f \in Listed(Tail(work)) : f.node # A.node /\ f.node # B.node
    BY <1>8, <1>10, <1>13
  <2> QED
    BY <1>2, <1>8, <1>9, <1>10, <2>1, CallsAdded
<1>15. Inner' = Inner \cup {x} /\ x \notin Inner /\ Inner \subseteq Indices
       /\ \A i \in Inner : nodes'[i] = nodes[i]
  <2>1. x \notin Inner /\ Inner \subseteq Indices
    BY <1>5 DEF Inner
  <2>2. \A i \in Indices \cup {L, R} : ~nodes'[i].leaf <=> i = x \/ (i \in Indices /\ ~nodes[i].leaf)
    BY <1>5, <1>10, <1>11 DEF Blank
  <2>3. Inner' = Inner \cup {x}
    BY <1>5, <1>12, <2>2 DEF Inner
  <2> QED
    BY <1>11, <2>1, <2>3
<1>16. Children(x)' = {L, R} /\ \A i \in Inner : Children(i)' = Children(i)
  BY <1>11, <1>15 DEF Children, R
<1>17. Waiting' = (Waiting \ {x}) \cup {L, R} /\ x \in Waiting
  <2> DEFINE T == {f.node : f \in Listed(Tail(work))}
  <2>1. Waiting' = {L, R} \cup T
    BY <1>8, <1>14 DEF Waiting
  <2>2. Waiting = {x} \cup T /\ x \notin T
    BY <1>2 DEF Waiting, x
  <2> HIDE DEF T
  <2> QED
    BY <2>1, <2>2
<1>18. /\ deepest \in Nat /\ deepest' \in Nat /\ deepest <= deepest' /\ c.depth <= deepest'
       /\ deepest' = c.depth \/ deepest' = deepest
  BY <1>4, <1>5 DEF Deeper, Laid
<1>19. /\ d \in [Indices -> Nat] /\ o \in [Scene -> Indices] /\ 0 \in Indices /\ d[0] = 1
  BY DEF Laid
<1> PICK e : e = [i \in Indices \cup {L, R} |-> IF i \in Indices THEN d[i] ELSE c.depth + 1]
  OBVIOUS
<1> PICK q : q = [p \in Scene |-> IF o[p] # x THEN o[p] ELSE IF p < split THEN L ELSE R]
  OBVIOUS
<1>20. /\ e \in [Indices' -> Nat] /\ \A i \in Indices : e[i] = d[i]
       /\ e[L] = c.depth + 1 /\ e[R] = c.depth + 1
  <2>1. e[L] = c.depth + 1 /\ e[R] = c.depth + 1 /\ \A i \in Indices : e[i] = d[i]
    BY <1>10
  <2>2. \A i \in Indices' : e[i] \in Nat
    BY <1>5, <1>12, <1>19, <2>1
  <2>3. e \in [Indices' -> Nat]
    BY <1>5, <1>12, <1>19
  <2> QED
    BY <2>1, <2>3
<1>21. /\ q \in [Scene -> Indices']
       /\ \A i \in Indices : i # x => \A p \in Scene : q[p] = i <=> o[p] = i
       /\ \A p \in Scene : q[p] # x
  BY <1>10, <1>12, <1>19
<1>22. \A p \in Scene : /\ q[p] = L <=> c.begin <= p /\ p < split
                        /\ q[p] = R <=> split <= p /\ p < c.end
  <2> SUFFICES ASSUME NEW p \in Scene
               PROVE  /\ q[p] = L <=> c.begin <= p /\ p < split
                      /\ q[p] = R <=> split <= p /\ p < c.end
    OBVIOUS
  <2>1. p \in Int /\ o[p] \in Indices /\ (o[p] = x <=> c.begin <= p /\ p < c.end)
    BY <1>5, <1>19 DEF Scene
  <2>2. q[p] = IF o[p] # x THEN o[p] ELSE IF p < split THEN L ELSE R
    OBVIOUS
  <2> QED
    BY <1>5, <1>6, <1>10, <2>1, <2>2
<1> HIDE DEF R
<1>23. (0 \in Indices /\ e \in [Indices -> Nat] /\ q \in [Scene -> Indices] /\ e[0] = 1)'
  BY <1>12, <1>19, <1>20, <1>21
<1>24. ASSUME NEW f \in Listed(work')
       PROVE  /\ f.node \in Indices' /\ nodes'[f.node].leaf /\ e[f.node] = f.depth
              /\ 0 <= f.begin /\ f.begin < f.end /\ f.end <= prims
              /\ \A p \in Scene : q[p] = f.node <=> f.begin <= p /\ p < f.end
  <2> nodes'[L].leaf /\ nodes'[R].leaf
    BY <1>11 DEF Blank
  <2>1. CASE f = A
    <3>1. /\ f.node = L /\ f.depth = c.depth + 1 /\ f.begin = c.begin /\ f.end = split
          /\ L \in Indices'
      BY <1>8, <1>12, <2>1
    <3> QED
      BY <1>5, <1>6, <1>20, <1>22, <3>1
  <2>3. CASE f = B
    <3>1. /\ f.node = R /\ f.depth = c.depth + 1 /\ f.begin = split /\ f.end = c.end
          /\ R \in Indices'
      BY <1>8, <1>12, <2>3
    <3> QED
      BY <1>5, <1>6, <1>20, <1>22, <3>1
  <2>2. CASE f \in Listed(Tail(work))
    <3>1. f \in Listed(work) /\ f.node \in Indices /\ f.node # x
      BY <1>13, <2>2
    <3>2. /\ nodes[f.node].leaf /\ d[f.node] = f.depth
          /\ 0 <= f.begin /\ f.begin < f.end /\ f.end <= prims
          /\ \A p \in Scene : o[p] = f.node <=> f.begin <= p /\ p < f.end
      BY <3>1 DEF Laid
    <3> QED
      BY <1>11, <1>12, <1>20, <1>21, <3>1, <3>2
  <2> QED
    BY <1>14, <2>1, <2>2, <2>3
<1>25. ASSUME NEW i \in Indices', nodes'[i].leaf, i \notin Waiting'
       PROVE  /\ nodes'[i].count \in Int /\ nodes'[i].count > 0
              /\ nodes'[i].at + nodes'[i].count <= prims
              /\ \A p \in Scene : q[p] = i <=>
                   nodes'[i].at <= p /\ p < nodes'[i].at + nodes'[i].count
  <2>1. i \in Indices /\ i # x
    BY <1>11, <1>12, <1>17, <1>25
  <2>2. nodes'[i] = nodes[i] /\ i \notin Waiting
    BY <1>11, <1>17, <1>25, <2>1
  <2>3. /\ nodes[i].count \in Int /\ nodes[i].count > 0
        /\ nodes[i].at + nodes[i].count <= prims
        /\ \A p \in Scene : o[p] = i <=> nodes[i].at <= p /\ p < nodes[i].at + nodes[i].count
    BY <1>25, <2>1, <2>2 DEF Laid
  <2> QED
    BY <1>21, <2>1, <2>2, <2>3
<1>26. \A i \in Inner : Children(i) \subseteq Indices
  <2> SUFFICES ASSUME NEW i \in Inner  PROVE  Children(i) \subseteq Indices
    OBVIOUS
  <2>1. i \in Nat /\ i \in DOMAIN nodes
    BY <1>7, ArrayIndices DEF Inner
  <2>2. nodes[i].at \in Int /\ nodes[i].at > i /\ nodes[i].at + 1 < L
    BY <2>1 DEF ArrayOK, Laid
  <2> QED
    BY <1>7, <2>1, <2>2 DEF Children
<1>27. ASSUME NEW i \in Inner'
       PROVE  /\ nodes'[i].count = 0 /\ nodes'[i].at > i /\ nodes'[i].at + 1 < NodeCount'
              /\ \A p \in Scene : q[p] # i
              /\ \A k \in Children(i)' : e[k] = e[i] + 1
              /\ \A j \in Inner' : Children(i)' \cap Children(j)' # {} => i = j
  <2>1. CASE i = x
    <3>1. nodes'[i].count = 0 /\ nodes'[i].at = L
      BY <1>11, <2>1
    <3>2. Children(i)' = {L, R}
      BY <1>16, <2>1
    <3>3. ASSUME NEW j \in Inner  PROVE  Children(i)' \cap Children(j)' = {}
      <4>1. Children(j)' \subseteq Indices
        BY <1>16, <1>26
      <4> QED
        BY <1>10, <3>2, <4>1
    <3>4. \A k \in Children(i)' : e[k] = e[i] + 1
      <4>1. e[i] = c.depth
        BY <1>5, <1>20, <2>1
      <4> QED
        BY <1>20, <3>2, <4>1
    <3>5. \A j \in Inner' : Children(i)' \cap Children(j)' # {} => i = j
      BY <1>15, <2>1, <3>3
    <3>6. nodes'[i].at > i /\ nodes'[i].at + 1 < NodeCount'
      BY <1>7, <1>10, <1>12, <2>1, <3>1
    <3>7. \A p \in Scene : q[p] # i
      BY <1>21, <2>1
    <3> QED
      BY <3>1, <3>4, <3>5, <3>6, <3>7
  <2>2. CASE i \in Inner
    <3>1. /\ nodes[i].count = 0 /\ nodes[i].at > i /\ nodes[i].at + 1 < L
          /\ \A p \in Scene : o[p] # i
          /\ \A k \in Children(i) : d[k] = d[i] + 1
          /\ \A j \in Inner : Children(i) \cap Children(j) # {} => i = j
      BY <2>2 DEF Laid
    <3>2. nodes'[i] = nodes[i] /\ i \in Indices /\ i # x /\ Children(i)' = Children(i)
      BY <1>15, <1>16, <2>2
    <3>3. \A k \in Children(i) : e[k] = e[i] + 1
      BY <1>20, <1>26, <2>2, <3>1, <3>2
    <3>4. Children(i)' \cap Children(x)' = {}
      BY <1>10, <1>16, <1>26, <2>2
    <3>5. ASSUME NEW j \in Inner', Children(i)' \cap Children(j)' # {}  PROVE  i = j
      <4>1. j # x
        BY <3>4, <3>5
      <4>2. j \in Inner /\ Children(j)' = Children(j)
        BY <1>15, <1>16, <3>5, <4>1
      <4> QED
        BY <3>1, <3>2, <3>5, <4>2
    <3>6. nodes[i].at + 1 < L + 2
      <4>1. nodes[i].at \in Int
        BY <3>2, ArrayIndices DEF ArrayOK
      <4> QED
        BY <1>7, <3>1, <4>1
    <3>7. \A p \in Scene : q[p] # i
      BY <1>21, <3>1, <3>2
    <3>8. \A k \in Children(i)' : e[k] = e[i] + 1
      BY <3>2, <3>3
    <3> QED
      BY <1>12, <3>1, <3>2, <3>5, <3>6, <3>7, <3>8
  <2> QED
    BY <1>15, <2>1, <2>2
<1>28. ASSUME NEW k \in Indices' \ {0}  PROVE  \E i \in Inner' : k \in Children(i)'
  <2>1. CASE k \in Indices
    <3>1. PICK i \in Inner : k \in Children(i)
      BY <1>28, <2>1 DEF Laid
    <3> QED
      BY <1>15, <1>16, <3>1
  <2>2. CASE k \in {L, R}
    BY <1>15, <1>16, <2>2
  <2> QED
    BY <1>12, <1>28, <2>1, <2>2
<1>29. ASSUME NEW i \in Indices', i \notin Waiting'  PROVE  e[i] <= deepest'
  <2>1. i \in Indices
    BY <1>12, <1>17, <1>29
  <2>2. CASE i = x
    BY <1>5, <1>18, <1>20, <2>2
  <2>3. CASE i # x
    <3>1. d[i] <= deepest /\ d[i] \in Nat
      BY <1>17, <1>29, <2>1, <2>3 DEF Laid
    <3> QED
      BY <1>18, <1>20, <2>1, <3>1
  <2> QED
    BY <2>2, <2>3
<1>30. \E i \in Indices' : e[i] = deepest'
  <2>1. CASE deepest' = c.depth
    BY <1>5, <1>12, <1>20, <2>1
  <2>2. CASE deepest' = deepest /\ deepest # 0
    <3>1. PICK i \in Indices : d[i] = deepest
      BY <2>2 DEF Laid
    <3> QED
      BY <1>12, <1>20, <2>2, <3>1
  <2>3. CASE deepest' = deepest /\ deepest = 0
    <3>1. c.depth = deepest'
      BY <1>5, <1>18, <2>3
    <3> QED
      BY <2>1, <3>1
  <2> QED
    BY <1>18, <2>1, <2>2, <2>3
<1>31. OwnNodes(work') /\ prims' = prims /\ Scene' = Scene /\ deepest' \in Nat
  BY <1>4, <1>12, <1>14, <1>18
<1>32. Laid(e, q)'
  BY <1>23, <1>24, <1>25, <1>27, <1>28, <1>29, <1>30, <1>31 DEF Laid
<1> QED
  BY <1>32

\* Nothing is said of the tree that an action could change without changing the tree.
LEMMA LaidStays ==
  ASSUME NEW d, NEW o, Laid(d, o), UNCHANGED <<nodes, prims, work, deepest>>
  PROVE  Laid(d, o)'
<1>1. /\ Indices' = Indices /\ NodeCount' = NodeCount /\ Inner' = Inner /\ Scene' = Scene
      /\ (\A i : Children(i)' = Children(i)) /\ Waiting' = Waiting
  BY DEF Indices, Inner, Children, NodeCount, Scene, Waiting
<1> QED
  BY <1>1 DEF Laid

\* A child of the finished tree.
LEMMA ChildLaid ==
  ASSUME ArrayOK, NEW d, NEW o, Laid(d, o), NEW i \in Inner
  PROVE  /\ i \in Indices /\ i \in Nat /\ nodes[i].at \in Int /\ nodes[i].at > i
         /\ Children(i) \subseteq Indices \ {0} /\ \A k \in Children(i) : i < k
<1>1. i \in Indices /\ i \in Nat /\ NodeCount \in Nat /\ Indices = 0 .. (NodeCount - 1)
      /\ nodes[i].at \in Int
  BY ArrayIndices DEF Inner, Indices, NodeCount, ArrayOK
<1>2. nodes[i].at > i /\ nodes[i].at + 1 < NodeCount
  BY DEF Laid
<1> QED
  BY <1>1, <1>2 DEF Children

\* The builder's tree is one in whose structure the loader finds no fault.
LEMMA LaidLoads ==
  ASSUME ArrayOK, NEW d, NEW o, Laid(d, o), prims \in Nat \ {0}, work = <<>>
  PROVE  StructureChecked
<1>1. Indices = DOMAIN nodes /\ NodeCount \in Nat /\ IsFiniteSet(Indices)
      /\ Indices = 0 .. (NodeCount - 1)
  BY ArrayIndices DEF Indices, NodeCount
<1>2. Waiting = {}
  <2>1. Listed(work) = {}
    BY DEF Listed
  <2> QED
    BY <2>1 DEF Waiting
<1>3. IndicesChecked
  <2> SUFFICES ASSUME NEW i \in Indices
               PROVE  IF nodes[i].leaf
                        THEN nodes[i].count > 0 /\ nodes[i].at + nodes[i].count <= prims
                        ELSE /\ nodes[i].count = 0
                             /\ nodes[i].at > i /\ nodes[i].at + 1 < NodeCount
    BY DEF IndicesChecked
  <2>1. CASE nodes[i].leaf
    BY <1>2, <2>1 DEF Laid
  <2>2. CASE ~nodes[i].leaf
    BY <2>2 DEF Laid, Inner
  <2> QED
    BY <2>1, <2>2
<1>4. ASSUME NEW k \in Indices
      PROVE  Cardinality({i \in Inner : k \in Children(i)}) = IF k = 0 THEN 0 ELSE 1
  <2> DEFINE P == {i \in Inner : k \in Children(i)}
  <2>1. CASE k = 0
    <3>1. P = {}
      BY <2>1, ChildLaid
    <3> QED
      BY <2>1, <3>1, FS_EmptySet
  <2>2. CASE k # 0
    <3>1. PICK i \in Inner : k \in Children(i)
      BY <2>2 DEF Laid
    <3>2. \A j \in Inner : k \in Children(j) => i = j
      BY <3>1 DEF Laid
    <3>3. P = {i}
      BY <3>1, <3>2
    <3> QED
      BY <2>2, <3>3, FS_Singleton
  <2> QED
    BY <2>1, <2>2
<1>5. NodeCount > 0
  BY <1>1 DEF Laid
<1> QED
  BY <1>3, <1>4, <1>5 DEF StructureChecked, IsTree

\* The depths that the loader finds from the parents are those of the builder.
LEMMA LaidDepth ==
  ASSUME ArrayOK, NEW d, NEW o, Laid(d, o)
  PROVE  \A i \in Indices : DepthOf[i] = d[i]
<1> DEFINE Parent(i) == CHOOSE j \in Inner : i \in Children(j)
           Depths(f) == f = [i \in Indices |-> IF i = 0 THEN 1 ELSE f[Parent(i)] + 1]
<1>1. \A i \in Indices \ {0} : Parent(i) \in Inner /\ i \in Children(Parent(i))
  BY DEF Laid
<1>2. DepthOf = CHOOSE f : Depths(f)
  BY DEF DepthOf
<1>3. Depths(d)
  <2>1. d \in [Indices -> Nat] /\ d[0] = 1
    BY DEF Laid
  <2>2. \A i \in Indices \ {0} : d[i] = d[Parent(i)] + 1
    <3> HIDE DEF Parent
    <3> QED
      BY <1>1 DEF Laid
  <2> HIDE DEF Parent
  <2> QED
    BY <2>1, <2>2
<1>4. Depths(DepthOf)
  BY <1>2, <1>3
<1> HIDE DEF Parent
<1>5. \A i \in Indices : DepthOf[i] = IF i = 0 THEN 1 ELSE DepthOf[Parent(i)] + 1
  BY <1>4
<1> HIDE DEF Depths
<1> DEFINE S == {i \in Indices : DepthOf[i] # d[i]}
<1> SUFFICES ASSUME S # {}  PROVE  FALSE
  OBVIOUS
<1>6. S \in SUBSET Nat
  BY DEF Indices
<1>7. PICK n \in S : \A m \in S : n <= m
  BY <1>6, Data!LeastMember
<1>8. n \in Indices /\ n \in Nat /\ DepthOf[n] # d[n]
  BY <1>6, <1>7
<1>9. n # 0
  BY <1>5, <1>8 DEF Laid
<1>10. Parent(n) \in Inner /\ n \in Children(Parent(n))
  BY <1>1, <1>8, <1>9
<1>11. Parent(n) \in Indices /\ Parent(n) \in Nat /\ Parent(n) < n
  BY <1>10, ChildLaid
<1>12. DepthOf[Parent(n)] = d[Parent(n)]
  BY <1>7, <1>8, <1>11
<1>13. d[n] = d[Parent(n)] + 1
  BY <1>10 DEF Laid
<1> QED
  BY <1>5, <1>8, <1>9, <1>12, <1>13

\* The walk of the builder's tree begins with everything under the root.
LEMMA LoadCovers ==
  ASSUME ArrayOK, NEW d, NEW o, Laid(d, o), LoadBvh
  PROVE  Covered(d, o)'
<1>1. /\ stack' = <<0>> /\ visits' = [i \in Indices |-> 0]
      /\ tested' = [p \in Scene |-> 0] /\ UNCHANGED <<prims, nodes, work, deepest>>
  BY DEF LoadBvh, Scene
<1>2. /\ Indices' = Indices /\ Inner' = Inner /\ Scene' = Scene
      /\ \A i : Children(i)' = Children(i)
  BY <1>1 DEF Indices, Inner, Children, Scene
<1>3. o \in [Scene -> Indices] /\ d[0] = 1 /\ 0 \in Indices
  BY DEF Laid
<1>4. /\ tested' \in [Scene -> Nat] /\ \A p \in Scene : tested'[p] = visits'[o[p]]
      /\ \A i \in Indices : visits'[i] = 0
  BY <1>1, <1>3
<1>5. DOMAIN stack' = {1} /\ stack'[1] = 0
  BY <1>1
<1>6. ASSUME NEW i \in Indices
      PROVE  \/ \E k \in DOMAIN stack' : stack'[k] = i
             \/ \E j \in Inner : i \in Children(j) /\ visits'[j] = 0
  <2>1. CASE i = 0
    BY <1>5, <2>1
  <2>2. CASE i # 0
    <3>1. PICK j \in Inner : i \in Children(j)
      BY <2>2 DEF Laid
    <3> QED
      BY <1>4, <3>1, ChildLaid
  <2> QED
    BY <2>1, <2>2
<1>7. \A k \in DOMAIN stack' : k <= d[stack'[k]]
  BY <1>3, <1>5
<1> QED
  BY <1>1, <1>2, <1>4, <1>6, <1>7 DEF Covered

\* A step of the walk tests what the node lists, and pushes its children if the tree
\* fits the stack: an entry of the stack is no higher than its node is deep.
LEMMA WalkCovers ==
  ASSUME ArrayOK, NEW d, NEW o, Laid(d, o), prims \in Nat \ {0}, work = <<>>,
         Walked, Covered(d, o), VisitLeaf \/ VisitInner
  PROVE  Covered(d, o)'
<1>1. /\ stack # <<>> /\ UNCHANGED <<nodes, prims, work, deepest>>
      /\ visits' = [visits EXCEPT ![Last] = @ + 1]
  BY DEF VisitLeaf, VisitInner
<1>2. /\ Indices' = Indices /\ Inner' = Inner /\ Scene' = Scene
      /\ \A i : Children(i)' = Children(i)
  BY <1>1 DEF Indices, Inner, Children, Scene
<1>3. stack \in Seq(Indices) /\ visits \in [Indices -> {0, 1}]
  BY DEF Walked
<1>4. /\ Last \in Indices /\ Last = stack[Len(stack)] /\ Len(stack) \in DOMAIN stack
      /\ Popped \in Seq(Indices) /\ DOMAIN Popped = 1 .. Len(Popped) /\ Len(Popped) \in Nat
      /\ \A p \in DOMAIN Popped : p \in DOMAIN stack /\ p # Len(stack)
                                    /\ Popped[p] = stack[p]
  BY <1>1, <1>3, PoppedStack
<1>5. Len(Popped) = Len(stack) - 1 /\ DOMAIN stack = 1 .. Len(stack) /\ Len(stack) \in Nat
  BY <1>1, <1>3, WithoutLast DEF Popped
<1>6. /\ visits'[Last] = 1 /\ visits[Last] = 0
      /\ \A i \in Indices : i # Last => visits'[i] = visits[i]
  <2>1. visits[Last] = 0
    BY <1>4 DEF Walked
  <2> QED
    BY <1>1, <1>3, <1>4, <2>1
<1>7. /\ tested \in [Scene -> Nat] /\ \A p \in Scene : tested[p] = visits[o[p]]
      /\ o \in [Scene -> Indices] /\ d \in [Indices -> Nat]
  BY DEF Covered, Laid
<1>8. Waiting = {}
  <2>1. Listed(work) = {}
    BY DEF Listed
  <2> QED
    BY <2>1 DEF Waiting
<1>9. ASSUME NEW i \in Indices, i # Last, NEW k \in DOMAIN stack, stack[k] = i
      PROVE  k \in DOMAIN Popped /\ Popped[k] = i
  <2>1. k # Len(stack)
    BY <1>4, <1>9
  <2> QED
    BY <1>4, <1>5, <1>9, <2>1
<1>10. CASE VisitLeaf
  <2>1. /\ nodes[Last].leaf /\ stack' = Popped
        /\ tested' = [p \in DOMAIN tested |->
             IF nodes[Last].at <= p /\ p < nodes[Last].at + nodes[Last].count
               THEN tested[p] + 1 ELSE tested[p]]
    BY <1>10 DEF VisitLeaf
  <2>2. \A p \in Scene :
          o[p] = Last <=> nodes[Last].at <= p /\ p < nodes[Last].at + nodes[Last].count
    BY <1>4, <1>8, <2>1 DEF Laid
  <2>3. tested' \in [Scene -> Nat] /\ \A p \in Scene : tested'[p] = visits'[o[p]]
    BY <1>6, <1>7, <2>1, <2>2
  <2>4. ASSUME deepest <= StackSize
        PROVE  /\ \A k \in DOMAIN stack' : k <= d[stack'[k]]
               /\ \A i \in Indices : visits'[i] = 0 =>
                    \/ \E k \in DOMAIN stack' : stack'[k] = i
                    \/ \E j \in Inner : i \in Children(j) /\ visits'[j] = 0
    <3>1. \A k \in DOMAIN stack' : k <= d[stack'[k]]
      BY <1>4, <2>1, <2>4 DEF Covered
    <3>2. ASSUME NEW i \in Indices, visits'[i] = 0
          PROVE  \/ \E k \in DOMAIN stack' : stack'[k] = i
                 \/ \E j \in Inner : i \in Children(j) /\ visits'[j] = 0
      <4>1. i # Last /\ visits[i] = 0
        BY <1>6, <3>2
      <4>2. CASE \E k \in DOMAIN stack : stack[k] = i
        BY <1>9, <2>1, <4>1, <4>2
      <4>3. CASE \E j \in Inner : i \in Children(j) /\ visits[j] = 0
        <5>1. PICK j \in Inner : i \in Children(j) /\ visits[j] = 0
          BY <4>3
        <5>2. j # Last /\ j \in Indices
          BY <2>1 DEF Inner
        <5> QED
          BY <1>6, <5>1, <5>2
      <4> QED
        BY <2>4, <4>1, <4>2, <4>3 DEF Covered
    <3> QED
      BY <3>1, <3>2
  <2> QED
    BY <1>1, <1>2, <2>3, <2>4 DEF Covered
<1>11. CASE VisitInner
  <2> DEFINE a == nodes[Last].at
             n == Len(Popped)
  <2>1. /\ Last \in Inner /\ tested' = tested
        /\ stack' = IF n + 2 <= StackSize THEN Popped \o <<a, a + 1>> ELSE Popped
    BY <1>4, <1>11 DEF VisitInner, Inner
  <2>2. \A p \in Scene : o[p] # Last
    BY <2>1 DEF Laid
  <2>3. tested' \in [Scene -> Nat] /\ \A p \in Scene : tested'[p] = visits'[o[p]]
    BY <1>6, <1>7, <2>1, <2>2
  <2>4. ASSUME deepest <= StackSize
        PROVE  /\ \A k \in DOMAIN stack' : k <= d[stack'[k]]
               /\ \A i \in Indices : visits'[i] = 0 =>
                    \/ \E k \in DOMAIN stack' : stack'[k] = i
                    \/ \E j \in Inner : i \in Children(j) /\ visits'[j] = 0
    <3>1. /\ a \in Indices /\ a + 1 \in Indices /\ d[a] = d[Last] + 1 /\ d[a + 1] = d[Last] + 1
          /\ Children(Last) = {a, a + 1}
      <4>1. Children(Last) = {a, a + 1}
        BY DEF Children
      <4>2. Children(Last) \subseteq Indices
        BY <2>1, ChildLaid
      <4>3. \A k \in Children(Last) : d[k] = d[Last] + 1
        BY <2>1 DEF Laid
      <4> HIDE DEF a
      <4> QED
        BY <4>1, <4>2, <4>3
    <3>2. Len(stack) <= d[Last] /\ d[Last] \in Nat
      BY <1>4, <1>7, <2>4 DEF Covered
    <3>3. n + 2 <= StackSize
      <4>1. d[a] <= deepest /\ deepest \in Nat
        BY <1>8, <3>1 DEF Laid
      <4> QED
        BY <1>5, <2>4, <3>1, <3>2, <4>1, BvhAssumption
    <3> HIDE DEF a
    <3>4. /\ DOMAIN stack' = 1 .. (n + 2) /\ stack'[n + 1] = a /\ stack'[n + 2] = a + 1
          /\ \A p \in 1 .. n : stack'[p] = Popped[p]
      <4> DEFINE b == a + 1
      <4>1. a \in Indices /\ b \in Indices /\ Popped \in Seq(Indices)
        BY <1>4, <3>1
      <4>2. stack' = Popped \o <<a, b>>
        BY <2>1, <3>3
      <4> HIDE DEF b
      <4>3. /\ DOMAIN (Popped \o <<a, b>>) = 1 .. (Len(Popped) + 2)
            /\ (Popped \o <<a, b>>)[Len(Popped) + 1] = a
            /\ (Popped \o <<a, b>>)[Len(Popped) + 2] = b
            /\ \A p \in 1 .. Len(Popped) : (Popped \o <<a, b>>)[p] = Popped[p]
        BY <4>1, WithTwoMore
      <4> QED
        BY <4>2, <4>3 DEF b
    <3>5. ASSUME NEW k \in DOMAIN stack'  PROVE  k <= d[stack'[k]]
      <4>1. k \in 1 .. n \/ k = n + 1 \/ k = n + 2
        BY <1>4, <3>4
      <4>2. CASE k \in 1 .. n
        BY <1>4, <2>4, <3>4, <4>2 DEF Covered
      <4>3. CASE k = n + 1 \/ k = n + 2
        BY <1>5, <3>1, <3>2, <3>4, <4>3
      <4> QED
        BY <4>1, <4>2, <4>3
    <3>6. ASSUME NEW i \in Indices, visits'[i] = 0
          PROVE  \/ \E k \in DOMAIN stack' : stack'[k] = i
                 \/ \E j \in Inner : i \in Children(j) /\ visits'[j] = 0
      <4>1. i # Last /\ visits[i] = 0
        BY <1>6, <3>6
      <4>2. CASE \E k \in DOMAIN stack : stack[k] = i
        <5>1. PICK k \in 1 .. n : Popped[k] = i
          BY <1>4, <1>9, <4>1, <4>2
        <5>2. k \in DOMAIN stack' /\ stack'[k] = i
          BY <1>4, <3>4, <5>1
        <5> QED
          BY <5>2
      <4>3. CASE \E j \in Inner : i \in Children(j) /\ visits[j] = 0
        <5>1. PICK j \in Inner : i \in Children(j) /\ visits[j] = 0
          BY <4>3
        <5>2. CASE j = Last
          <6>1. i = a \/ i = a + 1
            BY <3>1, <5>1, <5>2
          <6>2. n + 1 \in DOMAIN stack' /\ n + 2 \in DOMAIN stack'
            BY <1>4, <3>4
          <6> QED
            BY <3>4, <6>1, <6>2
        <5>3. CASE j # Last
          <6>1. j \in Indices
            BY DEF Inner
          <6> QED
            BY <1>6, <5>1, <5>3, <6>1
        <5> QED
          BY <5>2, <5>3
      <4> QED
        BY <2>4, <4>1, <4>2, <4>3 DEF Covered
    <3> QED
      BY <3>5, <3>6
  <2> QED
    BY <1>1, <1>2, <2>3, <2>4 DEF Covered
<1> QED
  BY <1>10, <1>11

\* Nothing is left under a node that was not taken when the stack is empty.
LEMMA AllCovered ==
  ASSUME ArrayOK, NEW d, NEW o, Laid(d, o), Walked, Covered(d, o), stack = <<>>,
         deepest <= StackSize
  PROVE  \A p \in Scene : tested[p] = 1
<1>1. visits \in [Indices -> {0, 1}] /\ o \in [Scene -> Indices]
  BY DEF Walked, Laid
<1> DEFINE S == {i \in Indices : visits[i] = 0}
<1>2. S \in SUBSET Nat
  BY DEF Indices
<1>3. S = {}
  <2> SUFFICES ASSUME S # {}  PROVE  FALSE
    OBVIOUS
  <2>1. PICK i \in S : \A m \in S : i <= m
    BY <1>2, Data!LeastMember
  <2>2. PICK j \in Inner : i \in Children(j) /\ visits[j] = 0
    BY <2>1 DEF Covered
  <2>3. j \in S /\ j < i /\ j \in Nat /\ i \in Nat
    BY <1>2, <2>1, <2>2, ChildLaid
  <2> QED
    BY <2>1, <2>3
<1>4. \A i \in Indices : visits[i] = 1
  BY <1>1, <1>3
<1> QED
  BY <1>1, <1>4 DEF Covered

\* A scene begins as one call for the root.
LEMMA SceneLaid ==
  ASSUME NEW n \in 1 .. MaxPrims, NEW colours, SceneOf(n, colours)
  PROVE  prims \in Nat \ {0} /\ \E d, o : Laid(d, o)
<1> DEFINE c == Call(0, 0, n, 1)
           d == [i \in {0} |-> 1]
           o == [p \in Scene |-> 0]
<1>1. /\ prims = n /\ nodes = [i \in {0} |-> Blank] /\ work = <<c>> /\ deepest = 0
      /\ n \in Nat \ {0}
  BY BvhAssumption DEF SceneOf
<1>2. c.node = 0 /\ c.begin = 0 /\ c.end = n /\ c.depth = 1
  BY DEF Call
<1> HIDE DEF c
<1>3. Listed(work) = {c} /\ OwnNodes(work) /\ work # <<>>
  BY <1>1 DEF Listed, OwnNodes
<1>4. Indices = {0} /\ NodeCount = 1
  <2>1. DOMAIN nodes = {0}
    BY <1>1
  <2>2. Cardinality({0}) = 1
    BY FS_Singleton
  <2> QED
    BY <2>1, <2>2 DEF Indices, NodeCount
<1>5. nodes[0].leaf /\ Inner = {} /\ 0 \in Waiting
  <2>1. nodes[0].leaf
    BY <1>1 DEF Blank
  <2> QED
    BY <1>2, <1>3, <1>4, <2>1 DEF Inner, Waiting
<1>6. \A p \in Scene : 0 <= p /\ p < n /\ o[p] = 0
  BY <1>1 DEF Scene
<1>7. d \in [Indices -> Nat] /\ o \in [Scene -> Indices] /\ d[0] = 1
  BY <1>4
<1> HIDE DEF d, o
<1>8. Laid(d, o)
  BY <1>1, <1>2, <1>3, <1>4, <1>5, <1>6, <1>7 DEF Laid
<1> QED
  BY <1>1, <1>8

\* A blob whose sums do not fit is over some cap.
LEMMA SerializeOverruns ==
  ASSUME ArrayOK, prims \in Nat \ {0}, palette \in ScenePalettes, Serialize
  PROVE  OverrunIsOverCaps'
<1>1. NodeCount \in Nat /\ palette.count \in Nat
  BY ArrayIndices, BvhAssumption DEF ScenePalettes
<1>2. /\ bpc' = IF BlobSize < BlobLimit THEN "load" ELSE "overrun"
      /\ UNCHANGED <<nodes, prims, palette>>
  BY DEF Serialize
<1>3. NodeCount' = NodeCount
  BY <1>2 DEF NodeCount
<1>4. ASSUME ~(BlobSize < BlobLimit)  PROVE  ~WithinCaps
  BY <1>1, <1>4, CapsAssumption DEF BlobSize, WithinCaps
<1> QED
  BY <1>2, <1>3, <1>4 DEF OverrunIsOverCaps, WithinCaps

\* No other step ends in an overrun.
LEMMA OverrunStays ==
  ASSUME OverrunIsOverCaps, [BvhNext]_bvhVars, ~Serialize
  PROVE  OverrunIsOverCaps'
<1>1. CASE UNCHANGED bvhVars
  <2>1. UNCHANGED <<bpc, nodes, prims, palette>>
    BY <1>1 DEF bvhVars
  <2>2. NodeCount' = NodeCount
    BY <2>1 DEF NodeCount
  <2> QED
    BY <2>1, <2>2 DEF OverrunIsOverCaps, WithinCaps
<1>2. CASE BvhNext
  <2>1. bpc' # "overrun"
    BY <1>2 DEF BvhNext, MakeLeaf, Split, LoadBvh, VisitLeaf, VisitInner, WalkDone
  <2> QED
    BY <2>1 DEF OverrunIsOverCaps
<1> QED
  BY <1>1, <1>2

\* Builder, loader and walk keep the tree whole and cover it.
LEMMA NextTreeInv ==
  ASSUME TreeInv, [BvhNext]_bvhVars  PROVE  TreeInv'
<1>1. WalkInv' /\ ArrayOK
  BY NextWalkInv DEF TreeInv, WalkInv
<1>2. /\ built' = built /\ prims' = prims /\ palette' = palette
      /\ bpc' \in {"build", "overrun"} => bpc \in {"build", "overrun"}
  BY DEF BvhNext, bvhVars, MakeLeaf, Split, Serialize, LoadBvh, VisitLeaf, VisitInner, WalkDone
<1>3. OverrunIsOverCaps'
  <2>1. CASE Serialize
    <3>1. built /\ prims \in Nat \ {0} /\ palette \in ScenePalettes
      BY <2>1 DEF TreeInv, Serialize
    <3> QED
      BY <1>1, <2>1, <3>1, SerializeOverruns
  <2>2. CASE ~Serialize
    BY <2>2, OverrunStays DEF TreeInv
  <2> QED
    BY <2>1, <2>2
<1>4. CASE ~built
  BY <1>1, <1>2, <1>4, <1>3 DEF TreeInv, EveryPrimitiveTested
<1>5. CASE built
  <2>1. /\ prims \in Nat \ {0} /\ palette \in ScenePalettes
        /\ (bpc # "build" => work = <<>>) /\ EveryPrimitiveTested
    BY <1>5 DEF TreeInv
  <2>2. PICK d, o : Laid(d, o) /\ (bpc = "walk" => Covered(d, o))
    BY <1>5 DEF TreeInv
  <2> SUFFICES /\ (bpc # "build" => work = <<>>)'
               /\ \E e, q : Laid(e, q)' /\ (bpc' = "walk" => Covered(e, q)')
               /\ EveryPrimitiveTested'
    BY <1>1, <1>2, <1>5, <1>3, <2>1 DEF TreeInv
  <2>3. CASE MakeLeaf
    <3>1. bpc' = "build"
      BY <2>3 DEF MakeLeaf
    <3>2. Laid(d, o)'
      BY <1>1, <2>1, <2>2, <2>3, LeafLaid
    <3> QED
      BY <3>1, <3>2 DEF EveryPrimitiveTested
  <2>4. CASE Split
    <3>1. bpc' = "build"
      BY <2>4 DEF Split
    <3>2. \E e, q : Laid(e, q)'
      BY <1>1, <2>1, <2>2, <2>4, SplitLaid
    <3> QED
      BY <3>1, <3>2 DEF EveryPrimitiveTested
  <2>5. CASE Serialize
    <3>1. /\ bpc' \in {"load", "overrun"} /\ work = <<>> /\ work' = work
          /\ UNCHANGED <<nodes, prims, work, deepest>>
      BY <2>5 DEF Serialize
    <3>2. Laid(d, o)'
      BY <2>2, <3>1, LaidStays
    <3> QED
      BY <3>1, <3>2 DEF EveryPrimitiveTested
  <2>6. CASE LoadBvh
    <3>1. /\ work = <<>> /\ work' = work /\ UNCHANGED <<nodes, prims, work, deepest>>
          /\ bpc' \in {"walk", "refused"}
      BY <2>1, <2>6 DEF LoadBvh
    <3>2. Laid(d, o)'
      BY <2>2, <3>1, LaidStays
    <3>3. Covered(d, o)'
      BY <1>1, <2>2, <2>6, LoadCovers
    <3> QED
      BY <3>1, <3>2, <3>3 DEF EveryPrimitiveTested
  <2>7. CASE VisitLeaf \/ VisitInner
    <3>1. /\ bpc = "walk" /\ bpc' = "walk" /\ work = <<>> /\ work' = work
          /\ UNCHANGED <<nodes, prims, work, deepest>>
      BY <2>1, <2>7 DEF VisitLeaf, VisitInner
    <3>2. Laid(d, o)'
      BY <2>2, <3>1, LaidStays
    <3>3. Covered(d, o)'
      <4>1. Walked
        BY <3>1 DEF TreeInv, WalkInv
      <4> QED
        BY <1>1, <2>1, <2>2, <2>7, <3>1, <4>1, WalkCovers
    <3> QED
      BY <3>1, <3>2, <3>3 DEF EveryPrimitiveTested
  <2>8. CASE WalkDone
    <3>1. /\ bpc = "walk" /\ bpc' = "done" /\ stack = <<>> /\ work = <<>> /\ work' = work
          /\ UNCHANGED <<nodes, prims, work, deepest, tested>>
      BY <2>1, <2>8 DEF WalkDone
    <3>2. Laid(d, o)'
      BY <2>2, <3>1, LaidStays
    <3>3. ASSUME deepest <= StackSize  PROVE  \A p \in Scene : tested[p] = 1
      <4>1. Walked
        BY <3>1 DEF TreeInv, WalkInv
      <4> QED
        BY <1>1, <2>2, <3>1, <3>3, <4>1, AllCovered
    <3>4. EveryPrimitiveTested'
      BY <3>1, <3>3 DEF EveryPrimitiveTested, Scene
    <3> QED
      BY <3>1, <3>2, <3>4
  <2>9. CASE UNCHANGED bvhVars
    <3>1. UNCHANGED <<bpc, built, prims, nodes, work, deepest, stack, visits, tested>>
      BY <2>9 DEF bvhVars
    <3>2. Laid(d, o)'
      BY <2>2, <3>1, LaidStays
    <3>3. Indices' = Indices /\ Inner' = Inner /\ Scene' = Scene /\ \A i : Children(i)' = Children(i)
      BY <3>1 DEF Indices, Inner, Children, Scene
    <3>4. Covered(d, o) => Covered(d, o)'
      BY <3>1, <3>3 DEF Covered
    <3> QED
      BY <2>1, <2>2, <3>1, <3>2, <3>4 DEF EveryPrimitiveTested
  <2> QED
    BY <2>3, <2>4, <2>5, <2>6, <2>7, <2>8, <2>9 DEF BvhNext
<1> QED
  BY <1>4, <1>5

\* LoadBvh takes what BuildBvh makes exactly if it is within the loader's caps on nodes,
\* primitives and materials, and reckons the depth the builder reported; within the caps
\* the serialiser does not overrun; and the walk of a tree that was loaded and fits its
\* stack tests each primitive once: for any caps, leaves of any size and any choice of
\* where to split.
THEOREM BuiltTreesAreWalked == BvhSpec => []BuiltTreeIsWalked
<1>1. BvhInit => TreeInv
  <2> SUFFICES ASSUME BvhInit  PROVE  TreeInv
    OBVIOUS
  <2>1. WalkInv
    BY InitWalkInv
  <2>2. (bpc = "build" /\ built) \/ (bpc = "load" /\ ~built)
    BY DEF BvhInit, SceneOf, Blob
  <2>3. ASSUME built
        PROVE  prims \in Nat \ {0} /\ palette \in ScenePalettes /\ \E d, o : Laid(d, o)
    <3>1. PICK n \in 1 .. MaxPrims, colours \in ScenePalettes : SceneOf(n, colours)
      BY <2>3 DEF BvhInit, Blob
    <3> QED
      BY <3>1, SceneLaid DEF SceneOf
  <2> QED
    BY <2>1, <2>2, <2>3 DEF TreeInv, EveryPrimitiveTested, OverrunIsOverCaps
<1>2. TreeInv /\ [BvhNext]_bvhVars => TreeInv'
  BY NextTreeInv
<1>3. TreeInv => BuiltTreeIsWalked
  <2> SUFFICES ASSUME TreeInv  PROVE  BuiltTreeLoads
    BY DEF BuiltTreeIsWalked, TreeInv
  <2>1. ASSUME built, bpc = "load"
        PROVE  /\ (Loads <=> WithinCaps)
               /\ \A i \in Indices : DepthOf[i] <= deepest
               /\ \E i \in Indices : DepthOf[i] = deepest
    <3>1. prims \in Nat \ {0} /\ work = <<>> /\ ArrayOK
      BY <2>1 DEF TreeInv, WalkInv
    <3>2. PICK d, o : Laid(d, o)
      BY <2>1 DEF TreeInv
    <3>3. \A i \in Indices : i \notin Waiting
      BY <3>1 DEF Waiting, Listed
    <3>4. /\ \A i \in Indices : d[i] <= deepest
          /\ \E i \in Indices : d[i] = deepest
      BY <3>1, <3>2, <3>3 DEF Laid
    <3>5. StructureChecked
      BY <3>1, <3>2, LaidLoads
    <3>6. MaterialsChecked
      <4>1. palette \in ScenePalettes
        BY <2>1 DEF TreeInv
      <4>2. /\ palette.count \in 1 .. MaxMaterials /\ palette.named < palette.count
            /\ palette.known = TRUE
        BY <4>1 DEF ScenePalettes
      <4> QED
        BY <4>2, BvhAssumption DEF MaterialsChecked
    <3>7. Loads <=> WithinCaps
      BY <3>5, <3>6 DEF Loads
    <3> QED
      BY <3>1, <3>2, <3>4, <3>7, LaidDepth
  <2> QED
    BY <2>1 DEF BuiltTreeLoads
<1> QED
  BY <1>1, <1>2, <1>3, PTL DEF BvhSpec

-----------------------------------------------------------------------------
(* TileRender: the books of a render.                                      *)

AllUnits == UNION {UnitsOf(slices[i]) : i \in DOMAIN slices}

\* A slice is in what its tile has granted.
Within(s, t) == Samples * t <= s.start /\ s.start + s.count <= Samples * t + granted[t]

RenderOK ==
  /\ grid \in Renders
  /\ granted \in [Tiles -> 0 .. Samples]
  /\ slices \in Seq(Slice)
  /\ \A i \in DOMAIN slices :
       slices[i].count > 0 /\ \E t \in Tiles : Within(slices[i], t)

\* That no two slices meet follows from where each tile stands, not from the cursor.
RenderInv == RenderOK /\ RenderBooks

\* The grid has a tile, and a tile a sample.
LEMMA GridHasTiles ==
  ASSUME grid \in Renders
  PROVE  /\ grid[1] \in Nat \ {0} /\ grid[2] \in Nat \ {0} /\ Samples \in Nat \ {0}
         /\ RoundedUp(grid[1]) \in Nat \ {0} /\ RoundedUp(grid[2]) \in Nat \ {0}
         /\ TileCount \in Nat \ {0} /\ Tiles \subseteq Nat
<1>1. grid[1] \in Nat \ {0} /\ grid[2] \in Nat \ {0} /\ Samples \in Nat \ {0}
  BY RenderAssumption DEF Samples
<1>2. ASSUME NEW side \in Nat \ {0}  PROVE  RoundedUp(side) \in Nat \ {0}
  <2> DEFINE s == side + TileSide - 1
             q == s \div TileSide
             r == s % TileSide
  <2>1. TileSide \in Nat \ {0} /\ s \in Nat /\ s >= TileSide
    BY RenderAssumption
  <2>2. s = TileSide * q + r /\ q \in Nat /\ r \in 0 .. (TileSide - 1)
    BY <2>1, Data!DivMod
  <2> HIDE DEF s, q, r
  <2>3. q # 0
    BY <2>1, <2>2
  <2> QED
    BY <2>2, <2>3 DEF RoundedUp, q, s
<1>3. RoundedUp(grid[1]) \in Nat \ {0} /\ RoundedUp(grid[2]) \in Nat \ {0}
  BY <1>1, <1>2
<1>4. ASSUME NEW a \in Nat \ {0}, NEW b \in Nat \ {0}  PROVE  a * b \in Nat \ {0}
  OBVIOUS
<1>5. TileCount \in Nat \ {0}
  BY <1>3, <1>4 DEF TileCount
<1> QED
  BY <1>1, <1>3, <1>5 DEF Tiles

\* The tile of a unit, from where the unit lies.
LEMMA TileOfUnit ==
  ASSUME NEW g \in Nat \ {0}, NEW t \in Nat, NEW u \in Nat, g * t <= u, u < g * t + g
  PROVE  u \div g = t /\ u % g = u - g * t
<1> DEFINE q == u \div g
           r == u % g
           p == g * t
           x == u - p
<1>1. u = g * q + r /\ q \in Nat /\ r \in 0 .. (g - 1)
  BY Data!DivMod
<1>2. p \in Nat /\ x \in 0 .. (g - 1) /\ u = p + x
  OBVIOUS
<1> HIDE DEF q, r, x
<1>3. g * q + r = g * t + x
  BY <1>1, <1>2
<1>4. q = t
  BY <1>1, <1>2, <1>3, Data!QuotientUnique
<1>5. g * q = p
  BY <1>4
<1> HIDE DEF p
<1>6. r = x
  BY <1>1, <1>2, <1>5
<1> QED
  BY <1>4, <1>6 DEF q, r, x, p

\* The units of a slice are of one tile, granted there, and of the job.
LEMMA UnitWithin ==
  ASSUME grid \in Renders, granted \in [Tiles -> 0 .. Samples],
         NEW s \in Slice, NEW t \in Tiles, Within(s, t), NEW u \in UnitsOf(s)
  PROVE  /\ u \in Nat /\ TileOf(u) = t /\ u < Samples * t + granted[t]
         /\ u \in 0 .. (TileCount * Samples - 1)
<1> DEFINE g == Samples
           p == g * t
           e == g * TileCount
<1>1. g \in Nat \ {0} /\ TileCount \in Nat \ {0} /\ t \in Nat /\ t < TileCount
  BY GridHasTiles DEF Tiles
<1>2. s.start \in Nat /\ s.count \in Nat /\ s.start <= u /\ u < s.start + s.count /\ u \in Nat
  BY DEF Slice, UnitsOf
<1>3. granted[t] \in 0 .. g
  OBVIOUS
<1>4. p <= s.start /\ s.start + s.count <= p + granted[t] /\ p \in Nat
  BY <1>1 DEF Within
<1>5. p + g <= e /\ e \in Nat /\ TileCount * Samples = e
  BY <1>1, Data!MultiplesApart
<1> HIDE DEF g, p, e
<1>6. u < p + granted[t] /\ p <= u /\ u < p + g /\ u \in 0 .. (e - 1)
  BY <1>1, <1>2, <1>3, <1>4, <1>5
<1>7. u \div g = t
  BY <1>1, <1>2, <1>6, TileOfUnit DEF p
<1> QED
  BY <1>2, <1>5, <1>6, <1>7 DEF TileOf, g, p

\* The units that were given out are of the job, and can be counted.
LEMMA UnitsOfJob ==
  ASSUME RenderOK
  PROVE  AllUnits \subseteq 0 .. (TileCount * Samples - 1) /\ IsFiniteSet(AllUnits)
<1> DEFINE e == TileCount * Samples
<1>1. ASSUME NEW i \in DOMAIN slices, NEW u \in UnitsOf(slices[i])  PROVE  u \in 0 .. (e - 1)
  <2>1. slices[i] \in Slice
    BY DEF RenderOK
  <2> QED
    BY <1>1, <2>1, UnitWithin DEF RenderOK
<1>2. AllUnits \subseteq 0 .. (e - 1)
  BY <1>1 DEF AllUnits
<1>3. e \in Nat
  BY GridHasTiles DEF RenderOK
<1>4. IsFiniteSet(0 .. (e - 1))
  BY <1>3, FS_Interval
<1> QED
  BY <1>2, <1>4, FS_Subset

\* A step that moves no slice leaves the books as they are.
LEMMA SlicesStay ==
  ASSUME RenderInv, UNCHANGED <<grid, granted, cursor>>,
         slices' \in Seq(Slice), DOMAIN slices' = DOMAIN slices,
         \A i \in DOMAIN slices :
           /\ slices'[i].start = slices[i].start /\ slices'[i].count = slices[i].count
           /\ slices'[i].state = "done" => slices'[i].sequence = 0
  PROVE  RenderInv'
<1>1. /\ Samples' = Samples /\ TileCount' = TileCount /\ Tiles' = Tiles
  BY DEF Samples, TileCount, Tiles, RoundedUp
<1>2. \A i \in DOMAIN slices : UnitsOf(slices'[i]) = UnitsOf(slices[i])
  BY DEF UnitsOf
<1>3. \A i \in DOMAIN slices, t \in Tiles : Within(slices[i], t)' = Within(slices[i], t)
  BY <1>1 DEF Within
<1>4. RenderOK'
  BY <1>1, <1>3 DEF RenderInv, RenderOK
<1>5. SamplesGrantedOnce'
  <2>1. UNION {UnitsOf(slices'[i]) : i \in DOMAIN slices'}
          = UNION {UnitsOf(slices[i]) : i \in DOMAIN slices}
    BY <1>2
  <2>2. \A i \in DOMAIN slices' :
          /\ slices'[i].count > 0 /\ slices'[i].start \div Samples \in Tiles
          /\ \A u \in UnitsOf(slices'[i]) : u \div Samples = slices'[i].start \div Samples
    BY <1>2 DEF RenderInv, RenderBooks, SamplesGrantedOnce, TileOf
  <2>3. \A i, j \in DOMAIN slices' :
          i # j => UnitsOf(slices'[i]) \cap UnitsOf(slices'[j]) = {}
    BY <1>2 DEF RenderInv, RenderBooks, SamplesGrantedOnce
  <2>4. cursor' = Cardinality(UNION {UnitsOf(slices'[i]) : i \in DOMAIN slices'})
    BY <2>1 DEF RenderInv, RenderBooks, SamplesGrantedOnce
  <2> QED
    BY <1>1, <2>2, <2>3, <2>4 DEF SamplesGrantedOnce, UnitsOf, TileOf
<1>6. EvenlyGranted' /\ SnapshotOnlyWhileOpen'
  BY <1>1 DEF RenderInv, RenderBooks, EvenlyGranted, SnapshotOnlyWhileOpen
<1> QED
  BY <1>4, <1>5, <1>6 DEF RenderInv, RenderBooks

\* A slice changed in its state, its holder or its snapshots.
LEMMA SliceTurned ==
  ASSUME RenderInv, UNCHANGED <<grid, granted, cursor>>,
         NEW i \in DOMAIN slices, NEW s \in Slice, slices' = [slices EXCEPT ![i] = s],
         s.start = slices[i].start, s.count = slices[i].count,
         s.state = "done" => s.sequence = 0
  PROVE  RenderInv'
<1>1. slices \in Seq(Slice) /\ SnapshotOnlyWhileOpen
  BY DEF RenderInv, RenderOK, RenderBooks
<1>2. slices' \in Seq(Slice) /\ DOMAIN slices' = DOMAIN slices /\ slices'[i] = s
  BY <1>1
<1>3. \A j \in DOMAIN slices : j # i => slices'[j] = slices[j]
  BY <1>1
<1>4. \A j \in DOMAIN slices :
        /\ slices'[j].start = slices[j].start /\ slices'[j].count = slices[j].count
        /\ slices'[j].state = "done" => slices'[j].sequence = 0
  BY <1>1, <1>2, <1>3 DEF SnapshotOnlyWhileOpen
<1> QED
  BY <1>2, <1>4, SlicesStay

\* A grant from the queue, a lease given back, a snapshot and a result.
LEMMA SliceActionsKeep ==
  ASSUME RenderInv, NEW i \in DOMAIN slices,
         \/ GivenBack(i)
         \/ \E w \in Renderers :
              \/ Regrant(w, i) \/ Complete(w, i)
              \/ \E n \in 1 .. MaxSequence : RecordPartial(w, i, n)
  PROVE  RenderInv'
<1> DEFINE s == slices'[i]
<1>1. slices \in Seq(Slice) /\ slices[i] \in Slice
  BY DEF RenderInv, RenderOK
<1>2. /\ slices[i].start \in Nat /\ slices[i].count \in Nat /\ MaxSequence \in Nat
      /\ slices[i].sequence \in 0 .. MaxSequence /\ slices[i].holder \in Renderers \cup {Nobody}
      /\ slices[i] = [start |-> slices[i].start, count |-> slices[i].count,
                       state |-> slices[i].state, holder |-> slices[i].holder,
                       sequence |-> slices[i].sequence]
  BY <1>1, RenderAssumption DEF Slice
<1>3. ASSUME slices' = [slices EXCEPT ![i] = s], s \in Slice,
             s.start = slices[i].start, s.count = slices[i].count,
             s.state = "done" => s.sequence = 0, UNCHANGED <<grid, granted, cursor>>
      PROVE  RenderInv'
  <2> DEFINE r == s
  <2>1. /\ slices' = [slices EXCEPT ![i] = r] /\ r \in Slice /\ r.start = slices[i].start
        /\ r.count = slices[i].count /\ (r.state = "done" => r.sequence = 0)
    BY <1>3
  <2> HIDE DEF r
  <2> QED
    BY <1>3, <2>1, SliceTurned
<1>4. CASE GivenBack(i)
  <2>1. slices' = [slices EXCEPT ![i] = s]
    BY <1>1, <1>4 DEF GivenBack
  <2>2. s = [slices[i] EXCEPT !.state = "queued", !.holder = Nobody]
    BY <1>1, <1>4 DEF GivenBack
  <2>3. s \in Slice /\ s.start = slices[i].start /\ s.count = slices[i].count /\ s.state = "queued"
    BY <1>1, <1>2, <2>2 DEF Slice
  <2> HIDE DEF s
  <2> QED
    BY <1>3, <1>4, <2>1, <2>3 DEF GivenBack
<1>5. ASSUME NEW w \in Renderers, Regrant(w, i)  PROVE  RenderInv'
  <2>1. slices' = [slices EXCEPT ![i] = s]
    BY <1>1, <1>5 DEF Regrant
  <2>2. s = [slices[i] EXCEPT !.state = "leased", !.holder = w]
    BY <1>1, <1>5 DEF Regrant
  <2>3. s \in Slice /\ s.start = slices[i].start /\ s.count = slices[i].count /\ s.state = "leased"
    BY <1>1, <1>2, <2>2 DEF Slice
  <2> HIDE DEF s
  <2> QED
    BY <1>3, <1>5, <2>1, <2>3 DEF Regrant
<1>6. ASSUME NEW w \in Renderers, Complete(w, i)  PROVE  RenderInv'
  <2>1. slices' = [slices EXCEPT ![i] = s]
    BY <1>1, <1>6 DEF Complete
  <2>2. s = [slices[i] EXCEPT !.state = "done", !.holder = Nobody, !.sequence = 0]
    BY <1>1, <1>6 DEF Complete
  <2>3. s \in Slice /\ s.start = slices[i].start /\ s.count = slices[i].count /\ s.sequence = 0
    <3>1. 0 \in 0 .. MaxSequence
      BY <1>2
    <3> QED
      BY <1>1, <1>2, <2>2, <3>1 DEF Slice
  <2> HIDE DEF s
  <2> QED
    BY <1>3, <1>6, <2>1, <2>3 DEF Complete
<1>7. ASSUME NEW w \in Renderers, NEW n \in 1 .. MaxSequence, RecordPartial(w, i, n)
      PROVE  RenderInv'
  <2>1. slices' = [slices EXCEPT ![i] = s]
    BY <1>1, <1>7 DEF RecordPartial
  <2>2. s = [slices[i] EXCEPT !.sequence = n] /\ slices[i].state = "leased"
    BY <1>1, <1>7 DEF RecordPartial, HoldsLease
  <2>3. s \in Slice /\ s.start = slices[i].start /\ s.count = slices[i].count /\ s.state = "leased"
    <3>1. n \in 0 .. MaxSequence
      BY <1>2
    <3> QED
      BY <1>1, <1>2, <2>2, <3>1 DEF Slice
  <2> HIDE DEF s
  <2> QED
    BY <1>3, <1>7, <2>1, <2>3 DEF RecordPartial
<1> QED
  BY <1>4, <1>5, <1>6, <1>7

\* What is carved lies behind all that its tile has granted, and in front of the
\* tile's end.
LEMMA CarveKeeps ==
  ASSUME RenderInv, NEW w \in Renderers, NEW units \in Sizes, Carve(w, units)
  PROVE  RenderInv'
<1>1. PICK t \in LeastGranted :
        LET start == t * Samples + granted[t]
            n == SliceCount(start, units)
        IN  /\ granted' = [granted EXCEPT ![t] = @ + n]
            /\ cursor' = cursor + n
            /\ slices' = Append(slices, [start |-> start, count |-> n, state |-> "leased",
                                         holder |-> w, sequence |-> 0])
  BY DEF Carve
<1> DEFINE g == Samples
           p == g * t
           start == t * Samples + granted[t]
           n == SliceCount(start, units)
           new == [start |-> start, count |-> n, state |-> "leased", holder |-> w, sequence |-> 0]
           len == Len(slices)
<1>2. /\ g \in Nat \ {0} /\ TileCount \in Nat \ {0} /\ Tiles \subseteq Nat
      /\ granted \in [Tiles -> 0 .. g] /\ slices \in Seq(Slice) /\ grid \in Renders
  BY GridHasTiles DEF RenderInv, RenderOK
<1>3. /\ t \in Tiles /\ t \in Nat /\ granted[t] \in 0 .. (g - 1)
      /\ \A j \in Tiles : granted[j] < Samples => granted[t] <= granted[j]
  BY <1>2 DEF LeastGranted
<1>4. /\ p \in Nat /\ start = p + granted[t] /\ start \in Nat
  BY <1>2, <1>3
<1>5. start % Samples = granted[t]
  <2> HIDE DEF p, start
  <2>1. g * t <= start /\ start < g * t + g /\ start - g * t = granted[t]
    BY <1>2, <1>3, <1>4 DEF p
  <2> QED
    BY <1>2, <1>3, <1>4, <2>1, TileOfUnit
<1>6. n \in 1 .. (g - granted[t])
  <2> DEFINE rest == TileCount * Samples - cursor
  <2>1. cursor \in Nat /\ cursor < TileCount * Samples
    <3>1. cursor = Cardinality(AllUnits)
      BY DEF RenderInv, RenderBooks, SamplesGrantedOnce, AllUnits
    <3> QED
      BY <3>1, UnitsOfJob, FS_CardinalityType DEF RenderInv, Carve
  <2>2. rest \in Nat \ {0}
    BY <1>2, <2>1
  <2>3. units \in Nat \ {0}
    BY RenderAssumption
  <2>4. n = Lesser(Lesser(units, rest), g - granted[t])
    BY <1>5 DEF SliceCount
  <2> HIDE DEF rest, n
  <2> QED
    BY <1>2, <1>3, <2>2, <2>3, <2>4 DEF Lesser
<1>7. /\ granted' = [granted EXCEPT ![t] = @ + n] /\ cursor' = cursor + n
      /\ slices' = Append(slices, new) /\ UNCHANGED grid
  BY <1>1 DEF Carve
<1>8. /\ Samples' = g /\ TileCount' = TileCount /\ Tiles' = Tiles
  BY <1>7 DEF Samples, TileCount, Tiles, RoundedUp
<1> HIDE DEF n, start, p
<1>9. new \in Slice /\ new.count > 0
  BY <1>2, <1>4, <1>6, RenderAssumption DEF Slice
<1>10. /\ new.start = start /\ new.count = n /\ new.state = "leased" /\ new.sequence = 0
  OBVIOUS
<1> HIDE DEF new
<1>11. /\ len \in Nat /\ DOMAIN slices = 1 .. len /\ slices' \in Seq(Slice)
       /\ DOMAIN slices' = 1 .. (len + 1) /\ slices'[len + 1] = new
       /\ \A i \in 1 .. len : slices'[i] = slices[i]
  BY <1>2, <1>7, <1>9
<1> HIDE DEF len
<1>12. /\ granted' \in [Tiles -> 0 .. g] /\ granted'[t] = granted[t] + n
       /\ \A j \in Tiles \ {t} : granted'[j] = granted[j]
  BY <1>2, <1>3, <1>6, <1>7
<1>13. \A j \in Tiles : granted[j] <= granted'[j]
  BY <1>2, <1>3, <1>6, <1>12
<1>14. RenderOK'
  <2> DEFINE Now(s, j) == g * j <= s.start /\ s.start + s.count <= g * j + granted'[j]
  <2>1. ASSUME NEW i \in 1 .. len
        PROVE  slices[i].count > 0 /\ \E j \in Tiles : Now(slices[i], j)
    <3>1. PICK j \in Tiles : Within(slices[i], j)
      BY <1>11 DEF RenderInv, RenderOK
    <3> DEFINE b == g * j
               e == slices[i].start + slices[i].count
    <3>2. slices[i] \in Slice
      BY <1>2, <1>11
    <3>3. slices[i].start \in Nat /\ e \in Nat /\ b \in Nat
      BY <1>2, <3>2 DEF Slice
    <3>4. b <= slices[i].start /\ e <= b + granted[j]
      BY <3>1 DEF Within
    <3> HIDE DEF b, e
    <3>5. granted[j] \in Nat /\ granted'[j] \in Nat /\ granted[j] <= granted'[j]
      BY <1>2, <1>12, <1>13
    <3>6. e <= b + granted'[j]
      BY <3>3, <3>4, <3>5
    <3>7. Now(slices[i], j)
      BY <3>4, <3>6 DEF b, e
    <3> QED
      BY <1>11, <3>7 DEF RenderInv, RenderOK
  <2>2. Now(new, t)
    <3>1. p <= start /\ start + n <= p + granted'[t]
      BY <1>3, <1>4, <1>6, <1>12
    <3> QED
      BY <1>10, <3>1 DEF p
  <2>3. \A i \in DOMAIN slices' :
          slices'[i].count > 0 /\ \E j \in Tiles : Now(slices'[i], j)
    <3> HIDE DEF Now
    <3> SUFFICES ASSUME NEW i \in 1 .. (len + 1)
                 PROVE  slices'[i].count > 0 /\ \E j \in Tiles : Now(slices'[i], j)
      BY <1>11
    <3>1. i \in 1 .. len \/ i = len + 1
      BY <1>11
    <3>2. CASE i \in 1 .. len
      BY <1>11, <2>1, <3>2
    <3>3. CASE i = len + 1
      BY <1>3, <1>9, <1>11, <2>2, <3>3
    <3> QED
      BY <3>1, <3>2, <3>3
  <2>4. \A i \in DOMAIN slices' :
          slices'[i].count > 0 /\ \E j \in Tiles' : Within(slices[i], j)'
    BY <1>8, <2>3 DEF Within
  <2> QED
    BY <1>2, <1>7, <1>8, <1>11, <1>12, <2>4 DEF RenderOK
<1>15. ASSUME NEW i \in 1 .. len, NEW u \in UnitsOf(slices[i]), u \in UnitsOf(new)  PROVE  FALSE
  <2>1. PICK j \in Tiles : Within(slices[i], j)
    BY <1>11 DEF RenderInv, RenderOK
  <2>2. slices[i] \in Slice
    BY <1>2, <1>11
  <2>3. u \in Nat /\ TileOf(u) = j /\ u < Samples * j + granted[j]
    BY <1>2, <2>1, <2>2, UnitWithin
  <2>4. start <= u /\ u < start + n
    BY <1>4, <1>6, <1>10, <1>15, <2>3 DEF UnitsOf
  <2>5. p <= u /\ u < p + g /\ p + granted[t] <= u
    BY SMTT(30), <1>2, <1>3, <1>4, <1>6, <2>3, <2>4
  <2>6. u \div g = t
    <3>1. g * t <= u /\ u < g * t + g
      BY <2>5 DEF p
    <3> QED
      BY <1>2, <1>3, <2>3, <3>1, TileOfUnit
  <2>7. j = t
    BY <2>3, <2>6 DEF TileOf
  <2>8. u < p + granted[t]
    BY <2>3, <2>7 DEF p
  <2> QED
    BY <1>3, <1>4, <2>3, <2>5, <2>8
<1>16. \A i, j \in 1 .. (len + 1) :
         i # j => UnitsOf(slices'[i]) \cap UnitsOf(slices'[j]) = {}
  <2>1. \A i, j \in 1 .. len : i # j => UnitsOf(slices[i]) \cap UnitsOf(slices[j]) = {}
    BY <1>11 DEF RenderInv, RenderBooks, SamplesGrantedOnce
  <2>2. \A i \in 1 .. len : UnitsOf(slices[i]) \cap UnitsOf(new) = {}
    BY <1>15
  <2>3. \A i \in 1 .. (len + 1) : i \in 1 .. len \/ i = len + 1
    BY <1>11
  <2> QED
    BY <1>11, <2>1, <2>2, <2>3
<1>17. cursor' = Cardinality(UNION {UnitsOf(slices'[i]) : i \in DOMAIN slices'})
  <2>1. AllUnits' = AllUnits \cup UnitsOf(new)
    <3>1. \A i : i \in 1 .. (len + 1) <=> i \in 1 .. len \/ i = len + 1
      BY <1>11
    <3>2. \A u : (\E i \in 1 .. (len + 1) : u \in UnitsOf(slices'[i]))
                   <=> (\E i \in 1 .. len : u \in UnitsOf(slices[i])) \/ u \in UnitsOf(new)
      BY <1>11, <3>1
    <3> QED
      BY <1>11, <3>2 DEF AllUnits, UnitsOf
  <2>2. AllUnits \cap UnitsOf(new) = {}
    BY <1>11, <1>15 DEF AllUnits
  <2>3. IsFiniteSet(UnitsOf(new)) /\ Cardinality(UnitsOf(new)) = n
    <3>1. start \in Int /\ start + n - 1 \in Int /\ UnitsOf(new) = start .. (start + n - 1)
      BY <1>4, <1>6, <1>10 DEF UnitsOf
    <3>2. n = IF start > start + n - 1 THEN 0 ELSE (start + n - 1) - start + 1
      BY <1>4, <1>6
    <3> QED
      BY <3>1, <3>2, FS_Interval
  <2>4. IsFiniteSet(AllUnits) /\ cursor = Cardinality(AllUnits) /\ cursor \in Nat
    BY UnitsOfJob, FS_CardinalityType DEF RenderInv, RenderBooks, SamplesGrantedOnce, AllUnits
  <2>5. Cardinality(AllUnits \cup UnitsOf(new)) = cursor + n - Cardinality({})
    BY <2>2, <2>3, <2>4, FS_Union
  <2>6. Cardinality({}) = 0
    BY FS_EmptySet
  <2>7. cursor' = Cardinality(AllUnits')
    BY <1>6, <1>7, <2>1, <2>4, <2>5, <2>6
  <2> QED
    BY <2>7 DEF AllUnits, UnitsOf
<1>18. \A i \in 1 .. (len + 1) :
         /\ slices'[i].count > 0 /\ slices'[i].start \div g \in Tiles
         /\ \A u \in UnitsOf(slices'[i]) : u \div g = slices'[i].start \div g
  <2>1. ASSUME NEW u \in start .. (start + n - 1)  PROVE  u \div g = t
    <3>1. u \in Nat /\ p <= u /\ u < p + g
      BY <1>2, <1>3, <1>4, <1>6
    <3>2. g * t <= u /\ u < g * t + g
      BY <3>1 DEF p
    <3> QED
      BY <1>2, <1>3, <3>1, <3>2, TileOfUnit
  <2>2. start \in start .. (start + n - 1)
    BY <1>4, <1>6
  <2>3. UnitsOf(new) = start .. (start + n - 1)
    BY <1>10 DEF UnitsOf
  <2>4. /\ new.count > 0 /\ new.start \div g \in Tiles
        /\ \A u \in UnitsOf(new) : u \div g = new.start \div g
    BY <1>3, <1>9, <1>10, <2>1, <2>2, <2>3
  <2>5. \A i \in 1 .. len :
          /\ slices[i].count > 0 /\ slices[i].start \div g \in Tiles
          /\ \A u \in UnitsOf(slices[i]) : u \div g = slices[i].start \div g
    BY <1>11 DEF RenderInv, RenderBooks, SamplesGrantedOnce, TileOf
  <2>6. \A i \in 1 .. (len + 1) : i \in 1 .. len \/ i = len + 1
    BY <1>11
  <2> QED
    BY <1>11, <2>4, <2>5, <2>6
<1>19. SamplesGrantedOnce'
  BY <1>8, <1>11, <1>16, <1>17, <1>18 DEF SamplesGrantedOnce, TileOf, UnitsOf
<1>20. EvenlyGranted'
  <2>1. ASSUME NEW i \in 1 .. (len + 1), NEW j \in Tiles, granted'[j] < g
        PROVE  slices'[i].start % g <= granted'[j]
    <3>1. granted[j] \in 0 .. g /\ granted'[j] \in 0 .. g /\ granted[j] <= granted'[j]
      BY <1>2, <1>12, <1>13
    <3>2. granted[j] < g /\ granted[t] <= granted[j]
      BY <1>2, <1>3, <2>1, <3>1
    <3>3. CASE i \in 1 .. len
      <4>1. slices[i] \in Slice /\ slices[i].start \in Nat
        <5>1. slices[i] \in Slice
          BY <1>2, <1>11, <3>3
        <5> QED
          BY <5>1 DEF Slice
      <4>2. slices[i].start % g <= granted[j] /\ slices[i].start % g \in Nat
        <5>1. slices[i].start % g <= granted[j]
          BY <1>11, <3>2, <3>3 DEF RenderInv, RenderBooks, EvenlyGranted
        <5>2. slices[i].start % g \in 0 .. (g - 1)
          BY <1>2, <4>1, Data!DivMod
        <5> QED
          BY <1>2, <5>1, <5>2
      <4> QED
        BY <1>11, <3>1, <3>3, <4>2
    <3>4. CASE i = len + 1
      BY <1>3, <1>5, <1>10, <1>11, <3>1, <3>2, <3>4
    <3> QED
      BY <1>11, <3>3, <3>4
  <2> QED
    BY <1>8, <1>11, <2>1 DEF EvenlyGranted
<1>21. SnapshotOnlyWhileOpen'
  <2>1. \A i \in 1 .. (len + 1) : i \in 1 .. len \/ i = len + 1
    BY <1>11
  <2> QED
    BY <1>10, <1>11, <2>1 DEF RenderInv, RenderBooks, SnapshotOnlyWhileOpen
<1> QED
  BY <1>14, <1>19, <1>20, <1>21 DEF RenderInv, RenderBooks

\* Every step keeps the books.
LEMMA NextRenderInv ==
  ASSUME RenderInv, [RenderNext]_renderVars  PROVE  RenderInv'
<1>1. CASE UNCHANGED renderVars
  BY <1>1 DEF renderVars, RenderInv, RenderOK, RenderBooks, SamplesGrantedOnce, EvenlyGranted,
              SnapshotOnlyWhileOpen, Within, Samples, Tiles, TileCount, RoundedUp, TileOf, UnitsOf
<1>2. ASSUME NEW w \in Renderers, NEW units \in Sizes, Carve(w, units)  PROVE  RenderInv'
  BY <1>2, CarveKeeps
<1>3. ASSUME NEW i \in DOMAIN slices,
             \/ GivenBack(i)
             \/ \E w \in Renderers :
                  \/ Regrant(w, i) \/ Complete(w, i)
                  \/ \E n \in 1 .. MaxSequence : RecordPartial(w, i, n)
      PROVE  RenderInv'
  BY <1>3, SliceActionsKeep
<1> QED
  BY <1>1, <1>2, <1>3 DEF RenderNext

\* What a render starts from.
LEMMA InitRenderInv == RenderInit => RenderInv
<1> SUFFICES ASSUME NEW r \in Renders, RenderOf(r)  PROVE  RenderInv
  BY DEF RenderInit
<1>1. /\ grid = r /\ granted = [i \in Tiles |-> 0] /\ cursor = 0 /\ slices = <<>>
  BY DEF RenderOf
<1>2. DOMAIN slices = {} /\ slices \in Seq(Slice)
  BY <1>1
<1>3. granted \in [Tiles -> 0 .. Samples]
  <2>1. Samples \in Nat
    BY <1>1, GridHasTiles
  <2> QED
    BY <1>1, <2>1
<1>4. cursor = Cardinality(UNION {UnitsOf(slices[i]) : i \in DOMAIN slices})
  <2>1. UNION {UnitsOf(slices[i]) : i \in DOMAIN slices} = {}
    BY <1>2
  <2> QED
    BY <1>1, <2>1, FS_EmptySet
<1> QED
  BY <1>1, <1>2, <1>3, <1>4 DEF RenderInv, RenderOK, RenderBooks, SamplesGrantedOnce,
                                EvenlyGranted, SnapshotOnlyWhileOpen

\* Every sample of every tile is given out at most once and evenly, and no snapshot
\* is kept of a task that is done, for images and tiles of every size and any number
\* of workers, however often a task changes hands.
THEOREM RendersBookRight == RenderSpec => []RenderBooks
<1>1. RenderInit => RenderInv
  BY InitRenderInv
<1>2. RenderInv /\ [RenderNext]_renderVars => RenderInv'
  BY NextRenderInv
<1>3. RenderInv => RenderBooks
  BY DEF RenderInv
<1> QED
  BY <1>1, <1>2, <1>3, PTL DEF RenderSpec

-----------------------------------------------------------------------------
(* TileRender: the picture.                                                *)

\* A finished task has left its units in the image.
PictureInv ==
  /\ RenderInv
  /\ DOMAIN image = Tiles
  /\ \A i \in DOMAIN slices :
       slices[i].state = "done" => image[slices[i].start \div Samples] # {}

\* A span of c-th place in a row of spans, clipped at the end of the row.
Span(c, side) == c * TileSide .. (c * TileSide + Lesser(TileSide, side - c * TileSide) - 1)

\* A point of a span is of the row, and its place is the span's.
LEMMA SpanHas ==
  ASSUME NEW side \in Nat \ {0}, NEW c \in Nat, NEW x \in Span(c, side)
  PROVE  x \in 0 .. (side - 1) /\ x \div TileSide = c
<1> DEFINE p == TileSide * c
<1>1. TileSide \in Nat \ {0}
  BY RenderAssumption
<1>2. p \in Nat /\ c * TileSide = p
  BY <1>1
<1>3. x \in p .. (p + Lesser(TileSide, side - p) - 1)
  BY <1>2 DEF Span
<1> HIDE DEF p
<1>4. /\ x \in Nat /\ p <= x /\ x < p + TileSide /\ x < side
  BY <1>1, <1>2, <1>3 DEF Lesser
<1>5. x \div TileSide = c
  BY <1>1, <1>4, TileOfUnit DEF p
<1> QED
  BY <1>4, <1>5

\* A point of the row is of a span, and there are enough of those.
LEMMA SpanOf ==
  ASSUME NEW side \in Nat \ {0}, NEW x \in 0 .. (side - 1)
  PROVE  /\ x \in Span(x \div TileSide, side)
         /\ x \div TileSide \in 0 .. (RoundedUp(side) - 1)
<1> DEFINE g == TileSide
           c == x \div g
           r == x % g
           p == g * c
           s == side + g - 1
           q == s \div g
           y == s % g
           e == g * q
<1>1. g \in Nat \ {0} /\ x \in Nat /\ x < side /\ s \in Nat
  BY RenderAssumption
<1>2. x = p + r /\ c \in Nat /\ r \in 0 .. (g - 1)
  BY <1>1, Data!DivMod
<1>3. s = e + y /\ q \in Nat /\ y \in 0 .. (g - 1)
  BY <1>1, Data!DivMod
<1>4. p \in Nat /\ e \in Nat
  BY <1>1, <1>2, <1>3
<1>5. c * TileSide = p
  BY <1>1, <1>2
<1> HIDE DEF c, r, q, y, p, e
<1>6. c < q
  <2> SUFFICES ASSUME ~(c < q)  PROVE  FALSE
    OBVIOUS
  <2>1. e <= p
    <3>1. q < c => g * q + g <= g * c
      BY <1>1, <1>2, <1>3, Data!MultiplesApart
    <3>2. q < c => e + g <= p
      BY <3>1 DEF e, p
    <3>3. q = c => e = p
      BY DEF e, p
    <3> QED
      BY <1>1, <1>2, <1>3, <1>4, <3>2, <3>3
  <2> QED
    BY <1>1, <1>2, <1>3, <1>4, <2>1
<1>7. x \in p .. (p + Lesser(g, side - p) - 1)
  BY <1>1, <1>2, <1>4 DEF Lesser
<1>8. x \in Span(c, side)
  BY <1>5, <1>7 DEF Span
<1>9. c \in 0 .. (q - 1)
  BY <1>2, <1>3, <1>6
<1> QED
  BY <1>8, <1>9 DEF c, q, RoundedUp

\* The pixels of a tile.
Box(i) == Span(i % RoundedUp(grid[1]), grid[1]) \X Span(i \div RoundedUp(grid[1]), grid[2])

\* What is painted of a tile that has samples.
LEMMA PaintedBox ==
  ASSUME NEW i, image[i] # {}  PROVE  Painted(i) = Box(i)
BY DEF Painted, Box, Span, TileAt

\* The tiles cover the image, and no two of them share a pixel.
LEMMA TilesPartition ==
  ASSUME grid \in Renders
  PROVE  /\ UNION {Box(i) : i \in Tiles} = (0 .. (grid[1] - 1)) \X (0 .. (grid[2] - 1))
         /\ \A i, j \in Tiles : i # j => Box(i) \cap Box(j) = {}
<1> DEFINE W == grid[1]
           H == grid[2]
           R == RoundedUp(W)
           C == RoundedUp(H)
<1>1. /\ W \in Nat \ {0} /\ H \in Nat \ {0} /\ R \in Nat \ {0} /\ C \in Nat \ {0}
      /\ Tiles = 0 .. (R * C - 1) /\ Tiles \subseteq Nat
  BY GridHasTiles DEF Tiles, TileCount
<1>2. \A i : Box(i) = Span(i % R, W) \X Span(i \div R, H)
  BY DEF Box
<1> HIDE DEF W, H, R, C
<1>3. ASSUME NEW i \in Tiles
      PROVE  i % R \in Nat /\ i \div R \in Nat /\ i = R * (i \div R) + (i % R)
  <2>1. i \in Nat
    BY <1>1
  <2>2. i = R * (i \div R) + (i % R) /\ i \div R \in Nat /\ i % R \in 0 .. (R - 1)
    BY <1>1, <2>1, Data!DivMod
  <2> QED
    BY <1>1, <2>2
<1>4. ASSUME NEW i \in Tiles, NEW x, NEW y, <<x, y>> \in Box(i)
      PROVE  /\ x \in 0 .. (W - 1) /\ x \div TileSide = i % R
             /\ y \in 0 .. (H - 1) /\ y \div TileSide = i \div R
  <2>1. x \in Span(i % R, W) /\ y \in Span(i \div R, H)
    BY <1>2, <1>4
  <2> QED
    BY <1>1, <1>3, <2>1, SpanHas
<1>5. ASSUME NEW x \in 0 .. (W - 1), NEW y \in 0 .. (H - 1)
      PROVE  \E i \in Tiles : <<x, y>> \in Box(i)
  <2> DEFINE a == x \div TileSide
             b == y \div TileSide
             i == R * b + a
  <2>1. /\ x \in Span(a, W) /\ a \in 0 .. (R - 1)
        /\ y \in Span(b, H) /\ b \in 0 .. (C - 1)
    BY <1>1, SpanOf DEF R, C
  <2> HIDE DEF a, b
  <2>2. b \in Nat /\ b < C /\ a \in Nat /\ a < R
    BY <1>1, <2>1
  <2>3. i \in Nat /\ i < R * C
    <3> DEFINE p == R * b
               e == R * C
    <3>1. p + R <= e /\ p \in Nat /\ e \in Nat
      BY <1>1, <2>2, Data!MultiplesApart
    <3> HIDE DEF p, e
    <3>2. p + a \in Nat /\ p + a < e
      BY <1>1, <2>2, <3>1
    <3> QED
      BY <3>2 DEF p, e
  <2>4. i \div R = b /\ i % R = a
    <3> DEFINE p == R * b
    <3>1. p \in Nat /\ i = p + a
      BY <1>1, <2>2
    <3> HIDE DEF p, i
    <3>2. p <= i /\ i < p + R /\ i - p = a
      BY <1>1, <2>2, <3>1
    <3> QED
      BY <1>1, <2>2, <2>3, <3>2, TileOfUnit DEF p
  <2>5. i \in Tiles
    BY <1>1, <2>3
  <2> HIDE DEF i
  <2>6. <<x, y>> \in Box(i)
    BY <1>2, <2>1, <2>4
  <2> QED
    BY <2>5, <2>6
<1>6. UNION {Box(i) : i \in Tiles} = (0 .. (W - 1)) \X (0 .. (H - 1))
  <2>1. ASSUME NEW i \in Tiles, NEW z \in Box(i)  PROVE  z \in (0 .. (W - 1)) \X (0 .. (H - 1))
    <3>1. PICK x \in Span(i % R, W), y \in Span(i \div R, H) : z = <<x, y>>
      BY <1>2
    <3> QED
      BY <1>4, <2>1, <3>1
  <2>2. ASSUME NEW z \in (0 .. (W - 1)) \X (0 .. (H - 1))  PROVE  \E i \in Tiles : z \in Box(i)
    <3>1. PICK x \in 0 .. (W - 1), y \in 0 .. (H - 1) : z = <<x, y>>
      OBVIOUS
    <3> QED
      BY <1>5, <3>1
  <2> QED
    BY <2>1, <2>2
<1>7. ASSUME NEW i \in Tiles, NEW j \in Tiles, NEW z, z \in Box(i), z \in Box(j)  PROVE  i = j
  <2>1. PICK x \in Span(i % R, W), y \in Span(i \div R, H) : z = <<x, y>>
    BY <1>2, <1>7
  <2>2. i % R = j % R /\ i \div R = j \div R
    BY <1>4, <1>7, <2>1
  <2> QED
    BY <1>3, <2>2
<1> QED
  BY <1>6, <1>7 DEF W, H

\* A result puts its units where its tile is, and nothing else touches the image.
LEMMA NextPictureInv ==
  ASSUME PictureInv, [RenderNext]_renderVars  PROVE  PictureInv'
<1>1. RenderInv /\ RenderInv'
  BY NextRenderInv DEF PictureInv
<1>2. /\ DOMAIN image = Tiles /\ slices \in Seq(Slice) /\ grid \in Renders
      /\ \A i \in DOMAIN slices :
           slices[i].state = "done" => image[slices[i].start \div Samples] # {}
  BY DEF PictureInv, RenderInv, RenderOK
<1>3. grid' = grid => Tiles' = Tiles /\ Samples' = Samples
  BY DEF Tiles, TileCount, RoundedUp, Samples
<1>4. ASSUME UNCHANGED <<grid, image>>,
             \A i \in DOMAIN slices' : slices'[i].state = "done" =>
               i \in DOMAIN slices /\ slices[i].state = "done" /\ slices'[i].start = slices[i].start
      PROVE  PictureInv'
  BY <1>1, <1>2, <1>3, <1>4 DEF PictureInv
<1>5. CASE UNCHANGED renderVars
  BY <1>4, <1>5 DEF renderVars
<1>6. ASSUME NEW w \in Renderers, NEW units \in Sizes, Carve(w, units)  PROVE  PictureInv'
  <2>1. PICK start, n :
          slices' = Append(slices, [start |-> start, count |-> n, state |-> "leased",
                                    holder |-> w, sequence |-> 0])
    BY <1>6 DEF Carve
  <2> DEFINE new == [start |-> start, count |-> n, state |-> "leased",
                     holder |-> w, sequence |-> 0]
             len == Len(slices)
  <2>2. slices' = Append(slices, new) /\ new.state = "leased"
    BY <2>1
  <2> HIDE DEF new
  <2>3. /\ len \in Nat /\ DOMAIN slices = 1 .. len /\ DOMAIN slices' = 1 .. (len + 1)
        /\ slices'[len + 1] = new /\ \A i \in 1 .. len : slices'[i] = slices[i]
    BY <1>2, <2>2
  <2> HIDE DEF len
  <2>4. \A i \in 1 .. (len + 1) : i \in 1 .. len \/ i = len + 1
    BY <2>3
  <2>5. \A i \in DOMAIN slices' : slices'[i].state = "done" => i \in DOMAIN slices
    BY <2>2, <2>3, <2>4
  <2> QED
    BY <1>4, <1>6, <2>3, <2>5 DEF Carve
<1>7. ASSUME NEW i \in DOMAIN slices,
             \/ GivenBack(i)
             \/ \E w \in Renderers :
                  \/ Regrant(w, i)
                  \/ \E n \in 1 .. MaxSequence : RecordPartial(w, i, n)
      PROVE  PictureInv'
  <2>1. /\ UNCHANGED <<grid, image>> /\ DOMAIN slices' = DOMAIN slices
        /\ slices'[i].state # "done" /\ \A j \in DOMAIN slices : j # i => slices'[j] = slices[j]
    <3>1. slices \in Seq(Slice) /\ slices[i] \in Slice
      BY <1>2
    <3>2. CASE GivenBack(i)
      <4>1. slices'[i] = [slices[i] EXCEPT !.state = "queued", !.holder = Nobody]
        BY <3>1, <3>2 DEF GivenBack
      <4>2. slices'[i].state = "queued"
        BY <3>1, <4>1 DEF Slice
      <4> QED
        BY <3>1, <3>2, <4>2 DEF GivenBack
    <3>3. ASSUME NEW w \in Renderers, Regrant(w, i)
          PROVE  /\ UNCHANGED <<grid, image>> /\ DOMAIN slices' = DOMAIN slices
                 /\ slices'[i].state # "done"
                 /\ \A j \in DOMAIN slices : j # i => slices'[j] = slices[j]
      <4>1. slices'[i] = [slices[i] EXCEPT !.state = "leased", !.holder = w]
        BY <3>1, <3>3 DEF Regrant
      <4>2. slices'[i].state = "leased"
        BY <3>1, <4>1 DEF Slice
      <4> QED
        BY <3>1, <3>3, <4>2 DEF Regrant
    <3>4. ASSUME NEW w \in Renderers, NEW n \in 1 .. MaxSequence, RecordPartial(w, i, n)
          PROVE  /\ UNCHANGED <<grid, image>> /\ DOMAIN slices' = DOMAIN slices
                 /\ slices'[i].state # "done"
                 /\ \A j \in DOMAIN slices : j # i => slices'[j] = slices[j]
      <4>1. slices'[i] = [slices[i] EXCEPT !.sequence = n]
        BY <3>1, <3>4 DEF RecordPartial
      <4>2. slices'[i].state = "leased"
        BY <3>1, <3>4, <4>1 DEF Slice, RecordPartial, HoldsLease
      <4> QED
        BY <3>1, <3>4, <4>2 DEF RecordPartial
    <3> QED
      BY <1>7, <3>2, <3>3, <3>4
  <2> QED
    BY <1>4, <2>1
<1>8. ASSUME NEW i \in DOMAIN slices, NEW w \in Renderers, Complete(w, i)  PROVE  PictureInv'
  <2> DEFINE t == TileOf(slices[i].start)
             units == UnitsOf(slices[i])
  <2>1. t \in Tiles /\ units # {}
    <3>1. slices[i] \in Slice /\ slices[i].count > 0 /\ t \in Tiles
      BY <1>1, <1>2 DEF RenderInv, RenderBooks, SamplesGrantedOnce
    <3>2. slices[i].start \in Nat /\ slices[i].count \in Nat \ {0}
      BY <3>1 DEF Slice
    <3>3. slices[i].start \in units
      BY <3>2 DEF UnitsOf
    <3> QED
      BY <3>1, <3>3
  <2>2. image' = [image EXCEPT ![t] = units]
    BY <1>8, <2>1 DEF Complete, AcceptTile, OutputSize
  <2> HIDE DEF units
  <2>3. /\ UNCHANGED grid /\ DOMAIN slices' = DOMAIN slices
        /\ slices'[i].start = slices[i].start
        /\ \A j \in DOMAIN slices : j # i => slices'[j] = slices[j]
    <3>1. slices \in Seq(Slice) /\ slices[i] \in Slice
      BY <1>2
    <3>2. slices'[i] = [slices[i] EXCEPT !.state = "done", !.holder = Nobody, !.sequence = 0]
      BY <1>8, <3>1 DEF Complete
    <3>3. slices'[i].start = slices[i].start
      BY <3>1, <3>2 DEF Slice
    <3> QED
      BY <1>8, <3>1, <3>3 DEF Complete
  <2>4. ASSUME NEW j \in DOMAIN slices, slices'[j].state = "done"
        PROVE  image'[slices'[j].start \div Samples] # {}
    <3>1. CASE j = i
      BY <1>2, <2>1, <2>2, <2>3, <3>1 DEF TileOf
    <3>2. CASE j # i
      <4>1. slices'[j] = slices[j] /\ image[slices[j].start \div Samples] # {}
        BY <1>2, <2>3, <2>4, <3>2
      <4>2. slices[j].start \div Samples \in Tiles
        BY <1>1 DEF RenderInv, RenderBooks, SamplesGrantedOnce, TileOf
      <4> QED
        BY <1>2, <2>1, <2>2, <4>1, <4>2
    <3> QED
      BY <3>1, <3>2
  <2>5. DOMAIN image' = Tiles
    BY <1>2, <2>2
  <2> QED
    BY <1>1, <1>3, <2>3, <2>4, <2>5 DEF PictureInv
<1> QED
  BY <1>5, <1>6, <1>7, <1>8 DEF RenderNext

\* Once all is granted, every tile has a slice: as many different units as there are
\* are all of them.
LEMMA EveryTileCarved ==
  ASSUME RenderInv, cursor = TileCount * Samples, NEW t \in Tiles
  PROVE  \E i \in DOMAIN slices : slices[i].start \div Samples = t
<1> DEFINE e == TileCount * Samples
           u == Samples * t
<1>1. /\ Samples \in Nat \ {0} /\ TileCount \in Nat \ {0} /\ t \in Nat /\ t < TileCount
  BY GridHasTiles DEF RenderInv, RenderOK, Tiles
<1>2. AllUnits \subseteq 0 .. (e - 1)
  BY UnitsOfJob DEF RenderInv
<1>3. e \in Nat \ {0} /\ u \in Nat /\ u + Samples <= e
  <2>1. Samples * t + Samples <= Samples * TileCount
    BY <1>1, Data!MultiplesApart
  <2> QED
    BY <1>1, <2>1
<1>4. u \div Samples = t
  BY <1>1, <1>3, TileOfUnit
<1> HIDE DEF e, u
<1>5. IsFiniteSet(0 .. (e - 1)) /\ Cardinality(0 .. (e - 1)) = e
  BY <1>3, FS_Interval
<1>6. Cardinality(AllUnits) = e
  BY DEF RenderInv, RenderBooks, SamplesGrantedOnce, AllUnits, e
<1>7. AllUnits = 0 .. (e - 1)
  BY <1>2, <1>5, <1>6, FS_Subset
<1>8. u \in AllUnits
  BY <1>1, <1>3, <1>7
<1>9. PICK i \in DOMAIN slices : u \in UnitsOf(slices[i])
  BY <1>8 DEF AllUnits
<1> QED
  BY <1>4, <1>9 DEF RenderInv, RenderBooks, SamplesGrantedOnce, TileOf

\* A render whose tasks are all done has painted every pixel of the image, each by
\* one tile, whatever the sides of the image and of its tiles.
THEOREM PicturesAreWhole == RenderSpec => []PictureIsWhole
<1>1. RenderInit => PictureInv
  <2> SUFFICES ASSUME NEW r \in Renders, RenderOf(r)  PROVE  PictureInv
    BY DEF RenderInit
  <2>1. RenderInv
    BY InitRenderInv DEF RenderInit
  <2>2. DOMAIN image = Tiles /\ slices = <<>>
    BY DEF RenderOf
  <2> QED
    BY <2>1, <2>2 DEF PictureInv
<1>2. PictureInv /\ [RenderNext]_renderVars => PictureInv'
  BY NextPictureInv
<1>3. PictureInv => PictureIsWhole
  <2> SUFFICES ASSUME PictureInv  PROVE  PictureIsWhole
    OBVIOUS
  <2>1. RenderInv /\ grid \in Renders
    BY DEF PictureInv, RenderInv, RenderOK
  <2>2. /\ UNION {Box(i) : i \in Tiles} = (0 .. (grid[1] - 1)) \X (0 .. (grid[2] - 1))
        /\ \A i, j \in Tiles : i # j => Box(i) \cap Box(j) = {}
    BY <2>1, TilesPartition
  <2>3. ASSUME cursor = TileCount * Samples, \A s \in DOMAIN slices : slices[s].state = "done",
               NEW t \in Tiles
        PROVE  Painted(t) = Box(t)
    <3>1. PICK i \in DOMAIN slices : slices[i].start \div Samples = t
      BY <2>1, <2>3, EveryTileCarved
    <3> QED
      BY <2>3, <3>1, PaintedBox DEF PictureInv
  <2>4. \A t \in Tiles : Painted(t) \subseteq Box(t)
    BY PaintedBox DEF Painted
  <2>5. \A i, j \in Tiles : i # j => Painted(i) \cap Painted(j) = {}
    BY <2>2, <2>4
  <2>6. /\ cursor = TileCount * Samples
        /\ \A s \in DOMAIN slices : slices[s].state = "done"
        => UNION {Painted(i) : i \in Tiles} = UNION {Box(i) : i \in Tiles}
    BY <2>3
  <2> QED
    BY <2>2, <2>5, <2>6 DEF PictureIsWhole
<1> QED
  BY <1>1, <1>2, <1>3, PTL DEF RenderSpec

-----------------------------------------------------------------------------
(* Validator: what a verdict says.                                         *)

\* What was compared is what the verdict is about.
Compared ==
  comparison # <<>> =>
    \E class \in {"Exact", "Tolerant"}, a, b \in Payloads :
      comparison = [class |-> class, a |-> a, b |-> b, verdict |-> Compare(class, a, b)]

\* The magnitude is the pattern without its sign bit.
LEMMA MagnitudeIs ==
  ASSUME NEW x \in Floats
  PROVE  /\ Sign \in Nat /\ Infinite \in Nat /\ x \in 0 .. (2 * Sign - 1)
         /\ x < Sign => Magnitude(x) = x
         /\ ~(x < Sign) => Magnitude(x) = x - Sign
         /\ Magnitude(x) \in 0 .. (Sign - 1)
BY FormatAssumption DEF Floats, UlpLimit, Magnitude

\* The value of a number is the one of its magnitude, or its opposite.
LEMMA ValueIs ==
  ASSUME NEW x \in Floats, IsFinite(x)
  PROVE  /\ Magnitude(x) \in 0 .. (Infinite - 1) /\ Scale[Magnitude(x)] \in Nat
         /\ x < Sign => Value(x) = Scale[Magnitude(x)]
         /\ ~(x < Sign) => Value(x) = -Scale[Magnitude(x)]
         /\ Value(x) \in Int
<1>1. Magnitude(x) \in 0 .. (Infinite - 1)
  BY MagnitudeIs DEF IsFinite
<1>2. Scale[Magnitude(x)] \in Nat
  BY <1>1, FormatAssumption
<1> QED
  BY <1>1, <1>2 DEF Value

\* Magnitudes are in the order of their values.
LEMMA ScaleOrders ==
  ASSUME NEW m \in 0 .. (Infinite - 1), NEW n \in 0 .. (Infinite - 1)
  PROVE  /\ Scale[m] \in Nat /\ Scale[n] \in Nat
         /\ m < n <=> Scale[m] < Scale[n]
         /\ m = n <=> Scale[m] = Scale[n]
<1>1. Scale[m] \in Nat /\ Scale[n] \in Nat
  BY FormatAssumption
<1>2. (m < n => Scale[m] < Scale[n]) /\ (n < m => Scale[n] < Scale[m])
  BY FormatAssumption
<1>3. m < n \/ m = n \/ n < m
  BY FormatAssumption
<1> QED
  BY <1>1, <1>2, <1>3

\* A float is within every tolerance of itself.
LEMMA NoneDiffersFromItself ==
  ASSUME NEW x \in Floats  PROVE  ~Differs(x, x)
<1> SUFFICES ASSUME IsFinite(x)  PROVE  ~Exceeds(x, x)
  BY DEF Differs, Exceeds
<1> DEFINE d == Distance(Value(x), 0)
<1>1. AbsEps \in Nat /\ RelEps \in Nat
  BY ValidatorAssumption
<1>2. Value(x) \in Int
  BY ValueIs
<1>3. d \in Nat /\ Distance(Value(x), Value(x)) = 0
  BY <1>2 DEF Distance
<1> HIDE DEF d
<1>4. RelEps * d \in Nat
  BY <1>1, <1>3
<1>5. ~(8 * 0 > 8 * AbsEps + RelEps * d)
  BY <1>1, <1>4
<1> QED
  BY <1>3, <1>5 DEF Exceeds, d

\* A payload agrees with itself.
LEMMA SelfMatches ==
  ASSUME NEW class \in {"Exact", "Tolerant"}, NEW a \in Payloads, ~a.torn
  PROVE  Compare(class, a, a) = "Match"
<1>1. a.elements \in Seq(Floats)
  BY ValidatorAssumption
<1>2. \A i \in DOMAIN a.elements : ~Differs(a.elements[i], a.elements[i])
  BY <1>1, NoneDiffersFromItself
<1>3. {i \in DOMAIN a.elements : Differs(a.elements[i], a.elements[i])} = {}
  BY <1>2
<1>4. CompareTolerant(a, a) = "Match"
  BY <1>3 DEF CompareTolerant, Judgement
<1>5. CompareExact(a, a) = "Match"
  BY DEF CompareExact, Judgement
<1> QED
  BY <1>4, <1>5 DEF Compare, SameSize

\* In payloads that match a NaN stands against a NaN, and an infinity of the first
\* against none of the numbers of the second.
LEMMA MatchIsWhole ==
  ASSUME NEW class \in {"Exact", "Tolerant"}, NEW a \in Payloads, NEW b \in Payloads,
         Compare(class, a, b) = "Match", NEW i \in DOMAIN a.elements
  PROVE  /\ IsNan(a.elements[i]) <=> IsNan(b.elements[i])
         /\ IsFinite(b.elements[i]) => IsFinite(a.elements[i])
<1> DEFINE x == a.elements[i]
           y == b.elements[i]
<1>1. /\ a.elements \in Seq(Floats) /\ b.elements \in Seq(Floats)
      /\ Len(a.elements) = Len(b.elements)
  BY ValidatorAssumption DEF Compare, SameSize
<1>2. x \in Floats /\ y \in Floats
  BY <1>1
<1>3. x = y \/ ~Differs(x, y)
  <2>1. a.elements # <<>>
    OBVIOUS
  <2>2. \/ CompareExact(a, b) = "Match" \/ CompareTolerant(a, b) = "Match"
    BY <2>1 DEF Compare
  <2>3. CompareExact(a, b) = "Match" => x = y
    BY DEF CompareExact, Judgement
  <2>4. CompareTolerant(a, b) = "Match" => ~Differs(x, y)
    BY DEF CompareTolerant, Judgement
  <2> QED
    BY <2>2, <2>3, <2>4
<1>4. Magnitude(x) \in Nat /\ Magnitude(y) \in Nat /\ Infinite \in Nat
  <2>1. \A z \in Floats : Magnitude(z) \in Nat /\ Infinite \in Nat
    BY MagnitudeIs
  <2> QED
    BY <1>2, <2>1
<1> HIDE DEF x, y
<1>5. /\ IsNan(x) <=> IsNan(y)
      /\ IsFinite(y) => IsFinite(x)
  BY <1>3, <1>4 DEF Differs, Exceeds, IsNan, IsFinite
<1> QED
  BY <1>5 DEF x, y

\* A set that is run through once by the integers of an interval.
LEMMA RunThrough ==
  ASSUME NEW lo \in Int, NEW hi \in Int, lo <= hi + 1,
         NEW f, NEW T, f \in [lo .. hi -> T],
         \A m, n \in lo .. hi : f[m] = f[n] => m = n,
         \A t \in T : \E m \in lo .. hi : f[m] = t
  PROVE  Cardinality(T) = hi - lo + 1
<1>1. f \in Bijection(lo .. hi, T)
  BY DEF Bijection, Injection, Surjection, IsInjective
<1>2. ExistsBijection(lo .. hi, T)
  BY <1>1 DEF ExistsBijection
<1>3. IsFiniteSet(lo .. hi) /\ Cardinality(lo .. hi) = hi - lo + 1
  BY FS_Interval
<1> QED
  BY <1>2, <1>3, FS_Bijection

\* Between numbers of one sign the distance is the one of their magnitudes.
LEMMA UlpIsMagnitudes ==
  ASSUME NEW x \in Floats, NEW y \in Floats, IsFinite(x), IsFinite(y), (x < Sign) = (y < Sign)
  PROVE  UlpDistance(x, y) = Distance(Magnitude(x), Magnitude(y))
<1> DEFINE m == Magnitude(x)
           n == Magnitude(y)
           d == Distance(ToOrdered(x), ToOrdered(y))
<1>1. m \in 0 .. (Infinite - 1) /\ n \in 0 .. (Infinite - 1)
  BY ValueIs
<1>2. /\ Sign \in Nat /\ Infinite \in Nat /\ Infinite < Sign /\ x \in Nat /\ y \in Nat
      /\ (x < Sign /\ y < Sign /\ m = x /\ n = y)
           \/ (~(x < Sign) /\ ~(y < Sign) /\ m = x - Sign /\ n = y - Sign)
  BY MagnitudeIs, FormatAssumption
<1>3. ~IsNan(x)
  BY <1>1, <1>2 DEF IsNan
<1>4. Value(x) = Value(y) => m = n
  BY ValueIs, ScaleOrders
<1>5. m = n <=> x = y
  BY <1>2
<1>6. d = Distance(m, n)
  BY <1>2 DEF Distance, ToOrdered
<1>7. Distance(m, n) \in Nat /\ Distance(m, n) <= UlpLimit /\ UlpLimit \in Nat
  BY <1>1, <1>2 DEF Distance, UlpLimit
<1>8. CASE x = y
  <2>1. UlpDistance(x, y) = 0
    BY <1>3, <1>8 DEF UlpDistance
  <2>2. Distance(m, n) = 0
    BY <1>1, <1>8 DEF Distance
  <2> QED
    BY <2>1, <2>2
<1>9. CASE x # y
  <2>1. UlpDistance(x, y) = IF d > UlpLimit THEN UlpLimit ELSE d
    BY <1>4, <1>5, <1>9 DEF UlpDistance
  <2> HIDE DEF d, m, n
  <2>2. UlpDistance(x, y) = Distance(m, n)
    BY <1>6, <1>7, <2>1
  <2> QED
    BY <2>2 DEF m, n
<1> QED
  BY <1>8, <1>9

\* The values after one number and up to another of its sign, from below.
LEMMA StepsUp ==
  ASSUME NEW x \in Floats, NEW y \in Floats, IsFinite(x), IsFinite(y),
         (x < Sign) = (y < Sign), Magnitude(x) <= Magnitude(y)
  PROVE  /\ Cardinality(Steps(x, y)) = Magnitude(y) - Magnitude(x)
         /\ Steps(y, x) = Steps(x, y)
<1> DEFINE T == Steps(x, y)
           lo == Magnitude(x)
           hi == Magnitude(y)
<1>1. lo \in 0 .. (Infinite - 1) /\ hi \in 0 .. (Infinite - 1) /\ lo <= hi
  BY ValueIs
<1>2. /\ Sign \in Nat /\ Infinite \in Nat /\ Infinite < Sign
      /\ \A m \in 0 .. (Infinite - 1) : Scale[m] \in Nat
      /\ Scale[0] = 0 /\ Scale[lo] \in Nat /\ Scale[hi] \in Nat
  BY <1>1, FormatAssumption
<1>3. Steps(y, x) = T
  BY DEF Steps
<1>4. \A m, n \in 0 .. (Infinite - 1) : (m < n <=> Scale[m] < Scale[n]) /\ (Scale[m] = Scale[n] => m = n)
  BY ScaleOrders
<1>5. CASE x < Sign
  <2> DEFINE f == [m \in (lo + 1) .. hi |-> Scale[m]]
  <2>1. Value(x) = Scale[lo] /\ Value(y) = Scale[hi] /\ Scale[lo] <= Scale[hi]
    BY <1>1, <1>4, <1>5, ValueIs, ScaleOrders
  <2>2. ASSUME NEW m \in (lo + 1) .. hi  PROVE  Scale[m] \in T
    <3>1. m \in 0 .. (Infinite - 1) /\ m < Sign /\ m \in Floats /\ Magnitude(m) = m
      BY <1>1, <1>2 DEF Floats, UlpLimit, Magnitude
    <3>2. IsFinite(m) /\ Value(m) = Scale[m]
      BY <1>2, <3>1 DEF IsFinite, Value
    <3>3. Scale[lo] < Scale[m] /\ Scale[m] <= Scale[hi]
      BY <1>1, <1>2, <1>4, <3>1
    <3> QED
      BY <2>1, <3>1, <3>2, <3>3 DEF Steps
  <2>3. ASSUME NEW t \in T  PROVE  \E m \in (lo + 1) .. hi : Scale[m] = t
    <3>1. PICK z \in Floats : /\ IsFinite(z) /\ t = Value(z)
                              /\ Scale[lo] < Value(z) /\ Value(z) <= Scale[hi]
      BY <1>2, <2>1, ValueIs DEF Steps
    <3>2. /\ Magnitude(z) \in 0 .. (Infinite - 1)
          /\ Value(z) = Scale[Magnitude(z)] \/ Value(z) = -Scale[Magnitude(z)]
          /\ Scale[Magnitude(z)] \in Nat
      BY <3>1, ValueIs
    <3>3. Value(z) = Scale[Magnitude(z)]
      BY <1>2, <3>1, <3>2
    <3>4. lo < Magnitude(z) /\ Magnitude(z) <= hi
      BY <1>1, <1>2, <1>4, <3>1, <3>2, <3>3
    <3> QED
      BY <1>1, <3>1, <3>2, <3>3, <3>4
  <2> HIDE DEF T
  <2>4. f \in [(lo + 1) .. hi -> T] /\ \A m \in (lo + 1) .. hi : f[m] = Scale[m]
    BY <2>2
  <2>5. \A m, n \in (lo + 1) .. hi : f[m] = f[n] => m = n
    <3>1. \A m \in (lo + 1) .. hi : m \in 0 .. (Infinite - 1)
      BY <1>1, <1>2
    <3> QED
      BY <1>4, <2>4, <3>1
  <2>6. \A t \in T : \E m \in (lo + 1) .. hi : f[m] = t
    BY <2>3, <2>4
  <2> HIDE DEF f, lo, hi
  <2>7. Cardinality(T) = hi - (lo + 1) + 1
    BY <1>1, <2>4, <2>5, <2>6, RunThrough
  <2> QED
    BY <1>1, <1>3, <2>7 DEF T, lo, hi
<1>6. CASE ~(x < Sign)
  <2> DEFINE f == [m \in lo .. (hi - 1) |-> -Scale[m]]
  <2>1. Value(x) = -Scale[lo] /\ Value(y) = -Scale[hi] /\ Scale[lo] <= Scale[hi]
    BY <1>1, <1>4, <1>6, ValueIs, ScaleOrders
  <2>2. ASSUME NEW m \in lo .. (hi - 1)  PROVE  -Scale[m] \in T
    <3> DEFINE z == m + Sign
    <3>1. /\ m \in 0 .. (Infinite - 1) /\ ~(z < Sign) /\ z \in Floats /\ Magnitude(z) = m
      BY <1>1, <1>2 DEF Floats, UlpLimit, Magnitude
    <3> HIDE DEF z
    <3>2. IsFinite(z) /\ Value(z) = -Scale[m]
      BY <1>2, <3>1 DEF IsFinite, Value
    <3>3. Scale[lo] <= Scale[m] /\ Scale[m] < Scale[hi] /\ Scale[m] \in Nat
      BY <1>1, <1>2, <1>4, <3>1
    <3>4. -Scale[hi] < Value(z) /\ Value(z) <= -Scale[lo]
      BY <1>2, <3>2, <3>3
    <3> QED
      BY <2>1, <3>1, <3>2, <3>4 DEF Steps
  <2>3. ASSUME NEW t \in T  PROVE  \E m \in lo .. (hi - 1) : -Scale[m] = t
    <3>1. PICK z \in Floats : /\ IsFinite(z) /\ t = Value(z)
                              /\ -Scale[hi] < Value(z) /\ Value(z) <= -Scale[lo]
      BY <1>2, <2>1, ValueIs DEF Steps
    <3>2. /\ Magnitude(z) \in 0 .. (Infinite - 1)
          /\ Value(z) = Scale[Magnitude(z)] \/ Value(z) = -Scale[Magnitude(z)]
          /\ Scale[Magnitude(z)] \in Nat
      BY <3>1, ValueIs
    <3>3. Value(z) = -Scale[Magnitude(z)]
      BY <1>2, <3>1, <3>2
    <3>4. Scale[Magnitude(z)] < Scale[hi] /\ Scale[lo] <= Scale[Magnitude(z)]
      BY <1>2, <3>1, <3>2, <3>3
    <3>5. lo <= Magnitude(z) /\ Magnitude(z) < hi
      BY <1>1, <1>2, <1>4, <3>2, <3>4
    <3> QED
      BY <1>1, <3>1, <3>2, <3>3, <3>5
  <2> HIDE DEF T
  <2>4. f \in [lo .. (hi - 1) -> T] /\ \A m \in lo .. (hi - 1) : f[m] = -Scale[m]
    BY <2>2
  <2>5. \A m, n \in lo .. (hi - 1) : f[m] = f[n] => m = n
    <3>1. \A m \in lo .. (hi - 1) : m \in 0 .. (Infinite - 1) /\ Scale[m] \in Nat
      BY <1>1, <1>2
    <3> QED
      BY <1>4, <2>4, <3>1
  <2>6. \A t \in T : \E m \in lo .. (hi - 1) : f[m] = t
    BY <2>3, <2>4
  <2> HIDE DEF f, lo, hi
  <2>7. Cardinality(T) = (hi - 1) - lo + 1
    BY <1>1, <2>4, <2>5, <2>6, RunThrough
  <2> QED
    BY <1>1, <1>3, <2>7 DEF T, lo, hi
<1> QED
  BY <1>5, <1>6

\* The distance counts the values after the lower of two numbers up to the higher.
LEMMA StepsBetween ==
  ASSUME NEW x \in Floats, NEW y \in Floats, IsFinite(x), IsFinite(y), (x < Sign) = (y < Sign)
  PROVE  UlpDistance(x, y) = Cardinality(Steps(x, y))
<1>1. Magnitude(x) \in Nat /\ Magnitude(y) \in Nat
  BY ValueIs
<1>2. UlpDistance(x, y) = Distance(Magnitude(x), Magnitude(y))
  BY UlpIsMagnitudes
<1>3. CASE Magnitude(x) <= Magnitude(y)
  BY <1>1, <1>2, <1>3, StepsUp DEF Distance
<1>4. CASE Magnitude(y) <= Magnitude(x)
  BY <1>1, <1>2, <1>4, StepsUp DEF Distance
<1> QED
  BY <1>1, <1>3, <1>4

\* What a comparison can be relied on for (validator.cpp: UlpDistance, CompareExact,
\* CompareTolerant, Compare), in any format of a sign over magnitudes that are in the
\* order of their values, for any tolerances and payloads of any length: a payload
\* matches itself; where payloads match, NaN stands against NaN only and an infinity
\* of the first against no number of the second; and between numbers of one sign the
\* ULPs are the representable steps.  An infinity of the second payload and numbers of
\* two signs are left out: there the code does otherwise (ComparesAsStated).
THEOREM VerdictsAreSound == ValidatorSpec => []ComparisonIsSound
<1>1. ValidatorInit => Compared
  BY DEF ValidatorInit, Compared
<1>2. Compared /\ [ValidatorNext]_validatorVars => Compared'
  BY DEF Compared, ValidatorNext, Compares, validatorVars
<1>3. Compared => ComparisonIsSound
  <2>1. CASE comparison = <<>>
    BY <2>1 DEF ComparisonIsSound, SameAgrees, NanNeverAgrees, UlpCountsSteps, Matched, Measured
  <2>2. ASSUME Compared, comparison # <<>>  PROVE  ComparisonIsSound
    <3>1. PICK class \in {"Exact", "Tolerant"}, a \in Payloads, b \in Payloads :
            comparison = [class |-> class, a |-> a, b |-> b, verdict |-> Compare(class, a, b)]
      BY <2>2 DEF Compared
    <3>2. comparison.a = a /\ comparison.b = b /\ comparison.verdict = Compare(class, a, b)
      BY <3>1
    <3>3. SameAgrees
      BY <3>2, SelfMatches DEF SameAgrees, Matched
    <3>4. a.elements \in Seq(Floats) /\ b.elements \in Seq(Floats)
      BY ValidatorAssumption
    <3>5. ASSUME NEW p \in Pairs
          PROVE  \E i \in DOMAIN a.elements :
                   /\ p[1] = a.elements[i] /\ p[2] = b.elements[i]
                   /\ p[1] \in Floats /\ p[2] \in Floats
      BY <2>2, <3>2, <3>4 DEF Pairs
    <3>6. NanNeverAgrees
      <4> SUFFICES ASSUME Matched, NEW p \in Pairs
                   PROVE  (IsNan(p[1]) <=> IsNan(p[2])) /\ (IsFinite(p[2]) => IsFinite(p[1]))
        BY DEF NanNeverAgrees
      <4>1. PICK i \in DOMAIN a.elements : p[1] = a.elements[i] /\ p[2] = b.elements[i]
        BY <3>5
      <4>2. Compare(class, a, b) = "Match"
        BY <3>2 DEF Matched
      <4>3. /\ IsNan(a.elements[i]) <=> IsNan(b.elements[i])
            /\ IsFinite(b.elements[i]) => IsFinite(a.elements[i])
        BY <4>2, MatchIsWhole
      <4> QED
        BY <4>1, <4>3
    <3>7. Measured \subseteq Pairs
      BY DEF Measured
    <3>8. UlpCountsSteps
      BY <3>5, <3>7, StepsBetween DEF UlpCountsSteps
    <3> QED
      BY <3>3, <3>6, <3>8 DEF ComparisonIsSound
  <2> QED
    BY <2>1, <2>2
<1> QED
  BY <1>1, <1>2, <1>3, PTL DEF ValidatorSpec

-----------------------------------------------------------------------------
(* MockWorker: the books of an experiment.                                 *)

MockFrame == [body : {"welcome", "benchmark"}]
               \cup [body : {"grant", "revoke"}, task : MockTasks]

Granting(i) == i \in DOMAIN inbox /\ inbox[i].body = "grant"

\* The part that holds whatever the transport's thread does.
MockOK ==
  /\ inbox \in Seq(MockFrame) /\ flight \in Seq(MockTasks)
  /\ stats \in [Counts -> Nat]
  /\ begun \subseteq MockTasks /\ lease.tasks \subseteq MockTasks
  /\ lease = [asked |-> lease.asked, scored |-> lease.scored, tasks |-> lease.tasks]
  /\ SleeperEarnsTrustFirst

\* A worker that asks has nothing, and one that may be granted something does not ask.
\* This does not hold across a close: frames of the old connection stay, but then no
\* new one is answered.
OneOutstanding ==
  /\ \A i : Granting(i) => /\ flight = <<>> /\ finishing = {}
                           /\ link = "open" => asked /\ ~lease.asked
  /\ lease.asked /\ link = "open" => asked /\ flight = <<>> /\ finishing = {}
  /\ link = "connecting" => ~lease.asked

\* A task is granted once.
GrantedOnce ==
  /\ \A i, j : Granting(i) /\ Granting(j) => i = j
  /\ \A i : Granting(i) => inbox[i].task \notin begun /\ inbox[i].task \notin lease.tasks
  /\ begun \cap lease.tasks = {}

MockBooks ==
  /\ TasksAccounted /\ OneTaskAtATime
  /\ OneOutstanding /\ GrantedOnce
  /\ IF mpc = "finishing" THEN \E t \in MockTasks : finishing = {t} ELSE finishing = {}

MockInv == MockOK /\ (mpc # "undefined" => MockBooks)

\* A step that leaves the worker's books alone and takes no grant in.
LEMMA BooksStay ==
  ASSUME MockInv, UNCHANGED <<flight, finishing, stats, begun>>, inbox' \in Seq(MockFrame),
         \A i : Granting(i)' => Granting(i) /\ inbox'[i] = inbox[i],
         lease'.tasks = lease.tasks,
         lease' = [asked |-> lease'.asked, scored |-> lease'.scored, tasks |-> lease'.tasks],
         mpc' # "undefined" =>
           /\ mpc # "undefined" /\ (mpc' = "finishing" <=> mpc = "finishing")
           /\ OneOutstanding'
  PROVE  MockInv'
<1>1. MockOK'
  BY DEF MockInv, MockOK, SleeperEarnsTrustFirst
<1>2. ASSUME mpc' # "undefined"  PROVE  MockBooks'
  <2>1. mpc # "undefined" /\ MockBooks /\ OneOutstanding'
    BY <1>2 DEF MockInv
  <2>2. TasksAccounted' /\ OneTaskAtATime'
    BY <2>1 DEF MockBooks, TasksAccounted, OneTaskAtATime
  <2>3. GrantedOnce'
    BY <2>1 DEF MockBooks, GrantedOnce
  <2> QED
    BY <1>2, <2>1, <2>2, <2>3 DEF MockBooks
<1> QED
  BY <1>1, <1>2 DEF MockInv

\* There is at most one task being finished.
LEMMA FinishingFinite ==
  ASSUME MockBooks
  PROVE  /\ IsFiniteSet(finishing) /\ Cardinality(finishing) \in 0 .. 1
         /\ Cardinality(finishing) = (IF mpc = "finishing" THEN 1 ELSE 0)
<1>1. CASE mpc = "finishing"
  <2>1. PICK t \in MockTasks : finishing = {t}
    BY <1>1 DEF MockBooks
  <2> QED
    BY <1>1, <2>1, FS_Singleton
<1>2. CASE mpc # "finishing"
  <2>1. finishing = {}
    BY <1>2 DEF MockBooks
  <2> QED
    BY <1>2, <2>1, FS_EmptySet
<1> QED
  BY <1>1, <1>2

\* The connection opens, once; Welcome and the benchmark come.
LEMMA OnOpenKeeps ==
  ASSUME MockInv, OnOpen  PROVE  MockInv'
<1>1. [body |-> "welcome"] \in MockFrame /\ [body |-> "benchmark"] \in MockFrame
  BY DEF MockFrame
<1> DEFINE two == <<[body |-> "welcome"], [body |-> "benchmark"]>>
<1>2. two \in Seq(MockFrame) /\ \A i \in DOMAIN two : two[i].body # "grant"
  BY <1>1
<1>3. inbox' = two /\ link = "connecting" /\ UNCHANGED <<mpc, shook, asked, flight, finishing, stats, begun, lease>>
  BY DEF OnOpen
<1> HIDE DEF two
<1>4. \A i : ~Granting(i)'
  BY <1>2, <1>3 DEF Granting
<1>5. mpc' # "undefined" => OneOutstanding'
  BY <1>3, <1>4 DEF OneOutstanding, MockInv, MockBooks, OnOpen
<1>6. lease = [asked |-> lease.asked, scored |-> lease.scored, tasks |-> lease.tasks]
  BY DEF MockInv, MockOK
<1> QED
  BY <1>2, <1>3, <1>4, <1>5, <1>6, BooksStay

\* The connection closes, and what is in flight is abandoned.
LEMMA OnClosedKeeps ==
  ASSUME MockInv, OnClosed  PROVE  MockInv'
<1>1. MockOK
  BY DEF MockInv
<1>2. CASE mpc' = "undefined" /\ UNCHANGED <<stats, flight>>
  BY <1>1, <1>2 DEF MockInv, MockOK, OnClosed, SleeperEarnsTrustFirst
<1>3. CASE stats' = AbandonedOnClose /\ flight' = <<>> /\ UNCHANGED mpc
  <2> DEFINE n == Len(flight)
  <2>1. n \in Nat /\ stats \in [Counts -> Nat] /\ Len(flight') = 0 /\ flight' \in Seq(MockTasks)
    BY <1>1, <1>3 DEF MockOK
  <2>2. stats' = [stats EXCEPT !["abandoned"] = @ + n]
    BY <1>3 DEF AbandonedOnClose, Counted
  <2> HIDE DEF n
  <2>3. /\ stats' \in [Counts -> Nat] /\ stats'["abandoned"] = stats["abandoned"] + n
        /\ stats'["completed"] = stats["completed"] /\ stats'["revoked"] = stats["revoked"]
        /\ stats'["lied"] = stats["lied"]
    BY <2>1, <2>2 DEF Counts
  <2>4. MockOK'
    BY <1>1, <2>1, <2>3 DEF MockOK, SleeperEarnsTrustFirst, OnClosed
  <2>5. ASSUME mpc # "undefined"  PROVE  MockBooks'
    <3>1. MockBooks
      BY <2>5 DEF MockInv
    <3>2. IsFiniteSet(finishing) /\ Cardinality(finishing) \in Nat
      BY <3>1, FinishingFinite
    <3>3. TasksAccounted'
      BY <1>1, <1>3, <2>1, <2>3, <3>1, <3>2 DEF MockBooks, TasksAccounted, OnClosed, n, Counts, MockOK
    <3>4. OneTaskAtATime'
      BY <1>3, <2>1, <3>1, <3>2 DEF MockBooks, OneTaskAtATime, OnClosed
    <3>5. \A i : Granting(i)' = Granting(i)
      BY DEF OnClosed, Granting
    <3>6. OneOutstanding' /\ GrantedOnce'
      BY <1>3, <3>1, <3>5 DEF MockBooks, OneOutstanding, GrantedOnce, OnClosed
    <3> QED
      BY <1>3, <3>1, <3>3, <3>4, <3>6 DEF MockBooks, OnClosed
  <2> QED
    BY <1>3, <2>4, <2>5 DEF MockInv
<1> QED
  BY <1>2, <1>3 DEF OnClosed

\* What comes behind the frames there are.
LEMMA FrameIsLast ==
  ASSUME MockOK, NEW f \in MockFrame, inbox' = Append(inbox, f)
  PROVE  /\ inbox' \in Seq(MockFrame)
         /\ \A i : Granting(i)' <=> Granting(i) \/ (i = Len(inbox) + 1 /\ f.body = "grant")
         /\ \A i : Granting(i) => inbox'[i] = inbox[i] /\ i # Len(inbox) + 1
         /\ inbox'[Len(inbox) + 1] = f
<1>1. inbox \in Seq(MockFrame)
  BY DEF MockOK
<1>2. /\ inbox' \in Seq(MockFrame)
      /\ DOMAIN inbox = 1 .. Len(inbox) /\ Len(inbox) \in Nat
      /\ DOMAIN inbox' = 1 .. (Len(inbox) + 1)
      /\ \A i \in 1 .. Len(inbox) : inbox'[i] = inbox[i]
      /\ inbox'[Len(inbox) + 1] = f
  BY <1>1
<1> QED
  BY <1>2 DEF Granting

\* The coordinator grants to one that asked, a task that was not granted before.
LEMMA AnswersLeaseKeeps ==
  ASSUME MockInv, AnswersLease  PROVE  MockInv'
<1>1. MockOK
  BY DEF MockInv
<1>2. /\ lease.asked
      /\ UNCHANGED <<mpc, link, shook, asked, flight, finishing, stats, begun>>
  BY DEF AnswersLease
<1>3. CASE lease' = [lease EXCEPT !.asked = FALSE] /\ UNCHANGED inbox
  <2>1. /\ lease'.tasks = lease.tasks /\ lease'.asked = FALSE
        /\ lease' = [asked |-> lease'.asked, scored |-> lease'.scored, tasks |-> lease'.tasks]
    BY <1>1, <1>3 DEF MockOK
  <2>2. inbox' \in Seq(MockFrame) /\ \A i : Granting(i)' <=> Granting(i)
    BY <1>1, <1>3 DEF MockOK, Granting
  <2>3. mpc' # "undefined" => OneOutstanding'
    BY <1>2, <2>1, <2>2 DEF MockInv, MockBooks, OneOutstanding
  <2> QED
    BY <1>2, <1>3, <2>1, <2>2, <2>3, BooksStay
<1>4. ASSUME NEW t \in lease.tasks, Receives([body |-> "grant", task |-> t]),
             lease' = [lease EXCEPT !.asked = FALSE, !.tasks = @ \ {t}]
      PROVE  MockInv'
  <2> DEFINE f == [body |-> "grant", task |-> t]
             k == Len(inbox) + 1
  <2>1. f \in MockFrame /\ f.body = "grant" /\ f.task = t
    BY <1>1 DEF MockFrame, MockOK
  <2>2. inbox' = Append(inbox, f) /\ link = "open"
    BY <1>4 DEF Receives
  <2>3. /\ lease'.tasks = lease.tasks \ {t} /\ lease'.asked = FALSE
        /\ lease' = [asked |-> lease'.asked, scored |-> lease'.scored, tasks |-> lease'.tasks]
    BY <1>1, <1>4 DEF MockOK
  <2> HIDE DEF f
  <2>4. /\ inbox' \in Seq(MockFrame)
        /\ \A i : Granting(i)' <=> Granting(i) \/ i = k
        /\ \A i : Granting(i) => inbox'[i] = inbox[i] /\ i # k
        /\ inbox'[k] = f
    BY <1>1, <2>1, <2>2, FrameIsLast
  <2> HIDE DEF k
  <2>5. MockOK'
    BY <1>1, <1>2, <2>3, <2>4 DEF MockOK, SleeperEarnsTrustFirst
  <2>6. ASSUME mpc # "undefined"  PROVE  MockBooks'
    <3>1. MockBooks
      BY <2>6 DEF MockInv
    <3>2. asked /\ flight = <<>> /\ finishing = {} /\ \A i : ~Granting(i)
      BY <1>2, <2>2, <3>1 DEF MockBooks, OneOutstanding
    <3>3. OneOutstanding'
      BY <1>2, <2>2, <2>3, <2>4, <3>2 DEF OneOutstanding
    <3>4. t \notin begun /\ begun \cap lease.tasks = {}
      BY <1>4, <3>1 DEF MockBooks, GrantedOnce
    <3>5. GrantedOnce'
      BY <1>2, <2>1, <2>3, <2>4, <3>2, <3>4 DEF GrantedOnce
    <3> QED
      BY <1>2, <3>1, <3>3, <3>5 DEF MockBooks, TasksAccounted, OneTaskAtATime
  <2> QED
    BY <1>2, <2>5, <2>6 DEF MockInv
<1> QED
  BY <1>3, <1>4 DEF AnswersLease

\* A revoke comes.
LEMMA RevokesKeeps ==
  ASSUME MockInv, Revokes  PROVE  MockInv'
<1>1. MockOK
  BY DEF MockInv
<1>2. UNCHANGED <<mpc, link, shook, asked, flight, finishing, stats, begun, lease>>
  BY DEF Revokes
<1>3. PICK t \in begun : Receives([body |-> "revoke", task |-> t])
  BY DEF Revokes
<1> DEFINE f == [body |-> "revoke", task |-> t]
<1>4. f \in MockFrame /\ f.body # "grant" /\ inbox' = Append(inbox, f)
  BY <1>1, <1>3 DEF MockFrame, MockOK, Receives
<1> HIDE DEF f
<1>5. /\ inbox' \in Seq(MockFrame)
      /\ \A i : Granting(i)' <=> Granting(i)
      /\ \A i : Granting(i) => inbox'[i] = inbox[i]
  BY <1>1, <1>4, FrameIsLast
<1>6. mpc' # "undefined" => OneOutstanding'
  BY <1>2, <1>5 DEF MockInv, MockBooks, OneOutstanding
<1>7. lease' = [asked |-> lease'.asked, scored |-> lease'.scored, tasks |-> lease'.tasks]
  BY <1>1, <1>2 DEF MockOK
<1> QED
  BY <1>2, <1>5, <1>6, <1>7, BooksStay

\* What is behind the frame that is taken out.
LEMMA FrameTaken ==
  ASSUME MockOK, inbox # <<>>, inbox' = Tail(inbox)
  PROVE  /\ inbox' \in Seq(MockFrame) /\ Head(inbox) \in MockFrame
         /\ Head(inbox).body = "grant" => Granting(1)
         /\ Head(inbox) = inbox[1]
         /\ \A i : Granting(i)' => /\ i \in Nat /\ Granting(i + 1)
                                   /\ inbox'[i] = inbox[i + 1] /\ i + 1 # 1
<1>1. inbox \in Seq(MockFrame)
  BY DEF MockOK
<1>2. /\ inbox' \in Seq(MockFrame) /\ Head(inbox) = inbox[1] /\ inbox[1] \in MockFrame
      /\ Len(inbox) \in Nat \ {0}
      /\ DOMAIN inbox = 1 .. Len(inbox) /\ DOMAIN inbox' = 1 .. (Len(inbox) - 1)
      /\ \A i \in 1 .. (Len(inbox) - 1) : inbox'[i] = inbox[i + 1]
  BY <1>1
<1> QED
  BY <1>2 DEF Granting

\* A frame that is no grant takes no grant's place.
LEMMA StillGrantedOnce ==
  ASSUME MockOK, GrantedOnce, inbox # <<>>, inbox' = Tail(inbox),
         begun' = begun, lease'.tasks = lease.tasks
  PROVE  GrantedOnce'
<1>1. \A i : Granting(i)' => /\ i \in Nat /\ Granting(i + 1)
                             /\ inbox'[i] = inbox[i + 1]
  BY FrameTaken
<1>2. ASSUME NEW i, NEW j, Granting(i)', Granting(j)'  PROVE  i = j
  <2>1. i \in Nat /\ j \in Nat /\ Granting(i + 1) /\ Granting(j + 1)
    BY <1>1, <1>2
  <2>2. i + 1 = j + 1
    BY <2>1 DEF GrantedOnce
  <2> QED
    BY <2>1, <2>2
<1>3. ASSUME NEW i, Granting(i)'
      PROVE  inbox'[i].task \notin begun /\ inbox'[i].task \notin lease.tasks
  BY <1>1, <1>3 DEF GrantedOnce
<1> QED
  BY <1>2, <1>3 DEF GrantedOnce

\* Frames other than grants: what they say of a task is no more than a revoke, which
\* moves the task from those in flight to a count.
LEMMA OnFrameKeepsOther ==
  ASSUME MockInv, OnFrame, Head(inbox).body # "grant"  PROVE  MockInv'
<1>1. /\ MockOK /\ inbox # <<>> /\ inbox' = Tail(inbox) /\ mpc = "frames"
      /\ UNCHANGED <<mpc, link, finishing>>
  BY DEF MockInv, OnFrame
<1>2. /\ inbox' \in Seq(MockFrame) /\ Head(inbox) \in MockFrame
      /\ \A i : Granting(i)' => /\ i \in Nat /\ Granting(i + 1)
                                /\ inbox'[i] = inbox[i + 1]
  BY <1>1, FrameTaken
<1>3. MockBooks /\ OneOutstanding /\ GrantedOnce
  BY <1>1 DEF MockInv, MockBooks
<1>4. CASE Head(inbox).body \in {"welcome", "benchmark"}
  <2>1. /\ UNCHANGED <<asked, flight, stats, begun>>
        /\ lease'.tasks = lease.tasks /\ lease'.asked = lease.asked
        /\ lease' = [asked |-> lease'.asked, scored |-> lease'.scored, tasks |-> lease'.tasks]
    BY <1>1, <1>4 DEF OnFrame, MockOK
  <2>2. OneOutstanding'
    BY <1>1, <1>2, <1>3, <2>1 DEF OneOutstanding
  <2>3. GrantedOnce'
    BY <1>1, <1>3, <2>1, StillGrantedOnce
  <2> QED
    BY <1>1, <1>2, <1>3, <2>1, <2>2, <2>3
    DEF MockInv, MockOK, MockBooks, SleeperEarnsTrustFirst, TasksAccounted, OneTaskAtATime
<1>5. CASE Head(inbox).body = "revoke"
  <2> DEFINE S == {Head(inbox).task}
             e == Erased(flight, S)
             n == Len(flight) - Len(e)
  <2>1. /\ flight' = e /\ stats' = Counted("revoked", Len(flight) - Len(flight'))
        /\ UNCHANGED <<shook, asked, begun, lease>>
    BY <1>5 DEF OnFrame
  <2>2. e \in Seq(MockTasks) /\ Len(e) <= Len(flight)
    <3>1. flight \in Seq(MockTasks)
      BY <1>1 DEF MockOK
    <3>2. Data!Erased(flight, S) = e
      BY DEF Erased, Rank, Data!Erased, Data!Rank, Cardinality, Data!Cardinality
    <3> HIDE DEF e, S
    <3> QED
      BY <3>1, <3>2, Data!ErasedKeeps
  <2>3. n \in Nat /\ Len(flight) = n + Len(e) /\ Len(e) \in Nat
    BY <1>1, <2>2 DEF MockOK
  <2>4. stats' = [stats EXCEPT !["revoked"] = @ + n]
    BY <2>1 DEF Counted
  <2> HIDE DEF e, n
  <2>5. /\ stats' \in [Counts -> Nat] /\ stats'["revoked"] = stats["revoked"] + n
        /\ stats'["completed"] = stats["completed"] /\ stats'["abandoned"] = stats["abandoned"]
        /\ stats'["lied"] = stats["lied"]
        /\ stats["completed"] \in Nat /\ stats["revoked"] \in Nat /\ stats["abandoned"] \in Nat
    BY <1>1, <2>3, <2>4 DEF Counts, MockOK
  <2>6. MockOK'
    BY <1>1, <1>2, <2>1, <2>2, <2>5 DEF MockOK, SleeperEarnsTrustFirst
  <2>7. Cardinality(finishing) \in Nat
    BY <1>3, FinishingFinite
  <2>8. TasksAccounted' /\ OneTaskAtATime'
    BY SMTT(30), <1>1, <1>3, <2>1, <2>3, <2>5, <2>7 DEF MockBooks, TasksAccounted, OneTaskAtATime
  <2>9. ASSUME flight = <<>>  PROVE  flight' = <<>>
    BY <1>1, <2>1, <2>2, <2>3, <2>9 DEF MockOK
  <2>10. OneOutstanding'
    BY <1>1, <1>2, <1>3, <2>1, <2>9 DEF OneOutstanding
  <2>11. GrantedOnce'
    BY <1>1, <1>3, <2>1, StillGrantedOnce
  <2> QED
    BY <1>1, <1>3, <2>6, <2>8, <2>10, <2>11 DEF MockInv, MockBooks
<1> QED
  BY <1>2, <1>4, <1>5 DEF MockFrame

\* A grant begins a task that was not begun before, on a worker with nothing else.
LEMMA OnFrameKeepsGrant ==
  ASSUME MockInv, OnFrame, Head(inbox).body = "grant"  PROVE  MockInv'
<1> DEFINE t == Head(inbox).task
<1>1. /\ MockOK /\ inbox # <<>> /\ inbox' = Tail(inbox) /\ mpc = "frames"
      /\ UNCHANGED <<mpc, link, finishing, shook, lease>>
      /\ asked' = FALSE /\ BeginTask(t)
  BY DEF MockInv, OnFrame
<1>2. /\ inbox' \in Seq(MockFrame) /\ Head(inbox) \in MockFrame /\ Granting(1)
      /\ Head(inbox) = inbox[1]
      /\ \A i : Granting(i)' => Granting(i + 1) /\ i + 1 # 1
  BY <1>1, FrameTaken
<1>3. MockBooks /\ OneOutstanding /\ GrantedOnce
  BY <1>1 DEF MockInv, MockBooks
<1>4. t \in MockTasks
  BY <1>2 DEF MockFrame
<1>5. flight = <<>> /\ finishing = {} /\ (link = "open" => ~lease.asked)
  BY <1>2, <1>3 DEF OneOutstanding
<1>6. t \notin begun /\ t \notin lease.tasks /\ \A i : ~Granting(i)'
  BY <1>2, <1>3 DEF GrantedOnce
<1> HIDE DEF t
<1>7. CASE UNCHANGED <<flight, begun, stats>>
  <2>1. OneOutstanding' /\ GrantedOnce'
    BY <1>1, <1>3, <1>5, <1>6, <1>7 DEF OneOutstanding, GrantedOnce
  <2> QED
    BY <1>1, <1>2, <1>3, <1>7, <2>1
    DEF MockInv, MockOK, MockBooks, SleeperEarnsTrustFirst, TasksAccounted, OneTaskAtATime
<1>8. CASE /\ flight' = Append(flight, t) /\ begun' = begun \cup {t}
           /\ \/ UNCHANGED stats
              \/ ~StillHonest /\ stats' = Counted("lied", 1)
  <2>1. /\ stats' \in [Counts -> Nat] /\ stats'["revoked"] = stats["revoked"]
        /\ stats'["completed"] = stats["completed"] /\ stats'["abandoned"] = stats["abandoned"]
        /\ stats["completed"] \in Nat /\ stats["revoked"] \in Nat /\ stats["abandoned"] \in Nat
    BY <1>1, <1>8 DEF Counts, MockOK, Counted
  <2>2. SleeperEarnsTrustFirst'
    <3>1. CASE UNCHANGED stats
      BY <1>1, <3>1 DEF MockOK, SleeperEarnsTrustFirst
    <3>2. CASE ~StillHonest
      <4>1. stats["completed"] >= HonestTasks
        BY <2>1, <3>2, MockAssumption DEF StillHonest
      <4> QED
        BY <2>1, <4>1 DEF SleeperEarnsTrustFirst
    <3> QED
      BY <1>8, <3>1, <3>2
  <2>3. flight' \in Seq(MockTasks) /\ Len(flight') = 1 /\ Len(flight) = 0
    BY <1>4, <1>5, <1>8
  <2>4. MockOK'
    BY <1>1, <1>2, <1>4, <1>8, <2>1, <2>2, <2>3 DEF MockOK
  <2>5. IsFiniteSet(begun) /\ Cardinality(begun) \in Nat
    BY <1>1, MockAssumption, FS_Subset, FS_CardinalityType DEF MockOK
  <2>6. Cardinality(begun') = Cardinality(begun) + 1
    BY <1>6, <1>8, <2>5, FS_AddElement
  <2>7. Cardinality(finishing) = 0 /\ finishing' = finishing
    BY <1>1, <1>5, FS_EmptySet
  <2>8. TasksAccounted' /\ OneTaskAtATime'
    <3>1. Cardinality(begun) = Len(flight) + Cardinality(finishing)
            + stats["completed"] + stats["abandoned"] + stats["revoked"]
      BY <1>1, <1>3 DEF MockBooks, TasksAccounted
    <3>2. Cardinality(begun') = Len(flight') + Cardinality(finishing)
            + stats'["completed"] + stats'["abandoned"] + stats'["revoked"]
      BY <2>1, <2>3, <2>5, <2>6, <2>7, <3>1
    <3> QED
      BY <2>3, <2>7, <3>2 DEF TasksAccounted, OneTaskAtATime
  <2>9. OneOutstanding' /\ GrantedOnce'
    BY <1>1, <1>3, <1>5, <1>6, <1>8 DEF OneOutstanding, GrantedOnce
  <2> QED
    BY <1>1, <1>3, <2>4, <2>8, <2>9 DEF MockInv, MockBooks
<1> QED
  BY <1>1, <1>7, <1>8 DEF BeginTask

\* The steps of Poll that only move on, or close a connection with nothing in flight.
LEMMA PollMovesKeeps ==
  ASSUME MockInv, PollBegins \/ InboxEmpty \/ Flaps \/ PollEnds  PROVE  MockInv'
<1>1. /\ UNCHANGED <<inbox, asked, flight, finishing, stats, begun, lease>>
      /\ mpc # "undefined" /\ mpc # "finishing" /\ mpc' # "finishing"
      /\ link' = link \/ (link = "open" /\ link' = "closing")
  BY DEF PollBegins, InboxEmpty, Flaps, PollEnds, Goes, Closing
<1>2. inbox' \in Seq(MockFrame) /\ \A i : Granting(i)' <=> Granting(i)
  BY <1>1 DEF MockInv, MockOK, Granting
<1>3. OneOutstanding'
  BY <1>1, <1>2 DEF MockInv, MockBooks, OneOutstanding
<1>4. lease' = [asked |-> lease'.asked, scored |-> lease'.scored, tasks |-> lease'.tasks]
  BY <1>1 DEF MockInv, MockOK
<1> QED
  BY <1>1, <1>2, <1>3, <1>4, BooksStay

\* The worker asks when it has nothing.
LEMMA RequestLeaseKeeps ==
  ASSUME MockInv, RequestLease  PROVE  MockInv'
<1>1. /\ UNCHANGED <<link, inbox, shook, flight, finishing, stats, begun>>
      /\ mpc = "tasks" /\ mpc' = "idle" /\ flight = <<>> /\ ~asked
      /\ asked' = (link = "open") /\ lease' = [lease EXCEPT !.asked = (link = "open")]
  BY DEF RequestLease, Goes, MayAsk
<1>2. /\ inbox' \in Seq(MockFrame) /\ \A i : Granting(i)' <=> Granting(i)
      /\ lease'.tasks = lease.tasks /\ lease'.asked = (link = "open")
      /\ lease' = [asked |-> lease'.asked, scored |-> lease'.scored, tasks |-> lease'.tasks]
  BY <1>1 DEF MockInv, MockOK, Granting
<1>3. OneOutstanding'
  BY <1>1, <1>2 DEF MockInv, MockBooks, OneOutstanding
<1> QED
  BY <1>1, <1>2, <1>3, BooksStay

\* A task whose duration is over goes from those in flight to the one being finished.
LEMMA TakesFinishedKeeps ==
  ASSUME MockInv, TakesFinished  PROVE  MockInv'
<1>1. /\ UNCHANGED <<link, inbox, shook, asked, stats, begun, lease>>
      /\ mpc = "tasks" /\ mpc' = "finishing" /\ flight # <<>>
      /\ finishing' = {Head(flight)} /\ flight' = Tail(flight)
  BY DEF TakesFinished, Goes
<1>2. MockOK /\ MockBooks /\ OneOutstanding /\ GrantedOnce
  BY <1>1 DEF MockInv, MockBooks
<1>3. /\ flight' \in Seq(MockTasks) /\ Head(flight) \in MockTasks
      /\ Len(flight) \in Nat /\ Len(flight') = Len(flight) - 1
  BY <1>1, <1>2 DEF MockOK
<1>4. finishing = {} /\ Cardinality(finishing) = 0 /\ Cardinality(finishing') = 1
  BY <1>1, <1>2, FS_EmptySet, FS_Singleton DEF MockBooks
<1>5. MockOK'
  BY <1>1, <1>2, <1>3 DEF MockOK, SleeperEarnsTrustFirst
<1>6. TasksAccounted' /\ OneTaskAtATime'
  BY <1>1, <1>2, <1>3, <1>4 DEF MockBooks, TasksAccounted, OneTaskAtATime, MockOK, Counts
<1>7. \A i : Granting(i)' <=> Granting(i)
  BY <1>1 DEF Granting
<1>8. OneOutstanding' /\ GrantedOnce'
  BY <1>1, <1>2, <1>7 DEF OneOutstanding, GrantedOnce
<1> QED
  BY <1>1, <1>3, <1>5, <1>6, <1>8 DEF MockInv, MockBooks

\* The finished task is counted, once.
LEMMA FinishTaskKeeps ==
  ASSUME MockInv, FinishTask  PROVE  MockInv'
<1>1. /\ UNCHANGED <<inbox, shook, asked, flight, begun, lease>>
      /\ mpc = "finishing" /\ mpc' = "tasks" /\ finishing' = {}
      /\ link' = link \/ (link = "open" /\ link' = "closing")
  BY DEF FinishTask, Goes, Closing
<1>2. MockOK /\ MockBooks /\ OneOutstanding /\ GrantedOnce
  BY <1>1 DEF MockInv, MockBooks
<1>3. stats' = Counted("completed", 1) \/ stats' = Counted("abandoned", 1)
  BY DEF FinishTask
<1>4. /\ stats' \in [Counts -> Nat] /\ stats'["revoked"] = stats["revoked"]
      /\ stats'["lied"] = stats["lied"] /\ stats'["completed"] >= stats["completed"]
      /\ stats'["completed"] + stats'["abandoned"] = stats["completed"] + stats["abandoned"] + 1
      /\ \A c \in Counts : stats[c] \in Nat
  BY <1>2, <1>3 DEF Counted, Counts, MockOK
<1>5. MockOK'
  BY <1>1, <1>2, <1>4, MockAssumption DEF MockOK, SleeperEarnsTrustFirst, Counts
<1>6. Cardinality(finishing) = 1 /\ Cardinality(finishing') = 0
  BY <1>1, <1>2, FinishingFinite, FS_EmptySet
<1>7. TasksAccounted' /\ OneTaskAtATime'
  BY <1>1, <1>2, <1>4, <1>6 DEF MockBooks, TasksAccounted, OneTaskAtATime, MockOK, Counts
<1>8. \A i : Granting(i)' <=> Granting(i)
  BY <1>1 DEF Granting
<1>9. OneOutstanding' /\ GrantedOnce'
  BY <1>1, <1>2, <1>8 DEF OneOutstanding, GrantedOnce
<1> QED
  BY <1>1, <1>5, <1>7, <1>9 DEF MockInv, MockBooks

\* A worker begins with empty books.
LEMMA MockBegins ==
  ASSUME MockInit  PROVE  MockInv
<1>1. MockOK
  BY MockAssumption DEF MockInit, MockOK, SleeperEarnsTrustFirst, Counts
<1>2. \A i : ~Granting(i)
  BY DEF MockInit, Granting
<1>3. TasksAccounted /\ OneTaskAtATime
  BY FS_EmptySet DEF MockInit, TasksAccounted, OneTaskAtATime, Counts
<1>4. OneOutstanding /\ GrantedOnce
  BY <1>2 DEF MockInit, OneOutstanding, GrantedOnce
<1> QED
  BY <1>1, <1>3, <1>4 DEF MockInv, MockBooks, MockInit

\* An experiment with mock workers measures what it says (virtual_worker.cpp: OnFrame,
\* BeginTask, FinishTask, Poll, Start's callbacks), for any tasks and any record that is
\* to be earned first: each task begun is in exactly one place, there is at most one at a
\* time, and no lie comes before its price.
THEOREM ExperimentsAreSound == MockSpec => []ExperimentIsSound
<1>1. MockInit => MockInv
  BY MockBegins
<1>2. MockInv /\ [MockNext]_mockVars => MockInv'
  <2> SUFFICES ASSUME MockInv, [MockNext]_mockVars  PROVE  MockInv'
    OBVIOUS
  <2>1. CASE OnOpen
    BY <2>1, OnOpenKeeps
  <2>2. CASE OnClosed
    BY <2>2, OnClosedKeeps
  <2>3. CASE AnswersLease
    BY <2>3, AnswersLeaseKeeps
  <2>4. CASE Revokes
    BY <2>4, RevokesKeeps
  <2>5. CASE OnFrame
    BY <2>5, OnFrameKeepsOther, OnFrameKeepsGrant
  <2>6. CASE PollBegins \/ InboxEmpty \/ Flaps \/ PollEnds
    BY <2>6, PollMovesKeeps
  <2>7. CASE TakesFinished
    BY <2>7, TakesFinishedKeeps
  <2>8. CASE FinishTask
    BY <2>8, FinishTaskKeeps
  <2>9. CASE RequestLease
    BY <2>9, RequestLeaseKeeps
  <2>10. CASE UNCHANGED mockVars
    BY <2>10 DEF mockVars, MockInv, MockOK, MockBooks, OneOutstanding, GrantedOnce,
                 Granting, SleeperEarnsTrustFirst, TasksAccounted, OneTaskAtATime
  <2> QED
    BY <2>1, <2>2, <2>3, <2>4, <2>5, <2>6, <2>7, <2>8, <2>9, <2>10 DEF MockNext
<1>3. MockInv => ExperimentIsSound
  <2>1. MockInv => SleeperEarnsTrustFirst
    BY DEF MockInv, MockOK
  <2>2. MockInv => TasksAccounted /\ OneTaskAtATime
    BY DEF MockInv, MockBooks, TasksAccounted, OneTaskAtATime
  <2> QED
    BY <2>1, <2>2 DEF ExperimentIsSound
<1> QED
  BY <1>1, <1>2, <1>3, PTL DEF MockSpec
=============================================================================
