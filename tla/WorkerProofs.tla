---------------------------- MODULE WorkerProofs ----------------------------
(***************************************************************************)
(* A worker, for any tasks, assets, chunk and batch sizes and any length   *)
(* of the inbox.  Asset fetches: nobody is left parked, a peer belongs to  *)
(* a fetch, and what becomes resident is what its address says.  Leases:   *)
(* what is held is queued or running, and no lease that the coordinator    *)
(* still counts on is forgotten by the worker that has it.                 *)
(***************************************************************************)
EXTENDS Worker, DataLemmas

\* The inductive invariant: the three properties and the types they need.
\* That frames have their types is part of it because a grant's task decides
\* which asset is fetched.
FetchInv ==
  /\ down \in Seq(Frame)
  /\ fetch \in AssetFetch \cup {None}
  /\ parked \subseteq Tasks
  /\ peer \in BOOLEAN
  /\ ParkedIffFetching
  /\ PeerOnlyWhileFetching
  /\ ResidentIsItsAddress

-----------------------------------------------------------------------------
(* Values.                                                                 *)

\* A new fetch is one, and not the mark that there is none.
LEMMA NewFetchType ==
  ASSUME NEW a \in Assets
  PROVE  NewFetch(a) \in AssetFetch /\ NewFetch(a) # None
<1>1. NewFetch(a) \in AssetFetch
  BY DEF NewFetch, AssetFetch
<1> QED BY <1>1, NoFetchAssumption

\* What a frame says is of its type.
LEMMA FrameFields ==
  ASSUME NEW f \in Frame
  PROVE  /\ f.type = "TaskGrant" => f.task \in Tasks
         /\ f.type = "AssetChunk" => f.index \in Indices /\ f.asset \in Assets
  BY DEF Frame

\* The frames the coordinator sends.
LEMMA FrameMakers ==
  /\ [type |-> "Welcome"] \in Frame
  /\ [type |-> "Stop"] \in Frame
  /\ [type |-> "AssetMiss"] \in Frame
  /\ \A t \in Tasks : /\ [type |-> "TaskGrant", task |-> t] \in Frame
                      /\ [type |-> "Revoke", task |-> t] \in Frame
  /\ \A n \in 1 .. MaxPeers : [type |-> "PeerList", peers |-> n] \in Frame
  /\ \A a \in Assets : \A i \in Indices :
       [type |-> "AssetChunk", asset |-> a, index |-> i] \in Frame
  BY DEF Frame

\* The coordinator's answer to a request for chunks: frames.
LEMMA ChunkRepliesType ==
  ASSUME NEW a \in Assets, NEW from \in Indices, NEW r \in ChunkReplies(a, from)
  PROVE  r \in Seq(Frame)
<1> DEFINE run == (from .. from + Batch - 1) \cap Indices
           last == IF from + Batch - 1 <= Chunks THEN from + Batch - 1 ELSE Chunks
           chunks == [n \in 1 .. Cardinality(run) |->
                        [type |-> "AssetChunk", asset |-> a, index |-> from + n - 1]]
<1>0. /\ from \in Int /\ last \in Int /\ from <= last /\ last <= Chunks /\ 1 <= from
      /\ \A i \in Int : i <= last <=> i <= from + Batch - 1 /\ i <= Chunks
  BY WorkerAssumption DEF Indices
<1>1. /\ from \in Int /\ last \in Int /\ from <= last /\ last <= Chunks /\ 1 <= from
      /\ run = from .. last
  <2> HIDE DEF last
  <2> QED BY <1>0, WorkerAssumption DEF Indices
<1>2. Cardinality(run) = last - from + 1
  <2> HIDE DEF run, last
  <2> QED BY <1>1, FS_Interval
<1>3. \A n \in 1 .. Cardinality(run) : chunks[n] \in Frame
  BY <1>1, <1>2, FrameMakers, WorkerAssumption DEF Indices
<1>4. chunks \in Seq(Frame)
  <2>1. Cardinality(run) \in Nat
    BY <1>1, <1>2
  <2> HIDE DEF run
  <2> QED BY <1>3, <2>1, IsASeq
<1>5. r \in {<<>>, <<[type |-> "AssetMiss"]>>, chunks}
  BY Zenon DEF ChunkReplies
<1>6. <<>> \in Seq(Frame) /\ <<[type |-> "AssetMiss"]>> \in Seq(Frame)
  BY FrameMakers
<1> HIDE DEF chunks
<1> QED BY <1>4, <1>5, <1>6, Zenon

\* What asking the next source sends and sets.
LEMMA TryNextType ==
  ASSUME NEW a \in Assets, NEW tried, NEW rest \in Seq(Frame),
         TryNextPeerOrFallBack(a, tried, rest)
  PROVE  down' \in Seq(Frame) /\ peer' \in BOOLEAN
<1>1. 1 \in Indices
  BY WorkerAssumption DEF Indices
<1> QED BY ZenonT(60), <1>1, ChunkRepliesType, ConcatProperties DEF TryNextPeerOrFallBack

-----------------------------------------------------------------------------
(* Fetches.                                                                *)

\* A step that leaves the fetch alone.
LEMMA FetchUntouched ==
  ASSUME FetchInv, UNCHANGED <<parked, fetch, peer, resident>>, down' \in Seq(Frame)
  PROVE  FetchInv'
  BY DEF FetchInv, ParkedIffFetching, PeerOnlyWhileFetching, ResidentIsItsAddress

\* A fetch that is given up leaves nobody waiting.
LEMMA AbandonKeeps ==
  ASSUME FetchInv, NEW rest \in Seq(Frame), AbandonAssetFetch(rest) PROVE FetchInv'
  BY DEF FetchInv, AbandonAssetFetch, ParkedIffFetching, PeerOnlyWhileFetching,
         ResidentIsItsAddress

\* Bytes that are refused are fetched again, or given up.
LEMMA RetryKeeps ==
  ASSUME FetchInv, fetch # None, NEW f \in AssetFetch, NEW rest \in Seq(Frame),
         RejectBytesAndRetry(f, rest)
  PROVE  FetchInv'
<1>1. CASE ~peer /\ AbandonAssetFetch(rest)
  BY <1>1, AbandonKeeps
<1>2. CASE /\ peer
           /\ fetch' = Wiped(f)
           /\ TryNextPeerOrFallBack(f.asset, attempt, rest)
           /\ UNCHANGED <<parked, leases, held, queue, resident>>
  <2>1. f.asset \in Assets
    BY DEF AssetFetch
  <2>2. fetch' \in AssetFetch /\ fetch' # None
    BY <1>2, <2>1, NewFetchType DEF Wiped
  <2>3. down' \in Seq(Frame) /\ peer' \in BOOLEAN
    BY <1>2, <2>1, TryNextType
  <2> QED BY <1>2, <2>2, <2>3
          DEF FetchInv, ParkedIffFetching, PeerOnlyWhileFetching, ResidentIsItsAddress
<1> QED BY <1>1, <1>2 DEF RejectBytesAndRetry

\* The bytes that are kept are those that hashed to the address.
LEMMA FinishKeeps ==
  ASSUME FetchInv, fetch # None, NEW f \in AssetFetch, NEW rest \in Seq(Frame),
         FinishAssetFetch(f, rest)
  PROVE  FetchInv'
<1>1. CASE RejectBytesAndRetry(f, rest)
  BY <1>1, RetryKeeps
<1>2. CASE ~RejectBytesAndRetry(f, rest)
  <2>1. /\ Verified(f)
        /\ resident' = [asset |-> f.asset, own |-> \A i \in Indices : f.have[i] = "own"]
        /\ fetch' = None /\ peer' = FALSE /\ parked' = {} /\ down' = rest
    BY <1>2 DEF FinishAssetFetch, Stranded
  <2>2. resident'.own
    BY <2>1 DEF Verified
  <2> QED BY <2>1, <2>2
          DEF FetchInv, ParkedIffFetching, PeerOnlyWhileFetching, ResidentIsItsAddress
<1> QED BY <1>1, <1>2

\* A chunk lands, and may be the last.
LEMMA ChunkKeeps ==
  ASSUME FetchInv, NEW i \in Indices, NEW bytes \in {"own", "other"},
         NEW rest \in Seq(Frame), HandleAssetChunk(i, bytes, rest)
  PROVE  FetchInv'
<1> DEFINE f == [fetch EXCEPT !.have[i] = bytes]
           missing == Indices \ Landed(f)
           least == CHOOSE m \in missing : \A n \in missing : m <= n
<1>1. CASE fetch = None \/ (fetch # None /\ fetch.have[i] # "none")
  BY <1>1, FetchUntouched DEF HandleAssetChunk
<1>2. CASE fetch # None /\ fetch.have[i] = "none"
  <2>1. f \in AssetFetch /\ f.asset \in Assets
    BY <1>2 DEF FetchInv, AssetFetch
  <2>2. f # None
    BY <2>1, NoFetchAssumption
  <2>3. CASE missing = {} /\ FinishAssetFetch(f, rest)
    BY <1>2, <2>1, <2>3, FinishKeeps
  <2>4. CASE /\ missing # {}
             /\ fetch' = f
             /\ \/ /\ Cardinality(Landed(f)) % Batch = 0
                   /\ \E r \in ChunkReplies(f.asset, least) : down' = rest \o r
                \/ Cardinality(Landed(f)) % Batch # 0 /\ down' = rest
             /\ UNCHANGED <<parked, peer, attempt, resident, held, queue, leases>>
    <3>1. least \in Indices
      <4>1. missing \in SUBSET Nat /\ missing \subseteq Indices
        BY WorkerAssumption DEF Indices
      <4> HIDE DEF missing
      <4>2. \E m \in missing : \A n \in missing : m <= n
        BY <2>4, <4>1, LeastMember
      <4> QED BY <4>1, <4>2
    <3> HIDE DEF least, f
    <3>2. down' \in Seq(Frame)
      BY <2>1, <2>4, <3>1, ChunkRepliesType, ConcatProperties
    <3> QED BY <1>2, <2>1, <2>2, <2>4, <3>2
            DEF FetchInv, ParkedIffFetching, PeerOnlyWhileFetching, ResidentIsItsAddress
  <2> QED BY <1>2, <2>3, <2>4 DEF HandleAssetChunk
<1> QED BY <1>1, <1>2 DEF HandleAssetChunk

\* A chunk that does not fit ends the fetch.
LEMMA MisfitKeeps ==
  ASSUME FetchInv, NEW rest \in Seq(Frame), HandleMisfit(rest) PROVE FetchInv'
<1>1. CASE AbandonAssetFetch(rest)
  BY <1>1, AbandonKeeps
<1>2. CASE ~AbandonAssetFetch(rest)
  BY <1>2, FetchUntouched DEF HandleMisfit
<1> QED BY <1>1, <1>2

\* A source that has not got the asset.
LEMMA MissKeeps ==
  ASSUME FetchInv, NEW rest \in Seq(Frame), HandleAssetMiss(rest) PROVE FetchInv'
<1>1. CASE AbandonAssetFetch(rest)
  BY <1>1, AbandonKeeps
<1>2. CASE ~AbandonAssetFetch(rest)
  <2>1. /\ peer
        /\ TryNextPeerOrFallBack(fetch.asset, attempt, rest)
        /\ UNCHANGED <<parked, fetch, resident>>
    BY <1>2 DEF HandleAssetMiss
  <2>2. fetch # None /\ fetch \in AssetFetch
    BY <2>1 DEF FetchInv, PeerOnlyWhileFetching
  <2>3. fetch.asset \in Assets
    BY <2>2 DEF AssetFetch
  <2>4. down' \in Seq(Frame) /\ peer' \in BOOLEAN
    BY <2>1, <2>3, TryNextType
  <2> QED BY <2>1, <2>2, <2>4
          DEF FetchInv, ParkedIffFetching, PeerOnlyWhileFetching, ResidentIsItsAddress
<1> QED BY <1>1, <1>2

\* A grant parks its task together with the fetch it waits for.
LEMMA GrantKeeps ==
  ASSUME FetchInv, down # <<>>, NEW t \in Tasks, HandleTaskGrant(t) PROVE FetchInv'
<1>1. Tail(down) \in Seq(Frame)
  BY HeadTailProperties DEF FetchInv
<1>2. UNCHANGED resident
  BY DEF HandleTaskGrant
<1>3. CASE UNCHANGED <<parked, fetch, peer>> /\ down' = Tail(down)
  BY <1>1, <1>2, <1>3, FetchUntouched
<1>4. CASE /\ ~Runnable(t)
           /\ parked' = parked \cup {t}
           /\ fetch # None /\ down' = Tail(down) /\ UNCHANGED <<fetch, peer>>
  BY <1>1, <1>2, <1>4
     DEF FetchInv, ParkedIffFetching, PeerOnlyWhileFetching, ResidentIsItsAddress
<1>5. CASE /\ ~Runnable(t)
           /\ parked' = parked \cup {t}
           /\ fetch' = NewFetch(Needs[t])
           /\ TryNextPeerOrFallBack(Needs[t], 0, Tail(down))
  <2>1. Needs[t] \in Assets
    BY <1>5, WorkerAssumption DEF Runnable
  <2>2. fetch' \in AssetFetch /\ fetch' # None
    BY <1>5, <2>1, NewFetchType
  <2>3. down' \in Seq(Frame) /\ peer' \in BOOLEAN
    BY <1>1, <1>5, <2>1, TryNextType
  <2> QED BY <1>2, <1>5, <2>2, <2>3
          DEF FetchInv, ParkedIffFetching, PeerOnlyWhileFetching, ResidentIsItsAddress
<1> QED BY <1>3, <1>4, <1>5 DEF HandleTaskGrant

-----------------------------------------------------------------------------
(* Steps.                                                                  *)

\* There is no worker at first.
LEMMA InitFetchInv == Init => FetchInv
<1> SUFFICES ASSUME Init PROVE FetchInv
  OBVIOUS
<1>1. down \in Seq(Frame) /\ fetch = None /\ parked = {} /\ peer = FALSE
  BY DEF Init
<1>2. resident.own
  BY DEF Init
<1> QED BY <1>1, <1>2
        DEF FetchInv, ParkedIffFetching, PeerOnlyWhileFetching, ResidentIsItsAddress

\* A new worker knows nothing.
LEMMA GoneKeeps == ASSUME Gone PROVE FetchInv'
<1>1. down' \in Seq(Frame)
  BY DEF Gone
<1> QED BY <1>1 DEF Gone, FetchInv, ParkedIffFetching, PeerOnlyWhileFetching,
                    ResidentIsItsAddress

\* The frames that were in inbox_ when the socket went are frames.
LEMMA SurvivorsType ==
  ASSUME FetchInv, NEW s \in Survivors PROVE s \in Seq(Frame)
<1>1. PICK n \in 0 .. Len(down) : s = SubSeq(down, 1, n)
  BY DEF Survivors
<1>2. \A i \in 1 .. n : down[i] \in Frame
  BY <1>1, ElementOfSeq DEF FetchInv
<1> QED BY <1>1, <1>2, SubSeqProperties DEF FetchInv

\* Poll takes a frame out of inbox_.
LEMMA OnFrameKeeps == ASSUME FetchInv, OnFrame PROVE FetchInv'
<1> DEFINE f == Head(down)
<1>1. down # <<>> /\ f \in Frame /\ Tail(down) \in Seq(Frame)
  BY HeadTailProperties DEF OnFrame, FetchInv
<1> HIDE DEF f
<1>2. CASE HandleWelcome \/ (f.type = "Revoke" /\ HandleRevoke(f.task))
           \/ (f.type = "PeerList" /\ HandlePeerList(f.peers))
           \/ Stop(Tail(down))
  BY <1>1, <1>2, FetchUntouched
     DEF HandleWelcome, HandleRevoke, HandlePeerList, Stop, fetchVars
<1>3. CASE down' = Tail(down) /\ UNCHANGED fetchVars
  BY <1>1, <1>3, FetchUntouched DEF fetchVars
<1>4. CASE f.type = "TaskGrant" /\ HandleTaskGrant(f.task)
  BY <1>1, <1>4, FrameFields, GrantKeeps
<1>5. CASE HandleAssetFrame(f)
  <2> DEFINE bytes == IF fetch # None /\ fetch.asset = f.asset THEN "own" ELSE "other"
  <2>1. bytes \in {"own", "other"}
    OBVIOUS
  <2>2. \/ f.type = "AssetChunk" /\ HandleAssetChunk(f.index, bytes, Tail(down))
        \/ HandleMisfit(Tail(down))
        \/ HandleAssetMiss(Tail(down))
    BY <1>5 DEF HandleAssetFrame
  <2> HIDE DEF bytes
  <2> QED BY <1>1, <2>1, <2>2, FrameFields, ChunkKeeps, MisfitKeeps, MissKeeps
<1> QED BY <1>2, <1>3, <1>4, <1>5 DEF OnFrame, f

\* RequestLease, with the grant that answers it.
LEMMA RequestKeeps == ASSUME FetchInv, RequestLease PROVE FetchInv'
<1>1. ASSUME NEW t \in Tasks, NEW r \in GrantReplies(t) PROVE r \in Seq(Frame)
  <2>1. [type |-> "TaskGrant", task |-> t] \in Frame
    BY FrameMakers
  <2>2. ASSUME NEW n \in 1 .. MaxPeers
        PROVE  <<[type |-> "PeerList", peers |-> n], [type |-> "TaskGrant", task |-> t]>>
                 \in Seq(Frame)
    <3>1. [type |-> "PeerList", peers |-> n] \in Frame
      BY FrameMakers
    <3> QED BY <2>1, <3>1
  <2>3. <<[type |-> "TaskGrant", task |-> t]>> \in Seq(Frame)
    BY <2>1
  <2> QED BY <1>1, <2>2, <2>3, Zenon DEF GrantReplies
<1>2. down' \in Seq(Frame)
  BY <1>1, ConcatProperties DEF RequestLease, FetchInv
<1> QED BY <1>2, FetchUntouched DEF RequestLease, fetchVars

\* Every step.
LEMMA NextFetchInv == ASSUME FetchInv, [Next]_vars PROVE FetchInv'
<1>0. down \in Seq(Frame)
  BY DEF FetchInv
<1>1. CASE UNCHANGED vars
  BY <1>0, <1>1, FetchUntouched DEF vars, fetchVars
<1>2. CASE Start
  <2>1. down' \in Seq(Frame)
    BY <1>2, FrameMakers DEF Start
  <2> QED BY <1>2, <2>1, FetchUntouched DEF Start, fetchVars
<1>3. CASE UserStops \/ SetThrottle \/ ExecuteBegins \/ ExecuteEnds \/ LeaseTimeout
           \/ DeviceLost \/ DeviceRecovered \/ \E t \in Tasks : LeaseExpires(t)
  BY <1>0, <1>3, FetchUntouched
     DEF UserStops, Stop, SetThrottle, ExecuteBegins, ExecuteEnds, LeaseTimeout,
         DeviceLost, DeviceRecovered, LeaseExpires, fetchVars
<1>4. CASE Teardown \/ ExecuteAborts
  BY <1>4, GoneKeeps DEF Teardown, ExecuteAborts
<1>5. CASE PeerTimeout
  <2>1. /\ fetch # None /\ TryNextPeerOrFallBack(fetch.asset, attempt, down)
        /\ UNCHANGED <<parked, fetch, resident>>
    BY <1>5 DEF PeerTimeout
  <2>2. fetch.asset \in Assets
    BY <2>1 DEF FetchInv, AssetFetch
  <2>3. down' \in Seq(Frame) /\ peer' \in BOOLEAN
    BY <1>0, <2>1, <2>2, TryNextType
  <2> QED BY <2>1, <2>3
          DEF FetchInv, ParkedIffFetching, PeerOnlyWhileFetching, ResidentIsItsAddress
<1>6. CASE FetchStalls
  BY <1>0, <1>6, AbandonKeeps DEF FetchStalls
<1>7. CASE PeerSends
  BY <1>0, <1>7, ChunkKeeps, MisfitKeeps, MissKeeps DEF PeerSends
<1>8. CASE SocketCloses \/ DeviceDead
  BY <1>8, SurvivorsType, FetchUntouched DEF SocketCloses, DeviceDead, fetchVars
<1>9. ASSUME NEW t \in Tasks, Revoked(t) PROVE FetchInv'
  <2>1. down' \in Seq(Frame)
    BY <1>0, <1>9, FrameMakers, AppendProperties DEF Revoked
  <2> QED BY <1>9, <2>1, FetchUntouched DEF Revoked, fetchVars
<1>10. CASE Dismissed
  <2>1. down' \in Seq(Frame)
    BY <1>0, <1>10, FrameMakers, AppendProperties DEF Dismissed
  <2> QED BY <1>10, <2>1, FetchUntouched DEF Dismissed, fetchVars
<1> QED BY <1>1, <1>2, <1>3, <1>4, <1>5, <1>6, <1>7, <1>8, <1>9, <1>10,
           OnFrameKeeps, RequestKeeps DEF Next

-----------------------------------------------------------------------------
\* However a fetch ends (FinishAssetFetch, AbandonAssetFetch, superseded by
\* HandleTaskGrant), no task stays parked without one, so Poll, which asks for
\* nothing while a task is parked, always has a way on.
THEOREM NobodyLeftParked == Spec => []ParkedIffFetching
<1>1. FetchInv => ParkedIffFetching
  BY DEF FetchInv
<1> QED BY <1>1, InitFetchInv, NextFetchInv, PTL DEF Spec

\* peer_ is set only for a fetch: HandleAssetMiss never takes the
\* coordinator's miss for a peer's.
THEOREM PeersBelongToFetches == Spec => []PeerOnlyWhileFetching
<1>1. FetchInv => PeerOnlyWhileFetching
  BY DEF FetchInv
<1> QED BY <1>1, InitFetchInv, NextFetchInv, PTL DEF Spec

\* Nothing becomes resident (FinishAssetFetch) but the bytes of its address,
\* whatever peers and superseded fetches have written into the buffer.
THEOREM ResidentBytesAreGenuine == Spec => []ResidentIsItsAddress
<1>1. FetchInv => ResidentIsItsAddress
  BY DEF FetchInv
<1> QED BY <1>1, InitFetchInv, NextFetchInv, PTL DEF Spec

-----------------------------------------------------------------------------
(* Leases.                                                                 *)

\* The tasks granted by the frames of s.
Grants(s) ==
  {t \in Tasks : \E i \in DOMAIN s : s[i].type = "TaskGrant" /\ s[i].task = t}

\* A lease of L that s takes back is granted again behind that.
Regranted(s, L) ==
  \A i \in DOMAIN s :
    s[i].type = "Revoke" /\ s[i].task \in L =>
      \E j \in DOMAIN s : j > i /\ s[j].type = "TaskGrant" /\ s[j].task = s[i].task

\* The inductive invariant.  HeldIsComing needs the types of the queues.  A revoke makes
\* the worker forget a task: that is right as long as every revoke on its way is of a
\* lease the coordinator does not have any more, or has given again since.
LeaseInv ==
  /\ FetchInv
  /\ held \in Seq(Tasks) /\ queue \in Seq(Tasks)
  /\ IsFiniteSet(parked) /\ leases \subseteq Tasks
  /\ phase = "off" => leases = {}
  /\ HeldIsComing
  /\ Regranted(down, leases)

\* LeaseNotForgotten, of one step.
Remembered ==
  \A t \in leases \cap leases' : t \in Known /\ t \notin Known' => device' = "lost"

\* Where a task is that the worker knows of.  What is held is elsewhere as well.
LEMMA KnownBy ==
  ASSUME LeaseInv, NEW t \in Tasks, t \in Known
  PROVE  t \in Grants(down) \/ t \in Range(queue) \/ t \in parked \/ t = executing.task
<1>1. down \in Seq(Frame)
  BY DEF LeaseInv, FetchInv
<1>2. t \in Range(held) => t \in Range(queue) \/ t = executing.task
  BY DEF LeaseInv, HeldIsComing
<1>3. t \in Granted => t \in Grants(down)
  BY <1>1 DEF Granted, Grants, Range
<1> QED
  BY <1>2, <1>3 DEF Known

\* And after a step it is known if it is there.
LEMMA KnownThen ==
  ASSUME NEW t \in Tasks,
         t \in Grants(down') \/ t \in Range(queue') \/ t \in parked' \/ t = executing'.task
  PROVE  t \in Known'
<1>1. t \in Grants(down') => t \in Granted'
  <2>1. SUFFICES ASSUME t \in Grants(down')  PROVE t \in Granted'
    OBVIOUS
  <2>2. PICK i \in DOMAIN down' : down'[i].type = "TaskGrant" /\ down'[i].task = t
    BY <2>1 DEF Grants
  <2>3. down'[i] \in {g \in Range(down') : g.type = "TaskGrant"}
    BY <2>2 DEF Range
  <2> QED
    BY <2>2, <2>3 DEF Granted
<1> QED
  BY <1>1 DEF Known

\* The shape of the argument for every step.
LEMMA StepKeepsLeases ==
  ASSUME LeaseInv, FetchInv',
         held' \in Seq(Tasks), queue' \in Seq(Tasks), IsFiniteSet(parked'),
         leases' \subseteq Tasks, phase' = "off" => leases' = {},
         HeldIsComing', Regranted(down', leases'),
         \/ device' = "lost"
         \/ \A t \in leases \cap leases' :
              t \in Grants(down) \/ t \in Range(queue) \/ t \in parked \/ t = executing.task
              => \/ t \in Grants(down') \/ t \in Range(queue')
                 \/ t \in parked' \/ t = executing'.task
  PROVE  LeaseInv' /\ Remembered
<1>1. LeaseInv'
  BY DEF LeaseInv, Regranted
<1>2. ASSUME NEW t \in leases \cap leases', t \in Known, t \notin Known', device' # "lost"
      PROVE  FALSE
  <2>1. t \in Tasks
    BY DEF LeaseInv
  <2>2. t \in Grants(down) \/ t \in Range(queue) \/ t \in parked \/ t = executing.task
    BY <1>2, <2>1, KnownBy
  <2>3. t \in Grants(down') \/ t \in Range(queue') \/ t \in parked' \/ t = executing'.task
    BY <1>2, <2>2
  <2> QED
    BY <1>2, <2>1, <2>3, KnownThen
<1> QED
  BY <1>1, <1>2 DEF Remembered

\* A step that leaves the worker's tasks alone.
LEMMA TasksUntouched ==
  ASSUME LeaseInv, FetchInv', UNCHANGED <<held, queue, executing, parked>>,
         leases' \subseteq leases, phase' = phase \/ phase' # "off",
         Regranted(down', leases'), Grants(down) \subseteq Grants(down')
  PROVE  LeaseInv' /\ Remembered
<1>1. /\ held' \in Seq(Tasks) /\ queue' \in Seq(Tasks) /\ IsFiniteSet(parked')
      /\ leases' \subseteq Tasks /\ (phase' = "off" => leases' = {}) /\ HeldIsComing'
  BY DEF LeaseInv, HeldIsComing
<1> QED
  BY <1>1, StepKeepsLeases

\* A step after which the worker has no lease.
LEMMA NoLeasesLeft ==
  ASSUME LeaseInv, FetchInv', held' = <<>>, queue' = <<>>, IsFiniteSet(parked'),
         leases' = {}
  PROVE  LeaseInv' /\ Remembered
<1>1. held' \in Seq(Tasks) /\ queue' \in Seq(Tasks)
  OBVIOUS
<1>2. HeldIsComing' /\ Regranted(down', leases')
  BY DEF HeldIsComing, Range, Regranted
<1> QED
  BY <1>1, <1>2, StepKeepsLeases

\* What frames that take nothing back do behind others.
LEMMA FramesFollow ==
  ASSUME NEW s \in Seq(Frame), NEW r \in Seq(Frame), NEW L, Regranted(s, L),
         \A i \in DOMAIN r : ~(r[i].type = "Revoke" /\ r[i].task \in L)
  PROVE  /\ s \o r \in Seq(Frame) /\ Regranted(s \o r, L)
         /\ Grants(s) \subseteq Grants(s \o r) /\ Grants(r) \subseteq Grants(s \o r)
<1> DEFINE u == s \o r
<1>1. /\ Len(s) \in Nat /\ DOMAIN s = 1 .. Len(s)
      /\ Len(r) \in Nat /\ DOMAIN r = 1 .. Len(r)
  OBVIOUS
<1>2. /\ u \in Seq(Frame) /\ Len(u) = Len(s) + Len(r) /\ DOMAIN u = 1 .. Len(u)
      /\ \A i \in 1 .. Len(u) : u[i] = IF i <= Len(s) THEN s[i] ELSE r[i - Len(s)]
  BY ConcatProperties
<1> HIDE DEF u
<1>3. \A i \in DOMAIN s : i \in DOMAIN u /\ u[i] = s[i]
  BY <1>1, <1>2
<1>4. \A i \in DOMAIN r : i + Len(s) \in DOMAIN u /\ u[i + Len(s)] = r[i]
  BY <1>1, <1>2
<1>5. ASSUME NEW i \in DOMAIN u, u[i].type = "Revoke", u[i].task \in L
      PROVE  i \in DOMAIN s /\ u[i] = s[i]
  <2>1. CASE i <= Len(s)
    BY <1>1, <1>2, <2>1
  <2>2. CASE i > Len(s)
    <3>1. i - Len(s) \in DOMAIN r /\ u[i] = r[i - Len(s)]
      BY <1>1, <1>2, <2>2
    <3> QED
      BY <1>5, <3>1
  <2> QED
    BY <1>1, <1>2, <2>1, <2>2
<1>6. Regranted(u, L)
  BY <1>3, <1>5 DEF Regranted
<1>7. Grants(s) \subseteq Grants(u) /\ Grants(r) \subseteq Grants(u)
  BY <1>3, <1>4 DEF Grants
<1> QED
  BY <1>2, <1>6, <1>7 DEF u

\* What is left behind the first frame.
LEMMA FrameLeaves ==
  ASSUME NEW s \in Seq(Frame), s # <<>>, NEW L, Regranted(s, L)
  PROVE  /\ Tail(s) \in Seq(Frame) /\ Regranted(Tail(s), L)
         /\ \A t \in Grants(s) : t \in Grants(Tail(s))
                                 \/ (Head(s).type = "TaskGrant" /\ Head(s).task = t)
         /\ Head(s).type = "Revoke" /\ Head(s).task \in L => Head(s).task \in Grants(Tail(s))
<1> DEFINE u == Tail(s)
<1>1. /\ u \in Seq(Frame) /\ Head(s) = s[1] /\ Len(s) \in Nat \ {0}
      /\ DOMAIN s = 1 .. Len(s) /\ DOMAIN u = 1 .. (Len(s) - 1)
      /\ \A i \in 1 .. (Len(s) - 1) : u[i] = s[i + 1]
  BY HeadTailProperties
<1> HIDE DEF u
<1>2. \A i \in DOMAIN s : i = 1 \/ (i - 1 \in DOMAIN u /\ u[i - 1] = s[i])
  BY <1>1
<1>3. \A i \in DOMAIN u : i + 1 \in DOMAIN s /\ u[i] = s[i + 1] /\ i \in Nat
  BY <1>1
<1>4. \A i \in DOMAIN s : s[i].type = "TaskGrant" => s[i] \in Frame /\ s[i].task \in Tasks
  BY <1>1, FrameFields
<1>5. ASSUME NEW i \in DOMAIN u, u[i].type = "Revoke", u[i].task \in L
      PROVE  \E j \in DOMAIN u : j > i /\ u[j].type = "TaskGrant" /\ u[j].task = u[i].task
  <2>1. PICK k \in DOMAIN s : k > i + 1 /\ s[k].type = "TaskGrant" /\ s[k].task = u[i].task
    BY <1>3, <1>5 DEF Regranted
  <2>2. k - 1 \in DOMAIN u /\ u[k - 1] = s[k] /\ k - 1 > i
    BY <1>1, <1>2, <1>3, <2>1
  <2> QED
    BY <2>1, <2>2
<1>6. Regranted(u, L)
  BY <1>5 DEF Regranted
<1>7. \A t \in Grants(s) : t \in Grants(u) \/ (Head(s).type = "TaskGrant" /\ Head(s).task = t)
  BY <1>1, <1>2 DEF Grants
<1>8. ASSUME Head(s).type = "Revoke", Head(s).task \in L  PROVE  Head(s).task \in Grants(u)
  <2>1. 1 \in DOMAIN s
    BY <1>1
  <2>2. PICK k \in DOMAIN s : k > 1 /\ s[k].type = "TaskGrant" /\ s[k].task = s[1].task
    BY <1>1, <1>8, <2>1 DEF Regranted
  <2>3. k - 1 \in DOMAIN u /\ u[k - 1] = s[k]
    BY <1>2, <2>2
  <2> QED
    BY <1>1, <1>4, <2>2, <2>3 DEF Grants
<1> QED
  BY <1>1, <1>6, <1>7, <1>8 DEF u

\* What is left of down has all that is said of leases.
Carries(rest) ==
  rest \in Seq(Frame) /\ Regranted(rest, leases) /\ Grants(down) \subseteq Grants(rest)

\* Chunks, a miss or nothing: no word of a task.
LEMMA RepliesSayNoTask ==
  ASSUME NEW a \in Assets, NEW from \in Indices, NEW r \in ChunkReplies(a, from)
  PROVE  r \in Seq(Frame) /\ \A i \in DOMAIN r : r[i].type \in {"AssetMiss", "AssetChunk"}
<1>1. r \in Seq(Frame)
  BY ChunkRepliesType
<1> DEFINE chunks == [n \in 1 .. Cardinality((from .. from + Batch - 1) \cap Indices) |->
                        [type |-> "AssetChunk", asset |-> a, index |-> from + n - 1]]
<1>2. r \in {<<>>, <<[type |-> "AssetMiss"]>>, chunks}
  BY Zenon DEF ChunkReplies
<1>3. \A i \in DOMAIN chunks : chunks[i].type = "AssetChunk"
  OBVIOUS
<1> HIDE DEF chunks
<1>4. CASE r = <<>>
  BY <1>1, <1>4
<1>5. CASE r = <<[type |-> "AssetMiss"]>>
  BY <1>1, <1>5
<1>6. CASE r = chunks
  BY <1>1, <1>3, <1>6
<1> QED
  BY <1>2, <1>4, <1>5, <1>6

\* Frames sent behind that say nothing of tasks.
LEMMA RepliesCarry ==
  ASSUME NEW rest \in Seq(Frame), Carries(rest),
         NEW a \in Assets, NEW from \in Indices, NEW r \in ChunkReplies(a, from)
  PROVE  Carries(rest \o r)
<1>1. r \in Seq(Frame) /\ \A i \in DOMAIN r : r[i].type # "Revoke"
  BY RepliesSayNoTask
<1>2. Regranted(rest, leases)
  BY DEF Carries
<1>3. /\ rest \o r \in Seq(Frame) /\ Regranted(rest \o r, leases)
      /\ Grants(rest) \subseteq Grants(rest \o r)
  BY <1>1, <1>2, FramesFollow
<1> QED
  BY <1>3 DEF Carries

\* The next source is asked.
LEMMA TryNextCarries ==
  ASSUME NEW a \in Assets, NEW tried, NEW rest \in Seq(Frame), Carries(rest),
         TryNextPeerOrFallBack(a, tried, rest)
  PROVE  Carries(down')
<1>1. 1 \in Indices
  BY WorkerAssumption DEF Indices
<1> QED
  BY <1>1, RepliesCarry DEF TryNextPeerOrFallBack

\* A step that leaves the worker's tasks alone, with frames that say nothing of tasks.
LEMMA CarriedUntouched ==
  ASSUME LeaseInv, FetchInv', UNCHANGED <<held, queue, executing, parked, phase, leases>>,
         Carries(down')
  PROVE  LeaseInv' /\ Remembered
<1>1. Regranted(down', leases') /\ Grants(down) \subseteq Grants(down')
  BY DEF Carries
<1> QED
  BY <1>1, TasksUntouched

\* Fewer leases, fewer to be granted again.
LEMMA FewerLeases ==
  ASSUME NEW s, NEW L, NEW M, M \subseteq L, Regranted(s, L)
  PROVE  Regranted(s, M)
  BY DEF Regranted

\* std::erase_if on held_ and queue_.
LEMMA ListErased ==
  ASSUME NEW s \in Seq(Tasks), NEW S
  PROVE  Erased(s, S) \in Seq(Tasks) /\ Range(Erased(s, S)) = Range(s) \ S
<1>1. /\ \A n \in DOMAIN Erased(s, S) :
           Erased(s, S)[n] \notin S /\ \E i \in DOMAIN s : s[i] = Erased(s, S)[n]
      /\ \A i \in DOMAIN s : s[i] \notin S => \E n \in DOMAIN Erased(s, S) : Erased(s, S)[n] = s[i]
  BY ErasedKeeps
<1> QED
  BY <1>1, ErasedKeeps DEF Range

\* push_back on them.
LEMMA ListAppended ==
  ASSUME NEW s \in Seq(Tasks), NEW t \in Tasks
  PROVE  Append(s, t) \in Seq(Tasks) /\ Range(Append(s, t)) = Range(s) \cup {t}
<1> DEFINE u == Append(s, t)
<1>1. /\ u \in Seq(Tasks) /\ Len(s) \in Nat /\ DOMAIN s = 1 .. Len(s)
      /\ DOMAIN u = 1 .. (Len(s) + 1) /\ u[Len(s) + 1] = t
      /\ \A i \in 1 .. Len(s) : u[i] = s[i]
  BY AppendProperties
<1> HIDE DEF u
<1>2. /\ \A i \in DOMAIN s : i \in DOMAIN u /\ u[i] = s[i]
      /\ \A i \in DOMAIN u : (i \in DOMAIN s /\ u[i] = s[i]) \/ u[i] = t
      /\ \E i \in DOMAIN u : u[i] = t
  BY <1>1
<1>3. Range(u) = Range(s) \cup {t}
  <2>1. Range(u) \subseteq Range(s) \cup {t}
    BY <1>2 DEF Range
  <2>2. Range(s) \subseteq Range(u) /\ t \in Range(u)
    BY <1>2 DEF Range
  <2> QED
    BY <2>1, <2>2
<1> QED
  BY <1>1, <1>3 DEF u

\* front and pop_front on queue_.
LEMMA ListTaken ==
  ASSUME NEW s \in Seq(Tasks), s # <<>>
  PROVE  /\ Tail(s) \in Seq(Tasks) /\ Head(s) \in Tasks
         /\ Range(s) = Range(Tail(s)) \cup {Head(s)}
<1> DEFINE u == Tail(s)
<1>1. /\ u \in Seq(Tasks) /\ Head(s) = s[1] /\ s[1] \in Tasks /\ Len(s) \in Nat \ {0}
      /\ DOMAIN s = 1 .. Len(s) /\ DOMAIN u = 1 .. (Len(s) - 1)
      /\ \A i \in 1 .. (Len(s) - 1) : u[i] = s[i + 1]
  BY HeadTailProperties
<1> HIDE DEF u
<1>2. /\ \A i \in DOMAIN s : i = 1 \/ (i - 1 \in DOMAIN u /\ u[i - 1] = s[i])
      /\ \A i \in DOMAIN u : i + 1 \in DOMAIN s /\ u[i] = s[i + 1]
      /\ 1 \in DOMAIN s
  BY <1>1
<1>3. Range(s) \subseteq Range(u) \cup {Head(s)}
  BY <1>1, <1>2 DEF Range
<1>4. Range(u) \subseteq Range(s) /\ Head(s) \in Range(s)
  BY <1>1, <1>2 DEF Range
<1> QED
  BY <1>1, <1>3, <1>4 DEF u

\* A fetch is given up: its tasks go back to the coordinator, which waits for them no more.
LEMMA AbandonKeepsLeases ==
  ASSUME LeaseInv, FetchInv', NEW rest \in Seq(Frame), Carries(rest),
         AbandonAssetFetch(rest), UNCHANGED <<phase, executing>>
  PROVE  LeaseInv' /\ Remembered
<1>1. /\ parked' = {} /\ leases' = leases \ parked /\ held' = Erased(held, parked)
      /\ down' = rest /\ queue' = queue
  BY DEF AbandonAssetFetch
<1>2. /\ held \in Seq(Tasks) /\ queue \in Seq(Tasks) /\ leases \subseteq Tasks
      /\ phase = "off" => leases = {}
      /\ Range(held) \subseteq Range(queue) \cup {executing.task}
  BY DEF LeaseInv, HeldIsComing
<1>3. held' \in Seq(Tasks) /\ Range(held') \subseteq Range(held)
  BY <1>1, <1>2, ListErased
<1>4. IsFiniteSet(parked')
  BY <1>1, FS_EmptySet
<1>5. HeldIsComing'
  BY <1>1, <1>2, <1>3 DEF HeldIsComing
<1>6. Regranted(down', leases') /\ Grants(down) \subseteq Grants(down')
  BY <1>1, FewerLeases DEF Carries
<1> QED
  BY <1>1, <1>2, <1>3, <1>4, <1>5, <1>6, StepKeepsLeases

\* Bytes that are refused.
LEMMA RetryKeepsLeases ==
  ASSUME LeaseInv, FetchInv', NEW f \in AssetFetch, NEW rest \in Seq(Frame), Carries(rest),
         RejectBytesAndRetry(f, rest), UNCHANGED <<phase, executing>>
  PROVE  LeaseInv' /\ Remembered
<1>1. CASE AbandonAssetFetch(rest)
  BY <1>1, AbandonKeepsLeases
<1>2. CASE /\ TryNextPeerOrFallBack(f.asset, attempt, rest)
           /\ UNCHANGED <<parked, leases, held, queue, resident>>
  <2>1. f.asset \in Assets
    BY DEF AssetFetch
  <2>2. Carries(down')
    BY <1>2, <2>1, TryNextCarries
  <2> QED
    BY <1>2, <2>2, CarriedUntouched
<1> QED
  BY <1>1, <1>2 DEF RejectBytesAndRetry

\* An asset is there: its tasks are queued, the others go back.
LEMMA FinishKeepsLeases ==
  ASSUME LeaseInv, FetchInv', NEW f \in AssetFetch, NEW rest \in Seq(Frame), Carries(rest),
         FinishAssetFetch(f, rest), UNCHANGED <<phase, executing>>
  PROVE  LeaseInv' /\ Remembered
<1>1. CASE RejectBytesAndRetry(f, rest)
  BY <1>1, RetryKeepsLeases
<1>2. CASE ~RejectBytesAndRetry(f, rest)
  <2> DEFINE mine == {t \in parked : Needs[t] = f.asset}
             more == SetToSeq(mine)
  <2>1. /\ queue' = queue \o more
        /\ leases' = leases \ (parked \ mine)
        /\ held' = Erased(held, parked \ mine)
        /\ parked' = {} /\ down' = rest
    BY <1>2 DEF FinishAssetFetch, Stranded
  <2>2. /\ held \in Seq(Tasks) /\ queue \in Seq(Tasks) /\ leases \subseteq Tasks
        /\ phase = "off" => leases = {}
        /\ IsFiniteSet(parked) /\ parked \subseteq Tasks
        /\ Range(held) \subseteq Range(queue) \cup {executing.task}
    BY DEF LeaseInv, FetchInv, HeldIsComing
  <2>3. IsFiniteSet(mine) /\ mine \subseteq Tasks
    BY <2>2, FS_Subset
  <2>4. more \in Seq(Tasks) /\ \A t \in mine : \E i \in DOMAIN more : more[i] = t
    <3> HIDE DEF mine
    <3>1. more \in Seq(mine) /\ Enumerates(more, mine)
      BY <2>3, EnumeratesSetToSeq
    <3> HIDE DEF more
    <3>2. more \in Seq(Tasks)
      BY <2>3, <3>1
    <3> QED
      BY <3>1, <3>2 DEF Enumerates, ToSet
  <2> HIDE DEF more, mine
  <2>5. queue' \in Seq(Tasks) /\ Range(queue) \subseteq Range(queue') /\ mine \subseteq Range(queue')
    <3>1. /\ Len(queue) \in Nat /\ DOMAIN queue = 1 .. Len(queue)
          /\ Len(more) \in Nat /\ DOMAIN more = 1 .. Len(more)
      BY <2>2, <2>4
    <3>2. /\ queue' \in Seq(Tasks) /\ DOMAIN queue' = 1 .. (Len(queue) + Len(more))
          /\ \A i \in 1 .. (Len(queue) + Len(more)) :
               queue'[i] = IF i <= Len(queue) THEN queue[i] ELSE more[i - Len(queue)]
      BY <2>1, <2>2, <2>4, ConcatProperties
    <3>3. \A i \in DOMAIN queue : i \in DOMAIN queue' /\ queue'[i] = queue[i]
      BY <3>1, <3>2
    <3>4. \A i \in DOMAIN more :
            i + Len(queue) \in DOMAIN queue' /\ queue'[i + Len(queue)] = more[i]
      BY <3>1, <3>2
    <3>5. \A t \in mine : \E i \in DOMAIN queue' : queue'[i] = t
      BY <2>4, <3>4
    <3> QED
      BY <3>2, <3>3, <3>5 DEF Range
  <2>6. held' \in Seq(Tasks) /\ Range(held') \subseteq Range(held)
    BY <2>1, <2>2, ListErased
  <2>7. HeldIsComing'
    BY <2>2, <2>5, <2>6 DEF HeldIsComing
  <2>8. IsFiniteSet(parked') /\ leases' \subseteq Tasks /\ (phase' = "off" => leases' = {})
    BY <2>1, <2>2, FS_EmptySet
  <2>9. Regranted(down', leases') /\ Grants(down) \subseteq Grants(down')
    BY <2>1, FewerLeases DEF Carries
  <2>10. \A t \in leases \cap leases' :
           t \in Grants(down) \/ t \in Range(queue) \/ t \in parked \/ t = executing.task
           => t \in Grants(down') \/ t \in Range(queue') \/ t = executing'.task
    BY <2>1, <2>5, <2>9
  <2> QED
    BY <2>5, <2>6, <2>7, <2>8, <2>9, <2>10, StepKeepsLeases
<1> QED
  BY <1>1, <1>2

\* A chunk lands, and may be the last.
LEMMA ChunkKeepsLeases ==
  ASSUME LeaseInv, FetchInv', NEW i \in Indices, NEW bytes \in {"own", "other"},
         NEW rest \in Seq(Frame), Carries(rest), HandleAssetChunk(i, bytes, rest),
         UNCHANGED <<phase, executing>>
  PROVE  LeaseInv' /\ Remembered
<1> DEFINE f == [fetch EXCEPT !.have[i] = bytes]
           missing == Indices \ Landed(f)
           least == CHOOSE m \in missing : \A n \in missing : m <= n
<1>1. CASE down' = rest /\ UNCHANGED <<parked, held, queue, leases>>
  BY <1>1, CarriedUntouched
<1>2. CASE fetch # None /\ missing = {} /\ FinishAssetFetch(f, rest)
  <2>1. f \in AssetFetch
    BY <1>2 DEF LeaseInv, FetchInv, AssetFetch
  <2> HIDE DEF f
  <2> QED
    BY <1>2, <2>1, FinishKeepsLeases
<1>3. CASE /\ fetch # None /\ missing # {}
           /\ \E r \in ChunkReplies(f.asset, least) : down' = rest \o r
           /\ UNCHANGED <<parked, held, queue, leases>>
  <2>1. f.asset \in Assets
    BY <1>3 DEF LeaseInv, FetchInv, AssetFetch
  <2>2. least \in Indices
    <3>1. missing \in SUBSET Nat /\ missing \subseteq Indices
      BY WorkerAssumption DEF Indices
    <3> HIDE DEF missing
    <3>2. \E m \in missing : \A n \in missing : m <= n
      BY <1>3, <3>1, LeastMember
    <3> QED
      BY <3>1, <3>2
  <2> HIDE DEF least, f
  <2>3. Carries(down')
    BY <1>3, <2>1, <2>2, RepliesCarry
  <2> QED
    BY <1>3, <2>3, CarriedUntouched
<1> HIDE DEF f, least
<1> QED
  BY <1>1, <1>2, <1>3 DEF HandleAssetChunk, f, least

\* A chunk that does not fit.
LEMMA MisfitKeepsLeases ==
  ASSUME LeaseInv, FetchInv', NEW rest \in Seq(Frame), Carries(rest), HandleMisfit(rest),
         UNCHANGED <<phase, executing>>
  PROVE  LeaseInv' /\ Remembered
<1>1. CASE AbandonAssetFetch(rest)
  BY <1>1, AbandonKeepsLeases
<1>2. CASE down' = rest /\ UNCHANGED <<parked, held, queue, leases>>
  BY <1>2, CarriedUntouched
<1> QED
  BY <1>1, <1>2 DEF HandleMisfit

\* A source that has not got the asset.
LEMMA MissKeepsLeases ==
  ASSUME LeaseInv, FetchInv', NEW rest \in Seq(Frame), Carries(rest), HandleAssetMiss(rest),
         UNCHANGED <<phase, executing>>
  PROVE  LeaseInv' /\ Remembered
<1>1. CASE AbandonAssetFetch(rest)
  BY <1>1, AbandonKeepsLeases
<1>2. CASE /\ peer /\ TryNextPeerOrFallBack(fetch.asset, attempt, rest)
           /\ UNCHANGED <<parked, held, queue, leases>>
  <2>1. fetch.asset \in Assets
    BY <1>2 DEF LeaseInv, FetchInv, PeerOnlyWhileFetching, AssetFetch
  <2>2. Carries(down')
    BY <1>2, <2>1, TryNextCarries
  <2> QED
    BY <1>2, <2>2, CarriedUntouched
<1> QED
  BY <1>1, <1>2 DEF HandleAssetMiss

\* A task is granted: it is refused and goes back, is queued and held, or is parked.
LEMMA GrantKeepsLeases ==
  ASSUME LeaseInv, FetchInv', down # <<>>, NEW t \in Tasks,
         Head(down).type = "TaskGrant", Head(down).task = t,
         HandleTaskGrant(t)
  PROVE  LeaseInv' /\ Remembered
<1> DEFINE rest == Tail(down)
<1>1. /\ held \in Seq(Tasks) /\ queue \in Seq(Tasks) /\ leases \subseteq Tasks
      /\ phase = "off" => leases = {}
      /\ IsFiniteSet(parked)
      /\ Range(held) \subseteq Range(queue) \cup {executing.task}
      /\ down \in Seq(Frame) /\ Regranted(down, leases)
  BY DEF LeaseInv, FetchInv, HeldIsComing
<1>2. /\ rest \in Seq(Frame) /\ Regranted(rest, leases)
      /\ \A u \in Grants(down) : u \in Grants(rest) \/ u = t
  BY <1>1, FrameLeaves
<1>3. UNCHANGED <<phase, executing>>
  BY DEF HandleTaskGrant, linkVars
<1>4. CASE /\ leases' = leases \ {t} /\ held' = Without(held, t) /\ down' = rest
           /\ UNCHANGED <<queue, parked>>
  <2>1. held' \in Seq(Tasks) /\ Range(held') \subseteq Range(held)
    BY <1>1, <1>4, ListErased DEF Without
  <2>2. HeldIsComing' /\ Regranted(down', leases')
    BY <1>1, <1>2, <1>3, <1>4, <2>1, FewerLeases DEF HeldIsComing
  <2> HIDE DEF rest
  <2>3. /\ queue' \in Seq(Tasks) /\ IsFiniteSet(parked') /\ leases' \subseteq Tasks
        /\ phase' = "off" => leases' = {}
    BY <1>1, <1>3, <1>4
  <2>4. \A u \in leases \cap leases' :
          u \in Grants(down) \/ u \in Range(queue) \/ u \in parked \/ u = executing.task
          => u \in Grants(down') \/ u \in Range(queue') \/ u \in parked' \/ u = executing'.task
    BY <1>2, <1>3, <1>4
  <2> QED
    BY <2>1, <2>2, <2>3, <2>4, StepKeepsLeases
<1>5. CASE /\ held' = Append(held, t) /\ queue' = Append(queue, t) /\ down' = rest
           /\ UNCHANGED <<leases, parked>>
  <2>1. /\ held' \in Seq(Tasks) /\ Range(held') \subseteq Range(held) \cup {t}
        /\ queue' \in Seq(Tasks) /\ Range(queue') = Range(queue) \cup {t}
    BY <1>1, <1>5, ListAppended
  <2>2. HeldIsComing'
    BY <1>1, <1>3, <2>1 DEF HeldIsComing
  <2> HIDE DEF rest
  <2>3. \A u \in leases \cap leases' :
          u \in Grants(down) \/ u \in Range(queue) \/ u \in parked \/ u = executing.task
          => u \in Grants(down') \/ u \in Range(queue') \/ u \in parked' \/ u = executing'.task
    BY <1>2, <1>3, <1>5, <2>1
  <2>4. /\ IsFiniteSet(parked') /\ leases' \subseteq Tasks /\ (phase' = "off" => leases' = {})
        /\ Regranted(down', leases')
    BY <1>1, <1>2, <1>3, <1>5
  <2> QED
    BY <2>1, <2>2, <2>3, <2>4, StepKeepsLeases
<1>6. CASE ~Runnable(t) /\ parked' = parked \cup {t} /\ UNCHANGED <<leases, held, queue>>
  <2>1. Needs[t] \in Assets /\ 1 \in Indices
    BY <1>6, WorkerAssumption DEF Runnable, Indices
  <2>2. \/ down' = rest
        \/ \E r \in ChunkReplies(Needs[t], 1) : down' = rest \o r
    BY <1>6 DEF HandleTaskGrant, TryNextPeerOrFallBack
  <2> HIDE DEF rest
  <2>3. Regranted(down', leases) /\ Grants(rest) \subseteq Grants(down')
    <3>1. CASE down' = rest
      BY <1>2, <3>1
    <3>2. ASSUME NEW r \in ChunkReplies(Needs[t], 1), down' = rest \o r
          PROVE  Regranted(down', leases) /\ Grants(rest) \subseteq Grants(down')
      <4>1. r \in Seq(Frame) /\ \A i \in DOMAIN r : r[i].type # "Revoke"
        BY <2>1, RepliesSayNoTask
      <4> QED
        BY <1>2, <3>2, <4>1, FramesFollow
    <3> QED
      BY <2>2, <3>1, <3>2
  <2>4. IsFiniteSet(parked')
    BY <1>1, <1>6, FS_AddElement
  <2>5. \A u \in leases \cap leases' :
          u \in Grants(down) \/ u \in Range(queue) \/ u \in parked \/ u = executing.task
          => u \in Grants(down') \/ u \in Range(queue') \/ u \in parked' \/ u = executing'.task
    BY <1>2, <1>3, <1>6, <2>3
  <2>6. /\ held' \in Seq(Tasks) /\ queue' \in Seq(Tasks) /\ leases' \subseteq Tasks
        /\ (phase' = "off" => leases' = {})
        /\ HeldIsComing' /\ Regranted(down', leases')
    BY <1>1, <1>3, <1>6, <2>3 DEF HeldIsComing
  <2> QED
    BY <2>4, <2>5, <2>6, StepKeepsLeases
<1> QED
  BY <1>4, <1>5, <1>6 DEF HandleTaskGrant

\* A task is taken back: the worker forgets it, unless it has been granted again behind.
LEMMA RevokeKeepsLeases ==
  ASSUME LeaseInv, FetchInv', down # <<>>, NEW t,
         Head(down).type = "Revoke", Head(down).task = t,
         HandleRevoke(t)
  PROVE  LeaseInv' /\ Remembered
<1> DEFINE rest == Tail(down)
<1>1. /\ held \in Seq(Tasks) /\ queue \in Seq(Tasks) /\ leases \subseteq Tasks
      /\ phase = "off" => leases = {}
      /\ IsFiniteSet(parked)
      /\ Range(held) \subseteq Range(queue) \cup {executing.task}
      /\ down \in Seq(Frame) /\ Regranted(down, leases)
  BY DEF LeaseInv, FetchInv, HeldIsComing
<1>2. /\ Regranted(rest, leases) /\ Grants(down) \subseteq Grants(rest)
      /\ t \in leases => t \in Grants(rest)
  BY <1>1, FrameLeaves
<1> HIDE DEF rest
<1>3. /\ UNCHANGED <<phase, executing, parked, leases>>
      /\ down' = rest /\ queue' = Erased(queue, {t}) /\ held' = Erased(held, {t})
  BY DEF HandleRevoke, HeldAfterRevoke, Without, linkVars, fetchVars, rest
<1>4. /\ held' \in Seq(Tasks) /\ Range(held') = Range(held) \ {t}
      /\ queue' \in Seq(Tasks) /\ Range(queue') = Range(queue) \ {t}
  BY <1>1, <1>3, ListErased
<1>5. HeldIsComing'
  BY <1>1, <1>3, <1>4 DEF HeldIsComing
<1>6. \A u \in leases \cap leases' :
        u \in Grants(down) \/ u \in Range(queue) \/ u \in parked \/ u = executing.task
        => u \in Grants(down') \/ u \in Range(queue') \/ u \in parked' \/ u = executing'.task
  BY <1>2, <1>3, <1>4
<1>7. /\ IsFiniteSet(parked') /\ leases' \subseteq Tasks /\ (phase' = "off" => leases' = {})
      /\ Regranted(down', leases')
  BY <1>1, <1>2, <1>3
<1> QED
  BY <1>4, <1>5, <1>6, <1>7, StepKeepsLeases

\* Poll takes a frame out of inbox_.
LEMMA OnFrameKeepsLeases ==
  ASSUME LeaseInv, FetchInv', OnFrame  PROVE  LeaseInv' /\ Remembered
<1> DEFINE f == Head(down)
           rest == Tail(down)
<1>1. /\ down # <<>> /\ down \in Seq(Frame) /\ Regranted(down, leases)
      /\ f \in Frame /\ rest \in Seq(Frame)
      /\ IsFiniteSet(parked)
  BY HeadTailProperties DEF OnFrame, LeaseInv, FetchInv
<1>2. /\ Regranted(rest, leases)
      /\ f.type # "TaskGrant" => Grants(down) \subseteq Grants(rest)
  BY <1>1, FrameLeaves
<1>3. CASE f.type = "TaskGrant" /\ HandleTaskGrant(f.task)
  BY <1>1, <1>3, FrameFields, GrantKeepsLeases
<1>4. CASE f.type = "Revoke" /\ HandleRevoke(f.task)
  BY <1>1, <1>4, RevokeKeepsLeases
<1> HIDE DEF f, rest
<1>5. f.type # "TaskGrant" => Carries(rest)
  BY <1>1, <1>2 DEF Carries
<1>6. CASE \/ f.type = "Welcome" /\ HandleWelcome
           \/ f.type = "PeerList" /\ HandlePeerList(f.peers)
           \/ f.type = "Stop" /\ down' = rest
              /\ UNCHANGED <<linkVars, askVars, workVars, fetchVars, device, leases>>
  <2>1. down' = rest /\ UNCHANGED <<held, queue, executing, parked, phase, leases>>
    BY <1>6 DEF HandleWelcome, HandlePeerList, linkVars, workVars, fetchVars, rest
  <2>2. Carries(down')
    BY <1>5, <1>6, <2>1
  <2> QED
    BY <2>1, <2>2, CarriedUntouched
<1>7. CASE HandleAssetFrame(f)
  <2> DEFINE bytes == IF fetch # None /\ fetch.asset = f.asset THEN "own" ELSE "other"
  <2>1. bytes \in {"own", "other"} /\ UNCHANGED <<phase, executing>>
    BY <1>7 DEF HandleAssetFrame, linkVars
  <2>2. \/ f.type = "AssetChunk" /\ HandleAssetChunk(f.index, bytes, rest)
        \/ f.type = "AssetChunk" /\ HandleMisfit(rest)
        \/ f.type = "AssetMiss" /\ HandleAssetMiss(rest)
    BY <1>7 DEF HandleAssetFrame, rest
  <2> HIDE DEF bytes
  <2>3. Carries(rest)
    BY <1>5, <2>2
  <2> QED
    BY <1>1, <2>1, <2>2, <2>3, FrameFields, ChunkKeepsLeases, MisfitKeepsLeases,
       MissKeepsLeases
<1>8. CASE Stop(rest)
  BY <1>1, <1>8, NoLeasesLeft DEF Stop, fetchVars
<1> QED
  BY <1>3, <1>4, <1>6, <1>7, <1>8 DEF OnFrame, f, rest

\* RequestLease: a task the coordinator has not given this worker is granted; what it says
\* of the task comes after whatever took it back before.
LEMMA RequestKeepsLeases ==
  ASSUME LeaseInv, FetchInv', RequestLease  PROVE  LeaseInv' /\ Remembered
<1>1. /\ down \in Seq(Frame) /\ Regranted(down, leases) /\ leases \subseteq Tasks
      /\ held \in Seq(Tasks) /\ queue \in Seq(Tasks) /\ IsFiniteSet(parked) /\ HeldIsComing
      /\ phase # "off"
  BY DEF LeaseInv, FetchInv, RequestLease, Unoccupied, Eligible, Polling
<1>2. UNCHANGED <<phase, held, queue, executing, parked>>
  BY DEF RequestLease, linkVars, workVars, fetchVars
<1>3. CASE UNCHANGED <<down, leases>>
  BY <1>1, <1>2, <1>3, TasksUntouched
<1>4. ASSUME NEW t \in Tasks \ leases, NEW r \in GrantReplies(t),
             down' = down \o r, leases' = leases \cup {t}
      PROVE  LeaseInv' /\ Remembered
  <2> DEFINE g == [type |-> "TaskGrant", task |-> t]
  <2>1. g \in Frame /\ g.type = "TaskGrant" /\ g.task = t
    BY FrameMakers
  <2>2. \/ r = <<g>>
        \/ \E n \in 1 .. MaxPeers : r = <<[type |-> "PeerList", peers |-> n], g>>
    BY Zenon DEF GrantReplies
  <2> HIDE DEF g
  <2>3. /\ r \in Seq(Frame) /\ \A i \in DOMAIN r : r[i].type # "Revoke"
        /\ \E i \in DOMAIN r : r[i] = g
    <3>1. CASE r = <<g>>
      BY <2>1, <3>1
    <3>2. ASSUME NEW n \in 1 .. MaxPeers, r = <<[type |-> "PeerList", peers |-> n], g>>
          PROVE  /\ r \in Seq(Frame) /\ \A i \in DOMAIN r : r[i].type # "Revoke"
                 /\ \E i \in DOMAIN r : r[i] = g
      <4> DEFINE p == [type |-> "PeerList", peers |-> n]
      <4>1. p \in Frame /\ p.type = "PeerList" /\ r = <<p, g>>
        BY <3>2, FrameMakers
      <4> HIDE DEF p
      <4>2. r \in Seq(Frame) /\ DOMAIN r = {1, 2} /\ r[1] = p /\ r[2] = g
        BY <2>1, <4>1
      <4> QED
        BY <2>1, <4>1, <4>2
    <3> QED
      BY <2>2, <3>1, <3>2
  <2>4. PICK k \in DOMAIN r : r[k] = g
    BY <2>3
  <2>5. /\ Len(down) \in Nat /\ DOMAIN down = 1 .. Len(down)
        /\ Len(r) \in Nat /\ DOMAIN r = 1 .. Len(r)
    BY <1>1, <2>3
  <2>6. /\ DOMAIN down' = 1 .. (Len(down) + Len(r))
        /\ \A i \in 1 .. (Len(down) + Len(r)) :
             down'[i] = IF i <= Len(down) THEN down[i] ELSE r[i - Len(down)]
    BY <1>1, <1>4, <2>3, ConcatProperties
  <2>7. k + Len(down) \in DOMAIN down' /\ down'[k + Len(down)] = g
    BY <2>4, <2>5, <2>6
  <2>8. Regranted(down', leases) /\ Grants(down) \subseteq Grants(down')
    BY <1>1, <1>4, <2>3, FramesFollow
  <2>9. ASSUME NEW i \in DOMAIN down', down'[i].type = "Revoke", down'[i].task = t
        PROVE  \E j \in DOMAIN down' : j > i /\ down'[j].type = "TaskGrant" /\ down'[j].task = t
    <3>1. i <= Len(down)
      <4>1. SUFFICES ASSUME i > Len(down)  PROVE FALSE
        BY <2>5, <2>6
      <4>2. i - Len(down) \in DOMAIN r /\ down'[i] = r[i - Len(down)]
        BY <2>5, <2>6, <4>1
      <4> QED
        BY <2>3, <2>9, <4>2
    <3> QED
      BY <2>1, <2>4, <2>5, <2>6, <2>7, <3>1
  <2>10. Regranted(down', leases')
    BY <1>4, <2>8, <2>9 DEF Regranted
  <2>11. \A u \in leases \cap leases' :
           u \in Grants(down) \/ u \in Range(queue) \/ u \in parked \/ u = executing.task
           => u \in Grants(down') \/ u \in Range(queue') \/ u \in parked' \/ u = executing'.task
    BY <1>2, <2>8
  <2>12. /\ held' \in Seq(Tasks) /\ queue' \in Seq(Tasks) /\ IsFiniteSet(parked')
         /\ leases' \subseteq Tasks /\ (phase' = "off" => leases' = {}) /\ HeldIsComing'
    BY <1>1, <1>2, <1>4 DEF HeldIsComing
  <2> QED
    BY <2>10, <2>11, <2>12, StepKeepsLeases
<1> QED
  BY <1>3, <1>4 DEF RequestLease

\* A frame of the coordinator's own accord; if it takes a task back, it has done so.
LEMMA SentKeepsLeases ==
  ASSUME LeaseInv, FetchInv', NEW f \in Frame, down' = Append(down, f), leases' \subseteq leases,
         ~(f.type = "Revoke" /\ f.task \in leases'),
         UNCHANGED <<held, queue, executing, parked, phase>>
  PROVE  LeaseInv' /\ Remembered
<1> DEFINE r == <<f>>
<1>1. down \in Seq(Frame) /\ Regranted(down, leases')
  BY FewerLeases DEF LeaseInv, FetchInv
<1>2. r \in Seq(Frame) /\ DOMAIN r = {1} /\ r[1] = f /\ down' = down \o r
  BY <1>1
<1> HIDE DEF r
<1>3. Regranted(down', leases') /\ Grants(down) \subseteq Grants(down')
  BY <1>1, <1>2, FramesFollow
<1> QED
  BY <1>3, TasksUntouched

\* There is no worker at first.
LEMMA InitLeaseInv == ASSUME Init  PROVE  LeaseInv
<1>1. FetchInv
  BY InitFetchInv
<1>2. held \in Seq(Tasks) /\ queue \in Seq(Tasks) /\ leases \subseteq Tasks
  BY DEF Init
<1>3. IsFiniteSet(parked)
  BY FS_EmptySet DEF Init
<1>4. HeldIsComing /\ Regranted(down, leases)
  BY DEF Init, HeldIsComing, Range, Regranted
<1> QED
  BY <1>1, <1>2, <1>3, <1>4 DEF LeaseInv, Init

\* Every step.
LEMMA NextLeaseInv == ASSUME LeaseInv, [Next]_vars  PROVE  LeaseInv' /\ Remembered
<1>1. FetchInv'
  BY NextFetchInv DEF LeaseInv
<1>2. /\ down \in Seq(Frame) /\ Regranted(down, leases) /\ leases \subseteq Tasks
      /\ held \in Seq(Tasks) /\ queue \in Seq(Tasks) /\ IsFiniteSet(parked)
      /\ phase = "off" => leases = {}
      /\ Range(held) \subseteq Range(queue) \cup {executing.task}
  BY DEF LeaseInv, FetchInv, HeldIsComing
<1>3. Carries(down)
  BY <1>2 DEF Carries
<1>4. CASE Start
  <2>1. /\ leases' = {} /\ UNCHANGED <<held, queue, executing, parked>>
    BY <1>2, <1>4 DEF Start, workVars, fetchVars
  <2>2. HeldIsComing' /\ Regranted(down', leases')
    BY <1>2, <2>1 DEF HeldIsComing, Regranted
  <2> QED
    BY <1>1, <1>2, <2>1, <2>2, StepKeepsLeases
<1>5. CASE UserStops \/ SocketCloses \/ DeviceDead
  BY <1>1, <1>2, <1>5, NoLeasesLeft DEF UserStops, Stop, SocketCloses, DeviceDead, fetchVars
<1>6. CASE Teardown \/ ExecuteAborts
  <2>1. Gone
    BY <1>6 DEF Teardown, ExecuteAborts
  <2>2. parked' = {} /\ held' = <<>> /\ queue' = <<>> /\ leases' = {}
    BY <2>1 DEF Gone
  <2> QED
    BY <1>1, <2>2, NoLeasesLeft, FS_EmptySet
<1>7. CASE UNCHANGED vars \/ SetThrottle \/ LeaseTimeout \/ DeviceRecovered
           \/ \E t \in Tasks : LeaseExpires(t)
  <2>1. /\ UNCHANGED <<held, queue, executing, parked, phase, down>>
        /\ leases' \subseteq leases
    BY <1>7 DEF vars, linkVars, workVars, fetchVars, SetThrottle, LeaseTimeout,
                DeviceRecovered, LeaseExpires
  <2>2. Regranted(down', leases') /\ Grants(down) \subseteq Grants(down')
    BY <1>2, <2>1, FewerLeases
  <2> QED
    BY <1>1, <2>1, <2>2, TasksUntouched
<1>8. CASE OnFrame
  BY <1>1, <1>8, OnFrameKeepsLeases
<1>9. CASE ExecuteBegins
  <2>1. /\ executing = Idling /\ queue # <<>> /\ executing'.task = Head(queue)
        /\ queue' = Tail(queue) /\ UNCHANGED <<down, held, parked, phase, leases>>
    BY <1>9 DEF ExecuteBegins, Eligible, Polling, linkVars, fetchVars
  <2>2. queue' \in Seq(Tasks) /\ Range(queue) = Range(queue') \cup {executing'.task}
    BY <1>2, <2>1, ListTaken
  <2>3. executing.task = None /\ None \notin Tasks
    BY <2>1, WorkerAssumption DEF Idling
  <2>4. None \notin Range(held)
    BY <1>2, <2>3 DEF Range
  <2>5. HeldIsComing'
    BY <1>2, <2>1, <2>2, <2>3, <2>4 DEF HeldIsComing
  <2>6. \A u \in leases \cap leases' :
          u \in Grants(down) \/ u \in Range(queue) \/ u \in parked \/ u = executing.task
          => u \in Grants(down') \/ u \in Range(queue') \/ u \in parked' \/ u = executing'.task
    BY <1>2, <2>1, <2>2, <2>3
  <2> QED
    BY <1>1, <1>2, <2>1, <2>2, <2>5, <2>6, StepKeepsLeases
<1>10. CASE ExecuteEnds
  <2>1. /\ held' = Erased(held, {executing.task}) /\ leases' = leases \ {executing.task}
        /\ UNCHANGED <<down, queue, parked, phase>>
    BY <1>10 DEF ExecuteEnds, Without, linkVars, fetchVars
  <2>2. held' \in Seq(Tasks) /\ Range(held') = Range(held) \ {executing.task}
    BY <1>2, <2>1, ListErased
  <2>3. HeldIsComing' /\ Regranted(down', leases')
    BY <1>2, <2>1, <2>2, FewerLeases DEF HeldIsComing
  <2>4. \A u \in leases \cap leases' :
          u \in Grants(down) \/ u \in Range(queue) \/ u \in parked \/ u = executing.task
          => u \in Grants(down') \/ u \in Range(queue') \/ u \in parked' \/ u = executing'.task
    BY <2>1
  <2> QED
    BY <1>1, <1>2, <2>1, <2>2, <2>3, <2>4, StepKeepsLeases
<1>11. CASE PeerTimeout
  <2>1. /\ fetch # None /\ TryNextPeerOrFallBack(fetch.asset, attempt, down)
        /\ UNCHANGED <<held, queue, executing, parked, phase, leases>>
    BY <1>11 DEF PeerTimeout, linkVars, workVars
  <2>2. fetch.asset \in Assets
    BY <2>1 DEF LeaseInv, FetchInv, AssetFetch
  <2>3. Carries(down')
    BY <1>2, <1>3, <2>1, <2>2, TryNextCarries
  <2> QED
    BY <1>1, <2>1, <2>3, CarriedUntouched
<1>12. CASE FetchStalls
  BY <1>1, <1>2, <1>3, <1>12, AbandonKeepsLeases DEF FetchStalls, linkVars
<1>13. CASE PeerSends
  <2>1. UNCHANGED <<phase, executing>>
    BY <1>13 DEF PeerSends, linkVars
  <2> QED
    BY <1>1, <1>2, <1>3, <1>13, <2>1, ChunkKeepsLeases, MisfitKeepsLeases, MissKeepsLeases
    DEF PeerSends
<1>14. CASE RequestLease
  BY <1>1, <1>14, RequestKeepsLeases
<1>15. ASSUME NEW t \in Tasks, Revoked(t)  PROVE  LeaseInv' /\ Remembered
  <2> DEFINE f == [type |-> "Revoke", task |-> t]
  <2>1. f \in Frame /\ f.task = t
    BY FrameMakers
  <2>2. /\ down' = Append(down, f) /\ leases' = leases \ {t}
        /\ UNCHANGED <<held, queue, executing, parked, phase>>
    BY <1>15 DEF Revoked, linkVars, workVars, fetchVars
  <2> HIDE DEF f
  <2> QED
    BY <1>1, <2>1, <2>2, SentKeepsLeases
<1>16. CASE Dismissed
  <2> DEFINE f == [type |-> "Stop"]
  <2>1. f \in Frame /\ f.type # "Revoke"
    BY FrameMakers
  <2>2. /\ down' = Append(down, f)
        /\ UNCHANGED <<held, queue, executing, parked, phase, leases>>
    BY <1>16 DEF Dismissed, linkVars, workVars, fetchVars
  <2> HIDE DEF f
  <2> QED
    BY <1>1, <2>1, <2>2, SentKeepsLeases
<1>17. CASE DeviceLost
  <2>1. /\ device' = "lost" /\ held' = <<>> /\ queue' = <<>> /\ leases' \subseteq leases
        /\ UNCHANGED <<down, executing, parked, phase>>
    BY <1>17 DEF DeviceLost, linkVars, fetchVars
  <2>2. HeldIsComing' /\ Regranted(down', leases')
    BY <1>2, <2>1, FewerLeases DEF HeldIsComing, Range
  <2>3. held' \in Seq(Tasks) /\ queue' \in Seq(Tasks)
    BY <2>1
  <2> QED
    BY <1>1, <1>2, <2>1, <2>2, <2>3, StepKeepsLeases
<1> QED
  BY <1>4, <1>5, <1>6, <1>7, <1>8, <1>9, <1>10, <1>11, <1>12, <1>13, <1>14, <1>15, <1>16,
     <1>17 DEF Next

\* Every task in held_ is queued or running (task_loop.cpp: held_, queue_, and the erasures
\* of HandleRevoke, SendResult, SendRelease, AbandonAssetFetch), so the worker that asks for
\* work only when held_ is empty gets there.
THEOREM HeldTasksAreComing == Spec => []HeldIsComing
<1>1. LeaseInv => HeldIsComing
  BY DEF LeaseInv
<1>2. Init => LeaseInv
  BY InitLeaseInv
<1>3. LeaseInv /\ [Next]_vars => LeaseInv'
  BY NextLeaseInv
<1> QED
  BY <1>1, <1>2, <1>3, PTL DEF Spec

\* No step of the worker, its callbacks or the coordinator (TaskLoop::OnFrame and what it
\* calls, Poll, Stop, OnDeviceLost) makes the worker forget a lease that the coordinator
\* waits for, unless the device was lost; for any tasks, assets and frames on their way.
THEOREM NoLeaseForgotten == Spec => LeaseNotForgotten
<1>1. Init => LeaseInv
  BY InitLeaseInv
<1>2. LeaseInv /\ [Next]_vars => LeaseInv'
  BY NextLeaseInv
<1>3. LeaseInv /\ [Next]_vars
        => [\A t \in leases \cap leases' : t \in Known /\ t \notin Known' => device' = "lost"]_vars
  BY NextLeaseInv DEF Remembered
<1> QED
  BY <1>1, <1>2, <1>3, PTL DEF Spec, LeaseNotForgotten
=============================================================================
