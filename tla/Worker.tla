------------------------------- MODULE Worker -------------------------------
(***************************************************************************)
(* One worker: the task loop (task_loop.cpp), the device session           *)
(* (recovery.cpp), the socket (transport.cpp), its link to one peer at a   *)
(* time (peer_link.cpp) and the two hosts that drive it                    *)
(* (worker-native/main.cpp, worker-browser/main.cpp).                      *)
(*                                                                         *)
(* The worker's thread calls Poll again and again.  Frames of the          *)
(* coordinator wait in `down`: those still on the network and those in     *)
(* inbox_ alike, so Poll may go on although `down` is not empty.  Socket   *)
(* and peer callbacks run on other threads, between any two steps.  Of     *)
(* the coordinator only what the worker can tell is kept: the leases this  *)
(* worker has there.  A frame sent up is handled at once; whether a lease  *)
(* request is granted is the coordinator's choice.                         *)
(***************************************************************************)
EXTENDS Erasing, SequencesExt

CONSTANTS
  Tasks,          \* task ids
  Assets,         \* content addresses
  None,           \* no task, no asset, no fetch
  Needs,          \* the asset a task names, or None
  Chunks,         \* chunks of an asset
  Batch,          \* kAssetChunkRequestBatch
  MaxAttempts,    \* kMaxPeerAttempts
  MaxPeers,       \* longest peer list
  MaxDown         \* bound: frames on their way when another one is sent

ASSUME WorkerAssumption ==
  /\ None \notin Tasks \cup Assets
  /\ Needs \in [Tasks -> Assets \cup {None}]
  /\ Chunks \in Nat \ {0} /\ Batch \in Nat \ {0}
  /\ MaxAttempts \in Nat /\ MaxPeers \in Nat /\ MaxDown \in Nat

VARIABLES
  phase,      \* "off": no TaskLoop; "running": running_; "stopped": it is not
  link,       \* the socket is open
  welcomed,   \* handshaked_
  paused,     \* throttle_ is 0
  down,       \* frames from the coordinator, oldest first
  asking,     \* lease_outstanding_
  asks,       \* parity of the lease requests sent
  held,       \* held_
  queue,      \* queue_
  parked,     \* waiting_on_asset_
  executing,  \* the task inside Execute, with what was bound for it
  fetch,      \* fetch_: the asset and the bytes that have landed
  peer,       \* peer_ is set
  attempt,    \* peer_attempt_
  cands,      \* length of peer_candidates_
  resident,   \* resident_asset_, and whether resident_bytes_ are its bytes
  device,     \* "ok", "lost" (being recovered) or "dead"
  leases      \* the coordinator's leases of this worker

linkVars  == <<phase, link, welcomed, paused>>
askVars   == <<asking, asks>>
fetchVars == <<parked, fetch, peer, attempt, cands, resident>>
workVars  == <<held, queue, executing>>
vars == <<linkVars, down, askVars, workVars, fetchVars, device, leases>>

-----------------------------------------------------------------------------
(* Values.                                                                 *)

Indices == 1 .. Chunks

\* A landed chunk is the asset's own bytes or some other bytes.
AssetFetch == [asset : Assets, have : [Indices -> {"none", "own", "other"}]]
NewFetch(a) == [asset |-> a, have |-> [i \in Indices |-> "none"]]
Landed(f) == {i \in Indices : f.have[i] # "none"}

\* fetch_ is empty when there is none.
ASSUME NoFetchAssumption == None \notin AssetFetch

Frame ==
  [type : {"Welcome", "Stop", "AssetMiss"}] \cup [type : {"TaskGrant", "Revoke"}, task : Tasks]
    \cup [type : {"PeerList"}, peers : 1 .. MaxPeers]
    \cup [type : {"AssetChunk"}, asset : Assets, index : Indices]

Idling == [task |-> None, bound |-> TRUE]

Without(s, t) == Erased(s, {t})

\* What the worker knows of: granted on the way, held, queued, parked, running.
Granted == {f.task : f \in {g \in Range(down) : g.type = "TaskGrant"}}
Known == Granted \cup Range(held) \cup Range(queue) \cup parked \cup {executing.task}

-----------------------------------------------------------------------------
(* The coordinator's answers.                                              *)

\* The run of at most Batch chunks from an index, or a miss; nothing when the
\* socket is closed, where Send fails and the result is ignored.
ChunkReplies(a, from) ==
  IF ~link THEN {<<>>}
  ELSE { <<[type |-> "AssetMiss"]>>,
         [n \in 1 .. Cardinality((from .. from + Batch - 1) \cap Indices) |->
            [type |-> "AssetChunk", asset |-> a, index |-> from + n - 1]] }

\* A grant, after a peer list when the asset is elsewhere and somebody has it.
GrantReplies(t) ==
  {<<[type |-> "TaskGrant", task |-> t]>>} \cup
  (IF Needs[t] \in {None, resident.asset} THEN {}
   ELSE {<<[type |-> "PeerList", peers |-> n], [type |-> "TaskGrant", task |-> t]>> :
           n \in 1 .. MaxPeers})

-----------------------------------------------------------------------------
(* Asset fetches.  `rest` is what is left of `down`.                       *)

MayTry(tried) == tried < cands /\ tried < MaxAttempts

\* TryNextPeerOrFallBack and FallBackToCoordinator
TryNextPeerOrFallBack(a, tried, rest) ==
  \/ /\ MayTry(tried)
     /\ peer' = TRUE /\ attempt' = tried + 1 /\ down' = rest
  \/ /\ ~MayTry(tried)
     /\ peer' = FALSE /\ attempt' = tried
     /\ \E r \in ChunkReplies(a, 1) : down' = rest \o r

\* Mutant of AbandonAssetFetch: the parked tasks are dropped, not released.
AbandonSilently(rest) ==
  /\ fetch' = None /\ peer' = FALSE /\ parked' = {}
  /\ down' = rest
  /\ UNCHANGED <<attempt, resident, queue, held, leases>>

\* AbandonAssetFetch gives every parked task back.
AbandonAssetFetch(rest) ==
  /\ fetch' = None /\ peer' = FALSE /\ parked' = {}
  /\ leases' = leases \ parked
  /\ held' = Erased(held, parked)
  /\ down' = rest
  /\ UNCHANGED <<attempt, resident, queue>>

\* What RejectBytesAndRetry keeps of a fetch.
Wiped(f) == NewFetch(f.asset)

RejectBytesAndRetry(f, rest) ==
  \/ /\ ~peer
     /\ AbandonAssetFetch(rest)
  \/ /\ peer
     /\ fetch' = Wiped(f)
     /\ TryNextPeerOrFallBack(f.asset, attempt, rest)
     /\ UNCHANGED <<parked, leases, held, queue, resident>>

\* Mutant of Verified: the sender's word is taken.
Believed(f) == TRUE

\* Blake3Hex(bytes) = address
Verified(f) == \A i \in Indices : f.have[i] = "own"

\* Mutant of Stranded: only the tasks that can run leave the list.
StrandedStay(a) == {t \in parked : Needs[t] # a}

\* The parked tasks that are still parked once asset a is there: none.
Stranded(a) == {}

\* FinishAssetFetch; LoadBvh may still refuse the bytes.
FinishAssetFetch(f, rest) ==
  \/ /\ Verified(f)
     /\ resident' = [asset |-> f.asset, own |-> \A i \in Indices : f.have[i] = "own"]
     /\ fetch' = None /\ peer' = FALSE
     /\ LET mine == {t \in parked : Needs[t] = f.asset}
        IN  /\ queue' = queue \o SetToSeq(mine)
            /\ leases' = leases \ (parked \ mine)
            /\ held' = Erased(held, parked \ mine)
     /\ parked' = Stranded(f.asset)
     /\ down' = rest
     /\ UNCHANGED attempt
  \/ RejectBytesAndRetry(f, rest)

\* HandleAssetChunk for a chunk that fits.  It is not asked whose it is.
HandleAssetChunk(i, bytes, rest) ==
  \/ /\ fetch = None \/ (fetch # None /\ fetch.have[i] # "none")
     /\ down' = rest
     /\ UNCHANGED <<parked, fetch, peer, attempt, resident, held, queue, leases>>
  \/ /\ fetch # None /\ fetch.have[i] = "none"
     /\ LET f == [fetch EXCEPT !.have[i] = bytes]
            missing == Indices \ Landed(f)
        IN  \/ missing = {} /\ FinishAssetFetch(f, rest)
            \/ /\ missing # {}
               /\ fetch' = f
               /\ \/ /\ Cardinality(Landed(f)) % Batch = 0
                     /\ \E r \in ChunkReplies(f.asset, CHOOSE m \in missing :
                                                \A n \in missing : m <= n) :
                          down' = rest \o r
                  \/ Cardinality(Landed(f)) % Batch # 0 /\ down' = rest
               /\ UNCHANGED <<parked, peer, attempt, resident, held, queue, leases>>

\* A chunk whose total, index or length is not the asset's.
HandleMisfit(rest) ==
  \/ fetch # None /\ AbandonAssetFetch(rest)
  \/ /\ fetch = None /\ down' = rest
     /\ UNCHANGED <<parked, fetch, peer, attempt, resident, held, queue, leases>>

\* HandleAssetMiss: a peer's no costs a source, the coordinator's the fetch.
HandleAssetMiss(rest) ==
  \/ ~peer /\ AbandonAssetFetch(rest)
  \/ /\ peer
     /\ TryNextPeerOrFallBack(fetch.asset, attempt, rest)
     /\ UNCHANGED <<parked, fetch, resident, held, queue, leases>>

-----------------------------------------------------------------------------
(* Leaving.                                                                *)

\* The frames that were already in inbox_ when the socket went.
Survivors == {SubSeq(down, 1, n) : n \in 0 .. Len(down)}

\* `for (task : held_) SendRelease(task)` erases from the vector it walks, so
\* it meets every second element and the last; the rest is cleared unsent.
ReleasedWalk(h) == {h[i] : i \in {j \in 1 .. Len(h) : j % 2 = 1 \/ j = Len(h)}}

\* TaskLoop::Stop: the leases are given back, then the socket is closed and
\* the coordinator takes back whatever is left.
Stop(rest) ==
  /\ phase' = "stopped"
  /\ held' = <<>> /\ queue' = <<>>
  /\ link' = FALSE /\ leases' = {}
  /\ down' = rest
  /\ welcomed' = FALSE /\ asking' = FALSE      \* OnClosed
  /\ UNCHANGED <<paused, asks, executing, fetchVars, device>>

\* The object is destroyed, or the process is gone; the next one is new.
Gone ==
  /\ phase' = "off" /\ link' = FALSE /\ down' = <<>> /\ leases' = {}
  /\ asking' = FALSE /\ asks' = 0 /\ held' = <<>> /\ queue' = <<>> /\ parked' = {}
  /\ executing' = Idling /\ fetch' = None /\ peer' = FALSE /\ attempt' = 0
  /\ cands' = 0 /\ resident' = [asset |-> None, own |-> TRUE] /\ device' = "ok"
  /\ welcomed' = FALSE /\ paused' = FALSE

Init ==
  /\ phase = "off" /\ link = FALSE /\ down = <<>> /\ leases = {}
  /\ asking = FALSE /\ asks = 0 /\ held = <<>> /\ queue = <<>> /\ parked = {}
  /\ executing = Idling /\ fetch = None /\ peer = FALSE /\ attempt = 0
  /\ cands = 0 /\ resident = [asset |-> None, own |-> TRUE] /\ device = "ok"
  /\ welcomed = FALSE /\ paused = FALSE

-----------------------------------------------------------------------------
(* The worker's thread.                                                    *)

\* Inside Execute, or waiting in Recover, the thread does not poll.
Polling == phase # "off" /\ executing = Idling /\ device # "lost"

\* Start, the connection and SendHello; the coordinator answers Welcome.
Start ==
  /\ phase = "off"
  /\ phase' = "running" /\ link' = TRUE /\ down' = <<[type |-> "Welcome"]>>
  /\ UNCHANGED <<welcomed, paused, askVars, workVars, fetchVars, device, leases>>

\* The user or the host's loop ends the work.
UserStops == Polling /\ phase = "running" /\ Stop(down)

Teardown == Polling /\ phase = "stopped" /\ Gone

\* SetThrottle, from the page's thread.
SetThrottle ==
  /\ phase = "running" /\ paused' = ~paused
  /\ UNCHANGED <<phase, link, welcomed, down, askVars, workVars, fetchVars, device, leases>>

HandleWelcome ==
  /\ welcomed' = link
  /\ down' = Tail(down)
  /\ UNCHANGED <<phase, link, paused, askVars, workVars, fetchVars, device, leases>>

Runnable(t) == Needs[t] \in {None, resident.asset}

\* HandleTaskGrant: refuse an unknown kernel, queue, or park and fetch.
HandleTaskGrant(t) ==
  /\ asking' = FALSE
  /\ \/ /\ leases' = leases \ {t} /\ held' = Without(held, t) /\ down' = Tail(down)
        /\ UNCHANGED <<queue, parked, fetch, peer, attempt>>
     \/ /\ Runnable(t)
        /\ held' = Append(held, t) /\ queue' = Append(queue, t) /\ down' = Tail(down)
        /\ UNCHANGED <<leases, parked, fetch, peer, attempt>>
     \/ /\ ~Runnable(t)
        /\ parked' = parked \cup {t}
        /\ \/ /\ fetch # None /\ fetch.asset = Needs[t]
              /\ down' = Tail(down)
              /\ UNCHANGED <<fetch, peer, attempt>>
           \/ /\ ~(fetch # None /\ fetch.asset = Needs[t])
              /\ fetch' = NewFetch(Needs[t])
              /\ TryNextPeerOrFallBack(Needs[t], 0, Tail(down))
        /\ UNCHANGED <<leases, held, queue>>
  /\ UNCHANGED <<linkVars, asks, executing, cands, resident, device>>

\* Mutant of HeldAfterRevoke: only the queue forgets the task.
HeldStays(t) == held

HeldAfterRevoke(t) == Without(held, t)

HandleRevoke(t) ==
  /\ queue' = Without(queue, t)
  /\ held' = HeldAfterRevoke(t)
  /\ down' = Tail(down)
  /\ UNCHANGED <<linkVars, askVars, executing, fetchVars, device, leases>>

HandlePeerList(n) ==
  /\ cands' = n
  /\ down' = Tail(down)
  /\ UNCHANGED <<linkVars, askVars, workVars, parked, fetch, peer, attempt, resident,
                 device, leases>>

\* An asset frame: the chunk of the asset in flight, one of an asset no longer
\* wanted (it may or may not fit), or a miss.
HandleAssetFrame(f) ==
  /\ \/ /\ f.type = "AssetChunk"
        /\ \/ HandleAssetChunk(f.index, IF fetch # None /\ fetch.asset = f.asset
                                          THEN "own" ELSE "other", Tail(down))
           \/ fetch # None /\ fetch.asset # f.asset /\ HandleMisfit(Tail(down))
     \/ f.type = "AssetMiss" /\ HandleAssetMiss(Tail(down))
  /\ UNCHANGED <<linkVars, askVars, executing, cands, device>>

\* OnFrame.  "Stop" is Shutdown or a fatal Error; neither matters twice.
OnFrame ==
  /\ Polling /\ down # <<>>
  /\ LET f == Head(down)
     IN  \/ f.type = "Welcome" /\ HandleWelcome
         \/ f.type = "TaskGrant" /\ HandleTaskGrant(f.task)
         \/ f.type = "Revoke" /\ HandleRevoke(f.task)
         \/ f.type = "PeerList" /\ HandlePeerList(f.peers)
         \/ HandleAssetFrame(f)
         \/ f.type = "Stop" /\ phase = "running" /\ Stop(Tail(down))
         \/ /\ f.type = "Stop" /\ phase # "running" /\ down' = Tail(down)
            /\ UNCHANGED <<linkVars, askVars, workVars, fetchVars, device, leases>>

Eligible == Polling /\ phase = "running" /\ welcomed
Unoccupied == Eligible /\ queue = <<>> /\ ~paused

\* Poll takes the next task; Execute binds the asset if it is the resident one.
ExecuteBegins ==
  /\ Eligible /\ queue # <<>>
  /\ executing' = [task |-> Head(queue), bound |-> Runnable(Head(queue))]
  /\ queue' = Tail(queue)
  /\ UNCHANGED <<linkVars, down, askVars, held, fetchVars, device, leases>>

\* Execute ends with SendResult or SendRelease; both end the lease.
ExecuteEnds ==
  /\ phase # "off" /\ executing # Idling /\ executing.bound /\ device # "lost"
  /\ executing' = Idling
  /\ held' = Without(held, executing.task)
  /\ leases' = leases \ {executing.task}
  /\ UNCHANGED <<linkVars, down, askVars, queue, fetchVars, device>>

\* Dispatching a kernel without its bindings aborts the process.
ExecuteAborts == executing # Idling /\ ~executing.bound /\ Gone

\* Mutant of Unanswered: only an answer ends a request.
OnlyAnswered == FALSE

\* The deadline of a lease request: lease_requested_at_ is never set, so it
\* has always passed.
Unanswered == asking

LeaseTimeout ==
  /\ Unoccupied /\ Unanswered
  /\ asking' = FALSE
  /\ UNCHANGED <<linkVars, down, asks, workVars, fetchVars, device, leases>>

\* Poll after peer_deadline_.
PeerTimeout ==
  /\ Unoccupied /\ fetch # None /\ peer
  /\ TryNextPeerOrFallBack(fetch.asset, attempt, down)
  /\ UNCHANGED <<linkVars, askVars, workVars, parked, fetch, cands, resident, device, leases>>

\* Poll after kAssetStallTimeout.
FetchStalls ==
  /\ Unoccupied /\ fetch # None
  /\ AbandonAssetFetch(down)
  /\ UNCHANGED <<linkVars, askVars, executing, cands, device>>

\* RequestLease, once the backoff is over, and the coordinator's answer.
RequestLease ==
  /\ Unoccupied /\ ~asking /\ held = <<>> /\ parked = {}
  /\ asking' = link
  /\ asks' = 1 - asks
  /\ \/ UNCHANGED <<down, leases>>
     \/ /\ link /\ Len(down) < MaxDown
        /\ \E t \in Tasks \ leases : \E r \in GrantReplies(t) :
             down' = down \o r /\ leases' = leases \cup {t}
  /\ UNCHANGED <<linkVars, workVars, fetchVars, device>>

-----------------------------------------------------------------------------
(* Other threads and the coordinator.                                      *)

\* OnPeerBytes: chunks right or wrong, ones that do not fit, or a miss.
PeerSends ==
  /\ phase # "off" /\ peer
  /\ \/ \E i \in Indices, b \in {"own", "other"} : HandleAssetChunk(i, b, down)
     \/ HandleMisfit(down)
     \/ HandleAssetMiss(down)
  /\ UNCHANGED <<linkVars, askVars, executing, cands, device>>

\* The socket closes: OnClosed here, OnDisconnect at the coordinator.
SocketCloses ==
  /\ link
  /\ link' = FALSE /\ welcomed' = FALSE /\ asking' = FALSE
  /\ held' = <<>> /\ queue' = <<>> /\ leases' = {}
  /\ \E s \in Survivors : down' = s
  /\ UNCHANGED <<phase, paused, asks, executing, fetchVars, device>>

\* The coordinator takes a task back without a word: the lease expired.
LeaseExpires(t) ==
  /\ t \in leases /\ leases' = leases \ {t}
  /\ UNCHANGED <<linkVars, down, askVars, workVars, fetchVars, device>>

\* The coordinator takes a task back and says so.
Revoked(t) ==
  /\ t \in leases /\ Len(down) < MaxDown
  /\ leases' = leases \ {t}
  /\ down' = Append(down, [type |-> "Revoke", task |-> t])
  /\ UNCHANGED <<linkVars, askVars, workVars, fetchVars, device>>

\* The coordinator ends the session, once.
Dismissed ==
  /\ link /\ Len(down) < MaxDown /\ [type |-> "Stop"] \notin Range(down)
  /\ down' = Append(down, [type |-> "Stop"])
  /\ UNCHANGED <<linkVars, askVars, workVars, fetchVars, device, leases>>

-----------------------------------------------------------------------------
(* The device.                                                             *)

\* HandleLost and OnDeviceLost: the leases go back before recovery begins.
DeviceLost ==
  /\ phase # "off" /\ device = "ok"
  /\ device' = "lost"
  /\ leases' = leases \ ReleasedWalk(held)
  /\ held' = <<>> /\ queue' = <<>>
  /\ UNCHANGED <<linkVars, down, askVars, executing, fetchVars>>

\* Recover within its attempts, then OnDeviceReady.
DeviceRecovered ==
  /\ device = "lost" /\ device' = "ok"
  /\ UNCHANGED <<linkVars, down, askVars, workVars, fetchVars, leases>>

\* Recover gives up: OnDeviceUnrecoverable says goodbye and closes.
DeviceDead ==
  /\ device = "lost" /\ device' = "dead"
  /\ phase' = "stopped" /\ link' = FALSE /\ welcomed' = FALSE /\ asking' = FALSE
  /\ leases' = {} /\ held' = <<>> /\ queue' = <<>>
  /\ \E s \in Survivors : down' = s
  /\ UNCHANGED <<paused, asks, executing, fetchVars>>

-----------------------------------------------------------------------------

Next ==
  \/ Start \/ UserStops \/ Teardown \/ SetThrottle
  \/ OnFrame \/ ExecuteBegins \/ ExecuteEnds \/ ExecuteAborts
  \/ LeaseTimeout \/ PeerTimeout \/ FetchStalls \/ RequestLease
  \/ PeerSends \/ SocketCloses \/ Dismissed
  \/ \E t \in Tasks : LeaseExpires(t) \/ Revoked(t)
  \/ DeviceLost \/ DeviceRecovered \/ DeviceDead

Spec == Init /\ [][Next]_vars

\* The hosts poll every few milliseconds, frames are drained in each Poll, a
\* kernel run ends, and Recover makes a bounded number of attempts.
Fairness ==
  /\ WF_vars(OnFrame)
  /\ WF_vars(ExecuteBegins) /\ WF_vars(ExecuteEnds \/ ExecuteAborts)
  /\ WF_vars(LeaseTimeout) /\ WF_vars(FetchStalls) /\ WF_vars(RequestLease)
  /\ WF_vars(DeviceRecovered \/ DeviceDead)

FairSpec == Spec /\ Fairness

-----------------------------------------------------------------------------
(* Properties.                                                             *)

\* A task is parked exactly while an asset is being fetched: however a fetch
\* ends (finished, superseded, rejected, missed, stalled), nobody is left
\* waiting on it, and Poll, which asks for no work while a task is parked, is
\* not silenced for good.
ParkedIffFetching == parked # {} <=> fetch # None

\* peer_ is only ever set for a fetch, which is how HandleAssetMiss and
\* RejectBytesAndRetry tell whose answer they are looking at.
PeerOnlyWhileFetching == peer => fetch # None

\* Whatever mixture of peers, coordinator and superseded fetches the chunks
\* came from, the bytes a worker keeps, computes on and serves to others are
\* those of the address they are kept under.
ResidentIsItsAddress == resident.own

\* Every task in held_ is queued or running.  Poll asks for work only while
\* held_ is empty, so one that is neither would retire the worker.
HeldIsComing == Range(held) \subseteq Range(queue) \cup {executing.task}

\* A lease the worker knows of is not forgotten while the coordinator waits
\* for it, unless the device was lost.
LeaseNotForgotten ==
  [][\A t \in leases \cap leases' :
       t \in Known /\ t \notin Known' => device' = "lost"]_vars

\* A worker that is connected, not paused and has its device asks for work
\* again and again: silence as an answer, an asset that never comes, a revoked
\* task, a device lost and recovered do not retire it.
AsksAgain ==
  \A b \in 0 .. 1 :
    ~<>[](phase = "running" /\ welcomed /\ ~paused /\ device = "ok" /\ asks = b)

\* A kernel is never dispatched without the asset its task names.
RunsWithInputs == executing.bound
=============================================================================
