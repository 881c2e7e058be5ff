------------------------------ MODULE Sessions ------------------------------
(***************************************************************************)
(* The connections of the coordinator: one Session per WebSocket           *)
(* (session.cpp), the Fleet records behind them (fleet.cpp), the registry  *)
(* live_ that lets one connection reach another, and the sweep (net.cpp).  *)
(*                                                                         *)
(* A connection, an identity and a record are three different things here. *)
(* An identity is the id of the connection that first used it; a worker    *)
(* that kept its resume token brings the identity to a new connection,     *)
(* perhaps before the coordinator has noticed that the old one is gone.    *)
(*                                                                         *)
(* The task queue is that of JobManager, reduced to what a session can     *)
(* see: which identity holds a task, and whether the task is finished.  A  *)
(* task that is neither held nor finished waits in the queue.              *)
(* The queue's choices (which task, if any; what a quorum decides) are     *)
(* nondeterministic.  Every handler runs to completion on the event loop.  *)
(***************************************************************************)
EXTENDS Integers, FiniteSets

CONSTANTS
  Conns,          \* connection ids, in the order they are opened
  Tasks,          \* task ids
  Families,       \* sets of tasks of one range: an original and its replicas
  Nobody,         \* the nil id
  Timeout,        \* worker_timeout_ms, in sweeps
  NoWorkAt,       \* kRejectedFramesNoWork
  DisconnectAt,   \* kRejectedFramesDisconnect
  SignalWindow,   \* kMaxSignalsPerWindow
  MaxPeers,       \* kMaxPeersPerList
  StallSweeps     \* kStallSweeps

ASSUME SessionsAssumption ==
  /\ Conns \subseteq Nat \ {0} /\ IsFiniteSet(Conns)
  /\ Nobody \notin Conns
  /\ Families \subseteq SUBSET Tasks
  /\ Timeout \in Nat
  /\ NoWorkAt \in Nat \ {0} /\ DisconnectAt \in Nat /\ NoWorkAt < DisconnectAt
  /\ SignalWindow \in Nat
  /\ MaxPeers \in Nat
  /\ StallSweeps \in Nat \ {0}

Ids == Conns              \* WorkerId{conn_id, 0}

VARIABLES
  conn,       \* "unused", "open" or "closed"
  ident,      \* Session::worker_id_, Nobody before the handshake
  rejected,   \* SocketData::rejected_frames, up to DisconnectAt
  abusive,    \* connections whose Session::abusive_ is set
  signals,    \* Session::signals_this_window_, up to one past SignalWindow
  minted,     \* identities a resume token exists for
  fleet,      \* Fleet::workers_
  live,       \* Server::live_
  holder,     \* who holds the lease of a task
  over,       \* tasks accepted or cancelled
  stalled     \* Server::stalled_sweeps_, up to StallSweeps

linkVars == <<conn, ident, minted>>
jobVars  == <<holder, over>>
vars == <<conn, ident, rejected, abusive, signals, minted,
          fleet, live, holder, over, stalled>>

-----------------------------------------------------------------------------
(* Fleet records.                                                          *)

\* WorkerRecord.  quiet: sweeps since the last frame, what last_seen_ms
\* tells FindLost; scored: a benchmark score was reported; caching: the
\* job's asset is in cached_assets.
WorkerRecord == [joined : BOOLEAN, quiet : 0 .. Timeout, scored : BOOLEAN,
                 caching : BOOLEAN, revokes : SUBSET Tasks]

Gone == [joined |-> FALSE, quiet |-> 0, scored |-> FALSE, caching |-> FALSE,
         revokes |-> {}]

\* Fleet::Join writes the whole record, whatever was there.
Joined(caches) == [Gone EXCEPT !.joined = TRUE, !.caching = caches]

\* Fleet::Touch and Session::DrainRevokes, around every frame of a session.
Served(r) == [r EXCEPT !.quiet = 0, !.revokes = {}]

\* Fleet::FindLost, one sweep on.
Lost(r) == r.joined /\ r.quiet = Timeout

\* Fleet::PeersHolding before the cut to the MaxPeers lowest ids.
Holding(id) == {p \in Ids \ {id} : fleet[p].joined /\ fleet[p].caching}

PeersHolding(id) ==
  {p \in Holding(id) : Cardinality({q \in Holding(id) : q < p}) < MaxPeers}

-----------------------------------------------------------------------------
(* Leases.                                                                 *)

HeldBy(id) == {t \in Tasks : holder[t] = id}
Leased     == {t \in Tasks : holder[t] # Nobody}

Free       == Tasks \ (Leased \cup over)
Released(S) == [t \in Tasks |-> IF t \in S THEN Nobody ELSE holder[t]]

\* JobManager::CancelSiblingsOf: the members of t's family that Cancel is legal
\* for, which are the leased ones.  A member that waits in the queue is passed
\* over (job.cpp:789-791): it stays there and may be granted again.
Rivals(t) ==
  {u \in Leased \ ({t} \cup over) : \E F \in Families : {t, u} \subseteq F}

-----------------------------------------------------------------------------
(* Connections.                                                            *)

Handshaked(c) == conn[c] = "open" /\ ident[c] # Nobody

\* Server::Run's .open
Open(c) ==
  /\ conn[c] = "unused"
  /\ \A d \in Conns : d < c => conn[d] # "unused"
  /\ conn' = [conn EXCEPT ![c] = "open"]
  /\ UNCHANGED <<ident, rejected, abusive, signals, minted,
                 fleet, live, jobVars, stalled>>

\* Server::Unregister with the identity of a session.
Unregistered(c) == [id \in Ids |-> IF id = ident[c] THEN Nobody ELSE live[id]]

\* OnDisconnect requeues whatever the identity holds, on any connection.
LeasesAfterClose(c) ==
  IF ident[c] = Nobody THEN holder ELSE Released(HeldBy(ident[c]))

\* Everything a connection that ends leaves behind: Unregister, then
\* Session::OnDisconnect, then the session is destroyed.
EndConnection(c) ==
  /\ conn' = [conn EXCEPT ![c] = "closed"]
  /\ live' = Unregistered(c)
  /\ fleet' = [id \in Ids |-> IF id = ident[c] THEN Gone ELSE fleet[id]]
  /\ holder' = LeasesAfterClose(c)
  /\ ident' = [ident EXCEPT ![c] = Nobody]
  /\ rejected' = [rejected EXCEPT ![c] = 0]
  /\ abusive' = abusive \ {c}
  /\ signals' = [signals EXCEPT ![c] = 0]
  /\ UNCHANGED <<minted, over, stalled>>

\* Server::Run's .close: the socket went away, or a fatal reply closed it.
Close(c) == conn[c] = "open" /\ EndConnection(c)

\* A first message that is not a Hello, or a Hello of another version.
RefuseHandshake(c) == conn[c] = "open" /\ ident[c] = Nobody /\ EndConnection(c)

\* Session::OnHello, then Server::Register: a token that resolves brings its
\* identity along, anything else makes a newcomer.
OnHello(c, id, caches) ==
  /\ conn[c] = "open" /\ ident[c] = Nobody
  /\ id = c \/ id \in minted
  /\ ident' = [ident EXCEPT ![c] = id]
  /\ minted' = minted \cup {id}
  /\ fleet' = [fleet EXCEPT ![id] = Joined(caches)]
  /\ live' = [live EXCEPT ![id] = c]
  /\ UNCHANGED <<conn, rejected, abusive, signals, jobVars, stalled>>

\* What every frame of a handshaked session does besides its own effect, which
\* has made f of the fleet: Touch, the revokes drained into the reply, and the
\* registration that follows the frame.
AfterFrame(c, f) ==
  /\ fleet' = [f EXCEPT ![ident[c]] = Served(@)]
  /\ live' = [live EXCEPT ![ident[c]] = c]
  /\ UNCHANGED <<linkVars, rejected, abusive, stalled>>

\* The frames that change nothing else a session keeps: Progress with or
\* without a renewal, Throttle, AssetRequest, a second Hello, a message only
\* the coordinator sends.
OtherFrame(c) ==
  /\ Handshaked(c)
  /\ AfterFrame(c, fleet)
  /\ UNCHANGED <<signals, jobVars>>

\* Session::OnBenchmarkResult; an unusable score is an OtherFrame.
OnBenchmarkResult(c) ==
  /\ Handshaked(c)
  /\ LET id == ident[c]
     IN  AfterFrame(c, [fleet EXCEPT ![id].scored = fleet[id].joined])
  /\ UNCHANGED <<signals, jobVars>>

\* The early returns of OnLeaseRequest.
MayHaveWork(c) ==
  LET r == fleet[ident[c]] IN r.joined /\ r.scored /\ c \notin abusive

\* Session::OnLeaseRequest: the cache report, then up to four grants.  The
\* peer list, PeersHolding, goes with a grant to a worker that lacks the asset
\* and changes nothing here.  That the set may be empty covers a queue that
\* has nothing for this worker and a blacklisted one.
OnLeaseRequest(c, caches, S) ==
  /\ Handshaked(c)
  /\ S # {} => MayHaveWork(c)
  /\ S \subseteq Free /\ Cardinality(S) <= 4
  /\ LET id == ident[c]
     IN  /\ AfterFrame(c, [fleet EXCEPT ![id].caching = fleet[id].joined /\ caches])
         /\ holder' = [t \in Tasks |-> IF t \in S THEN id ELSE holder[t]]
  /\ UNCHANGED <<signals, over>>

\* Session::OnRelease, and a result with a bad checksum: back to the queue.
\* A release of a task the identity does not hold is an OtherFrame.
GiveBack(c, t) ==
  /\ Handshaked(c) /\ holder[t] = ident[c]
  /\ holder' = Released({t})
  /\ AfterFrame(c, fleet)
  /\ UNCHANGED <<signals, over>>

\* A submitted result proves that its worker holds the asset.
Proven(id) == [fleet EXCEPT ![id].caching = fleet[id].joined]

\* Session::OnResultHeader up to the verdict, when there is none yet: another
\* worker has to answer as well.
OnResultUndecided(c, t) ==
  /\ Handshaked(c) /\ holder[t] = ident[c]
  /\ holder' = Released({t})
  /\ AfterFrame(c, Proven(ident[c]))
  /\ UNCHANGED <<signals, over>>

\* Mutant of Finished: the rivals run on.
FinishedAlone(t) == over \cup {t}

\* The winner, and the rivals that were cancelled; not those in the queue.
Finished(t) == over \cup {t} \cup Rivals(t)

\* The same, when the result is accepted: every rival that is computing is
\* cancelled, and its holder's record is told.
OnResultAccepted(c, t) ==
  /\ Handshaked(c) /\ holder[t] = ident[c]
  /\ over' = Finished(t)
  /\ holder' = Released({t} \cup Rivals(t))
  /\ AfterFrame(c, [id \in Ids |->
       IF ~fleet[id].joined THEN fleet[id]
       ELSE [Proven(ident[c])[id] EXCEPT !.revokes = @ \cup (HeldBy(id) \cap Rivals(t))]])
  /\ UNCHANGED signals

\* Session::OnSignal: counted, then relayed unless over the window, to itself,
\* or to somebody who is not there.  A relay changes nothing here.
OnSignal(c) ==
  /\ Handshaked(c)
  /\ signals' = [signals EXCEPT ![c] = IF @ > SignalWindow THEN @ ELSE @ + 1]
  /\ AfterFrame(c, fleet)
  /\ UNCHANGED <<jobVars>>

\* Session::OnGoodbye.  The connection stays registered: Register follows.
OnGoodbye(c) ==
  /\ Handshaked(c)
  /\ holder' = Released(HeldBy(ident[c]))
  /\ AfterFrame(c, [fleet EXCEPT ![ident[c]] = Gone])
  /\ UNCHANGED <<signals, over>>

-----------------------------------------------------------------------------
(* Frames that never reach a session.                                      *)

OneMore(c) == IF rejected[c] = DisconnectAt THEN DisconnectAt ELSE rejected[c] + 1

\* A text frame is counted, and that is all.
TextFrame(c) ==
  /\ conn[c] = "open"
  /\ rejected' = [rejected EXCEPT ![c] = OneMore(c)]
  /\ UNCHANGED <<linkVars, abusive, signals, fleet, live,
                 jobVars, stalled>>

\* Server::OnFrame on a frame that does not verify: no work from NoWorkAt on,
\* and the connection registers as after any other frame.
BadFrame(c) ==
  /\ conn[c] = "open" /\ OneMore(c) < DisconnectAt
  /\ rejected' = [rejected EXCEPT ![c] = OneMore(c)]
  /\ abusive' = IF OneMore(c) >= NoWorkAt THEN abusive \cup {c} ELSE abusive
  /\ live' = IF ident[c] = Nobody THEN live ELSE [live EXCEPT ![ident[c]] = c]
  /\ UNCHANGED <<linkVars, signals, fleet, jobVars, stalled>>

\* Mutant of Evict: the registration that follows a frame is not skipped.
EvictThenRegister(c) ==
  /\ conn[c] = "open" /\ OneMore(c) = DisconnectAt
  /\ conn' = [conn EXCEPT ![c] = "closed"]
  /\ live' = IF ident[c] = Nobody THEN live ELSE [live EXCEPT ![ident[c]] = c]
  /\ fleet' = [id \in Ids |-> IF id = ident[c] THEN Gone ELSE fleet[id]]
  /\ holder' = LeasesAfterClose(c)
  /\ ident' = [ident EXCEPT ![c] = Nobody]
  /\ UNCHANGED <<rejected, abusive, signals, minted, over, stalled>>

\* The same, at DisconnectAt: closed, and not registered again.
Evict(c) ==
  /\ conn[c] = "open" /\ OneMore(c) = DisconnectAt
  /\ EndConnection(c)

-----------------------------------------------------------------------------
(* Server::Sweep.                                                          *)

\* Mutant of LostIds: a worker whose socket is still there is not lost.
LostUnregistered == {id \in Ids : Lost(fleet[id]) /\ live[id] = Nobody}

LostIds == {id \in Ids : Lost(fleet[id])}

\* Mutant of Pushed: revokes wait for the next frame of the worker.
NothingPushed == {}

\* The records whose revokes are sent on the registered connection.
Pushed == {id \in Ids \ LostIds : live[id] # Nobody}

\* Mutant of Stuck: the queue is taken for empty when nobody has a record.
StuckFleet(h) == /\ \E id \in Ids : fleet[id].joined /\ ~Lost(fleet[id])
                 /\ over # Tasks
                 /\ \A t \in Tasks : h[t] = Nobody

\* Work outstanding, somebody connected, nothing leased.
Stuck(h) == /\ \E id \in Ids \ LostIds : live[id] # Nobody
            /\ over # Tasks
            /\ \A t \in Tasks : h[t] = Nobody

Swept(id) == IF id \in LostIds THEN Gone
             ELSE [fleet[id] EXCEPT
                     !.quiet = IF fleet[id].joined /\ @ < Timeout THEN @ + 1 ELSE @,
                     !.revokes = IF id \in Pushed THEN {} ELSE @]

\* Session::ResetSignalWindow on every registered session.
WindowsReset == [c \in Conns |->
  IF \E id \in Ids \ LostIds : live[id] = c THEN 0 ELSE signals[c]]

\* Leases past their deadline (any of them), workers that went quiet, the
\* revokes, the stall counter, and the signalling windows of the registered.
Sweep ==
  \E expired \in SUBSET Leased :
    /\ holder' = Released(expired \cup UNION {HeldBy(id) : id \in LostIds})
    /\ fleet' = [id \in Ids |-> Swept(id)]
    /\ live' = [id \in Ids |-> IF id \in LostIds THEN Nobody ELSE live[id]]
    /\ stalled' = IF ~Stuck(holder') THEN 0
                  ELSE IF stalled = StallSweeps THEN stalled ELSE stalled + 1
    /\ signals' = WindowsReset
    /\ UNCHANGED <<linkVars, rejected, abusive, over>>

-----------------------------------------------------------------------------
Init ==
  /\ conn = [c \in Conns |-> "unused"]
  /\ ident = [c \in Conns |-> Nobody]
  /\ rejected = [c \in Conns |-> 0]
  /\ abusive = {}
  /\ signals = [c \in Conns |-> 0]
  /\ minted = {}
  /\ fleet = [id \in Ids |-> Gone]
  /\ live = [id \in Ids |-> Nobody]
  /\ holder = [t \in Tasks |-> Nobody]
  /\ over = {}
  /\ stalled = 0

Frame(c) ==
  \/ \E id \in Ids, caches \in BOOLEAN : OnHello(c, id, caches)
  \/ OtherFrame(c)
  \/ OnBenchmarkResult(c)
  \/ \E caches \in BOOLEAN, S \in SUBSET Tasks : OnLeaseRequest(c, caches, S)
  \/ \E t \in Tasks : GiveBack(c, t)
  \/ \E t \in Tasks : OnResultUndecided(c, t)
  \/ \E t \in Tasks : OnResultAccepted(c, t)
  \/ OnSignal(c)
  \/ OnGoodbye(c)

Next ==
  \/ \E c \in Conns : \/ Open(c) \/ Close(c) \/ RefuseHandshake(c)
                      \/ Frame(c)
                      \/ TextFrame(c) \/ BadFrame(c) \/ Evict(c)
  \/ Sweep

\* The sweep timer fires for as long as the server runs; frames may stop.
Spec == Init /\ [][Next]_vars /\ WF_vars(Sweep)

-----------------------------------------------------------------------------
\* Every variable stays in its domain; a closed connection keeps nothing.
TypeOK ==
  /\ conn \in [Conns -> {"unused", "open", "closed"}]
  /\ ident \in [Conns -> Ids \cup {Nobody}]
  /\ rejected \in [Conns -> 0 .. DisconnectAt]
  /\ abusive \subseteq Conns
  /\ signals \in [Conns -> 0 .. (SignalWindow + 1)]
  /\ minted \subseteq Ids
  /\ fleet \in [Ids -> WorkerRecord]
  /\ live \in [Ids -> Conns \cup {Nobody}]
  /\ holder \in [Tasks -> Ids \cup {Nobody}]
  /\ over \subseteq Tasks
  /\ stalled \in 0 .. StallSweeps
  /\ \A c \in Conns : conn[c] # "open" => ident[c] = Nobody

\* live_ never holds a session that is gone: "miss a path here and the sweep
\* writes through a dangling pointer" (net.cpp:658-661).  An entry is an open
\* connection that speaks for that identity, however the others ended.
LiveIsOpen ==
  \A id \in Ids : live[id] # Nobody =>
    conn[live[id]] = "open" /\ ident[live[id]] = id

\* Every record belongs to somebody the registry can reach, so a peer that
\* PeersHolding names can be signalled and a revoke queued in a record can be
\* pushed, also after an identity moved between connections.
RecordIsReachable == \A id \in Ids : fleet[id].joined => live[id] # Nobody

\* A lease is never left with an identity that has no record: FindLost goes by
\* the records, so nobody but the lease's own deadline would bring it back.
LeaseHasRecord ==
  \A t \in Tasks : holder[t] # Nobody => fleet[holder[t]].joined

\* A worker is told to stop only what is over and is nobody's to compute:
\* Session::OnResultHeader revokes the losers it cancelled, and neither a task
\* in progress nor one that can be granted again.
RevokedIsOver ==
  \A id \in Ids : \A t \in fleet[id].revokes : t \in over /\ holder[t] = Nobody

\* A task that was accepted or cancelled is never leased again, so a result
\* that comes late (after an expiry, a new grant, a cancellation) cannot finish
\* it a second time.  Its range may be: a sibling that waited in the queue when
\* the race was won is granted again, which Cancel's guard allows
\* (job.cpp:789-791; see FinishedRangeStaysFinished in JobManager).
OverIsFree == over \cap Leased = {}

\* What a peer list may offer: somebody else, whom the relay can reach.
PeersAreReachable ==
  \A id \in Ids : \A p \in PeersHolding(id) : p # id /\ live[p] # Nobody

\* Nothing the coordinator keeps points at what is gone, with identities that
\* move between connections, evictions inside a handler, lost workers and
\* closes in any order: registry to connection, record to registry, lease to
\* record, peer list to registry.
KeptIsReachable ==
  LiveIsOpen /\ RecordIsReachable /\ LeaseHasRecord /\ PeersAreReachable

\* A race has one end for every task that ran in it: the winner and the losers
\* cancelled with it are nobody's any more, through expiries, releases, moved
\* identities and lost workers, and only those losers are told to stop.
RacesEnd == RevokedIsOver /\ OverIsFree

\* A worker that falls silent while it holds a task does not keep it: lost
\* workers are found on the coordinator's clock, not by what they say
\* (net.cpp:135-137).
SilentHolderLosesLease ==
  \A t \in Tasks : \A id \in Ids : ~<>[](holder[t] = id /\ fleet[id].quiet > 0)

\* A queued revoke waits for one sweep at most, although its worker "sends
\* nothing at all" while it computes (net.cpp:148-152): a sweep in which a
\* worker was silent leaves none behind, whichever connection it is on.
RevokesPushed ==
  [][\A id \in Ids : fleet'[id].quiet > fleet[id].quiet => fleet'[id].revokes = {}]_vars

\* When every remaining task is barred for every connected worker for good, the
\* stall counter reaches its threshold: the coordinator says so.
StallReported ==
  <>[](Leased = {} /\ over # Tasks /\ \E id \in Ids : live[id] # Nobody)
    => <>(stalled = StallSweeps)

=============================================================================
