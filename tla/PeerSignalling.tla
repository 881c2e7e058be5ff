--------------------------- MODULE PeerSignalling ---------------------------
(***************************************************************************)
(* Workers that fetch assets from one another: TryNextPeerOrFallBack,      *)
(* HandleSignal, PumpSignalling, ServePeerAssetRequest and the reaping in  *)
(* Poll (task_loop.cpp) at both ends of a PeerLink (peer_link.cpp), with   *)
(* the coordinator's relay between them.                                   *)
(*                                                                         *)
(* Every worker is offerer for its own fetch and answerer for those of     *)
(* others, at the same time and perhaps with the same worker.  A signal    *)
(* may be dropped on the way (OnSignal's window, a worker that is gone),   *)
(* and a connection whose descriptions were exchanged may still not open.  *)
(* Candidates are left out: they decide only whether a connection opens.   *)
(***************************************************************************)
EXTENDS Integers, Sequences, FiniteSets

CONSTANTS
  Peers,          \* workers
  Scenes,         \* content addresses
  Nothing,        \* no asset, no peer
  Attempts,       \* kMaxPeerAttempts
  MaxServing,     \* kMaxServing
  MaxSignals      \* bound: signals on their way from one worker to another

ASSUME SignallingAssumption ==
  /\ IsFiniteSet(Peers)
  /\ Nothing \notin Peers \cup Scenes
  /\ Attempts \in Nat /\ MaxServing \in Nat /\ MaxSignals \in Nat

VARIABLES
  has,        \* resident_asset_
  want,       \* the asset of fetch_
  source,     \* peer_target_ while peer_ is set
  tries,      \* peer_attempt_
  offer,      \* peer_: "none", "offered", "answered" or "open"
  serving,    \* serving_: for each peer "no", "accepted", "open" or "done"
  relay       \* signals on their way

fetchSide == <<has, want, source, tries, offer>>
signalVars == <<fetchSide, serving, relay>>

Sent(net, from, to, kind) ==
  {net} \cup (IF Len(net[from][to]) < MaxSignals
                THEN {[net EXCEPT ![from][to] = Append(@, kind)]} ELSE {})

-----------------------------------------------------------------------------
(* The fetching side.                                                      *)

\* TryNextPeerOrFallBack: peer_ is replaced and offers, or it is dropped and
\* the coordinator is asked.  The candidates are at most Attempts.
TryNext(w, tried) ==
  \/ /\ tried < Attempts
     /\ \E p \in Peers \ {w} :
          /\ source' = [source EXCEPT ![w] = p]
          /\ relay' \in Sent(relay, w, p, "offer")
     /\ offer' = [offer EXCEPT ![w] = "offered"]
     /\ tries' = [tries EXCEPT ![w] = tried + 1]
  \/ /\ source' = [source EXCEPT ![w] = Nothing]
     /\ offer' = [offer EXCEPT ![w] = "none"]
     /\ tries' = [tries EXCEPT ![w] = tried]
     /\ UNCHANGED relay

\* A grant names an asset that is not resident.
FetchBegins(w, a) ==
  /\ want[w] = Nothing /\ has[w] # a
  /\ want' = [want EXCEPT ![w] = a]
  /\ TryNext(w, 0)
  /\ UNCHANGED <<has, serving>>

\* FinishAssetFetch drops the link.
Fetched(w) ==
  /\ has' = [has EXCEPT ![w] = want[w]]
  /\ want' = [want EXCEPT ![w] = Nothing]
  /\ source' = [source EXCEPT ![w] = Nothing]
  /\ offer' = [offer EXCEPT ![w] = "none"]
  /\ UNCHANGED <<tries, serving, relay>>

\* The coordinator's chunks, once it has been asked.
CoordinatorServes(w) == want[w] # Nothing /\ source[w] = Nothing /\ Fetched(w)

\* Poll, after peer_deadline_.
PeerDeadline(w) ==
  /\ want[w] # Nothing /\ source[w] # Nothing
  /\ TryNext(w, tries[w])
  /\ UNCHANGED <<has, want, serving>>

\* A link opens when both ends have the other's description.
ChannelOpens(w) ==
  /\ offer[w] = "answered" /\ serving[source[w]][w] = "accepted"
  /\ offer' = [offer EXCEPT ![w] = "open"]
  /\ serving' = [serving EXCEPT ![source[w]][w] = "open"]
  /\ UNCHANGED <<has, want, source, tries, relay>>

\* The request on the open link, ServePeerAssetRequest at the other end, and
\* what comes back: every chunk, or a miss.
PeerServes(w) ==
  /\ offer[w] = "open" /\ serving[source[w]][w] = "open"
  /\ \/ has[source[w]] = want[w] /\ Fetched(w)
     \/ /\ has[source[w]] # want[w]
        /\ TryNext(w, tries[w])
        /\ UNCHANGED <<has, want, serving>>

-----------------------------------------------------------------------------
(* The serving side.                                                       *)

Taken(s) == {p \in Peers : serving[s][p] # "no"}

\* Something to serve, and a free slot or this peer's own.
Accepts(s, from) ==
  has[s] # Nothing /\ (from \in Taken(s) \/ Cardinality(Taken(s)) < MaxServing)

Delivered(from, to) == [relay EXCEPT ![from][to] = Tail(@)]

\* HandleSignal on an offer: a new link replaces the peer's old one, and the
\* answer goes back.
HandleOffer(s, from) ==
  \/ /\ Accepts(s, from)
     /\ serving' = [serving EXCEPT ![s][from] = "accepted"]
     /\ relay' \in Sent(Delivered(from, s), s, from, "answer")
     /\ UNCHANGED fetchSide
  \/ /\ ~Accepts(s, from)
     /\ relay' = Delivered(from, s)
     /\ UNCHANGED <<fetchSide, serving>>

\* HandleSignal on an answer.  From a peer that is being served it is dropped
\* unread; from anybody but the one that was asked, too.
HandleAnswer(w, from) ==
  /\ offer' = IF serving[w][from] = "no" /\ source[w] = from /\ offer[w] = "offered"
                THEN [offer EXCEPT ![w] = "answered"] ELSE offer
  /\ relay' = Delivered(from, w)
  /\ UNCHANGED <<has, want, source, tries, serving>>

\* From Poll, or from PumpSignalling between two dispatches.
HandleSignal(w) ==
  \E from \in Peers \ {w} :
    /\ relay[from][w] # <<>>
    /\ \/ Head(relay[from][w]) = "offer" /\ HandleOffer(w, from)
       \/ Head(relay[from][w]) = "answer" /\ HandleAnswer(w, from)

\* OnOpen(false): the other end dropped its link, which had been open.
ServingCloses(s, p) ==
  /\ serving[s][p] = "open" /\ ~(source[p] = s /\ offer[p] = "open")
  /\ serving' = [serving EXCEPT ![s][p] = "done"]
  /\ UNCHANGED <<fetchSide, relay>>

\* Mutant of Reapable: a worker that fetches does not reap.
ReapableUnlessFetching(s) ==
  {p \in Peers : serving[s][p] = "done" /\ want[s] = Nothing}

Reapable(s) == {p \in Peers : serving[s][p] = "done"}

\* Poll erases the finished links, whatever the worker itself is fetching.
Reap(s) ==
  /\ Reapable(s) # {}
  /\ serving' = [serving EXCEPT ![s] =
       [p \in Peers |-> IF p \in Reapable(s) THEN "no" ELSE serving[s][p]]]
  /\ UNCHANGED <<fetchSide, relay>>

-----------------------------------------------------------------------------
WorkersWith(resident) ==
  /\ has = resident
  /\ want = [w \in Peers |-> Nothing] /\ source = [w \in Peers |-> Nothing]
  /\ tries = [w \in Peers |-> 0] /\ offer = [w \in Peers |-> "none"]
  /\ serving = [s \in Peers |-> [p \in Peers |-> "no"]]
  /\ relay = [p \in Peers |-> [q \in Peers |-> <<>>]]

\* Somebody has something.
Residents == {h \in [Peers -> Scenes \cup {Nothing}] : \E w \in Peers : h[w] # Nothing}

SignalInit == \E h \in Residents : WorkersWith(h)

\* Mutant of FetchStep: a peer's silence is waited out for ever.
FetchStepPatient(w) == CoordinatorServes(w)

\* The steps of Poll that end a fetch without anybody's help.
FetchStep(w) == CoordinatorServes(w) \/ PeerDeadline(w)

SignalNext ==
  \E w \in Peers :
    \/ \E a \in Scenes : FetchBegins(w, a)
    \/ FetchStep(w) \/ ChannelOpens(w) \/ PeerServes(w) \/ HandleSignal(w) \/ Reap(w)
    \/ \E p \in Peers : ServingCloses(w, p)

SignalSpec == SignalInit /\ [][SignalNext]_signalVars

\* The hosts poll, and a closed connection is noticed.
SignalFairness ==
  \A w \in Peers :
    /\ WF_signalVars(FetchStep(w)) /\ WF_signalVars(Reap(w))
    /\ \A p \in Peers : WF_signalVars(ServingCloses(w, p))

-----------------------------------------------------------------------------
(* Properties.                                                             *)

\* Only a fetch has a source, and only a source has been offered to: an
\* answer that comes when the fetch is over finds nobody to take it.
LinkIsForFetch ==
  \A w \in Peers : /\ source[w] # Nothing => want[w] # Nothing
                   /\ offer[w] # "none" <=> source[w] # Nothing

\* A fetch ends, with lost signals, refusals, stale answers and two workers
\* that fetch from each other: the deadline leads to the coordinator.
FetchEnds == \A w \in Peers : want[w] # Nothing ~> want[w] = Nothing

\* The slot of a connection that was open and is over becomes free again, also
\* while its holder is fetching.
OpenedSlotComesBack ==
  \A s \in Peers : \A p \in Peers :
    (serving[s][p] \in {"open", "done"} /\ want[p] = Nothing)
      ~> (serving[s][p] \in {"no", "accepted"})
=============================================================================
