-------------------------- MODULE ComponentProofs --------------------------
(***************************************************************************)
(* Invariants of the smaller components, each for its own specification    *)
(* and for every value of its constants: the kernel host, peer signalling, *)
(* a worker's standing, and frames.                                        *)
(***************************************************************************)
EXTENDS KernelHost, PeerSignalling, Standing, Wire, WellFoundedInduction, TLAPS

-----------------------------------------------------------------------------
(* KernelHost.                                                             *)

\* RunTask begins with nothing done; the rest is as it is checked.
HostInv == /\ HostTypeOK
           /\ BuffersComeBack
           /\ hpc = "idle" => done = 0

\* kernel_host.cpp: what is dispatched at once fits one window, whatever the pace says.
LEMMA ChunkIsLegal ==
  ASSUME NEW n \in 1 .. MaxCount, NEW p \in 0 .. MaxCount
  PROVE  ChunkOf(p, n) \in 1 .. (Window - 1)
<1>1. MaxGroups * WorkgroupSize \in Nat \ {0}
  BY HostAssumption
<1> QED BY <1>1, HostAssumption DEF ChunkOf, Smaller

\* A host begins with no task.
LEMMA InitHostInv == HostInit => HostInv
<1> SUFFICES ASSUME HostInit PROVE HostInv
  OBVIOUS
<1>1. req \in Request /\ req.count = 1
  BY HostAssumption DEF HostInit, Request
<1> QED BY <1>1 DEF HostInit, HostInv, HostTypeOK, BuffersComeBack

\* RunTask sets the request up.
LEMMA RunTaskKeeps ==
  ASSUME HostInv, NEW s \in Starts, NEW n \in 1 .. MaxCount, NEW p \in 0 .. MaxCount,
         NEW t \in BOOLEAN, NEW e \in BOOLEAN, RunTask(s, n, p, t, e)
  PROVE  HostInv'
<1>1. req' \in Request /\ req'.count = n
  BY ChunkIsLegal, HostAssumption DEF RunTask, Request
<1>2. done' = 0 /\ n \in Nat /\ hpc = "idle" /\ hpc' = "loop" /\ UNCHANGED <<buffer, late, gpu>>
  BY HostAssumption DEF RunTask, HostInv
<1> QED BY <1>1, <1>2 DEF HostInv, HostTypeOK, BuffersComeBack

\* One dispatch: its units fit what is left.
LEMMA DispatchKeeps == ASSUME HostInv, Dispatch PROVE HostInv'
<1>1. /\ req.count \in Nat /\ req.chunk \in Nat \ {0} /\ done \in Nat /\ done < req.count
      /\ hpc = "loop" /\ UNCHANGED <<req, late, gpu>>
  BY HostAssumption DEF Dispatch, HostInv, HostTypeOK, Request
<1>2. done' \in 0 .. req.count
  BY <1>1 DEF Dispatch, Smaller
<1>3. \A b \in Buffers : buffer[b] = "free"
  BY <1>1 DEF HostInv, BuffersComeBack, Buffers
<1>4. CASE hpc' = "timing" /\ MapAsync("ts")
  BY <1>1, <1>2, <1>3, <1>4
     DEF HostInv, HostTypeOK, BuffersComeBack, MapAsync, Buffers
<1>5. CASE hpc' = "yielding" /\ UNCHANGED buffer
  BY <1>1, <1>2, <1>3, <1>5 DEF HostInv, HostTypeOK, BuffersComeBack
<1> QED BY <1>4, <1>5 DEF Dispatch

\* The end of a wait gives the buffer back, mapped or not.
LEMMA MapEnds ==
  ASSUME HostInv, NEW b \in Buffers, MapSucceeds(b) \/ MapFails(b)
  PROVE  buffer' = [buffer EXCEPT ![b] = "free"] /\ late' \subseteq Buffers
  BY DEF MapSucceeds, MapFails, GivenUp, HostInv, HostTypeOK

\* What a running task does besides.
LEMMA HostStepKeeps == ASSUME HostInv, HostStep PROVE HostInv'
<1>1. CASE DeviceIsLost \/ Aborts
  BY <1>1 DEF DeviceIsLost, Aborts, Ended, HostInv, HostTypeOK, BuffersComeBack, Buffers
<1>2. CASE ReadTimestamps
  <2>1. buffer' = [buffer EXCEPT !["ts"] = "free"] /\ late' \subseteq Buffers
    BY <1>2, MapEnds DEF ReadTimestamps, Buffers
  <2> QED BY <1>2, <2>1 DEF ReadTimestamps, HostInv, HostTypeOK, BuffersComeBack, Buffers
<1>3. CASE Yield
  BY <1>3 DEF Yield, MapAsync, HostInv, HostTypeOK, BuffersComeBack, Buffers
<1>4. CASE ReadBack
  BY <1>4 DEF ReadBack, MapAsync, HostInv, HostTypeOK, BuffersComeBack, Buffers
<1>5. CASE ReadBackEnds
  <2>1. buffer' = [buffer EXCEPT !["stage"] = "free"] /\ late' \subseteq Buffers
    BY <1>5, MapEnds DEF ReadBackEnds, Buffers
  <2> QED BY <1>5, <2>1 DEF ReadBackEnds, HostInv, HostTypeOK, BuffersComeBack, Buffers
<1> QED BY <1>1, <1>2, <1>3, <1>4, <1>5, DispatchKeeps DEF HostStep

\* Every step of the host.
LEMMA NextHostInv == ASSUME HostInv, [HostNext]_hostVars PROVE HostInv'
<1>1. CASE UNCHANGED hostVars
  BY <1>1 DEF hostVars, HostInv, HostTypeOK, BuffersComeBack
<1>2. CASE Refused
  BY <1>2 DEF Refused, HostInv, HostTypeOK, BuffersComeBack, Buffers
<1>3. CASE HostDeviceLost
  BY <1>3 DEF HostDeviceLost, HostInv, HostTypeOK, BuffersComeBack
<1>4. ASSUME NEW b \in Buffers, LateCallback(b) PROVE HostInv'
  <2>1. UNCHANGED buffer
    BY <1>4 DEF LateCallback, HostInv, BuffersComeBack, Buffers
  <2> QED BY <1>4, <2>1 DEF LateCallback, HostInv, HostTypeOK, BuffersComeBack
<1> QED BY <1>1, <1>2, <1>3, <1>4, RunTaskKeeps, HostStepKeeps DEF HostNext

\* RunTask never dispatches past the task and its chunk is within the limits.
THEOREM HostTypes == HostSpec => []HostTypeOK
<1>1. HostInv => HostTypeOK
  BY DEF HostInv
<1> QED BY <1>1, InitHostInv, NextHostInv, PTL DEF HostSpec

\* No path through RunTask, no timeout of MapForRead and no late callback
\* leaves a buffer with the driver outside the wait for it.
THEOREM BuffersAlwaysComeBack == HostSpec => []BuffersComeBack
<1>1. HostInv => BuffersComeBack
  BY DEF HostInv
<1> QED BY <1>1, InitHostInv, NextHostInv, PTL DEF HostSpec

-----------------------------------------------------------------------------
(* PeerSignalling.                                                         *)

SignalInv ==
  /\ want \in [Peers -> Scenes \cup {Nothing}]
  /\ source \in [Peers -> Peers \cup {Nothing}]
  /\ offer \in [Peers -> {"none", "offered", "answered", "open"}]
  /\ LinkIsForFetch

\* The next peer is asked, or the coordinator.
LEMMA TryNextKeeps ==
  ASSUME SignalInv, NEW w \in Peers, NEW tried,
         want' \in [Peers -> Scenes \cup {Nothing}], want'[w] # Nothing,
         \A v \in Peers \ {w} : want'[v] = want[v], TryNext(w, tried)
  PROVE  SignalInv'
<1>1. CASE \E p \in Peers \ {w} : /\ source' = [source EXCEPT ![w] = p]
                                   /\ offer' = [offer EXCEPT ![w] = "offered"]
  <2>1. PICK p \in Peers \ {w} : source' = [source EXCEPT ![w] = p]
    BY <1>1
  <2>2. p # Nothing /\ offer' = [offer EXCEPT ![w] = "offered"]
    BY <1>1, SignallingAssumption
  <2> QED BY <2>1, <2>2 DEF SignalInv, LinkIsForFetch
<1>2. CASE source' = [source EXCEPT ![w] = Nothing] /\ offer' = [offer EXCEPT ![w] = "none"]
  BY <1>2 DEF SignalInv, LinkIsForFetch
<1> QED BY <1>1, <1>2 DEF TryNext

\* A fetch ends.
LEMMA FetchedKeeps == ASSUME SignalInv, NEW w \in Peers, Fetched(w) PROVE SignalInv'
  BY DEF Fetched, SignalInv, LinkIsForFetch

\* An answer changes the state of a link that is there.
LEMMA HandleSignalKeeps == ASSUME SignalInv, NEW w \in Peers, HandleSignal(w) PROVE SignalInv'
<1>1. PICK from \in Peers \ {w} : HandleOffer(w, from) \/ HandleAnswer(w, from)
  BY DEF HandleSignal
<1>2. CASE HandleOffer(w, from)
  BY <1>2 DEF HandleOffer, fetchSide, SignalInv, LinkIsForFetch
<1>3. CASE HandleAnswer(w, from)
  BY <1>3 DEF HandleAnswer, SignalInv, LinkIsForFetch
<1> QED BY <1>1, <1>2, <1>3

\* Every step of the peer signalling.
LEMMA NextSignalInv == ASSUME SignalInv, [SignalNext]_signalVars PROVE SignalInv'
<1>1. ASSUME NEW w \in Peers, NEW a \in Scenes, FetchBegins(w, a) PROVE SignalInv'
  BY <1>1, TryNextKeeps, SignallingAssumption DEF FetchBegins, SignalInv
<1>2. ASSUME NEW w \in Peers, CoordinatorServes(w) PROVE SignalInv'
  BY <1>2, FetchedKeeps DEF CoordinatorServes
<1>3. ASSUME NEW w \in Peers, PeerDeadline(w) PROVE SignalInv'
  BY <1>3, TryNextKeeps DEF PeerDeadline, SignalInv
<1>4. ASSUME NEW w \in Peers, ChannelOpens(w) PROVE SignalInv'
  BY <1>4 DEF ChannelOpens, SignalInv, LinkIsForFetch
<1>5. ASSUME NEW w \in Peers, PeerServes(w) PROVE SignalInv'
  <2>1. want[w] # Nothing
    BY <1>5 DEF PeerServes, SignalInv, LinkIsForFetch
  <2> QED BY <1>5, <2>1, FetchedKeeps, TryNextKeeps DEF PeerServes, SignalInv
<1>6. ASSUME NEW w \in Peers, Reap(w) \/ \E p \in Peers : ServingCloses(w, p) PROVE SignalInv'
  BY <1>6 DEF Reap, ServingCloses, fetchSide, SignalInv, LinkIsForFetch
<1>7. ASSUME UNCHANGED signalVars PROVE SignalInv'
  BY <1>7 DEF signalVars, fetchSide, SignalInv, LinkIsForFetch
<1> QED BY <1>1, <1>2, <1>3, <1>4, <1>5, <1>6, <1>7, HandleSignalKeeps DEF SignalNext, FetchStep

\* A link belongs to a fetch, with any number of workers and any loss of
\* signals: FinishAssetFetch, a miss and the deadline all leave it so.
THEOREM LinksBelongToFetches == SignalSpec => []LinkIsForFetch
<1>1. SignalInit => SignalInv
  BY SignallingAssumption DEF SignalInit, Residents, WorkersWith, SignalInv, LinkIsForFetch
<1>2. SignalInv /\ [SignalNext]_signalVars => SignalInv'
  BY NextSignalInv
<1>3. SignalInv => LinkIsForFetch
  BY DEF SignalInv
<1> QED BY <1>1, <1>2, <1>3, PTL DEF SignalSpec

-----------------------------------------------------------------------------
(* Standing: tokens.                                                       *)

TokenInv ==
  /\ tokenOf \in [Judged -> Tokens \cup {NoToken}]
  /\ byToken \in [Tokens -> SUBSET Judged]
  /\ NewestTokenOnly

\* The token a worker had before is nobody's afterwards.
LEMMA MintTokenKeeps == ASSUME TokenInv, NEW w \in Judged, MintToken(w) PROVE TokenInv'
<1>1. PICK t \in Tokens \ minted : /\ byToken' = [Replaced(w) EXCEPT ![t] = {w}]
                                   /\ tokenOf' = [tokenOf EXCEPT ![w] = t]
  BY DEF MintToken
<1>2. \A u \in Tokens : \A v \in byToken'[u] : u = t \/ (v \in byToken[u] /\ u # tokenOf[w])
  BY <1>1 DEF Replaced
<1>3. byToken'[t] = {w}
  BY <1>1 DEF Replaced
<1>4. byToken' \in [Tokens -> SUBSET Judged] /\ tokenOf' \in [Judged -> Tokens \cup {NoToken}]
  BY <1>1 DEF Replaced, TokenInv
<1>5. \A u \in Tokens : \A v \in byToken'[u] : tokenOf'[v] = u
  BY <1>1, <1>2, <1>3, <1>4 DEF TokenInv, NewestTokenOnly
<1> QED BY <1>4, <1>5 DEF TokenInv, NewestTokenOnly

\* Every step, for the tokens.
LEMMA NextTokenInv == ASSUME TokenInv, [StandingNext]_standingVars PROVE TokenInv'
<1>1. ASSUME NEW t \in Tokens, OnHelloWith(t) PROVE TokenInv'
  BY <1>1, MintTokenKeeps DEF OnHelloWith, TokenInv
<1>2. ASSUME UNCHANGED <<tokenOf, byToken>> PROVE TokenInv'
  BY <1>2 DEF TokenInv, NewestTokenOnly
<1> QED BY <1>1, <1>2 DEF StandingNext, Elapses, Judge, AsksForLease, GoesUnjudged, standingVars

\* However often workers come back, with whichever token, an identity answers
\* only to its newest one.
THEOREM OldTokensAreDead == StandingSpec => []NewestTokenOnly
<1>1. StandingInit => TokenInv
  BY DEF StandingInit, TokenInv, NewestTokenOnly
<1>2. TokenInv /\ [StandingNext]_standingVars => TokenInv'
  BY NextTokenInv
<1>3. TokenInv => NewestTokenOnly
  BY DEF TokenInv
<1> QED BY <1>1, <1>2, <1>3, PTL DEF StandingSpec

-----------------------------------------------------------------------------
(* Standing: blacklist and probation.                                      *)

Record == [alpha : Nat, beta : Nat, probation : BOOLEAN]

\* Whoever fell is barred, or was and has not asked since, or is on probation.
WatchInv ==
  /\ rep \in [Judged -> Record]
  /\ bar \in [Judged -> -1 .. Cooldown]
  /\ fallen \subseteq Judged
  /\ \A w \in fallen : bar[w] = NotBarred => rep[w].probation

\* Probation ends with the trust that ends the fall.
LEMMA AcceptedKeeps == ASSUME WatchInv, NEW w \in Judged, RecordAccepted(w) PROVE WatchInv'
<1> DEFINE r == [rep[w] EXCEPT !.alpha = @ + 4]
           q == Redeemed(r)
<1>1. rep[w] \in Record
  BY DEF WatchInv
<1>2. \A x \in Record : [x EXCEPT !.alpha = @ + 4] \in Record
                        /\ [x EXCEPT !.alpha = @ + 4].probation = x.probation
  BY DEF Record
<1>3. r \in Record /\ r.probation = rep[w].probation
  BY <1>1, <1>2
<1>4. \A x \in Record : /\ Redeemed(x) \in Record
                        /\ Redeemed(x).alpha = x.alpha /\ Redeemed(x).beta = x.beta
                        /\ Redeemed(x).probation = (x.probation /\ ~AtLeast(x, TrustedAt))
  BY DEF Record, Redeemed
<1>5. /\ q \in Record /\ (AtLeast(q, TrustedAt) <=> AtLeast(r, TrustedAt))
      /\ q.probation = (rep[w].probation /\ ~AtLeast(r, TrustedAt))
  BY <1>3, <1>4 DEF AtLeast
<1>6. /\ rep' = [rep EXCEPT ![w] = q] /\ UNCHANGED bar
      /\ fallen' = IF AtLeast(q, TrustedAt) THEN fallen \ {w} ELSE fallen
  BY DEF RecordAccepted
<1> HIDE DEF r, q
<1>7. \A v \in fallen' : bar'[v] = NotBarred => rep'[v].probation
  BY <1>5, <1>6 DEF WatchInv
<1> QED BY <1>5, <1>6, <1>7 DEF WatchInv

\* A rejected answer may bar a worker, and ends no probation.
LEMMA RejectedKeeps ==
  ASSUME WatchInv, NEW w \in Judged, NEW s \in Severities, NEW probe \in BOOLEAN,
         RecordRejected(w, s, probe)
  PROVE  WatchInv'
<1> DEFINE r == [rep[w] EXCEPT !.beta = @ + Penalty(s, probe)]
<1>1. rep[w] \in Record /\ bar[w] \in -1 .. Cooldown
  BY DEF WatchInv
<1>2. Penalty(s, probe) \in Nat
  BY StandingAssumption DEF Penalty
<1>3. \A x \in Record, n \in Nat : [x EXCEPT !.beta = @ + n] \in Record
                                   /\ [x EXCEPT !.beta = @ + n].probation = x.probation
  BY DEF Record
<1>4. r \in Record /\ r.probation = rep[w].probation
  BY <1>1, <1>2, <1>3
<1>5. /\ rep' = [rep EXCEPT ![w] = r] /\ bar' = [bar EXCEPT ![w] = Barred(w, r)]
      /\ fallen' = IF Barred(w, r) # bar[w] THEN fallen \cup {w} ELSE fallen
  BY DEF RecordRejected
<1> HIDE DEF r
<1>6. Barred(w, r) \in {bar[w], Cooldown} /\ Cooldown \in Nat \ {0}
  BY StandingAssumption DEF Barred
<1>7. \A v \in fallen' : bar'[v] = NotBarred => rep'[v].probation
  BY <1>1, <1>4, <1>5, <1>6 DEF WatchInv, NotBarred
<1> QED BY <1>1, <1>4, <1>5, <1>6, <1>7 DEF WatchInv

\* A ban that is taken off leaves probation behind.
LEMMA AsksKeeps == ASSUME WatchInv, NEW w \in Judged, AsksForLease(w) PROVE WatchInv'
<1> DEFINE r == [rep[w] EXCEPT !.probation = @ \/ bar[w] # NotBarred]
<1>1. rep[w] \in Record
  BY DEF WatchInv
<1>2. r \in Record /\ r.probation = (rep[w].probation \/ bar[w] # NotBarred)
  BY <1>1 DEF Record
<1>3. r \in Record /\ (rep[w].probation \/ bar[w] # NotBarred => r.probation)
  BY <1>2
<1>4. /\ rep' = [rep EXCEPT ![w] = r] /\ bar' = [bar EXCEPT ![w] = NotBarred]
      /\ UNCHANGED fallen
  BY DEF AsksForLease
<1> HIDE DEF r
<1>5. \A v \in fallen' : bar'[v] = NotBarred => rep'[v].probation
  BY <1>3, <1>4 DEF WatchInv
<1> QED BY <1>3, <1>4, <1>5, StandingAssumption DEF WatchInv, NotBarred

\* A cooldown that has run out is 0, which is still not NotBarred.
LEMMA ElapsesKeeps == ASSUME WatchInv, Elapses PROVE WatchInv'
<1>1. bar' = [w \in Judged |-> IF bar[w] > 0 THEN bar[w] - 1 ELSE bar[w]]
      /\ UNCHANGED <<rep, fallen>>
  BY DEF Elapses
<1>2. bar' \in [Judged -> -1 .. Cooldown]
  BY <1>1, StandingAssumption DEF WatchInv
<1>3. \A w \in Judged : bar'[w] = NotBarred => bar[w] = NotBarred
  BY <1>1, StandingAssumption DEF WatchInv, NotBarred
<1> QED BY <1>1, <1>2, <1>3 DEF WatchInv

\* Every step, for the watermark.
LEMMA NextWatchInv == ASSUME WatchInv, [StandingNext]_standingVars PROVE WatchInv'
<1>1. ASSUME UNCHANGED <<rep, bar, fallen>> PROVE WatchInv'
  BY <1>1 DEF WatchInv
<1> QED BY <1>1, AcceptedKeeps, RejectedKeeps, AsksKeeps, ElapsesKeeps
        DEF StandingNext, Judge, GoesUnjudged, OnHelloWith, standingVars

\* With any number of workers, any priors, thresholds and severities: what a
\* blacklisted worker submits is checked by the largest quorum until its
\* score is trusted again.
THEOREM FallenAreWatched == StandingSpec => []WatchedUntilTrusted
<1>1. StandingInit => WatchInv
  <2> SUFFICES ASSUME StandingInit PROVE WatchInv
    OBVIOUS
  <2>1. [alpha |-> Prior, beta |-> Prior, probation |-> FALSE] \in Record
    BY StandingAssumption DEF Record
  <2> QED BY <2>1, StandingAssumption DEF StandingInit, WatchInv, NotBarred
<1>2. WatchInv /\ [StandingNext]_standingVars => WatchInv'
  BY NextWatchInv
<1>3. WatchInv => WatchedUntilTrusted
  <2> SUFFICES ASSUME WatchInv, NEW w \in fallen, bar[w] # 0
               PROVE  rep[w].probation \/ bar[w] > 0
    BY DEF WatchedUntilTrusted, RequiredAgreementFor
  <2>1. bar[w] \in -1 .. Cooldown /\ Cooldown \in Nat
    BY StandingAssumption DEF WatchInv
  <2> QED BY <2>1 DEF WatchInv, NotBarred
<1> QED BY <1>1, <1>2, <1>3, PTL DEF StandingSpec

-----------------------------------------------------------------------------
(* Wire: frames.                                                           *)

\* The answer is "Verified" only if every check passes.
LEMMA VerifiedPassesAll ==
  ASSUME NEW f
  PROVE  VerifyFrame(f) = "Verified" <=>
           /\ f.aligned /\ ~(f.size < HeaderBytes) /\ f.magic /\ f.version
           /\ ~FbTooLong(f) /\ ~(f.size < FbEnd(f)) /\ ~(f.flag /= (PayloadSize(f) > 0))
           /\ ~f.reserved /\ ~(PayloadSize(f) > MaxOutput) /\ f.verifies /\ f.body
<1> DEFINE checks ==
        << <<~f.aligned,                          "Internal">>,
           <<f.size < HeaderBytes,                "MalformedMessage">>,
           <<~f.magic,                            "MalformedMessage">>,
           <<~f.version,                          "VersionMismatch">>,
           <<FbTooLong(f),                        "PayloadTooLarge">>,
           <<f.size < FbEnd(f),                   "MalformedMessage">>,
           <<f.flag /= (PayloadSize(f) > 0),      "OrphanPayload">>,
           <<f.reserved,                          "MalformedMessage">>,
           <<PayloadSize(f) > MaxOutput,          "PayloadTooLarge">>,
           <<~f.verifies,                         "MalformedMessage">>,
           <<~f.body,                             "MalformedMessage">> >>
           failed == {i \in DOMAIN checks : checks[i][1]}
           first == CHOOSE i \in failed : \A j \in failed : i <= j
<1>1. VerifyFrame(f) = IF failed = {} THEN "Verified" ELSE checks[first][2]
  BY DEF VerifyFrame
<1>2. DOMAIN checks = 1 .. 11
  OBVIOUS
<1>3. \A i \in 1 .. 11 : checks[i][2] # "Verified"
  OBVIOUS
<1>4. failed # {} => first \in 1 .. 11
  <2> SUFFICES ASSUME failed # {} PROVE first \in failed
    BY <1>2
  <2>1. failed \subseteq Nat
    BY <1>2
  <2> HIDE DEF failed
  <2>2. PICK i \in failed : \A j \in failed : i <= j
    <3>1. PICK i \in failed : \A j \in failed : ~(<<j, i>> \in OpToRel(<, Nat))
      BY <2>1, NatLessThanWellFounded, WFMin
    <3>2. \A j \in failed : ~(j < i)
      BY <2>1, <3>1 DEF OpToRel
    <3>3. \A j \in failed : i \in Nat /\ j \in Nat
      BY <2>1
    <3>4. \A j \in failed : i <= j
      BY <3>2, <3>3
    <3> QED BY <3>4
  <2> QED BY <2>2
<1>5. failed = {} <=> \A i \in 1 .. 11 : ~checks[i][1]
  BY <1>2
<1> HIDE DEF first, failed
<1>6. VerifyFrame(f) = "Verified" <=> \A i \in 1 .. 11 : ~checks[i][1]
  BY <1>1, <1>3, <1>4, <1>5
<1>7. (\A i \in 1 .. 11 : ~checks[i][1]) <=>
        /\ ~checks[1][1] /\ ~checks[2][1] /\ ~checks[3][1] /\ ~checks[4][1] /\ ~checks[5][1]
        /\ ~checks[6][1] /\ ~checks[7][1] /\ ~checks[8][1] /\ ~checks[9][1] /\ ~checks[10][1]
        /\ ~checks[11][1]
  OBVIOUS
<1> QED BY <1>6, <1>7

\* Below the limit the end of the envelope is a sum that does not wrap.
LEMMA FbEndIsSum ==
  ASSUME NEW f, f.fbLen \in 0 .. MaxEnvelope
  PROVE  FbEnd(f) = HeaderBytes + f.fbLen
<1>1. \A n, d \in Nat : n < d => n % d = n
  OBVIOUS
<1> QED BY SMTT(30), <1>1, WireAssumption DEF FbEnd

FrameInv ==
  /\ frame.size \in Nat /\ frame.fbLen \in Nat
  /\ verdict = "Verified" => VerifyFrame(frame) = "Verified"
  /\ OwnFrameComesThrough

\* A frame of this program's own arrives, aligned or copied.
LEMMA OwnArrivesKeeps ==
  ASSUME NEW e \in 0 .. MaxEnvelope, NEW p \in 0 .. MaxOutput, NEW aligned \in BOOLEAN,
         OwnArrives(e, p, aligned)
  PROVE  FrameInv'
<1>1. /\ frame' = EncodeFrame(e, p) /\ parts' = <<e, p>> /\ verdict' = VerifyFrame(frame')
  BY DEF OwnArrives, AlignFrame, EncodeFrame
<1>2. /\ frame'.aligned /\ frame'.size = HeaderBytes + e + p /\ frame'.magic /\ frame'.version
      /\ frame'.flag = (p > 0) /\ frame'.fbLen = e /\ ~frame'.reserved /\ frame'.verifies
      /\ frame'.body
  BY <1>1 DEF EncodeFrame
<1>3. FbEnd(frame') = HeaderBytes + e
  BY <1>2, FbEndIsSum
<1>4. PayloadSize(frame') = p
  BY <1>2, <1>3, WireAssumption DEF PayloadSize
<1>5. /\ ~(frame'.size < HeaderBytes) /\ ~FbTooLong(frame') /\ ~(frame'.size < FbEnd(frame'))
      /\ ~(p > MaxOutput)
  BY <1>2, <1>3, WireAssumption DEF FbTooLong
<1>6. VerifyFrame(frame') = "Verified"
  BY <1>2, <1>4, <1>5, VerifiedPassesAll
<1> QED BY <1>1, <1>2, <1>4, <1>6, WireAssumption DEF FrameInv, OwnFrameComesThrough

\* A frame of somebody else's.
LEMMA StrangerArrivesKeeps == ASSUME NEW f \in WireFrame, StrangerArrives(f) PROVE FrameInv'
<1>1. frame' = AlignFrame(f) /\ parts' = <<>> /\ verdict' = VerifyFrame(frame')
  BY DEF StrangerArrives
<1>2. frame'.size \in Nat /\ frame'.fbLen \in Nat
  BY <1>1, WireAssumption DEF AlignFrame, WireFrame
<1> QED BY <1>1, <1>2 DEF FrameInv, OwnFrameComesThrough

\* Every step of the framing.
LEMMA NextFrameInv == ASSUME FrameInv, [WireNext]_wireVars PROVE FrameInv'
<1>1. ASSUME UNCHANGED <<frame, parts, verdict>> PROVE FrameInv'
  BY <1>1 DEF FrameInv, OwnFrameComesThrough
<1>2. ASSUME FrameArrives PROVE FrameInv'
  BY <1>2, OwnArrivesKeeps, StrangerArrivesKeeps DEF FrameArrives
<1>3. ASSUME ChunkArrives PROVE UNCHANGED <<frame, parts, verdict>>
  BY <1>3 DEF ChunkArrives, HolderSends, StrangerSends, HandleChunk
<1> QED BY <1>1, <1>2, <1>3 DEF WireNext, wireVars

\* The invariant of the framing, for the theorems below.
LEMMA FrameAlways == WireSpec => []FrameInv
<1>1. WireInit => FrameInv
  BY WireAssumption
     DEF WireInit, WireBegins, EncodeFrame, FrameInv, OwnFrameComesThrough
<1>2. FrameInv /\ [WireNext]_wireVars => FrameInv'
  BY NextFrameInv
<1> QED BY <1>1, <1>2, PTL DEF WireSpec

\* For every width of size_t and all limits whose sum it can hold, SplitFrame
\* points nowhere outside the frame it was given.
THEOREM NothingOutsideFrame == WireSpec => []RegionsInsideFrame
<1>1. FrameInv => RegionsInsideFrame
  <2> SUFFICES ASSUME FrameInv, verdict = "Verified"
               PROVE  /\ HeaderBytes + frame.fbLen + PayloadSize(frame) = frame.size
                      /\ frame.fbLen <= MaxEnvelope /\ PayloadSize(frame) \in 0 .. MaxOutput
    BY DEF RegionsInsideFrame
  <2>1. /\ ~FbTooLong(frame) /\ ~(frame.size < FbEnd(frame))
        /\ ~(PayloadSize(frame) > MaxOutput)
    BY VerifiedPassesAll DEF FrameInv
  <2>2. frame.fbLen \in 0 .. MaxEnvelope /\ frame.size \in Nat
    BY <2>1, WireAssumption DEF FrameInv, FbTooLong
  <2>3. FbEnd(frame) = HeaderBytes + frame.fbLen
    BY <2>2, FbEndIsSum
  <2> QED BY <2>1, <2>2, <2>3, WireAssumption DEF PayloadSize
<1> QED BY <1>1, FrameAlways, PTL

\* Encoding and verification agree, for every envelope and payload within the
\* limits.
THEOREM OwnFramesComeThrough == WireSpec => []OwnFrameComesThrough
<1>1. FrameInv => OwnFrameComesThrough
  BY DEF FrameInv
<1> QED BY <1>1, FrameAlways, PTL

\* The two ends agree on every frame, for every width of size_t.
THEOREM FramesAreAgreed == WireSpec => []FramesAgree
<1>1. RegionsInsideFrame /\ OwnFrameComesThrough => FramesAgree
  BY DEF FramesAgree
<1> QED BY <1>1, NothingOutsideFrame, OwnFramesComeThrough, PTL
=============================================================================
