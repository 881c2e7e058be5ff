--------------------------- MODULE SessionsProofs ---------------------------
(***************************************************************************)
(* The registry, the fleet's records and the leases stay consistent, for   *)
(* any number of connections, tasks and families: the six invariants of    *)
(* Sessions are together inductive.                                        *)
(***************************************************************************)
EXTENDS Sessions, TLAPS

\* The inductive invariant.  RecordIsReachable needs LiveIsOpen (a connection
\* that ends takes away its own entry only), LeaseHasRecord needs the type of
\* an ended connection, RevokedIsOver and OverIsFree need each other.
IInv == /\ TypeOK
        /\ LiveIsOpen
        /\ RecordIsReachable
        /\ LeaseHasRecord
        /\ RevokedIsOver
        /\ OverIsFree

-----------------------------------------------------------------------------
(* Records.                                                                *)

\* A worker just heard of has been quiet for no time.
LEMMA NotQuiet == 0 \in 0 .. Timeout
  BY SessionsAssumption

\* The record of nobody.
LEMMA GoneType == Gone \in WorkerRecord /\ ~Gone.joined /\ Gone.revokes = {}
  BY NotQuiet DEF Gone, WorkerRecord

\* The record OnHello makes.
LEMMA JoinedType ==
  \A b \in BOOLEAN : /\ Joined(b) \in WorkerRecord
                     /\ Joined(b).joined
                     /\ Joined(b).revokes = {}
  BY NotQuiet DEF Joined, Gone, WorkerRecord

\* The record after a frame was served.
LEMMA ServedType ==
  \A r \in WorkerRecord : /\ Served(r) \in WorkerRecord
                          /\ Served(r).joined = r.joined
                          /\ Served(r).revokes = {}
  BY NotQuiet DEF Served, WorkerRecord

\* Writing a flag of a record keeps what the invariants look at.
LEMMA FlagsType ==
  \A r \in WorkerRecord : \A b \in BOOLEAN :
    /\ [r EXCEPT !.scored = b] \in WorkerRecord
    /\ [r EXCEPT !.scored = b].joined = r.joined
    /\ [r EXCEPT !.scored = b].revokes = r.revokes
    /\ [r EXCEPT !.caching = b] \in WorkerRecord
    /\ [r EXCEPT !.caching = b].joined = r.joined
    /\ [r EXCEPT !.caching = b].revokes = r.revokes
  BY DEF WorkerRecord

\* The record with revokes noted for later.
LEMMA RevokesType ==
  \A r \in WorkerRecord : \A S \in SUBSET Tasks :
    /\ [r EXCEPT !.revokes = @ \cup S] \in WorkerRecord
    /\ [r EXCEPT !.revokes = @ \cup S].joined = r.joined
    /\ [r EXCEPT !.revokes = @ \cup S].revokes = r.revokes \cup S
  BY DEF WorkerRecord

\* The holders after a set of tasks was released.
LEMMA ReleasedType ==
  ASSUME holder \in [Tasks -> Ids \cup {Nobody}], NEW S
  PROVE  /\ Released(S) \in [Tasks -> Ids \cup {Nobody}]
         /\ \A t \in Tasks : Released(S)[t] = IF t \in S THEN Nobody ELSE holder[t]
  BY DEF Released

-----------------------------------------------------------------------------
(* What every frame does.                                                  *)

\* What every handler of a handshaked connection ends with.
LEMMA AfterFrameKeeps ==
  ASSUME IInv, NEW c \in Conns, Handshaked(c),
         NEW f \in [Ids -> WorkerRecord],
         \A id \in Ids : f[id].joined => fleet[id].joined,
         AfterFrame(c, f)
  PROVE  /\ fleet' \in [Ids -> WorkerRecord]
         /\ \A id \in Ids : /\ fleet'[id].joined = f[id].joined
                            /\ fleet'[id].revokes \subseteq f[id].revokes
         /\ live' \in [Ids -> Conns \cup {Nobody}]
         /\ LiveIsOpen'
         /\ RecordIsReachable'
         /\ UNCHANGED <<conn, ident, minted, rejected, abusive, stalled>>
<1>1. ident[c] \in Ids /\ conn[c] = "open"
  BY DEF IInv, TypeOK, Handshaked
<1>2. UNCHANGED <<conn, ident, minted, rejected, abusive, stalled>>
  BY DEF AfterFrame, linkVars
<1>3. /\ fleet' = [f EXCEPT ![ident[c]] = Served(f[ident[c]])]
      /\ live' = [live EXCEPT ![ident[c]] = c]
  BY DEF AfterFrame
<1>4. fleet' \in [Ids -> WorkerRecord]
  BY <1>1, <1>3, ServedType
<1>5. \A id \in Ids : /\ fleet'[id].joined = f[id].joined
                      /\ fleet'[id].revokes \subseteq f[id].revokes
  BY <1>1, <1>3, ServedType
<1>6. live' \in [Ids -> Conns \cup {Nobody}]
  BY <1>1, <1>3 DEF IInv, TypeOK
<1>7. LiveIsOpen'
  BY <1>1, <1>2, <1>3 DEF IInv, TypeOK, LiveIsOpen
<1>8. RecordIsReachable'
  BY <1>1, <1>3, <1>5, SessionsAssumption DEF IInv, TypeOK, RecordIsReachable
<1> QED BY <1>2, <1>4, <1>5, <1>6, <1>7, <1>8

\* A frame that grants, finishes and revokes nothing.
LEMMA PlainFrame ==
  ASSUME IInv, NEW c \in Conns, Handshaked(c),
         NEW f \in [Ids -> WorkerRecord],
         \A id \in Ids : f[id].joined = fleet[id].joined /\ f[id].revokes = fleet[id].revokes,
         AfterFrame(c, f),
         NEW S, holder' = Released(S), over' = over,
         signals' \in [Conns -> 0 .. (SignalWindow + 1)]
  PROVE  IInv'
<1>1. /\ fleet' \in [Ids -> WorkerRecord]
      /\ \A id \in Ids : /\ fleet'[id].joined = f[id].joined
                         /\ fleet'[id].revokes \subseteq f[id].revokes
      /\ live' \in [Ids -> Conns \cup {Nobody}]
      /\ LiveIsOpen'
      /\ RecordIsReachable'
      /\ UNCHANGED <<conn, ident, minted, rejected, abusive, stalled>>
  BY AfterFrameKeeps
<1>2. /\ holder' \in [Tasks -> Ids \cup {Nobody}]
      /\ \A t \in Tasks : holder'[t] = IF t \in S THEN Nobody ELSE holder[t]
  BY ReleasedType DEF IInv, TypeOK
<1>3. TypeOK'
  BY <1>1, <1>2 DEF IInv, TypeOK
<1>4. LeaseHasRecord'
  BY <1>1, <1>2 DEF IInv, TypeOK, LeaseHasRecord
<1>5. RevokedIsOver'
  BY <1>1, <1>2 DEF IInv, RevokedIsOver, TypeOK, WorkerRecord
<1>6. OverIsFree'
  BY <1>2 DEF IInv, OverIsFree, Leased
<1> QED BY <1>1, <1>3, <1>4, <1>5, <1>6 DEF IInv

\* A frame that leaves the leases alone.
LEMMA HolderReleasesNothing ==
  ASSUME TypeOK PROVE holder = Released({})
  BY DEF TypeOK, Released

-----------------------------------------------------------------------------
(* One lemma per kind of step.                                             *)

\* Nobody is connected at first.
LEMMA InitIInv == Init => IInv
<1> SUFFICES ASSUME Init PROVE IInv
  OBVIOUS
<1>1. TypeOK
  BY GoneType, SessionsAssumption DEF Init, TypeOK
<1>2. LiveIsOpen /\ RecordIsReachable
  BY GoneType DEF Init, LiveIsOpen, RecordIsReachable
<1>3. LeaseHasRecord /\ RevokedIsOver /\ OverIsFree
  BY GoneType DEF Init, LeaseHasRecord, RevokedIsOver, OverIsFree
<1> QED BY <1>1, <1>2, <1>3 DEF IInv

\* A connection that ends, however it ends.
LEMMA EndKeeps ==
  ASSUME IInv, NEW c \in Conns, conn[c] = "open", EndConnection(c) PROVE IInv'
<1> DEFINE id == ident[c]
<1>1. /\ conn' = [conn EXCEPT ![c] = "closed"]
      /\ live' = [i \in Ids |-> IF i = id THEN Nobody ELSE live[i]]
      /\ fleet' = [i \in Ids |-> IF i = id THEN Gone ELSE fleet[i]]
      /\ ident' = [ident EXCEPT ![c] = Nobody]
      /\ rejected' = [rejected EXCEPT ![c] = 0]
      /\ abusive' = abusive \ {c}
      /\ signals' = [signals EXCEPT ![c] = 0]
      /\ UNCHANGED <<minted, over, stalled>>
  BY DEF EndConnection, Unregistered
<1>2. /\ holder' \in [Tasks -> Ids \cup {Nobody}]
      /\ \A t \in Tasks : holder'[t] = IF holder[t] = id THEN Nobody ELSE holder[t]
  <2>1. CASE id = Nobody
    BY <2>1 DEF EndConnection, LeasesAfterClose, IInv, TypeOK
  <2>2. CASE id # Nobody
    <3>1. holder' = Released(HeldBy(id))
      BY <2>2 DEF EndConnection, LeasesAfterClose
    <3> QED BY <3>1, ReleasedType DEF HeldBy, IInv, TypeOK
  <2> QED BY <2>1, <2>2
<1>3. TypeOK'
  <2>1. fleet' \in [Ids -> WorkerRecord]
    BY <1>1, GoneType DEF IInv, TypeOK
  <2>2. live' \in [Ids -> Conns \cup {Nobody}]
    BY <1>1 DEF IInv, TypeOK
  <2>3. /\ conn' \in [Conns -> {"unused", "open", "closed"}]
        /\ ident' \in [Conns -> Ids \cup {Nobody}]
        /\ \A d \in Conns : conn'[d] # "open" => ident'[d] = Nobody
    BY <1>1 DEF IInv, TypeOK
  <2>4. /\ rejected' \in [Conns -> 0 .. DisconnectAt]
        /\ signals' \in [Conns -> 0 .. (SignalWindow + 1)]
    BY <1>1, SessionsAssumption DEF IInv, TypeOK
  <2> QED BY <1>1, <1>2, <2>1, <2>2, <2>3, <2>4 DEF IInv, TypeOK
<1>4. LiveIsOpen'
  BY <1>1 DEF IInv, TypeOK, LiveIsOpen
<1>5. RecordIsReachable'
  BY <1>1, GoneType DEF IInv, RecordIsReachable
<1>6. LeaseHasRecord'
  BY <1>1, <1>2 DEF IInv, TypeOK, LeaseHasRecord
<1>7. RevokedIsOver'
  BY <1>1, <1>2, GoneType DEF IInv, TypeOK, WorkerRecord, RevokedIsOver
<1>8. OverIsFree'
  BY <1>1, <1>2 DEF IInv, OverIsFree, Leased
<1> QED BY <1>3, <1>4, <1>5, <1>6, <1>7, <1>8 DEF IInv

\* OnHello, also for an id that is connected already.
LEMMA HelloKeeps ==
  ASSUME IInv, NEW c \in Conns, NEW id \in Ids, NEW caches \in BOOLEAN,
         OnHello(c, id, caches)
  PROVE  IInv'
<1>1. /\ conn[c] = "open" /\ ident[c] = Nobody
      /\ ident' = [ident EXCEPT ![c] = id]
      /\ minted' = minted \cup {id}
      /\ fleet' = [fleet EXCEPT ![id] = Joined(caches)]
      /\ live' = [live EXCEPT ![id] = c]
      /\ UNCHANGED <<conn, rejected, abusive, signals, holder, over, stalled>>
  BY DEF OnHello, jobVars
<1>2. TypeOK'
  BY <1>1, JoinedType DEF IInv, TypeOK
<1>3. LiveIsOpen'
  BY <1>1, SessionsAssumption DEF IInv, TypeOK, LiveIsOpen, Ids
<1>4. RecordIsReachable'
  BY <1>1, SessionsAssumption DEF IInv, TypeOK, RecordIsReachable
<1>5. LeaseHasRecord'
  BY <1>1, JoinedType DEF IInv, TypeOK, LeaseHasRecord
<1>6. RevokedIsOver'
  BY <1>1, JoinedType DEF IInv, TypeOK, RevokedIsOver
<1>7. OverIsFree'
  BY <1>1 DEF IInv, OverIsFree, Leased
<1> QED BY <1>2, <1>3, <1>4, <1>5, <1>6, <1>7 DEF IInv

\* Frames that leave the job as it is, or give one task back.
LEMMA PlainFrames ==
  ASSUME IInv, NEW c \in Conns,
         \/ OtherFrame(c) \/ OnBenchmarkResult(c) \/ OnSignal(c)
         \/ \E t \in Tasks : GiveBack(c, t) \/ OnResultUndecided(c, t)
  PROVE  IInv'
<1> DEFINE id == ident[c]
<1>0. TypeOK
  BY DEF IInv
<1>1. CASE OtherFrame(c)
  <2>1. Handshaked(c) /\ AfterFrame(c, fleet) /\ UNCHANGED <<signals, holder, over>>
    BY <1>1 DEF OtherFrame, jobVars
  <2>2. holder' = Released({}) /\ signals' \in [Conns -> 0 .. (SignalWindow + 1)]
    BY <1>0, <2>1, HolderReleasesNothing DEF TypeOK
  <2> QED BY <1>0, <2>1, <2>2, PlainFrame DEF TypeOK
<1>2. CASE OnBenchmarkResult(c)
  <2> DEFINE f == [fleet EXCEPT ![id].scored = fleet[id].joined]
  <2>1. Handshaked(c) /\ AfterFrame(c, f) /\ UNCHANGED <<signals, holder, over>>
    BY <1>2 DEF OnBenchmarkResult, jobVars
  <2>2. holder' = Released({}) /\ signals' \in [Conns -> 0 .. (SignalWindow + 1)]
    BY <1>0, <2>1, HolderReleasesNothing DEF TypeOK
  <2>3. id \in Ids /\ fleet[id] \in WorkerRecord /\ fleet[id].joined \in BOOLEAN
    BY <1>0, <2>1 DEF TypeOK, Handshaked, WorkerRecord
  <2>4. /\ f \in [Ids -> WorkerRecord]
        /\ \A i \in Ids : f[i].joined = fleet[i].joined /\ f[i].revokes = fleet[i].revokes
    BY ZenonT(60), <1>0, <2>3, FlagsType DEF TypeOK
  <2> QED BY <2>1, <2>2, <2>4, PlainFrame
<1>3. CASE OnSignal(c)
  <2>1. Handshaked(c) /\ AfterFrame(c, fleet) /\ UNCHANGED <<holder, over>>
    BY <1>3 DEF OnSignal, jobVars
  <2>2. holder' = Released({})
    BY <1>0, <2>1, HolderReleasesNothing
  <2>3. signals' \in [Conns -> 0 .. (SignalWindow + 1)]
    BY <1>0, <1>3, SessionsAssumption DEF OnSignal, TypeOK
  <2> QED BY <1>0, <2>1, <2>2, <2>3, PlainFrame DEF TypeOK
<1>4. ASSUME NEW t \in Tasks, GiveBack(c, t) PROVE IInv'
  <2>1. /\ Handshaked(c) /\ AfterFrame(c, fleet) /\ UNCHANGED <<signals, over>>
        /\ holder' = Released({t})
    BY <1>4 DEF GiveBack
  <2> QED BY <1>0, <2>1, PlainFrame DEF TypeOK
<1>5. ASSUME NEW t \in Tasks, OnResultUndecided(c, t) PROVE IInv'
  <2> DEFINE f == Proven(id)
  <2>1. /\ Handshaked(c) /\ AfterFrame(c, f) /\ UNCHANGED <<signals, over>>
        /\ holder' = Released({t})
    BY <1>5 DEF OnResultUndecided
  <2>2. id \in Ids /\ fleet[id] \in WorkerRecord /\ fleet[id].joined \in BOOLEAN
    BY <1>0, <2>1 DEF TypeOK, Handshaked, WorkerRecord
  <2>3. /\ f \in [Ids -> WorkerRecord]
        /\ \A i \in Ids : f[i].joined = fleet[i].joined /\ f[i].revokes = fleet[i].revokes
    BY ZenonT(60), <1>0, <2>2, FlagsType DEF TypeOK, Proven
  <2> QED BY <1>0, <2>1, <2>3, PlainFrame DEF TypeOK
<1> QED BY <1>1, <1>2, <1>3, <1>4, <1>5

\* A grant takes tasks that are nobody's and not over, for a joined worker.
LEMMA LeaseRequestKeeps ==
  ASSUME IInv, NEW c \in Conns, NEW caches \in BOOLEAN, NEW S \in SUBSET Tasks,
         OnLeaseRequest(c, caches, S)
  PROVE  IInv'
<1> DEFINE id == ident[c]
           f == [fleet EXCEPT ![id].caching = fleet[id].joined /\ caches]
<1>1. /\ Handshaked(c) /\ AfterFrame(c, f) /\ UNCHANGED <<signals, over>>
      /\ S \subseteq Free
      /\ S # {} => fleet[id].joined
      /\ holder' = [t \in Tasks |-> IF t \in S THEN id ELSE holder[t]]
  BY DEF OnLeaseRequest, MayHaveWork
<1>2. id \in Ids /\ fleet[id] \in WorkerRecord /\ fleet[id].joined \in BOOLEAN
  BY <1>1 DEF IInv, TypeOK, Handshaked, WorkerRecord
<1>3. /\ f \in [Ids -> WorkerRecord]
      /\ \A i \in Ids : f[i].joined = fleet[i].joined /\ f[i].revokes = fleet[i].revokes
  <2>1. (fleet[id].joined /\ caches) \in BOOLEAN
    BY <1>2
  <2> QED BY ZenonT(60), <1>2, <2>1, FlagsType DEF IInv, TypeOK
<1>4. /\ fleet' \in [Ids -> WorkerRecord]
      /\ \A i \in Ids : /\ fleet'[i].joined = f[i].joined
                        /\ fleet'[i].revokes \subseteq f[i].revokes
      /\ live' \in [Ids -> Conns \cup {Nobody}]
      /\ LiveIsOpen'
      /\ RecordIsReachable'
      /\ UNCHANGED <<conn, ident, minted, rejected, abusive, stalled>>
  BY <1>1, <1>3, AfterFrameKeeps
<1>5. \A i \in Ids : fleet'[i].joined = fleet[i].joined
                     /\ fleet'[i].revokes \subseteq fleet[i].revokes
  BY <1>3, <1>4
<1>6. TypeOK'
  BY <1>1, <1>2, <1>4 DEF IInv, TypeOK
<1>7. LeaseHasRecord'
  BY <1>1, <1>2, <1>5 DEF IInv, TypeOK, LeaseHasRecord
<1>8. RevokedIsOver'
  BY <1>1, <1>5 DEF IInv, TypeOK, WorkerRecord, RevokedIsOver, Free, Leased
<1>9. OverIsFree'
  BY <1>1 DEF IInv, OverIsFree, Leased, Free
<1> QED BY <1>4, <1>6, <1>7, <1>8, <1>9 DEF IInv

\* An accepted result: the task and its leased rivals are over and nobody's,
\* and the records of the holders say so.
LEMMA AcceptedKeeps ==
  ASSUME IInv, NEW c \in Conns, NEW t \in Tasks, OnResultAccepted(c, t)
  PROVE  IInv'
<1> DEFINE id == ident[c]
           p == Proven(id)
           told(i) == HeldBy(i) \cap Rivals(t)
           f == [i \in Ids |-> IF ~fleet[i].joined THEN fleet[i]
                              ELSE [p[i] EXCEPT !.revokes = @ \cup told(i)]]
           R == {t} \cup Rivals(t)
<1>1. /\ Handshaked(c) /\ AfterFrame(c, f) /\ UNCHANGED signals
      /\ over' = over \cup R
      /\ holder' = Released(R)
  BY DEF OnResultAccepted, Finished
<1>2. id \in Ids /\ fleet[id] \in WorkerRecord /\ fleet[id].joined \in BOOLEAN
  BY <1>1 DEF IInv, TypeOK, Handshaked, WorkerRecord
<1>3. /\ p \in [Ids -> WorkerRecord]
      /\ \A i \in Ids : p[i].joined = fleet[i].joined /\ p[i].revokes = fleet[i].revokes
  BY ZenonT(60), <1>2, FlagsType DEF IInv, TypeOK, Proven
<1>4. R \subseteq Tasks /\ \A i \in Ids : told(i) \in SUBSET Tasks /\ told(i) \subseteq R
  BY DEF Rivals, HeldBy, Leased
<1>5. \A i \in Ids : /\ f[i] \in WorkerRecord
                     /\ f[i].joined = fleet[i].joined
                     /\ f[i].revokes \subseteq fleet[i].revokes \cup R
  <2> SUFFICES ASSUME NEW i \in Ids
               PROVE  /\ f[i] \in WorkerRecord
                      /\ f[i].joined = fleet[i].joined
                      /\ f[i].revokes \subseteq fleet[i].revokes \cup R
    OBVIOUS
  <2>1. CASE ~fleet[i].joined
    BY <2>1 DEF IInv, TypeOK
  <2>2. CASE fleet[i].joined
    <3>1. f[i] = [p[i] EXCEPT !.revokes = @ \cup told(i)]
      BY <2>2
    <3> HIDE DEF f, p, told, R
    <3> QED BY <1>3, <1>4, <3>1, RevokesType
  <2> QED BY <2>1, <2>2
<1>6. f \in [Ids -> WorkerRecord]
  BY <1>5
<1> HIDE DEF f, p, told, R
<1>7. /\ fleet' \in [Ids -> WorkerRecord]
      /\ \A i \in Ids : /\ fleet'[i].joined = f[i].joined
                        /\ fleet'[i].revokes \subseteq f[i].revokes
      /\ live' \in [Ids -> Conns \cup {Nobody}]
      /\ LiveIsOpen'
      /\ RecordIsReachable'
      /\ UNCHANGED <<conn, ident, minted, rejected, abusive, stalled>>
  BY <1>1, <1>5, <1>6, AfterFrameKeeps
<1>8. \A i \in Ids : /\ fleet'[i].joined = fleet[i].joined
                     /\ fleet'[i].revokes \subseteq fleet[i].revokes \cup R
  BY <1>5, <1>7
<1>9. /\ holder' \in [Tasks -> Ids \cup {Nobody}]
      /\ \A u \in Tasks : holder'[u] = IF u \in R THEN Nobody ELSE holder[u]
  BY <1>1, ReleasedType DEF IInv, TypeOK
<1>10. TypeOK'
  BY <1>1, <1>4, <1>7, <1>9 DEF IInv, TypeOK
<1>11. LeaseHasRecord'
  BY <1>8, <1>9 DEF IInv, TypeOK, LeaseHasRecord
<1>12. RevokedIsOver'
  BY <1>1, <1>4, <1>8, <1>9 DEF IInv, TypeOK, WorkerRecord, RevokedIsOver
<1>13. OverIsFree'
  BY <1>1, <1>4, <1>9 DEF IInv, OverIsFree, Leased
<1> QED BY <1>7, <1>10, <1>11, <1>12, <1>13 DEF IInv

\* A worker that says goodbye gives its leases back and leaves.
LEMMA GoodbyeKeeps ==
  ASSUME IInv, NEW c \in Conns, OnGoodbye(c) PROVE IInv'
<1> DEFINE id == ident[c]
           f == [fleet EXCEPT ![id] = Gone]
<1>1. /\ Handshaked(c) /\ AfterFrame(c, f) /\ UNCHANGED <<signals, over>>
      /\ holder' = Released(HeldBy(id))
  BY DEF OnGoodbye
<1>2. id \in Ids
  BY <1>1 DEF IInv, TypeOK, Handshaked
<1>3. f \in [Ids -> WorkerRecord] /\ \A i \in Ids : f[i].joined => fleet[i].joined
  BY <1>2, GoneType DEF IInv, TypeOK
<1>4. \A i \in Ids : /\ i # id => f[i] = fleet[i]
                     /\ i = id => f[i].revokes = {}
  BY <1>2, GoneType DEF IInv, TypeOK
<1>5. /\ fleet' \in [Ids -> WorkerRecord]
      /\ \A i \in Ids : /\ fleet'[i].joined = f[i].joined
                        /\ fleet'[i].revokes \subseteq f[i].revokes
      /\ live' \in [Ids -> Conns \cup {Nobody}]
      /\ LiveIsOpen'
      /\ RecordIsReachable'
      /\ UNCHANGED <<conn, ident, minted, rejected, abusive, stalled>>
  BY <1>1, <1>3, AfterFrameKeeps
<1>6. /\ holder' \in [Tasks -> Ids \cup {Nobody}]
      /\ \A u \in Tasks : holder'[u] = IF holder[u] = id THEN Nobody ELSE holder[u]
  BY <1>1, ReleasedType DEF IInv, TypeOK, HeldBy
<1> HIDE DEF f
<1>7. TypeOK'
  BY <1>1, <1>5, <1>6 DEF IInv, TypeOK
<1>8. LeaseHasRecord'
  BY <1>2, <1>4, <1>5, <1>6 DEF IInv, TypeOK, LeaseHasRecord
<1>9. RevokedIsOver'
  BY <1>1, <1>4, <1>5, <1>6 DEF IInv, TypeOK, WorkerRecord, RevokedIsOver
<1>10. OverIsFree'
  BY <1>1, <1>6 DEF IInv, OverIsFree, Leased
<1> QED BY <1>5, <1>7, <1>8, <1>9, <1>10 DEF IInv

\* A frame that no session sees, and a new connection.
LEMMA QuietKeeps ==
  ASSUME IInv, NEW c \in Conns, Open(c) \/ TextFrame(c) \/ BadFrame(c) PROVE IInv'
<1>1. CASE Open(c)
  <2>1. /\ conn[c] = "unused"
        /\ conn' = [conn EXCEPT ![c] = "open"]
        /\ UNCHANGED <<ident, rejected, abusive, signals, minted,
                       fleet, live, holder, over, stalled>>
    BY <1>1 DEF Open, jobVars
  <2> QED BY <2>1 DEF IInv, TypeOK, LiveIsOpen, RecordIsReachable, LeaseHasRecord,
                      RevokedIsOver, OverIsFree, Leased
<1>2. OneMore(c) \in 0 .. DisconnectAt
  BY SessionsAssumption DEF OneMore, IInv, TypeOK
<1>3. CASE TextFrame(c)
  <2>1. /\ rejected' = [rejected EXCEPT ![c] = OneMore(c)]
        /\ UNCHANGED <<conn, ident, minted, abusive, signals, fleet, live,
                       holder, over, stalled>>
    BY <1>3 DEF TextFrame, linkVars, jobVars
  <2> QED BY <1>2, <2>1 DEF IInv, TypeOK, LiveIsOpen, RecordIsReachable, LeaseHasRecord,
                            RevokedIsOver, OverIsFree, Leased
<1>4. CASE BadFrame(c)
  <2>1. /\ conn[c] = "open"
        /\ rejected' = [rejected EXCEPT ![c] = OneMore(c)]
        /\ abusive' \subseteq abusive \cup {c}
        /\ live' = IF ident[c] = Nobody THEN live ELSE [live EXCEPT ![ident[c]] = c]
        /\ UNCHANGED <<conn, ident, minted, signals, fleet, holder, over, stalled>>
    BY <1>4 DEF BadFrame, linkVars, jobVars
  <2>2. TypeOK'
    BY <1>2, <2>1 DEF IInv, TypeOK
  <2>3. LiveIsOpen' /\ RecordIsReachable'
    BY <2>1, SessionsAssumption DEF IInv, TypeOK, LiveIsOpen, RecordIsReachable
  <2> QED BY <2>1, <2>2, <2>3 DEF IInv, LeaseHasRecord, RevokedIsOver, OverIsFree, Leased
<1> QED BY <1>1, <1>3, <1>4

\* What a sweep makes of one record.
LEMMA SweptType ==
  ASSUME TypeOK, NEW id \in Ids
  PROVE  /\ Swept(id) \in WorkerRecord
         /\ Swept(id).joined => fleet[id].joined /\ id \notin LostIds
         /\ id \notin LostIds => Swept(id).joined = fleet[id].joined
         /\ Swept(id).revokes \subseteq fleet[id].revokes
<1> DEFINE r == fleet[id]
           q == IF r.joined /\ r.quiet < Timeout THEN r.quiet + 1 ELSE r.quiet
           v == IF id \in Pushed THEN {} ELSE r.revokes
<1>1. r \in WorkerRecord
  BY DEF TypeOK
<1>2. q \in 0 .. Timeout
  BY <1>1, SessionsAssumption DEF WorkerRecord
<1>3. v \in SUBSET Tasks /\ v \subseteq r.revokes
  BY <1>1 DEF WorkerRecord
<1>4. CASE id \in LostIds
  BY <1>4, GoneType DEF Swept
<1>5. CASE id \notin LostIds
  <2>1. Swept(id) = [r EXCEPT !.quiet = q, !.revokes = v]
    BY <1>5 DEF Swept
  <2> HIDE DEF q, v, r
  <2>2. /\ Swept(id) \in WorkerRecord /\ Swept(id).joined = r.joined
        /\ Swept(id).revokes = v
    BY <1>1, <1>2, <1>3, <2>1 DEF WorkerRecord
  <2>3. Swept(id).joined = fleet[id].joined /\ Swept(id).revokes \subseteq fleet[id].revokes
    BY <1>3, <2>2 DEF r
  <2> QED BY <1>5, <2>2, <2>3
<1> QED BY <1>4, <1>5

\* The sweep of the silent.
LEMMA SweepKeeps == ASSUME IInv, Sweep PROVE IInv'
<1>0. TypeOK
  BY DEF IInv
<1>1. PICK expired \in SUBSET Leased :
        /\ holder' = Released(expired \cup UNION {HeldBy(id) : id \in LostIds})
        /\ fleet' = [id \in Ids |-> Swept(id)]
        /\ live' = [id \in Ids |-> IF id \in LostIds THEN Nobody ELSE live[id]]
        /\ stalled' = IF ~Stuck(holder') THEN 0
                      ELSE IF stalled = StallSweeps THEN stalled ELSE stalled + 1
        /\ signals' = WindowsReset
        /\ UNCHANGED <<conn, ident, minted, rejected, abusive, over>>
  BY DEF Sweep, linkVars
<1>2. \A id \in Ids :
        /\ fleet'[id] \in WorkerRecord
        /\ fleet'[id].joined => fleet[id].joined /\ id \notin LostIds
        /\ id \notin LostIds => fleet'[id].joined = fleet[id].joined
        /\ fleet'[id].revokes \subseteq fleet[id].revokes
  BY <1>0, <1>1, SweptType
<1>3. /\ holder' \in [Tasks -> Ids \cup {Nobody}]
      /\ \A t \in Tasks : /\ holder'[t] \in {Nobody, holder[t]}
                          /\ holder[t] \in LostIds => holder'[t] = Nobody
  <2> DEFINE X == expired \cup UNION {HeldBy(id) : id \in LostIds}
  <2>1. \A t \in Tasks : holder[t] \in LostIds => t \in X
    BY DEF HeldBy
  <2> HIDE DEF X
  <2>2. holder' = Released(X)
    BY <1>1 DEF X
  <2> QED BY <1>0, <2>1, <2>2, ReleasedType DEF TypeOK
<1>10. over' = over
  BY <1>1
<1>4. TypeOK'
  <2>1. fleet' \in [Ids -> WorkerRecord]
    BY <1>1, <1>2
  <2>2. signals' \in [Conns -> 0 .. (SignalWindow + 1)]
    BY <1>0, <1>1, SessionsAssumption DEF WindowsReset, TypeOK
  <2>3. stalled' \in 0 .. StallSweeps
    BY <1>0, <1>1, SessionsAssumption DEF TypeOK
  <2>4. live' \in [Ids -> Conns \cup {Nobody}]
    BY <1>0, <1>1 DEF TypeOK
  <2> QED BY <1>0, <1>1, <1>3, <2>1, <2>2, <2>3, <2>4 DEF TypeOK
<1>5. LiveIsOpen'
  BY <1>1 DEF IInv, LiveIsOpen
<1>6. RecordIsReachable'
  BY <1>1, <1>2 DEF IInv, RecordIsReachable
<1>7. LeaseHasRecord'
  BY <1>0, <1>2, <1>3 DEF IInv, TypeOK, LeaseHasRecord
<1>8. RevokedIsOver'
  BY <1>0, <1>1, <1>2, <1>3 DEF IInv, TypeOK, WorkerRecord, RevokedIsOver
<1>9. OverIsFree'
  BY <1>3, <1>10 DEF IInv, OverIsFree, Leased
<1> QED BY <1>4, <1>5, <1>6, <1>7, <1>8, <1>9 DEF IInv

-----------------------------------------------------------------------------
\* Every step.
LEMMA NextIInv == ASSUME IInv, [Next]_vars PROVE IInv'
<1>1. CASE UNCHANGED vars
  BY <1>1 DEF vars, IInv, TypeOK, LiveIsOpen, RecordIsReachable, LeaseHasRecord,
              RevokedIsOver, OverIsFree, Leased
<1>2. ASSUME NEW c \in Conns, Close(c) \/ RefuseHandshake(c) \/ Evict(c) PROVE IInv'
  BY <1>2, EndKeeps DEF Close, RefuseHandshake, Evict
<1>3. ASSUME NEW c \in Conns, Frame(c) PROVE IInv'
  BY <1>3, HelloKeeps, PlainFrames, LeaseRequestKeeps, AcceptedKeeps, GoodbyeKeeps DEF Frame
<1> QED BY <1>1, <1>2, <1>3, QuietKeeps, SweepKeeps DEF Next

\* Server, Session and Fleet: every variable stays in its domain.
THEOREM TypeCorrect == Spec => []TypeOK
<1>1. IInv => TypeOK
  BY DEF IInv
<1> QED BY <1>1, InitIInv, NextIInv, PTL DEF Spec

\* With any number of connections and resumptions: no handler and no end of a
\* connection (Server::Unregister, net.cpp:652-673, 700-750) leaves live_ with
\* a session that is gone, a record nobody speaks for, a lease without the
\* record of its holder, or a peer the relay cannot reach.
THEOREM NothingDangles == Spec => []KeptIsReachable
<1>1. IInv => LiveIsOpen /\ RecordIsReachable /\ LeaseHasRecord
  BY DEF IInv
<1>2. IInv => PeersAreReachable
  BY DEF IInv, RecordIsReachable, PeersAreReachable, PeersHolding, Holding
<1>3. IInv => KeptIsReachable
  BY <1>1, <1>2 DEF KeptIsReachable
<1> QED BY <1>3, InitIInv, NextIInv, PTL DEF Spec

\* Only what is over and nobody's is ever revoked, and a task that was accepted,
\* or cancelled by CancelSiblingsOf because it was leased when its race was won,
\* is never leased again.  Siblings in the queue are not cancelled, and nothing
\* is claimed of them.
THEOREM RacesHaveOneEnd == Spec => []RacesEnd
<1>1. IInv => RacesEnd
  BY DEF IInv, RacesEnd
<1> QED BY <1>1, InitIInv, NextIInv, PTL DEF Spec

-----------------------------------------------------------------------------
(* The action property.                                                    *)

\* A frame of a worker is heard, so it is not silent.
LEMMA QuietInFrame ==
  ASSUME IInv, NEW c \in Conns, Handshaked(c), NEW f \in [Ids -> WorkerRecord],
         \A id \in Ids : f[id].quiet \in {0, fleet[id].quiet},
         AfterFrame(c, f)
  PROVE  \A id \in Ids : fleet'[id].quiet \in {0, fleet[id].quiet}
<1>1. \A r \in WorkerRecord : Served(r).quiet = 0
  BY DEF Served, WorkerRecord
<1> QED BY <1>1 DEF AfterFrame, IInv, TypeOK, Handshaked

\* Frames and connections set the clock of a record back, and only a sweep
\* moves it on.
LEMMA OnlySweepAges ==
  ASSUME IInv, NEW c \in Conns,
         \/ Open(c) \/ Close(c) \/ RefuseHandshake(c) \/ Frame(c)
         \/ TextFrame(c) \/ BadFrame(c) \/ Evict(c)
  PROVE  \A id \in Ids : fleet'[id].quiet \in {0, fleet[id].quiet}
<1> DEFINE Kept == \A id \in Ids : fleet'[id].quiet \in {0, fleet[id].quiet}
<1>0. TypeOK
  BY DEF IInv
<1>1. ASSUME Open(c) \/ TextFrame(c) \/ BadFrame(c) PROVE Kept
  BY <1>1 DEF Open, TextFrame, BadFrame
<1>2. ASSUME EndConnection(c) PROVE Kept
  <2>1. Gone.quiet = 0
    BY DEF Gone
  <2> QED BY <1>2, <2>1 DEF EndConnection
<1>3. ASSUME NEW id \in Ids, NEW caches \in BOOLEAN, OnHello(c, id, caches) PROVE Kept
  <2>1. Joined(caches).quiet = 0
    BY DEF Joined, Gone
  <2> QED BY <1>0, <1>3, <2>1 DEF OnHello, TypeOK
<1>4. \A r \in WorkerRecord : \A b \in BOOLEAN :
        /\ [r EXCEPT !.scored = b].quiet = r.quiet
        /\ [r EXCEPT !.caching = b].quiet = r.quiet
  BY DEF WorkerRecord
<1>5. ASSUME Handshaked(c)
      PROVE  /\ ident[c] \in Ids /\ fleet[ident[c]] \in WorkerRecord
             /\ fleet[ident[c]].joined \in BOOLEAN
  BY <1>0, <1>5 DEF TypeOK, Handshaked, WorkerRecord
<1>6. ASSUME Handshaked(c), AfterFrame(c, fleet) PROVE Kept
  BY <1>0, <1>6, QuietInFrame DEF TypeOK
<1>7. ASSUME OnBenchmarkResult(c) PROVE Kept
  <2> DEFINE f == [fleet EXCEPT ![ident[c]].scored = fleet[ident[c]].joined]
  <2>1. Handshaked(c) /\ AfterFrame(c, f)
    BY <1>7 DEF OnBenchmarkResult
  <2>2. f \in [Ids -> WorkerRecord] /\ \A id \in Ids : f[id].quiet = fleet[id].quiet
    BY <1>0, <1>4, <1>5, <2>1, FlagsType DEF TypeOK
  <2> QED BY <2>1, <2>2, QuietInFrame
<1>8. ASSUME NEW caches \in BOOLEAN, NEW S \in SUBSET Tasks, OnLeaseRequest(c, caches, S)
      PROVE  Kept
  <2> DEFINE f == [fleet EXCEPT ![ident[c]].caching = fleet[ident[c]].joined /\ caches]
  <2>1. Handshaked(c) /\ AfterFrame(c, f)
    BY <1>8 DEF OnLeaseRequest
  <2>2. (fleet[ident[c]].joined /\ caches) \in BOOLEAN
    OBVIOUS
  <2>3. f \in [Ids -> WorkerRecord] /\ \A id \in Ids : f[id].quiet = fleet[id].quiet
    BY ZenonT(60), <1>0, <1>4, <1>5, <2>1, <2>2, FlagsType DEF TypeOK
  <2> QED BY <2>1, <2>3, QuietInFrame
<1>9. ASSUME Handshaked(c)
      PROVE  /\ Proven(ident[c]) \in [Ids -> WorkerRecord]
             /\ \A id \in Ids : Proven(ident[c])[id].quiet = fleet[id].quiet
  BY <1>0, <1>4, <1>5, <1>9, FlagsType DEF TypeOK, Proven
<1>10. ASSUME NEW t \in Tasks, OnResultUndecided(c, t) PROVE Kept
  BY <1>9, <1>10, QuietInFrame DEF OnResultUndecided
<1>11. ASSUME NEW t \in Tasks, OnResultAccepted(c, t) PROVE Kept
  <2> DEFINE p == Proven(ident[c])
             told(id) == HeldBy(id) \cap Rivals(t)
             f == [id \in Ids |-> IF ~fleet[id].joined THEN fleet[id]
                                 ELSE [p[id] EXCEPT !.revokes = @ \cup told(id)]]
  <2>1. Handshaked(c) /\ AfterFrame(c, f)
    BY <1>11 DEF OnResultAccepted
  <2>2. \A id \in Ids : told(id) \in SUBSET Tasks
    BY DEF HeldBy
  <2>3. p \in [Ids -> WorkerRecord] /\ \A id \in Ids : p[id].quiet = fleet[id].quiet
    BY <1>9, <2>1
  <2>4. \A id \in Ids : f[id] \in WorkerRecord /\ f[id].quiet = fleet[id].quiet
    <3> SUFFICES ASSUME NEW id \in Ids
                 PROVE  f[id] \in WorkerRecord /\ f[id].quiet = fleet[id].quiet
      OBVIOUS
    <3>1. CASE ~fleet[id].joined
      BY <1>0, <3>1 DEF TypeOK
    <3>2. CASE fleet[id].joined
      <4>1. f[id] = [p[id] EXCEPT !.revokes = @ \cup told(id)]
        BY <3>2
      <4>2. p[id] \in WorkerRecord /\ p[id].quiet = fleet[id].quiet /\ told(id) \in SUBSET Tasks
        BY <2>2, <2>3
      <4> HIDE DEF f, p, told
      <4>3. f[id].quiet = p[id].quiet
        BY <4>1, <4>2 DEF WorkerRecord
      <4>4. f[id] \in WorkerRecord
        BY <4>1, <4>2, RevokesType
      <4> QED BY <4>2, <4>3, <4>4
    <3> QED BY <3>1, <3>2
  <2>5. f \in [Ids -> WorkerRecord]
    BY <2>4
  <2> HIDE DEF f
  <2> QED BY <2>1, <2>4, <2>5, QuietInFrame
<1>12. ASSUME OnGoodbye(c) PROVE Kept
  <2> DEFINE f == [fleet EXCEPT ![ident[c]] = Gone]
  <2>1. Handshaked(c) /\ AfterFrame(c, f)
    BY <1>12 DEF OnGoodbye
  <2>2. Gone.quiet = 0
    BY DEF Gone
  <2>3. f \in [Ids -> WorkerRecord] /\ \A id \in Ids : f[id].quiet \in {0, fleet[id].quiet}
    BY <1>0, <1>5, <2>1, <2>2, GoneType DEF TypeOK
  <2> QED BY <2>1, <2>3, QuietInFrame
<1> QED BY <1>1, <1>2, <1>3, <1>6, <1>7, <1>8, <1>10, <1>11, <1>12
        DEF Frame, Close, RefuseHandshake, Evict, OtherFrame, OnSignal, GiveBack

\* A sweep that finds a worker silent leaves no revoke in its record: the
\* worker has a registered connection, and that is where they were sent.
THEOREM RevokesArePushed == Spec => RevokesPushed
<1> DEFINE Push == \A id \in Ids : fleet'[id].quiet > fleet[id].quiet
                                   => fleet'[id].revokes = {}
<1>1. ASSUME IInv, Next PROVE Push
  <2>1. TypeOK /\ \A id \in Ids : fleet[id].quiet \in Nat
    BY <1>1, SessionsAssumption DEF IInv, TypeOK, WorkerRecord
  <2>2. ASSUME NEW c \in Conns,
               \/ Open(c) \/ Close(c) \/ RefuseHandshake(c) \/ Frame(c)
               \/ TextFrame(c) \/ BadFrame(c) \/ Evict(c)
        PROVE  Push
    <3>1. \A id \in Ids : fleet'[id].quiet \in {0, fleet[id].quiet}
      BY <1>1, <2>2, OnlySweepAges
    <3> QED BY <2>1, <3>1
  <2>3. ASSUME Sweep PROVE Push
    <3> SUFFICES ASSUME NEW id \in Ids, fleet'[id].quiet > fleet[id].quiet
                 PROVE  fleet'[id].revokes = {}
      OBVIOUS
    <3>1. fleet'[id] = Swept(id) /\ fleet[id] \in WorkerRecord
      BY <2>1, <2>3 DEF Sweep, TypeOK
    <3>2. CASE id \in LostIds
      BY <3>1, <3>2, GoneType DEF Swept
    <3>3. CASE id \notin LostIds
      <4>1. fleet[id].joined
        BY <2>1, <3>1, <3>3 DEF Swept, WorkerRecord
      <4>2. id \in Pushed
        BY <1>1, <3>3, <4>1 DEF IInv, RecordIsReachable, Pushed
      <4> QED BY <3>1, <3>3, <4>2 DEF Swept, WorkerRecord
    <3> QED BY <3>2, <3>3
  <2> QED BY <1>1, <2>2, <2>3 DEF Next
<1>2. ASSUME IInv, [Next]_vars PROVE [Push]_vars
  BY <1>1, <1>2
<1>3. RevokesPushed <=> [][Push]_vars
  BY DEF RevokesPushed
<1> QED BY <1>2, <1>3, InitIInv, NextIInv, PTL DEF Spec
=============================================================================
