---------------------------- MODULE MCComponents ----------------------------
(***************************************************************************)
(* The components that touch nothing of one another's state, side by side: *)
(* which of them is looked at is chosen in the initial state, and the      *)
(* others stay where they begin.                                           *)
(***************************************************************************)
EXTENDS KernelHost, PeerSignalling, TileRender, MockWorker, Standing, Bvh,
        Wire, Sizing, MCValidator

VARIABLE part

mcVars == <<part, hostVars, signalVars, renderVars, mockVars, standingVars, bvhVars,
            wireVars, sizingVars, validatorVars>>

Parts == {"host", "signal", "render", "mock", "standing", "bvh", "wire", "sizing",
          "validator"}

\* Renders: clipped in both directions, and with samples to share out.
MCRenders == {<<3, 3, 1>>, <<3, 1, 2>>}

\* Nodes of foreign blobs: leaves inside and outside the primitives, children
\* that exist, that do not, and at the end of the word.
MCBlobNodes ==
  {[leaf |-> TRUE, at |-> a, count |-> 1] : a \in {0, 1}}
    \cup {[leaf |-> FALSE, at |-> a, count |-> 0] : a \in {0, 1, 2, 3, Word - 1}}

\* Palettes of foreign blobs: a good one, none, too many materials, a material
\* that is not there, and a kind that is not.
MCBlobPalettes ==
  {[count |-> c, named |-> 0, known |-> TRUE] : c \in {0, 1, 2}}
    \cup {[count |-> 1, named |-> 1, known |-> TRUE], [count |-> 1, named |-> 0, known |-> FALSE]}

Any(S) == {CHOOSE x \in S : TRUE}

MCInit ==
  /\ part \in Parts
  /\ HostInit /\ MockInit /\ StandingInit /\ ValidatorInit
  /\ \E h \in IF part = "signal" THEN Residents ELSE Any(Residents) :
       WorkersWith(h)
  /\ \E r \in IF part = "render" THEN Renders ELSE Any(Renders) :
       RenderOf(r)
  /\ IF part = "bvh" THEN BvhInit ELSE \E colours \in Any(ScenePalettes) : SceneOf(1, colours)
  /\ \E n \in IF part = "wire" THEN AssetSizes ELSE Any(AssetSizes) : WireBegins(n)
  /\ \E k \in IF part = "sizing" THEN Slowness ELSE Any(Slowness) : WorkerWith(k)

MCNext ==
  \/ /\ part = "host" /\ HostNext
     /\ UNCHANGED <<part, signalVars, renderVars, mockVars, standingVars,
                    bvhVars, wireVars, sizingVars, validatorVars>>
  \/ /\ part = "signal" /\ SignalNext
     /\ UNCHANGED <<part, hostVars, renderVars, mockVars, standingVars,
                    bvhVars, wireVars, sizingVars, validatorVars>>
  \/ /\ part = "render" /\ RenderNext
     /\ UNCHANGED <<part, hostVars, signalVars, mockVars, standingVars,
                    bvhVars, wireVars, sizingVars, validatorVars>>
  \/ /\ part = "mock" /\ MockNext
     /\ UNCHANGED <<part, hostVars, signalVars, renderVars, standingVars,
                    bvhVars, wireVars, sizingVars, validatorVars>>
  \/ /\ part = "standing" /\ StandingNext
     /\ UNCHANGED <<part, hostVars, signalVars, renderVars, mockVars,
                    bvhVars, wireVars, sizingVars, validatorVars>>
  \/ /\ part = "bvh" /\ BvhNext
     /\ UNCHANGED <<part, hostVars, signalVars, renderVars, mockVars,
                    standingVars, wireVars, sizingVars, validatorVars>>
  \/ /\ part = "wire" /\ WireNext
     /\ UNCHANGED <<part, hostVars, signalVars, renderVars, mockVars,
                    standingVars, bvhVars, sizingVars, validatorVars>>
  \/ /\ part = "sizing" /\ SizingNext
     /\ UNCHANGED <<part, hostVars, signalVars, renderVars, mockVars,
                    standingVars, bvhVars, wireVars, validatorVars>>
  \/ /\ part = "validator" /\ ValidatorNext
     /\ UNCHANGED <<part, hostVars, signalVars, renderVars, mockVars,
                    standingVars, bvhVars, wireVars, sizingVars>>

\* The fairness of PeerSignalling and Standing, each for its part:
\* a part that is not looked at promises nothing.
MCSpec ==
  /\ MCInit /\ [][MCNext]_mcVars
  /\ \A w \in Peers :
       /\ WF_signalVars(part = "signal" /\ FetchStep(w))
       /\ WF_signalVars(part = "signal" /\ Reap(w))
       /\ \A p \in Peers : WF_signalVars(part = "signal" /\ ServingCloses(w, p))
  /\ WF_standingVars(part = "standing" /\ Elapses)
  /\ \A w \in Judged : /\ WF_standingVars(part = "standing" /\ AsksForLease(w))
                       /\ WF_standingVars(part = "standing" /\ GoesUnjudged(w))
=============================================================================
