----------------------------- MODULE TileRender -----------------------------
(***************************************************************************)
(* A render job: the image is cut into tiles (TileGrid), a tile's samples  *)
(* are carved into tasks from the least-granted tile on (the render branch *)
(* of JobManager::GrantTo), the holder of a task uploads snapshots of it   *)
(* (RecordPartial) and at last the whole, and the compositor puts that     *)
(* into the image (Compositor).                                            *)
(*                                                                         *)
(* A unit is one sample of one tile: tile * Samples + sample.  The life of *)
(* a task is cut down to queued, leased and done; JobManager has the rest. *)
(***************************************************************************)
EXTENDS Integers, Sequences, FiniteSets

CONSTANTS
  Renders,      \* renders looked at: image_w, image_h, samples_per_tile
  TileSide,     \* tile_w and tile_h
  Sizes,        \* what the sizer may ask for
  Renderers,    \* workers
  Nobody,       \* no worker
  MaxSequence   \* bound: sequence numbers of snapshots

ASSUME RenderAssumption ==
  /\ Renders \subseteq (Nat \ {0}) \X (Nat \ {0}) \X (Nat \ {0})
  /\ TileSide \in Nat \ {0}
  /\ Sizes \subseteq Nat \ {0} /\ Sizes # {}
  /\ MaxSequence \in Nat /\ Nobody \notin Renderers

VARIABLES
  grid,     \* the job's RenderConfig, a member of Renders
  granted,  \* tile_granted
  cursor,   \* next_unit: the sum of what was granted
  slices,   \* the job's tasks in the order they were carved
  image     \* tiles_: the units in each tile's accumulator

renderVars == <<grid, granted, cursor, slices, image>>

Slice == [start : Nat, count : Nat, state : {"queued", "leased", "done"},
          holder : Renderers \cup {Nobody}, sequence : 0 .. MaxSequence]

-----------------------------------------------------------------------------
(* Geometry.                                                               *)

RoundedUp(side) == (side + TileSide - 1) \div TileSide
Samples == grid[3]     \* also units_per_group
TileCount == RoundedUp(grid[1]) * RoundedUp(grid[2])
Tiles == 0 .. (TileCount - 1)

Lesser(a, b) == IF a < b THEN a ELSE b

\* The last column and row are clipped to the image.
TileAt(i) ==
  LET x == (i % RoundedUp(grid[1])) * TileSide
      y == (i \div RoundedUp(grid[1])) * TileSide
  IN  [x |-> x, y |-> y, w |-> Lesser(TileSide, grid[1] - x), h |-> Lesser(TileSide, grid[2] - y)]

\* Mutant of OutputSize: the manifest's size, which is a full tile's.
OutputSizeOfManifest(i) == TileSide * TileSide

\* What a worker is told to allocate and so what it sends, in pixels.
OutputSize(i) == TileAt(i).w * TileAt(i).h

TileOf(unit) == unit \div Samples
UnitsOf(s) == s.start .. (s.start + s.count - 1)

-----------------------------------------------------------------------------
(* Carving.                                                                *)

\* Of the tiles with samples to give the least granted, the first of equals.
LeastGranted ==
  LET open == {i \in Tiles : granted[i] < Samples}
  IN  {i \in open : \A j \in open : granted[i] < granted[j] \/ (granted[i] = granted[j] /\ i <= j)}

\* Mutant of SliceCount: the tile's end is not looked at.
SliceCountPastTile(start, units) == Lesser(units, TileCount * Samples - cursor)

\* Never past the end of the job, and never past the end of the tile.
SliceCount(start, units) ==
  Lesser(Lesser(units, TileCount * Samples - cursor), Samples - (start % Samples))

\* GrantTo with nothing queued.
Carve(w, units) ==
  /\ \A i \in DOMAIN slices : slices[i].state # "queued"
  /\ cursor < TileCount * Samples
  /\ \E t \in LeastGranted :
       LET start == t * Samples + granted[t]
           n == SliceCount(start, units)
       IN  /\ granted' = [granted EXCEPT ![t] = @ + n]
           /\ cursor' = cursor + n
           /\ slices' = Append(slices, [start |-> start, count |-> n, state |-> "leased",
                                        holder |-> w, sequence |-> 0])
  /\ UNCHANGED <<grid, image>>

\* GrantTo from the queue.  The slot of snapshots stays with the task.
Regrant(w, i) ==
  /\ slices[i].state = "queued"
  /\ slices' = [slices EXCEPT ![i].state = "leased", ![i].holder = w]
  /\ UNCHANGED <<grid, granted, cursor, image>>

\* A release, a lost worker or the sweep.
GivenBack(i) ==
  /\ slices[i].state = "leased"
  /\ slices' = [slices EXCEPT ![i].state = "queued", ![i].holder = Nobody]
  /\ UNCHANGED <<grid, granted, cursor, image>>

-----------------------------------------------------------------------------
(* Results.                                                                *)

\* CheckLease.
HoldsLease(w, s) == s.state = "leased" /\ s.holder = w

\* RecordPartial: from the holder, and newer than the one that is kept.
RecordPartial(w, i, n) ==
  /\ HoldsLease(w, slices[i]) /\ n > slices[i].sequence
  /\ slices' = [slices EXCEPT ![i].sequence = n]
  /\ UNCHANGED <<grid, granted, cursor, image>>

\* AcceptTile: a payload of the tile's size replaces what the tile had.
AcceptTile(t, size, units) ==
  IF t \in Tiles /\ size = TileAt(t).w * TileAt(t).h
    THEN [image EXCEPT ![t] = units] ELSE image

\* The whole result, accepted: into the image, then Finish drops the slot.
Complete(w, i) ==
  /\ HoldsLease(w, slices[i])
  /\ image' = AcceptTile(TileOf(slices[i].start), OutputSize(TileOf(slices[i].start)),
                         UnitsOf(slices[i]))
  /\ slices' = [slices EXCEPT ![i].state = "done", ![i].holder = Nobody, ![i].sequence = 0]
  /\ UNCHANGED <<grid, granted, cursor>>

\* RenderRgba: the pixels that tile i writes, if it has samples.
Painted(i) ==
  IF image[i] = {} THEN {}
    ELSE LET t == TileAt(i) IN (t.x .. (t.x + t.w - 1)) \X (t.y .. (t.y + t.h - 1))

-----------------------------------------------------------------------------
RenderOf(r) ==
  /\ grid = r
  /\ granted = [i \in Tiles |-> 0] /\ cursor = 0
  /\ slices = <<>>
  /\ image = [i \in Tiles |-> {}]

RenderInit == \E r \in Renders : RenderOf(r)

RenderNext ==
  \/ \E w \in Renderers, units \in Sizes : Carve(w, units)
  \/ \E i \in DOMAIN slices :
       \/ GivenBack(i)
       \/ \E w \in Renderers :
            \/ Regrant(w, i) \/ Complete(w, i)
            \/ \E n \in 1 .. MaxSequence : RecordPartial(w, i, n)

RenderSpec == RenderInit /\ [][RenderNext]_renderVars

-----------------------------------------------------------------------------
(* Properties.                                                             *)

\* BuildParams refuses no task that was carved (each lies in one tile of the
\* grid), and no sample of a tile is given to two tasks, although the cursor
\* is a sum and no longer a position.
SamplesGrantedOnce ==
  /\ \A i \in DOMAIN slices :
       /\ slices[i].count > 0 /\ TileOf(slices[i].start) \in Tiles
       /\ \A u \in UnitsOf(slices[i]) : TileOf(u) = TileOf(slices[i].start)
  /\ \A i, j \in DOMAIN slices : i # j => UnitsOf(slices[i]) \cap UnitsOf(slices[j]) = {}
  /\ cursor = Cardinality(UNION {UnitsOf(slices[i]) : i \in DOMAIN slices})

\* The image converges evenly: no tile was given a task while one that still
\* has samples to give was behind it.
EvenlyGranted ==
  \A i \in DOMAIN slices, t \in Tiles :
    granted[t] < Samples => slices[i].start % Samples <= granted[t]

\* No black square and no pixel that does not exist: once every sample is
\* granted and every task done, the tiles paint each pixel of the image, each
\* pixel by one tile, clipped columns and rows included.
PictureIsWhole ==
  /\ cursor = TileCount * Samples /\ (\A s \in DOMAIN slices : slices[s].state = "done")
       => UNION {Painted(i) : i \in Tiles} = (0 .. (grid[1] - 1)) \X (0 .. (grid[2] - 1))
  /\ \A i, j \in Tiles : i # j => Painted(i) \cap Painted(j) = {}

\* A finished task has no slot of snapshots, and none comes back: a snapshot
\* that arrives after the result, or from a worker that lost the lease, is
\* refused, so a long render does not keep what nobody reads.
SnapshotOnlyWhileOpen ==
  \A i \in DOMAIN slices : slices[i].state = "done" => slices[i].sequence = 0

\* The books of a render: each sample of each tile given out once and evenly,
\* and nothing kept of a task that is done, whatever is given back, granted
\* again, or reported late.
RenderBooks == SamplesGrantedOnce /\ EvenlyGranted /\ SnapshotOnlyWhileOpen
=============================================================================
