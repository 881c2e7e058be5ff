-------------------------------- MODULE Bvh --------------------------------
(***************************************************************************)
(* The scene's tree (bvh.cpp): Builder::Build makes it, LoadBvh accepts or *)
(* refuses a blob that came from anywhere, and intersect_scene             *)
(* (pathtrace_tile.wgsl) walks what was loaded with a stack of fixed size. *)
(*                                                                         *)
(* Where the builder splits is left open: the surface areas decide only    *)
(* that.  A blob is its node array, the number of its primitives and its   *)
(* palette, which stands for the materials and what primitives say of      *)
(* them; magic, version and offsets are as SerializeBvh writes them.  The  *)
(* walk is that of a ray that meets every box, which visits most.          *)
(***************************************************************************)
EXTENDS Integers, Sequences, FiniteSets

CONSTANTS
  MaxPrims,          \* bound: primitives of a scene that is built
  MaxMaterials,      \* bound: materials of a scene that is built
  MaxLeafPrims,      \* kMaxLeafPrims
  BlobNodes,         \* nodes a foreign blob may have
  MaxNodes,          \* bound: nodes of a foreign blob
  BlobPrims,         \* primitives of a foreign blob
  BlobPalettes,      \* palettes a foreign blob may have
  MaxBvhNodes,       \* kMaxBvhNodes
  MaxBvhPrims,       \* kMaxBvhPrims
  MaxBvhMaterials,   \* kMaxBvhMaterials
  BlobLimit,         \* 2^32 bytes, in the size of a node (32 bytes)
  StackSize,         \* STACK_SIZE
  Word               \* 2^32

Node == [leaf : BOOLEAN, at : 0 .. (Word - 1), count : 0 .. (Word - 1)]

\* material_count, the highest material that a primitive names, and whether
\* every kind of a primitive and of a material is one there is.
Palette == [count : 0 .. (Word - 1), named : 0 .. (Word - 1), known : BOOLEAN]

ASSUME BvhAssumption ==
  /\ MaxPrims \in Nat /\ MaxLeafPrims \in Nat \ {0} /\ MaxNodes \in Nat
  /\ BlobPrims \in Nat /\ StackSize \in Nat \ {0} /\ Word \in Nat \ {0}
  /\ BlobNodes \subseteq Node /\ BlobPalettes \subseteq Palette
  /\ MaxMaterials \in Nat

\* What the caps allow fits the 32-bit sums of SerializeBvh.
ASSUME CapsAssumption ==
  /\ MaxBvhNodes \in Nat /\ MaxBvhPrims \in Nat /\ MaxBvhMaterials \in Nat
  /\ BlobLimit \in Nat
  /\ 2 + MaxBvhNodes + 2 * MaxBvhPrims + MaxBvhMaterials < BlobLimit

VARIABLES
  bpc,       \* "build", "overrun", "load", "walk", "done" or "refused"
  built,     \* the tree is the builder's
  prims,     \* prim_count
  palette,   \* the materials
  nodes,     \* the node array, from index 0
  work,      \* calls of Build to come: node, begin, end, depth
  deepest,   \* max_depth as the builder found it
  stack,     \* the walk's stack
  visits,    \* how often the walk took each node
  tested     \* how often it tested each primitive

bvhVars == <<bpc, built, prims, palette, nodes, work, deepest, stack, visits, tested>>

Indices == 0 .. (Cardinality(DOMAIN nodes) - 1)
NodeCount == Cardinality(DOMAIN nodes)
Blank == [leaf |-> TRUE, at |-> 0, count |-> 0]

-----------------------------------------------------------------------------
(* Builder.                                                                *)

Call(n, begin, end, d) == [node |-> n, begin |-> begin, end |-> end, depth |-> d]

Deeper(d) == IF d > deepest THEN d ELSE deepest

\* Few primitives, centroids that coincide, or no split that pays.
MakeLeaf ==
  /\ bpc = "build" /\ work # <<>>
  /\ LET c == Head(work)
     IN  /\ nodes' = [nodes EXCEPT ![c.node] =
                        [leaf |-> TRUE, at |-> c.begin, count |-> c.end - c.begin]]
         /\ deepest' = Deeper(c.depth)
  /\ work' = Tail(work)
  /\ UNCHANGED <<bpc, built, prims, palette, stack, visits, tested>>

\* Mutant of SubCalls: the primitive at the split is in neither half.
SubCallsOffByOne(c, left, split) ==
  <<Call(left, c.begin, split, c.depth + 1), Call(left + 1, split + 1, c.end, c.depth + 1)>>

SubCalls(c, left, split) ==
  <<Call(left, c.begin, split, c.depth + 1), Call(left + 1, split, c.end, c.depth + 1)>>

\* Both children are appended, side by side, before either is built.
Split ==
  /\ bpc = "build" /\ work # <<>>
  /\ LET c == Head(work)
         left == NodeCount
     IN  /\ c.end - c.begin > MaxLeafPrims
         /\ nodes' = [i \in Indices \cup {left, left + 1} |->
                        IF i = c.node THEN [leaf |-> FALSE, at |-> left, count |-> 0]
                          ELSE IF i \in Indices THEN nodes[i] ELSE Blank]
         /\ \E split \in (c.begin + 1) .. (c.end - 1) :
              work' = SubCalls(c, left, split) \o Tail(work)
         /\ deepest' = Deeper(c.depth)
  /\ UNCHANGED <<bpc, built, prims, palette, stack, visits, tested>>

\* Header, nodes, primitives and materials, in the size of a node.
BlobSize == 2 + NodeCount + 2 * prims + palette.count

\* SerializeBvh.  The buffer has the size that the sums of 32 bits say: past
\* BlobLimit it is too small for what is copied into it, and nothing is claimed
\* of what follows.
Serialize ==
  /\ bpc = "build" /\ work = <<>>
  /\ bpc' = IF BlobSize < BlobLimit THEN "load" ELSE "overrun"
  /\ UNCHANGED <<built, prims, palette, nodes, work, deepest, stack, visits, tested>>

-----------------------------------------------------------------------------
(* LoadBvh.                                                                *)

Inner == {i \in Indices : ~nodes[i].leaf}
Children(i) == {nodes[i].at, nodes[i].at + 1}

\* A leaf lies in the primitives; children come after their parent and exist.
IndicesChecked ==
  \A i \in Indices :
    IF nodes[i].leaf
      THEN nodes[i].count > 0 /\ nodes[i].at + nodes[i].count <= prims
      ELSE /\ nodes[i].count = 0
           /\ nodes[i].at > i /\ nodes[i].at + 1 < NodeCount

\* Mutant of IsTree: children that come later are taken to be enough.
IsAcyclic == TRUE

\* Every node but the root has one parent, and the root none.
IsTree ==
  \A k \in Indices : Cardinality({i \in Inner : k \in Children(i)}) = IF k = 0 THEN 0 ELSE 1

StructureChecked == NodeCount > 0 /\ prims > 0 /\ IndicesChecked /\ IsTree

\* What is declared is held against the caps before anything is allocated.
WithinCaps ==
  /\ NodeCount <= MaxBvhNodes /\ prims <= MaxBvhPrims
  /\ palette.count <= MaxBvhMaterials

\* There is a material, primitives name those there are, and kinds are known.
MaterialsChecked ==
  palette.count > 0 /\ palette.named < palette.count /\ palette.known

Loads == WithinCaps /\ StructureChecked /\ MaterialsChecked

\* The depth recomputed, from the parents.
DepthOf ==
  LET d[i \in Indices] ==
        IF i = 0 THEN 1 ELSE d[CHOOSE j \in Inner : i \in Children(j)] + 1
  IN  d

LoadBvh ==
  /\ bpc = "load" /\ bpc' = IF Loads THEN "walk" ELSE "refused"
  /\ stack' = <<0>>
  /\ visits' = [i \in Indices |-> 0] /\ tested' = [p \in 0 .. (prims - 1) |-> 0]
  /\ UNCHANGED <<built, prims, palette, nodes, work, deepest>>

-----------------------------------------------------------------------------
(* intersect_scene.                                                        *)

Last == stack[Len(stack)]
Popped == SubSeq(stack, 1, Len(stack) - 1)

VisitLeaf ==
  /\ bpc = "walk" /\ stack # <<>> /\ nodes[Last].leaf
  /\ tested' = [p \in DOMAIN tested |->
       IF nodes[Last].at <= p /\ p < nodes[Last].at + nodes[Last].count THEN tested[p] + 1
         ELSE tested[p]]
  /\ stack' = Popped
  /\ visits' = [visits EXCEPT ![Last] = @ + 1]
  /\ UNCHANGED <<bpc, built, prims, palette, nodes, work, deepest>>

\* Both children, if the stack has room for them.
VisitInner ==
  /\ bpc = "walk" /\ stack # <<>> /\ ~nodes[Last].leaf
  /\ stack' = IF Len(Popped) + 2 <= StackSize
                THEN Popped \o <<nodes[Last].at, nodes[Last].at + 1>> ELSE Popped
  /\ visits' = [visits EXCEPT ![Last] = @ + 1]
  /\ UNCHANGED <<bpc, built, prims, palette, nodes, work, deepest, tested>>

WalkDone ==
  /\ bpc = "walk" /\ stack = <<>> /\ bpc' = "done"
  /\ UNCHANGED <<built, prims, palette, nodes, work, deepest, stack, visits, tested>>

-----------------------------------------------------------------------------
\* What ParseScene lets through: primitives name materials that are defined, in
\* a table as long as the highest index any material was given.
ScenePalettes ==
  {p \in [count : 1 .. MaxMaterials, named : 0 .. MaxMaterials, known : {TRUE}] :
     p.named < p.count}

\* A scene with n primitives, to be built.
SceneOf(n, colours) ==
  /\ bpc = "build" /\ built = TRUE /\ prims = n /\ palette = colours
  /\ nodes = [i \in {0} |-> Blank] /\ work = <<Call(0, 0, n, 1)>>
  /\ deepest = 0 /\ stack = <<>> /\ visits = <<>> /\ tested = <<>>

\* A blob that somebody sent.
Blob(blob, colours) ==
  /\ bpc = "load" /\ built = FALSE /\ prims = BlobPrims /\ palette = colours
  /\ nodes = blob /\ work = <<>>
  /\ deepest = 0 /\ stack = <<>> /\ visits = <<>> /\ tested = <<>>

BvhInit ==
  \/ \E n \in 1 .. MaxPrims, colours \in ScenePalettes : SceneOf(n, colours)
  \/ \E n \in 1 .. MaxNodes, colours \in BlobPalettes :
       \E blob \in [0 .. (n - 1) -> BlobNodes] : Blob(blob, colours)

BvhNext ==
  \/ MakeLeaf \/ Split \/ Serialize \/ LoadBvh \/ VisitLeaf \/ VisitInner \/ WalkDone

BvhSpec == BvhInit /\ [][BvhNext]_bvhVars

-----------------------------------------------------------------------------
(* Properties.                                                             *)

\* The loader takes what the builder makes exactly if it is within the caps,
\* which the builder does not know: size is the one reason for which main.cpp
\* (199-204) refuses a scene it has built.  The loader finds the depth the
\* builder reported, so the two read "the right child is left + 1" the same way.
BuiltTreeLoads ==
  built /\ bpc = "load" =>
    /\ Loads <=> WithinCaps
    /\ \A i \in Indices : DepthOf[i] <= deepest
    /\ \E i \in Indices : DepthOf[i] = deepest

\* Nothing that the caps allow overruns the serialiser's buffer.
OverrunIsOverCaps == bpc = "overrun" => ~WithinCaps

\* The walk of a tree that fits the stack tests every primitive of the scene
\* exactly once.  In a deeper one whole subtrees are passed over in silence.
EveryPrimitiveTested ==
  built /\ bpc = "done" /\ deepest <= StackSize =>
    \A p \in 0 .. (prims - 1) : tested[p] = 1

\* Builder, serialiser, loader and shader agree on one layout of the tree.
BuiltTreeIsWalked == BuiltTreeLoads /\ OverrunIsOverCaps /\ EveryPrimitiveTested

\* After LoadBvh the shader may index freely, whoever wrote the blob: the walk
\* takes no node twice, so it ends, and leaves neither array.
LoadedIsWalkable ==
  bpc = "walk" =>
    /\ \A i \in DOMAIN visits : visits[i] <= 1
    /\ \A k \in 1 .. Len(stack) : stack[k] \in Indices
=============================================================================
