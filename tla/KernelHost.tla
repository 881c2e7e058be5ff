----------------------------- MODULE KernelHost -----------------------------
(***************************************************************************)
(* One call of RunTask (kernel_host.cpp): a task's range is dispatched to  *)
(* the GPU chunk by chunk into one accumulator, which is read back through *)
(* a staging buffer at the end.                                            *)
(*                                                                         *)
(* What can go wrong lies between the dispatches.  A map request may be    *)
(* answered, refused, or time out and be answered later (MapForRead); the  *)
(* device may be lost in any wait, and DeviceSession recovers it inside    *)
(* the callback, so the context that RunTask holds by reference is then    *)
(* another device.  Names carry the prefix Host, hpc for the program       *)
(* counter, because the module is checked together with others.            *)
(***************************************************************************)
EXTENDS Integers, FiniteSets

CONSTANTS
  Starts,           \* first units of the tasks looked at
  MaxCount,         \* bound: units of a task
  WorkgroupSize,    \* workgroup_size
  MaxGroups,        \* maxComputeWorkgroupsPerDimension
  Window            \* 2^32: a unit is sent to the GPU as two words

ASSUME HostAssumption ==
  /\ Starts \subseteq Nat
  /\ WorkgroupSize \in Nat \ {0} /\ MaxGroups \in Nat \ {0}
  /\ Window \in Nat \ {0, 1} /\ MaxCount \in 0 .. (Window - 1)

VARIABLES
  hpc,        \* where RunTask is
  req,        \* the TaskRequest
  done,       \* units dispatched
  out,        \* how often the accumulator has each candidate of the task
  buffer,     \* the mappable buffers: "stage" and "ts"
  late,       \* map requests given up whose callback has not come
  gpu         \* "own": the device the task began on; "new": recovered; "lost"

hostVars == <<hpc, req, done, out, buffer, late, gpu>>

Buffers == {"stage", "ts"}
Request == [start : Nat, count : 1 .. (Window - 1), chunk : 1 .. (Window - 1),
            timed : BOOLEAN, every : BOOLEAN]

\* A candidate is two words: base_hi from the params, and the low word.
Candidate(u) == <<u \div Window, u % Window>>
Units(r) == r.start .. (r.start + r.count - 1)
Candidates(r) == {Candidate(u) : u \in Units(r)}

\* A task whose units share their high word.
InOneWindow(r) == \A u \in Units(r) : u \div Window = r.start \div Window

Smaller(a, b) == IF a < b THEN a ELSE b

\* The chunk: the caller's, or the whole task for 0, within what one dispatch
\* may have.
ChunkOf(perChunk, count) ==
  Smaller(Smaller(IF perChunk = 0 THEN count ELSE perChunk, count),
          MaxGroups * WorkgroupSize)

\* Mutant of Groups: rounded down.
GroupsDown(units) == units \div WorkgroupSize

Groups(units) == (units + WorkgroupSize - 1) \div WorkgroupSize

\* The candidates a dispatch evaluates: the low word of the start is cut to
\* its width, and the kernel ignores the overhang of the last group.
Evaluated ==
  LET units == Smaller(req.chunk, req.count - done)
  IN  {<<req.start \div Window, (req.start + done + i) % Window>> :
         i \in {j \in 0 .. (Groups(units) * WorkgroupSize - 1) : j < units}}

-----------------------------------------------------------------------------
(* Map requests.                                                           *)

\* Mutant of GivenUp: the request stays with the driver.
GivenUpPending == "pending"

\* MapForRead on a timeout: the request is cancelled by unmapping.
GivenUp == "free"

MapAsync(b) == buffer' = [buffer EXCEPT ![b] = "pending"]

\* The wait ends: mapped, copied out and unmapped; refused; or given up.
MapSucceeds(b) ==
  /\ gpu = "own"
  /\ buffer' = [buffer EXCEPT ![b] = "free"] /\ UNCHANGED late

MapFails(b) ==
  \/ buffer' = [buffer EXCEPT ![b] = "free"] /\ UNCHANGED late
  \/ buffer' = [buffer EXCEPT ![b] = GivenUp] /\ late' = late \cup {b}

\* MapThunk, after its waiter is gone.  A cancelled request leaves the buffer
\* alone; one still with the driver maps it.
LateCallback(b) ==
  /\ b \in late
  /\ late' = late \ {b}
  /\ buffer' = IF buffer[b] = "pending" /\ hpc \notin {"timing", "reading", "final"}
                 THEN [buffer EXCEPT ![b] = "mapped"] ELSE buffer
  /\ UNCHANGED <<hpc, req, done, out, gpu>>

-----------------------------------------------------------------------------
(* RunTask.                                                                *)

HostInit ==
  /\ hpc = "idle"
  /\ req = [start |-> 0, count |-> 1, chunk |-> 1, timed |-> FALSE, every |-> FALSE]
  /\ done = 0 /\ out = <<>>
  /\ buffer = [b \in Buffers |-> "free"] /\ late = {} /\ gpu = "own"

\* The limits, the pipeline, the buffers and the accumulator, once per task.
RunTask(start, count, perChunk, timed, every) ==
  /\ hpc = "idle" /\ hpc' = "loop"
  /\ req' = [start |-> start, count |-> count, chunk |-> ChunkOf(perChunk, count),
             timed |-> timed, every |-> every]
  /\ out' = [c \in Candidates(req') |-> 0]
  /\ UNCHANGED <<done, buffer, late, gpu>>

\* A guard, a limit or a creation fails.
Refused == hpc = "idle" /\ hpc' = "failed" /\ UNCHANGED <<req, done, out, buffer, late, gpu>>

Ended(result) == hpc' = result /\ UNCHANGED <<req, done, out, buffer, late, gpu>>

DeviceIsLost == hpc = "loop" /\ done < req.count /\ gpu = "lost" /\ Ended("failed")

\* One dispatch.  Objects of one device on the queue of another abort the
\* process or are refused, and then nothing is evaluated.
Dispatch ==
  /\ hpc = "loop" /\ done < req.count /\ gpu # "lost"
  /\ \/ gpu = "own" /\ out' = [c \in DOMAIN out |-> out[c] + (IF c \in Evaluated THEN 1 ELSE 0)]
     \/ gpu = "new" /\ UNCHANGED out
  /\ done' = done + Smaller(req.chunk, req.count - done)
  /\ \/ req.timed /\ hpc' = "timing" /\ MapAsync("ts")
     \/ ~req.timed /\ hpc' = "yielding" /\ UNCHANGED buffer
  /\ UNCHANGED <<req, late, gpu>>

\* ReadTimestamps: whatever comes of it, the task goes on.
ReadTimestamps ==
  /\ hpc = "timing" /\ hpc' = "yielding"
  /\ MapSucceeds("ts") \/ MapFails("ts")
  /\ UNCHANGED <<req, done, out, gpu>>

\* Yield, then the readback of every chunk where it is asked for, on_chunk.
Yield ==
  /\ hpc = "yielding"
  /\ \/ req.every /\ hpc' = "reading" /\ MapAsync("stage")
     \/ ~req.every /\ hpc' = "loop" /\ UNCHANGED buffer
  /\ UNCHANGED <<req, done, out, late, gpu>>

\* The copy to the staging buffer after the last chunk.  The device is not
\* asked about again.
ReadBack ==
  /\ hpc = "loop" /\ done >= req.count
  /\ hpc' = "final" /\ MapAsync("stage")
  /\ UNCHANGED <<req, done, out, late, gpu>>

ReadBackEnds ==
  /\ hpc \in {"reading", "final"}
  /\ \/ MapSucceeds("stage") /\ hpc' = IF hpc = "reading" THEN "loop" ELSE "ok"
     \/ MapFails("stage") /\ hpc' = "failed"
  /\ UNCHANGED <<req, done, out, gpu>>

\* The process does not survive work for a device that is not there.
Aborts ==
  /\ hpc = "loop" /\ \/ gpu = "new"
                     \/ gpu = "lost" /\ done >= req.count
  /\ Ended("aborted")

\* DeviceLostThunk in any wait, HandleLost and Recover with it.
HostDeviceLost ==
  /\ hpc \in {"timing", "yielding", "reading", "final"} /\ gpu = "own"
  /\ gpu' \in {"new", "lost"}
  /\ UNCHANGED <<hpc, req, done, out, buffer, late>>

HostStep ==
  \/ DeviceIsLost \/ Dispatch \/ ReadTimestamps \/ Yield \/ ReadBack \/ ReadBackEnds \/ Aborts

HostNext ==
  \/ \E s \in Starts, n \in 1 .. MaxCount, p \in 0 .. MaxCount, t, e \in BOOLEAN :
       RunTask(s, n, p, t, e)
  \/ Refused
  \/ HostStep
  \/ HostDeviceLost
  \/ \E b \in Buffers : LateCallback(b)

HostSpec == HostInit /\ [][HostNext]_hostVars

-----------------------------------------------------------------------------
(* Properties.                                                             *)

\* The state has its types.
HostTypeOK ==
  /\ hpc \in {"idle", "loop", "timing", "yielding", "reading", "final", "ok", "failed", "aborted"}
  /\ req \in Request
  /\ done \in 0 .. req.count
  /\ buffer \in [Buffers -> {"free", "pending", "mapped"}]
  /\ late \subseteq Buffers
  /\ gpu \in {"own", "new", "lost"}

\* However the range was cut, timed, read back or interrupted, a result that
\* is sent has every candidate of the task exactly once ("one dispatch of N
\* and four of N/4 produce identical bytes").  A task across a 2^32 boundary
\* is excepted: its low word wraps and base_hi stays.
ResultIsWhole ==
  hpc = "ok" /\ InOneWindow(req) => \A c \in Candidates(req) : out[c] = 1

\* A buffer is with the driver only while RunTask waits for it: what is
\* submitted uses no mapped buffer, and none is released mapped, which wgpu
\* answers with an abort.  A timeout or a late callback does not change that.
BuffersComeBack ==
  \A b \in Buffers : buffer[b] # "free" =>
    hpc \in (IF b = "ts" THEN {"timing"} ELSE {"reading", "final"})

=============================================================================
