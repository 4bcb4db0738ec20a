----------------------------- MODULE VulkanProofs ----------------------------
(***************************************************************************)
(* Proofs about the Vulkan filters, for any number of threads and of       *)
(* frames.  WindowCache: what a kernel reads is its window, however        *)
(* requests share and give up the frames, and requests never wait in a     *)
(* circle.  VkRolling: neither do rolling chunks, for tickets, lanes and   *)
(* the device's stages.                                                    *)
(***************************************************************************)
EXTENDS MCVulkan, FoldLemmas, FiniteSetTheorems, SequenceTheorems, TLAPS

-----------------------------------------------------------------------------
(* Windows (WindowCache).                                                  *)

Steps == {"idle", "window", "write", "wait_queued", "slot", "permit", "record", "submitted", "settle", "unpin"}
StageNames == [by : Requesters, serial : Nat, stage : {"upload", "compute"}]
Submitted == {NoStage} \cup [on : {TRUE}, waits : SUBSET StageNames]
Entries == [n : Clip \cup {None}, pins : Nat, queued : BOOLEAN, failed : BOOLEAN,
            ready : SUBSET StageNames, uses : SUBSET StageNames, used : Nat]

TypeOK ==
    /\ staged \in BOOLEAN /\ clock \in Nat
    /\ cached \in [Regions -> Entries] /\ memory \in [Regions -> Clip \cup {None}]
    /\ pc \in [Requesters -> Steps] /\ serial \in [Requesters -> Nat]
    /\ want \in [Requesters -> Clip \cup {None}]
    /\ pinned = [t \in Requesters |-> pinned[t]] /\ uploads \in [Requesters -> SUBSET Regions]
    /\ stages \in [Requesters -> [upload : Submitted, compute : Submitted]]

\* A request has its window from the time it pins it until it unpins it.
WindowsHeld ==
    \A t \in Requesters :
        /\ pc[t] # "idle" => want[t] \in Clip
        /\ IF pc[t] \in {"idle", "window"} THEN pinned[t] = NoPins /\ uploads[t] = {}
           ELSE pinned[t] \in [WindowOf(want[t]) -> Regions] /\ uploads[t] \subseteq PinnedBy(t)

\* A region counts its pins.
Pinners(r) == {t \in Requesters : r \in PinnedBy(t)}
PinsKept == \A r \in Regions : IsFiniteSet(Pinners(r)) /\ cached[r].pins = Cardinality(Pinners(r))

\* Behind wait_queued.
Late == {"slot", "permit", "record", "submitted", "settle"}

\* A pinned region is for its frame, until the request that was to upload it
\* gives up: then nobody is behind wait_queued with it.
FramesHeld ==
    /\ \A r \in Regions : cached[r].failed => cached[r].n = None
    /\ \A t \in Requesters : \A f \in DOMAIN pinned[t] :
          \/ cached[pinned[t][f]].n = f
          \/ /\ cached[pinned[t][f]].failed /\ pinned[t][f] \notin uploads[t]
             /\ pc[t] \in {"write", "wait_queued", "unpin"}

OneUploader == \A t, u \in Requesters : t # u => uploads[t] \cap uploads[u] = {}

\* What a request uploads is queued by the host's write, or behind the submit;
\* behind wait_queued everything else it pins is queued.
QueuedInTime ==
    \A t \in Requesters :
        /\ staged /\ pc[t] \in {"write", "wait_queued", "slot", "permit", "record", "submitted"} =>
              \A r \in uploads[t] : ~cached[r].queued
        /\ ~staged /\ pc[t] \in {"wait_queued"} \cup Late => \A r \in uploads[t] : cached[r].queued
        /\ pc[t] \in Late => \A r \in PinnedBy(t) : cached[r].queued \/ r \in uploads[t]

\* A queued region has its frame or will have it when its upload has run.
Filled ==
    \A r \in Regions : cached[r].queued =>
        \/ memory[r] = cached[r].n
        \/ \E u \in Requesters : r \in uploads[u] /\ stages[u].upload.on /\ Stage(u, "upload") \in cached[r].ready

\* The stages of a request that are on the device.
StagesKept ==
    \A t \in Requesters :
        /\ stages[t].upload.on => staged /\ pc[t] \in {"submitted", "settle"}
        /\ stages[t].compute.on =>
              /\ pc[t] \in {"submitted", "settle"}
              /\ \A r \in PinnedBy(t) \ uploads[t] : cached[r].ready \subseteq stages[t].compute.waits
        /\ staged /\ (pc[t] = "submitted" \/ stages[t].compute.on) =>
              \A r \in uploads[t] : memory[r] = cached[r].n \/ stages[t].upload.on

IInv == TypeOK /\ WindowsHeld /\ PinsKept /\ FramesHeld /\ FrameOnce /\ OneUploader /\ QueuedInTime /\ Filled /\ StagesKept

-----------------------------------------------------------------------------
(* Facts of a state.                                                       *)

LEMMA WindowFacts ==
    ASSUME WindowAssumption, NEW n
    PROVE  /\ Clip \subseteq Nat /\ None \notin Clip /\ Regions \subseteq Nat
           /\ WindowOf(n) \subseteq Clip /\ IsFiniteSet(WindowOf(n))
<1>1. Cardinality(Clip) \in Nat /\ Cardinality(Regions) \in Nat
  BY FS_CardinalityType DEF WindowAssumption
<1>2. WindowOf(n) \subseteq Clip
  BY DEF WindowOf
<1> QED BY <1>1, <1>2, FS_Subset DEF WindowAssumption, None

\* A region that a request pins is one of its window's, and is counted.
LEMMA PinFacts ==
    ASSUME IInv, NEW t \in Requesters, NEW r \in PinnedBy(t)
    PROVE  /\ pc[t] \notin {"idle", "window"} /\ r \in Regions /\ cached[r].pins # 0
           /\ \E f \in DOMAIN pinned[t] : r = pinned[t][f]
<1>1. \E f \in DOMAIN pinned[t] : r = pinned[t][f]
  BY DEF PinnedBy
<1>2. pc[t] \notin {"idle", "window"}
  BY <1>1 DEF IInv, WindowsHeld, NoPins
<1>3. r \in Regions
  BY <1>1, <1>2 DEF IInv, WindowsHeld
<1>4. t \in Pinners(r) /\ IsFiniteSet(Pinners(r)) /\ cached[r].pins = Cardinality(Pinners(r))
  BY <1>3 DEF Pinners, IInv, PinsKept
<1>5. Cardinality(Pinners(r)) # 0
  BY <1>4, FS_EmptySet
<1> QED BY <1>1, <1>2, <1>3, <1>4, <1>5

\* The counters of pins, in a step that leaves the windows alone.
LEMMA PinsSame ==
    ASSUME PinsKept, UNCHANGED pinned, NEW new,
           \A r \in Regions : new[r].pins = cached[r].pins, cached' = new
    PROVE  PinsKept'
<1>1. \A r \in Regions : Pinners(r)' = Pinners(r)
  BY DEF Pinners, PinnedBy
<1> QED BY <1>1 DEF PinsKept

-----------------------------------------------------------------------------
(* Steps that only move the request.                                       *)

LEMMA AskKeeps ==
    ASSUME WindowAssumption, IInv, NEW t \in Requesters, NEW n \in Clip, Ask(t, n)
    PROVE  IInv'
<1> USE DEF Ask, Goto, cacheState
<1>1. pc[t] = "idle" /\ pinned[t] = NoPins /\ uploads[t] = {}
  BY DEF IInv, WindowsHeld
<1>2. TypeOK'
  BY DEF IInv, TypeOK, Steps
<1>3. WindowsHeld'
  BY <1>1 DEF IInv, TypeOK, WindowsHeld, PinnedBy
<1>4. PinsKept'
  BY PinsSame DEF IInv
<1>5. FramesHeld' /\ FrameOnce' /\ OneUploader'
  BY <1>1 DEF IInv, TypeOK, FramesHeld, FrameOnce, OneUploader, NoPins
<1>6. QueuedInTime'
  BY <1>1 DEF IInv, TypeOK, QueuedInTime, PinnedBy, Late
<1>7. Filled'
  BY <1>1 DEF IInv, TypeOK, Filled, Stage, StagesKept
<1>8. ~stages[t].upload.on /\ ~stages[t].compute.on
  BY <1>1 DEF IInv, StagesKept
<1>9. pc' \in [Requesters -> Steps] /\ \A u \in Requesters : pc'[u] # pc[u] => u = t
  BY DEF IInv, TypeOK, Steps
<1>10. StagesKept'
  <2> SUFFICES ASSUME NEW u \in Requesters
               PROVE  /\ stages[u].upload.on => staged /\ pc'[u] \in {"submitted", "settle"}
                      /\ stages[u].compute.on =>
                            /\ pc'[u] \in {"submitted", "settle"}
                            /\ \A r \in PinnedBy(u) \ uploads[u] : cached[r].ready \subseteq stages[u].compute.waits
                      /\ staged /\ (pc'[u] = "submitted" \/ stages[u].compute.on) =>
                            \A r \in uploads[u] : memory[r] = cached[r].n \/ stages[u].upload.on
    BY DEF StagesKept, PinnedBy
  <2> QED BY <1>1, <1>8, <1>9 DEF IInv, StagesKept
<1> QED BY <1>2, <1>3, <1>4, <1>5, <1>6, <1>7, <1>10 DEF IInv

\* A request goes on and nothing else changes.
Moves(t, place) ==
    /\ pc[t] \notin {"idle", "window"} /\ pc' = [pc EXCEPT ![t] = place]
    /\ UNCHANGED <<staged, cached, clock, want, pinned, uploads, serial, stages, memory>>

LEMMA MoveKeeps ==
    ASSUME IInv, NEW t \in Requesters, NEW place \in Steps \ {"idle", "window"}, Moves(t, place),
           \/ place = "unpin" /\ ~stages[t].upload.on /\ ~stages[t].compute.on
           \/ place = "settle" /\ pc[t] = "record"
           \/ place \in {"slot", "permit", "record"} /\ pc[t] \in {"slot", "permit"}
           \/ place \in {"wait_queued"} /\ pc[t] = "write" /\ staged
           \/ place = "slot" /\ pc[t] = "wait_queued" /\ AllQueued(t) /\ ~SomeFailed(t)
    PROVE  IInv'
<1> USE DEF Moves
<1>1. TypeOK'
  BY DEF IInv, TypeOK
<1>2. WindowsHeld'
  BY DEF IInv, TypeOK, WindowsHeld, PinnedBy
<1>3. PinsKept'
  BY PinsSame DEF IInv
<1>4. FrameOnce' /\ OneUploader' /\ Filled'
  BY DEF IInv, FrameOnce, OneUploader, Filled, Stage
<1>5. FramesHeld'
  BY DEF IInv, TypeOK, FramesHeld, SomeFailed, PinnedBy
<1>6. QueuedInTime'
  BY DEF IInv, TypeOK, QueuedInTime, PinnedBy, Late, AllQueued
<1>7. pc' \in [Requesters -> Steps] /\ pc'[t] = place /\ \A u \in Requesters : pc'[u] # pc[u] => u = t
  BY DEF IInv, TypeOK
<1>8. StagesKept'
  <2> SUFFICES ASSUME NEW u \in Requesters
               PROVE  /\ stages[u].upload.on => staged /\ pc'[u] \in {"submitted", "settle"}
                      /\ stages[u].compute.on =>
                            /\ pc'[u] \in {"submitted", "settle"}
                            /\ \A r \in PinnedBy(u) \ uploads[u] : cached[r].ready \subseteq stages[u].compute.waits
                      /\ staged /\ (pc'[u] = "submitted" \/ stages[u].compute.on) =>
                            \A r \in uploads[u] : memory[r] = cached[r].n \/ stages[u].upload.on
    BY DEF StagesKept, PinnedBy
  <2> QED BY <1>7 DEF IInv, StagesKept
<1> QED BY <1>1, <1>2, <1>3, <1>4, <1>5, <1>6, <1>8 DEF IInv

-----------------------------------------------------------------------------
(* Steps on the cache's entries and on the device.                         *)

LEMMA WriteKeeps ==
    ASSUME WindowAssumption, IInv, NEW t \in Requesters, WriteFrames(t), ~staged
    PROVE  IInv'
<1> USE DEF WriteFrames, Goto
<1>1. /\ cached' = [r \in Regions |-> IF r \in uploads[t]
                                       THEN [cached[r] EXCEPT !.queued = TRUE, !.ready = {}, !.uses = {}]
                                       ELSE cached[r]]
      /\ memory' = [r \in Regions |-> IF r \in uploads[t] THEN cached[r].n ELSE memory[r]]
  BY DEF MarkQueued
<1>2. cached' \in [Regions -> Entries]
  <2>1. \A e \in Entries : [e EXCEPT !.queued = TRUE, !.ready = {}, !.uses = {}] \in Entries
    BY DEF Entries
  <2> QED BY <1>1, <2>1 DEF IInv, TypeOK
<1>3. \A r \in Regions : /\ cached'[r].n = cached[r].n /\ cached'[r].pins = cached[r].pins
                         /\ cached'[r].failed = cached[r].failed
                         /\ cached'[r].queued = (cached[r].queued \/ r \in uploads[t])
                         /\ memory'[r] = IF r \in uploads[t] THEN cached[r].n ELSE memory[r]
                         /\ r \notin uploads[t] => cached'[r] = cached[r]
                         /\ r \in uploads[t] => cached'[r].ready = {}
  BY <1>1 DEF IInv, TypeOK, Entries
<1>4. TypeOK'
  BY <1>1, <1>2 DEF IInv, TypeOK, Steps, Entries
<1>5. pc' \in [Requesters -> Steps] /\ pc'[t] = "wait_queued" /\ \A u \in Requesters \ {t} : pc'[u] = pc[u]
  BY DEF IInv, TypeOK, Steps
<1>6. \A u \in Requesters : PinnedBy(u)' = PinnedBy(u) /\ PinnedBy(u) \subseteq Regions
  BY PinFacts DEF PinnedBy
<1>7. WindowsHeld'
  BY <1>5, <1>6 DEF IInv, WindowsHeld
<1>8. PinsKept'
  BY <1>3, PinsSame DEF IInv
<1>9. FramesHeld'
  <2>1. \A u \in Requesters : \A f \in DOMAIN pinned[u] : pinned[u][f] \in Regions
    BY <1>6 DEF PinnedBy
  <2> QED BY <1>3, <1>5, <2>1 DEF IInv, FramesHeld
<1>10. FrameOnce' /\ OneUploader'
  BY <1>3 DEF IInv, FrameOnce, OneUploader
<1>11. QueuedInTime'
  <2> SUFFICES ASSUME NEW u \in Requesters
               PROVE  /\ pc'[u] \in {"wait_queued"} \cup Late => \A r \in uploads[u] : cached'[r].queued
                      /\ pc'[u] \in Late => \A r \in PinnedBy(u) : cached'[r].queued \/ r \in uploads[u]
    BY <1>6 DEF QueuedInTime
  <2>1. uploads[u] \subseteq Regions
    BY DEF IInv, TypeOK
  <2>2. CASE u = t
    BY <1>3, <1>5, <2>1, <2>2 DEF Late
  <2>3. CASE u # t
    BY <1>3, <1>5, <1>6, <2>1, <2>3 DEF IInv, QueuedInTime
  <2> QED BY <2>2, <2>3
<1>12. Filled'
  BY <1>3 DEF IInv, TypeOK, Filled, Stage, StagesKept
<1>13. StagesKept'
  <2> SUFFICES ASSUME NEW u \in Requesters
               PROVE  /\ stages[u].upload.on => staged /\ pc'[u] \in {"submitted", "settle"}
                      /\ stages[u].compute.on =>
                            /\ pc'[u] \in {"submitted", "settle"}
                            /\ \A r \in PinnedBy(u) \ uploads[u] : cached'[r].ready \subseteq stages[u].compute.waits
    BY <1>6 DEF StagesKept
  <2>1. u # t \/ (~stages[u].upload.on /\ ~stages[u].compute.on)
    BY DEF IInv, StagesKept
  <2> QED BY <1>3, <1>5, <1>6, <2>1 DEF IInv, StagesKept
<1> QED BY <1>4, <1>7, <1>8, <1>9, <1>10, <1>11, <1>12, <1>13 DEF IInv

\* The stages of t change and t moves on to place, the windows stay.
SubmitsLike(t, place, new) ==
    /\ pc' = [pc EXCEPT ![t] = place] /\ stages' = [stages EXCEPT ![t] = new]
    /\ UNCHANGED <<staged, cached, clock, want, pinned, uploads, serial, memory>>

LEMMA ReadyTyped ==
    ASSUME WindowAssumption, IInv, NEW t \in Requesters
    PROVE  UploadStage(t) \in Submitted /\ ComputeStage(t) \in Submitted
<1>1. \A r \in PinnedBy(t) : r \in Regions
  BY PinFacts
<1>2. \A r \in Regions : cached[r].uses \subseteq StageNames /\ cached[r].ready \subseteq StageNames
  BY DEF IInv, TypeOK, Entries
<1>3. uploads[t] \subseteq Regions
  BY DEF IInv, TypeOK
<1> QED BY <1>1, <1>2, <1>3 DEF UploadStage, ComputeStage, Submitted

LEMMA SubmitLikeKeeps ==
    ASSUME WindowAssumption, IInv, NEW t \in Requesters, NEW place \in {"submitted", "settle"}, pc[t] = "record",
           NEW new \in [upload : Submitted, compute : Submitted], SubmitsLike(t, place, new),
           new.upload.on => staged,
           place = "settle" => ~new.compute.on,
           place = "submitted" => new.compute = ComputeStage(t) /\ (staged /\ uploads[t] # {} => new.upload.on)
    PROVE  IInv'
<1> USE DEF SubmitsLike
<1>1. TypeOK'
  BY DEF IInv, TypeOK, Steps
<1>2. pc' \in [Requesters -> Steps] /\ pc'[t] = place /\ \A u \in Requesters \ {t} : pc'[u] = pc[u]
  BY DEF IInv, TypeOK, Steps
<1>3. stages'[t] = new /\ \A u \in Requesters \ {t} : stages'[u] = stages[u]
  BY DEF IInv, TypeOK
<1>4. \A u \in Requesters : PinnedBy(u)' = PinnedBy(u)
  BY DEF PinnedBy
<1>5. WindowsHeld'
  BY <1>2, <1>4 DEF IInv, WindowsHeld
<1>6. PinsKept'
  BY PinsSame DEF IInv
<1>7. FramesHeld' /\ FrameOnce' /\ OneUploader'
  BY <1>2 DEF IInv, FramesHeld, FrameOnce, OneUploader
<1>8. QueuedInTime'
  BY <1>2, <1>4 DEF IInv, QueuedInTime, Late
<1>9. ~stages[t].upload.on /\ ~stages[t].compute.on
  BY DEF IInv, StagesKept
<1>10. Filled'
  <2> SUFFICES ASSUME NEW r \in Regions, cached[r].queued, memory[r] # cached[r].n
               PROVE  \E u \in Requesters : r \in uploads[u] /\ stages'[u].upload.on /\ Stage(u, "upload") \in cached[r].ready
    BY DEF Filled, Stage
  <2>1. PICK v \in Requesters : r \in uploads[v] /\ stages[v].upload.on /\ Stage(v, "upload") \in cached[r].ready
    BY DEF IInv, Filled
  <2> QED BY <1>3, <1>9, <2>1
<1>11. StagesKept'
  <2> SUFFICES ASSUME NEW u \in Requesters
               PROVE  /\ stages'[u].upload.on => staged /\ pc'[u] \in {"submitted", "settle"}
                      /\ stages'[u].compute.on =>
                            /\ pc'[u] \in {"submitted", "settle"}
                            /\ \A r \in PinnedBy(u) \ uploads[u] : cached[r].ready \subseteq stages'[u].compute.waits
                      /\ staged /\ (pc'[u] = "submitted" \/ stages'[u].compute.on) =>
                            \A r \in uploads[u] : memory[r] = cached[r].n \/ stages'[u].upload.on
    BY <1>4 DEF StagesKept
  <2>1. CASE u # t
    BY <1>2, <1>3, <2>1 DEF IInv, StagesKept
  <2>2. CASE u = t
    BY <1>2, <1>3, <2>2 DEF ComputeStage
  <2> QED BY <2>1, <2>2
<1> QED BY <1>1, <1>5, <1>6, <1>7, <1>8, <1>10, <1>11 DEF IInv

LEMMA SubmitKeeps ==
    ASSUME WindowAssumption, IInv, NEW t \in Requesters, SubmitStages(t) \/ SubmitThrows(t)
    PROVE  IInv'
<1>1. NoStage \in Submitted /\ UploadStage(t) \in Submitted /\ ComputeStage(t) \in Submitted
      /\ ~NoStage.on /\ UploadStage(t).on
  BY ReadyTyped DEF Submitted, NoStage, UploadStage
<1>2. pc[t] = "record"
  BY DEF SubmitStages, SubmitThrows
<1>3. stages[t] \in [upload : Submitted, compute : Submitted] /\ ~stages[t].upload.on /\ ~stages[t].compute.on
  BY <1>2 DEF IInv, TypeOK, StagesKept
<1>4. CASE SubmitStages(t)
  <2> DEFINE new == [upload |-> IF HasUploads(t) THEN UploadStage(t) ELSE NoStage, compute |-> ComputeStage(t)]
  <2>1. new \in [upload : Submitted, compute : Submitted] /\ SubmitsLike(t, "submitted", new)
    BY <1>1, <1>4 DEF SubmitStages, SubmitsLike, Goto, cacheState
  <2>2. (new.upload.on <=> HasUploads(t)) /\ new.compute = ComputeStage(t)
    BY <1>1
  <2> HIDE DEF new
  <2> QED BY <1>2, <2>1, <2>2, SubmitLikeKeeps DEF HasUploads
<1>5. CASE SubmitThrows(t) /\ UNCHANGED stages
  <2>1. SubmitsLike(t, "settle", stages[t])
    BY <1>5 DEF SubmitThrows, SubmitsLike, Goto, cacheState, IInv, TypeOK
  <2> QED BY <1>2, <1>3, <2>1, SubmitLikeKeeps
<1>6. CASE SubmitThrows(t) /\ HasUploads(t) /\ stages' = [stages EXCEPT ![t].upload = UploadStage(t)]
  <2> DEFINE new == [stages[t] EXCEPT !.upload = UploadStage(t)]
  <2>1. new \in [upload : Submitted, compute : Submitted] /\ ~new.compute.on
    BY <1>1, <1>3
  <2>2. SubmitsLike(t, "settle", new)
    BY <1>6 DEF SubmitThrows, SubmitsLike, Goto, cacheState, IInv, TypeOK
  <2> HIDE DEF new
  <2> QED BY <1>2, <1>6, <2>1, <2>2, SubmitLikeKeeps DEF HasUploads
<1> QED BY <1>4, <1>5, <1>6 DEF SubmitThrows

\* What MarkSubmitted and Unpin make of an entry.
LEMMA EntriesTyped ==
    ASSUME NEW e \in Entries
    PROVE  /\ \A ready \in SUBSET StageNames, uses \in SUBSET StageNames :
                 [e EXCEPT !.queued = TRUE, !.ready = ready, !.uses = uses] \in Entries
           /\ \A uses \in SUBSET StageNames : [e EXCEPT !.uses = @ \cup uses] \in Entries
           /\ e.pins # 0 => [e EXCEPT !.pins = @ - 1] \in Entries
           /\ [e EXCEPT !.n = None, !.failed = TRUE] \in Entries
           /\ \A f \in Clip : [e EXCEPT !.n = f, !.queued = FALSE, !.failed = FALSE, !.ready = {}] \in Entries
           /\ \A stamp \in Nat : [e EXCEPT !.pins = @ + 1, !.used = stamp] \in Entries
<1>1. \A ready \in SUBSET StageNames, uses \in SUBSET StageNames :
          [e EXCEPT !.queued = TRUE, !.ready = ready, !.uses = uses] \in Entries
  BY DEF Entries
<1>2. \A uses \in SUBSET StageNames : [e EXCEPT !.uses = @ \cup uses] \in Entries
  BY DEF Entries
<1>3. e.pins # 0 => [e EXCEPT !.pins = @ - 1] \in Entries
  BY DEF Entries
<1>4. [e EXCEPT !.n = None, !.failed = TRUE] \in Entries
  BY DEF Entries
<1>5. \A f \in Clip : [e EXCEPT !.n = f, !.queued = FALSE, !.failed = FALSE, !.ready = {}] \in Entries
  BY DEF Entries
<1>6. ASSUME NEW stamp \in Nat PROVE [e EXCEPT !.pins = @ + 1, !.used = stamp] \in Entries
  <2>1. e.pins \in Nat /\ e.pins + 1 \in Nat
    BY DEF Entries
  <2>2. PICK more \in Nat : more = e.pins + 1
    BY <2>1
  <2>3. [e EXCEPT !.pins = more, !.used = stamp] \in Entries
    BY <2>2 DEF Entries
  <2> QED BY <2>2, <2>3
<1> QED BY <1>1, <1>2, <1>3, <1>4, <1>5, <1>6

LEMMA MarkKeeps ==
    ASSUME WindowAssumption, IInv, NEW t \in Requesters, MarkSubmitted(t)
    PROVE  IInv'
<1> DEFINE up == Stage(t, "upload")
           down == Stage(t, "compute")
<1>1. /\ pc[t] = "submitted" /\ (HasUploads(t) <=> staged /\ uploads[t] # {})
      /\ UNCHANGED <<staged, clock, want, pinned, uploads, serial, stages, memory>>
  BY DEF HasUploads, MarkSubmitted
<1>2. up \in StageNames /\ down \in StageNames
  BY DEF Stage, StageNames, IInv, TypeOK
<1>3. \A r \in Regions :
          cached'[r] = IF HasUploads(t) /\ r \in uploads[t]
                       THEN [cached[r] EXCEPT !.queued = TRUE, !.ready = {up}, !.uses = {up, down}]
                       ELSE IF r \in PinnedBy(t) THEN [cached[r] EXCEPT !.uses = @ \cup {down}] ELSE cached[r]
  BY DEF MarkSubmitted
<1>4. cached' \in [Regions -> Entries]
  <2> HIDE DEF up, down
  <2>1. \A r \in Regions : cached[r] \in Entries
    BY DEF IInv, TypeOK
  <2>2. {up} \in SUBSET StageNames /\ {down} \in SUBSET StageNames /\ {up, down} \in SUBSET StageNames
    BY <1>2
  <2>3. ASSUME NEW r \in Regions PROVE cached'[r] \in Entries
    <3>1. /\ [cached[r] EXCEPT !.queued = TRUE, !.ready = {up}, !.uses = {up, down}] \in Entries
          /\ [cached[r] EXCEPT !.uses = @ \cup {down}] \in Entries
      BY <2>1, <2>2, EntriesTyped
    <3> QED BY <1>3, <2>1, <3>1
  <2> QED BY <2>3 DEF MarkSubmitted
<1>5. \A r \in Regions : /\ cached'[r].n = cached[r].n /\ cached'[r].pins = cached[r].pins
                         /\ cached'[r].failed = cached[r].failed
                         /\ cached'[r].queued = (cached[r].queued \/ (staged /\ r \in uploads[t]))
                         /\ cached'[r].ready = IF staged /\ r \in uploads[t] THEN {up} ELSE cached[r].ready
  <2>1. \A r \in Regions : cached[r] \in Entries
    BY DEF IInv, TypeOK
  <2> HIDE DEF up, down
  <2> QED BY <1>1, <1>3, <2>1 DEF Entries
<1> HIDE DEF down
<1>6. pc' \in [Requesters -> Steps] /\ pc'[t] = "settle" /\ \A u \in Requesters \ {t} : pc'[u] = pc[u]
  BY DEF MarkSubmitted, Goto, IInv, TypeOK, Steps
<1>7. TypeOK'
  BY <1>1, <1>4, <1>6 DEF IInv, TypeOK
<1>8. \A u \in Requesters : PinnedBy(u)' = PinnedBy(u) /\ PinnedBy(u) \subseteq Regions /\ uploads[u] \subseteq Regions
  <2>1. \A u \in Requesters : \A r \in PinnedBy(u) : r \in Regions
    BY PinFacts
  <2> QED BY <1>1, <2>1 DEF PinnedBy, IInv, TypeOK
<1>9. WindowsHeld'
  BY <1>1, <1>6, <1>8 DEF IInv, WindowsHeld
<1>10. PinsKept'
  BY <1>1, <1>5, PinsSame DEF IInv
<1>11. FramesHeld'
  <2>1. \A u \in Requesters : \A f \in DOMAIN pinned[u] : pinned[u][f] \in Regions
    BY <1>8 DEF PinnedBy
  <2> QED BY <1>1, <1>5, <1>6, <2>1 DEF IInv, FramesHeld
<1>12. FrameOnce' /\ OneUploader'
  BY <1>1, <1>5 DEF IInv, FrameOnce, OneUploader
<1>13. QueuedInTime'
  <2> SUFFICES ASSUME NEW u \in Requesters
               PROVE  /\ staged /\ pc'[u] \in {"write", "wait_queued", "slot", "permit", "record", "submitted"} =>
                            \A r \in uploads[u] : ~cached'[r].queued
                      /\ ~staged /\ pc'[u] \in {"wait_queued"} \cup Late => \A r \in uploads[u] : cached'[r].queued
                      /\ pc'[u] \in Late => \A r \in PinnedBy(u) : cached'[r].queued \/ r \in uploads[u]
    BY <1>1, <1>8 DEF QueuedInTime
  <2>1. \A r \in uploads[u] : u # t => r \notin uploads[t]
    BY DEF IInv, OneUploader
  <2> QED BY <1>1, <1>5, <1>6, <1>8, <2>1 DEF IInv, QueuedInTime, Late
<1>14. Filled'
  <2> SUFFICES ASSUME NEW r \in Regions, cached'[r].queued, memory[r] # cached'[r].n
               PROVE  \E u \in Requesters : r \in uploads[u] /\ stages[u].upload.on /\ Stage(u, "upload") \in cached'[r].ready
    BY <1>1 DEF Filled, Stage
  <2>1. CASE staged /\ r \in uploads[t]
    BY <1>1, <1>5, <2>1 DEF IInv, StagesKept
  <2>2. CASE ~(staged /\ r \in uploads[t])
    BY <1>5, <2>2 DEF IInv, Filled
  <2> QED BY <2>1, <2>2
<1>15. StagesKept'
  <2> SUFFICES ASSUME NEW u \in Requesters
               PROVE  /\ stages[u].upload.on => staged /\ pc'[u] \in {"submitted", "settle"}
                      /\ stages[u].compute.on =>
                            /\ pc'[u] \in {"submitted", "settle"}
                            /\ \A r \in PinnedBy(u) \ uploads[u] : cached'[r].ready \subseteq stages[u].compute.waits
                      /\ staged /\ (pc'[u] = "submitted" \/ stages[u].compute.on) =>
                            \A r \in uploads[u] : memory[r] = cached'[r].n \/ stages[u].upload.on
    BY <1>1, <1>8 DEF StagesKept
  <2>1. stages[u].compute.on => \A r \in PinnedBy(u) \ uploads[u] : ~(staged /\ r \in uploads[t])
    BY <1>1 DEF IInv, QueuedInTime, StagesKept, Late
  <2> QED BY <1>1, <1>5, <1>6, <1>8, <2>1 DEF IInv, StagesKept
<1> QED BY <1>7, <1>9, <1>10, <1>11, <1>12, <1>13, <1>14, <1>15 DEF IInv

LEMMA RunUploadKeeps ==
    ASSUME WindowAssumption, IInv, NEW t \in Requesters, RunUpload(t)
    PROVE  IInv'
<1>1. UNCHANGED <<staged, cached, clock, pc, want, pinned, uploads, serial>> /\ stages[t].upload.on
  BY DEF RunUpload, cacheState, StageReady
<1>2. \A r \in Regions : memory'[r] = IF r \in uploads[t] THEN cached[r].n ELSE memory[r]
  BY DEF RunUpload
<1>3. /\ stages' \in [Requesters -> [upload : Submitted, compute : Submitted]]
      /\ ~stages'[t].upload.on /\ stages'[t].compute = stages[t].compute
      /\ \A u \in Requesters \ {t} : stages'[u] = stages[u]
  <2>1. NoStage \in Submitted /\ ~NoStage.on
    BY DEF NoStage, Submitted
  <2>2. stages[t] \in [upload : Submitted, compute : Submitted]
    BY DEF IInv, TypeOK
  <2> QED BY <2>1, <2>2 DEF RunUpload, IInv, TypeOK
<1>4. memory' \in [Regions -> Clip \cup {None}]
  BY <1>2 DEF RunUpload, IInv, TypeOK, Entries
<1>5. TypeOK'
  BY <1>1, <1>3, <1>4 DEF IInv, TypeOK
<1>6. \A u \in Requesters : PinnedBy(u)' = PinnedBy(u)
  BY <1>1 DEF PinnedBy
<1>7. WindowsHeld' /\ FramesHeld' /\ FrameOnce' /\ OneUploader' /\ QueuedInTime'
  BY <1>1, <1>6 DEF IInv, WindowsHeld, FramesHeld, FrameOnce, OneUploader, QueuedInTime
<1>8. PinsKept'
  BY <1>1, PinsSame DEF IInv
<1>9. Filled'
  <2> SUFFICES ASSUME NEW r \in Regions, cached[r].queued, memory'[r] # cached[r].n
               PROVE  \E u \in Requesters : r \in uploads[u] /\ stages'[u].upload.on /\ Stage(u, "upload") \in cached[r].ready
    BY <1>1 DEF Filled, Stage
  <2>1. r \notin uploads[t] /\ memory[r] # cached[r].n
    BY <1>2
  <2>2. PICK v \in Requesters : r \in uploads[v] /\ stages[v].upload.on /\ Stage(v, "upload") \in cached[r].ready
    BY <2>1 DEF IInv, Filled
  <2> QED BY <1>3, <2>1, <2>2
<1>10. StagesKept'
  <2> SUFFICES ASSUME NEW u \in Requesters
               PROVE  /\ stages'[u].upload.on => staged /\ pc[u] \in {"submitted", "settle"}
                      /\ stages'[u].compute.on =>
                            /\ pc[u] \in {"submitted", "settle"}
                            /\ \A r \in PinnedBy(u) \ uploads[u] : cached[r].ready \subseteq stages'[u].compute.waits
                      /\ staged /\ (pc[u] = "submitted" \/ stages'[u].compute.on) =>
                            \A r \in uploads[u] : memory'[r] = cached[r].n \/ stages'[u].upload.on
    BY <1>1, <1>6 DEF StagesKept
  <2>1. uploads[u] \subseteq Regions
    BY DEF IInv, TypeOK
  <2>2. CASE u = t
    BY <1>1, <1>2, <1>3, <2>1, <2>2 DEF IInv, StagesKept
  <2>3. CASE u # t
    BY <1>2, <1>3, <2>1, <2>3 DEF IInv, StagesKept
  <2> QED BY <2>2, <2>3
<1> QED BY <1>5, <1>7, <1>8, <1>9, <1>10 DEF IInv

LEMMA RunComputeKeeps ==
    ASSUME WindowAssumption, IInv, NEW t \in Requesters, RunCompute(t)
    PROVE  IInv'
<1>1. UNCHANGED <<staged, cached, clock, pc, want, pinned, uploads, serial, memory>>
  BY DEF RunCompute, cacheState
<1>2. /\ stages' \in [Requesters -> [upload : Submitted, compute : Submitted]]
      /\ ~stages'[t].compute.on /\ stages'[t].upload = stages[t].upload
      /\ \A u \in Requesters \ {t} : stages'[u] = stages[u]
  <2>1. NoStage \in Submitted /\ ~NoStage.on
    BY DEF NoStage, Submitted
  <2>2. stages[t] \in [upload : Submitted, compute : Submitted]
    BY DEF IInv, TypeOK
  <2> QED BY <2>1, <2>2 DEF RunCompute, IInv, TypeOK
<1>3. TypeOK'
  BY <1>1, <1>2 DEF IInv, TypeOK
<1>4. \A u \in Requesters : PinnedBy(u)' = PinnedBy(u) /\ stages'[u].upload = stages[u].upload
  BY <1>1, <1>2 DEF PinnedBy
<1>5. WindowsHeld' /\ FramesHeld' /\ FrameOnce' /\ OneUploader' /\ QueuedInTime' /\ Filled'
  BY <1>1, <1>4 DEF IInv, WindowsHeld, FramesHeld, FrameOnce, OneUploader, QueuedInTime, Filled, Stage
<1>6. PinsKept'
  BY <1>1, PinsSame DEF IInv
<1>7. StagesKept'
  BY <1>1, <1>2, <1>4 DEF IInv, StagesKept
<1> QED BY <1>3, <1>5, <1>6, <1>7 DEF IInv

-----------------------------------------------------------------------------
(* ~Window.                                                                *)

LEMMA UnpinKeeps ==
    ASSUME WindowAssumption, IInv, NEW t \in Requesters, Unpin(t)
    PROVE  IInv'
<1>1. /\ pc[t] = "unpin" /\ UNCHANGED <<staged, clock, serial, stages, memory>>
      /\ \A u \in Requesters \ {t} : /\ pc'[u] = pc[u] /\ want'[u] = want[u]
                                      /\ pinned'[u] = pinned[u] /\ uploads'[u] = uploads[u]
      /\ pc'[t] = "idle" /\ pinned'[t] = NoPins /\ uploads'[t] = {}
      /\ pc' \in [Requesters -> Steps] /\ want' \in [Requesters -> Clip \cup {None}]
      /\ pinned' = [u \in Requesters |-> pinned'[u]] /\ uploads' \in [Requesters -> SUBSET Regions]
  BY DEF Unpin, Goto, IInv, TypeOK, Steps
<1>2. \A u \in Requesters : PinnedBy(u) \subseteq Regions /\ uploads[u] \subseteq PinnedBy(u)
  <2>1. \A u \in Requesters : \A r \in PinnedBy(u) : r \in Regions
    BY PinFacts
  <2> QED BY <2>1 DEF IInv, WindowsHeld
<1>3. PinnedBy(t)' = {} /\ \A u \in Requesters \ {t} : PinnedBy(u)' = PinnedBy(u)
  BY <1>1 DEF PinnedBy, NoPins
<1>4. \A r \in PinnedBy(t) : cached[r].pins # 0
  BY PinFacts
<1>5. /\ cached' \in [Regions -> Entries]
      /\ \A r \in Regions : /\ cached'[r].pins = (IF r \in PinnedBy(t) THEN cached[r].pins - 1 ELSE cached[r].pins)
                            /\ cached'[r].queued = cached[r].queued /\ cached'[r].ready = cached[r].ready
                            /\ IF r \in uploads[t] /\ ~cached[r].queued
                               THEN cached'[r].n = None /\ cached'[r].failed
                               ELSE cached'[r].n = cached[r].n /\ cached'[r].failed = cached[r].failed
  <2> DEFINE less(r) == [cached[r] EXCEPT !.pins = IF r \in PinnedBy(t) THEN @ - 1 ELSE @]
  <2>1. \A r \in Regions : cached[r] \in Entries
    BY DEF IInv, TypeOK
  <2>2. ASSUME NEW r \in Regions
        PROVE  /\ less(r) \in Entries
               /\ less(r).pins = (IF r \in PinnedBy(t) THEN cached[r].pins - 1 ELSE cached[r].pins)
               /\ less(r).queued = cached[r].queued /\ less(r).ready = cached[r].ready
               /\ less(r).n = cached[r].n /\ less(r).failed = cached[r].failed
    <3>1. CASE r \in PinnedBy(t)
      <4>1. less(r) = [cached[r] EXCEPT !.pins = @ - 1]
        BY <3>1
      <4>2. less(r) \in Entries
        BY <1>4, <2>1, <3>1, <4>1, EntriesTyped
      <4> QED BY <2>1, <3>1, <4>1, <4>2 DEF Entries
    <3>2. CASE r \notin PinnedBy(t)
      <4>1. less(r) = cached[r]
        BY <2>1, <3>2 DEF Entries
      <4> QED BY <2>1, <3>2, <4>1
    <3> QED BY <3>1, <3>2
  <2>3. \A r \in Regions : cached'[r] = IF r \in uploads[t] /\ ~cached[r].queued THEN GivenUp(less(r)) ELSE less(r)
    BY DEF Unpin
  <2> HIDE DEF less
  <2>4. ASSUME NEW r \in Regions
        PROVE  /\ GivenUp(less(r)) \in Entries /\ GivenUp(less(r)).n = None /\ GivenUp(less(r)).failed
               /\ GivenUp(less(r)).pins = less(r).pins /\ GivenUp(less(r)).queued = less(r).queued
               /\ GivenUp(less(r)).ready = less(r).ready
    <3>1. less(r) \in Entries
      BY <2>2
    <3>2. GivenUp(less(r)) \in Entries
      BY <3>1, EntriesTyped DEF GivenUp
    <3> QED BY <3>1, <3>2 DEF GivenUp, Entries
  <2>5. \A r \in Regions : cached'[r] \in Entries
    BY <2>2, <2>3, <2>4
  <2> QED BY <2>2, <2>3, <2>4, <2>5 DEF Unpin
<1>6. TypeOK'
  BY <1>1, <1>5 DEF IInv, TypeOK
<1>7. WindowsHeld'
  BY <1>1, <1>3 DEF IInv, WindowsHeld
<1>8. PinsKept'
  <2> SUFFICES ASSUME NEW r \in Regions
               PROVE  IsFiniteSet(Pinners(r)') /\ cached'[r].pins = Cardinality(Pinners(r)')
    BY DEF PinsKept
  <2>1. Pinners(r)' = Pinners(r) \ {t}
    BY <1>3 DEF Pinners
  <2>2. IsFiniteSet(Pinners(r)) /\ cached[r].pins = Cardinality(Pinners(r)) /\ cached[r].pins \in Nat
    BY DEF IInv, PinsKept, TypeOK, Entries
  <2>3. IsFiniteSet(Pinners(r) \ {t})
        /\ Cardinality(Pinners(r) \ {t}) = (IF t \in Pinners(r) THEN Cardinality(Pinners(r)) - 1 ELSE Cardinality(Pinners(r)))
    BY <2>2, FS_RemoveElement
  <2> QED BY <1>5, <2>1, <2>2, <2>3 DEF Pinners
<1>9. FramesHeld'
  <2>1. \A u \in Requesters : \A f \in DOMAIN pinned[u] : pinned[u][f] \in PinnedBy(u)
    BY DEF PinnedBy
  <2>2. \A r \in Regions : cached'[r].failed => cached'[r].n = None
    BY <1>5 DEF IInv, FramesHeld
  <2>3. ASSUME NEW u \in Requesters \ {t}, NEW f \in DOMAIN pinned[u], cached'[pinned[u][f]].n # f
        PROVE  cached'[pinned[u][f]].failed /\ pinned[u][f] \notin uploads[u] /\ pc[u] \in {"write", "wait_queued", "unpin"}
    <3>1. pinned[u][f] \in Regions /\ pinned[u][f] \in PinnedBy(u)
      BY <1>2, <2>1
    <3>2. CASE pinned[u][f] \in uploads[t] /\ ~cached[pinned[u][f]].queued
      <4>1. pinned[u][f] \notin uploads[u]
        BY <3>2 DEF IInv, OneUploader
      <4>2. pc[u] \notin Late /\ pc[u] \notin {"idle", "window"} /\ pc[u] \in Steps
        BY <3>1, <3>2, <4>1, PinFacts DEF IInv, QueuedInTime, TypeOK
      <4> QED BY <1>5, <3>1, <3>2, <4>1, <4>2 DEF Late, Steps
    <3>3. CASE ~(pinned[u][f] \in uploads[t] /\ ~cached[pinned[u][f]].queued)
      BY <1>5, <2>3, <3>1, <3>3 DEF IInv, FramesHeld
    <3> QED BY <3>2, <3>3
  <2>4. DOMAIN pinned'[t] = {}
    BY <1>1 DEF NoPins
  <2> QED BY <1>1, <2>2, <2>3, <2>4 DEF FramesHeld
<1>10. FrameOnce'
  BY <1>5 DEF IInv, FrameOnce
<1>11. OneUploader'
  BY <1>1 DEF IInv, OneUploader
<1>12. QueuedInTime'
  <2> SUFFICES ASSUME NEW u \in Requesters
               PROVE  /\ staged /\ pc'[u] \in {"write", "wait_queued", "slot", "permit", "record", "submitted"} =>
                            \A r \in uploads'[u] : ~cached'[r].queued
                      /\ ~staged /\ pc'[u] \in {"wait_queued"} \cup Late => \A r \in uploads'[u] : cached'[r].queued
                      /\ pc'[u] \in Late => \A r \in PinnedBy(u)' : cached'[r].queued \/ r \in uploads'[u]
    BY <1>1 DEF QueuedInTime
  <2>1. u = t \/ \A r \in PinnedBy(u) \cup uploads[u] : cached'[r].queued = cached[r].queued
    BY <1>2, <1>5
  <2> QED BY <1>1, <1>3, <2>1 DEF IInv, QueuedInTime, Late
<1>13. Filled'
  <2> SUFFICES ASSUME NEW r \in Regions, cached'[r].queued, memory[r] # cached'[r].n
               PROVE  \E u \in Requesters : r \in uploads'[u] /\ stages[u].upload.on /\ Stage(u, "upload") \in cached'[r].ready
    BY <1>1 DEF Filled, Stage
  <2>1. cached[r].queued /\ memory[r] # cached[r].n
    BY <1>5
  <2>2. PICK v \in Requesters : r \in uploads[v] /\ stages[v].upload.on /\ Stage(v, "upload") \in cached[r].ready
    BY <2>1 DEF IInv, Filled
  <2>3. v # t
    BY <1>1, <2>2 DEF IInv, StagesKept
  <2> QED BY <1>1, <1>5, <2>2, <2>3
<1>14. StagesKept'
  <2> SUFFICES ASSUME NEW u \in Requesters
               PROVE  /\ stages[u].upload.on => staged /\ pc'[u] \in {"submitted", "settle"}
                      /\ stages[u].compute.on =>
                            /\ pc'[u] \in {"submitted", "settle"}
                            /\ \A r \in PinnedBy(u)' \ uploads'[u] : cached'[r].ready \subseteq stages[u].compute.waits
                      /\ staged /\ (pc'[u] = "submitted" \/ stages[u].compute.on) =>
                            \A r \in uploads'[u] : memory[r] = cached'[r].n \/ stages[u].upload.on
    BY <1>1 DEF StagesKept
  <2>1. u = t => ~stages[u].upload.on /\ ~stages[u].compute.on
    BY <1>1 DEF IInv, StagesKept
  <2>2. u # t => \A r \in uploads[u] : r \notin uploads[t]
    BY DEF IInv, OneUploader
  <2>3. uploads[u] \subseteq Regions /\ PinnedBy(u) \subseteq Regions
    BY <1>2
  <2>4. CASE u = t
    BY <1>1, <2>1, <2>4
  <2>5. CASE u # t
    BY <1>1, <1>3, <1>5, <2>2, <2>3, <2>5 DEF IInv, StagesKept
  <2> QED BY <2>4, <2>5
<1> QED BY <1>6, <1>7, <1>8, <1>9, <1>10, <1>11, <1>12, <1>13, <1>14 DEF IInv

-----------------------------------------------------------------------------
(* Window::Window.                                                         *)

\* Where the frames of window n are once the missing ones were given regions.
PlaceOf(n, given) == [f \in WindowOf(n) |-> IF f \in DOMAIN given THEN given[f] ELSE Holding(f)]

\* Each frame has a region of its own: the one it was in, or a free one.
LEMMA PlaceFacts ==
    ASSUME WindowAssumption, IInv, NEW n \in Clip, NEW given \in [Missing(n) -> FreeRegions(n)],
           UsedLongestAgo(given, FreeRegions(n)), NEW place, place = PlaceOf(n, given)
    PROVE  /\ place \in [WindowOf(n) -> Regions]
           /\ \A f \in WindowOf(n) :
                 /\ f \in Missing(n) => place[f] = given[f] /\ cached[place[f]].pins = 0
                 /\ f \notin Missing(n) => cached[place[f]].n = f
           /\ \A f, g \in WindowOf(n) : place[f] = place[g] => f = g
           /\ {given[f] : f \in DOMAIN given} = {place[f] : f \in Missing(n)}
<1>1. Missing(n) \subseteq WindowOf(n) /\ DOMAIN given = Missing(n) /\ WindowOf(n) \subseteq Nat
  BY WindowFacts DEF Missing
<1>2. \A f \in Missing(n) : given[f] \in FreeRegions(n)
  OBVIOUS
<1>3. \A r \in FreeRegions(n) : r \in Regions /\ cached[r].pins = 0 /\ cached[r].n \notin WindowOf(n)
  BY DEF FreeRegions, Found
<1>4. \A f \in WindowOf(n) \ Missing(n) : Holding(f) \in Regions /\ cached[Holding(f)].n = f
  BY DEF Missing, Holding
<1>5. \A f \in WindowOf(n) : place[f] = IF f \in Missing(n) THEN given[f] ELSE Holding(f)
  BY <1>1 DEF PlaceOf
<1>6. place \in [WindowOf(n) -> Regions]
  <2>1. \A f \in WindowOf(n) : place[f] \in Regions
    BY <1>2, <1>3, <1>4, <1>5
  <2> QED BY <2>1 DEF PlaceOf
<1>7. \A f, g \in Missing(n) : f < g => given[f] # given[g]
  <2>1. \A r \in Regions : cached[r].used \in Nat /\ r \in Nat
    BY WindowFacts DEF IInv, TypeOK, Entries
  <2>2. \A r \in Regions : ~Before(r, r)
    BY <2>1 DEF Before
  <2>3. \A f, g \in Missing(n) : f < g => Before(given[f], given[g])
    BY <1>1 DEF UsedLongestAgo
  <2> QED BY <1>2, <1>3, <2>2, <2>3
<1>8. ASSUME NEW f \in WindowOf(n), NEW g \in WindowOf(n), place[f] = place[g]
      PROVE  f = g
  <2>1. CASE f \in Missing(n) /\ g \in Missing(n)
    BY <1>1, <1>5, <1>7, <1>8, <2>1
  <2>2. CASE f \notin Missing(n) /\ g \notin Missing(n)
    BY <1>4, <1>5, <1>8, <2>2
  <2>3. CASE ~(f \in Missing(n) <=> g \in Missing(n))
    BY <1>2, <1>3, <1>4, <1>5, <1>8, <2>3
  <2> QED BY <2>1, <2>2, <2>3
<1>9. {given[f] : f \in DOMAIN given} = {place[f] : f \in Missing(n)}
  BY <1>1, <1>5
<1> QED BY <1>2, <1>3, <1>4, <1>5, <1>6, <1>8, <1>9

\* What Pin makes of the entries.
LEMMA PinnedEntries ==
    ASSUME WindowAssumption, IInv, NEW t \in Requesters, NEW n \in Clip,
           NEW given \in [Missing(n) -> FreeRegions(n)], UsedLongestAgo(given, FreeRegions(n)),
           NEW place, place = PlaceOf(n, given), Pin(t, place, given)
    PROVE  /\ cached' \in [Regions -> Entries] /\ clock' \in Nat
           /\ \A f \in WindowOf(n) :
                 /\ cached'[place[f]].pins = cached[place[f]].pins + 1 /\ cached'[place[f]].n = f
                 /\ f \in Missing(n) => ~cached'[place[f]].queued /\ ~cached'[place[f]].failed
                 /\ f \notin Missing(n) => /\ cached'[place[f]].queued = cached[place[f]].queued
                                           /\ cached'[place[f]].ready = cached[place[f]].ready
                                           /\ cached'[place[f]].failed = cached[place[f]].failed
           /\ \A r \in Regions : r \notin {place[f] : f \in WindowOf(n)} => cached'[r] = cached[r]
<1> DEFINE at == {place[f] : f \in WindowOf(n)}
           frame(r) == CHOOSE f \in WindowOf(n) : place[f] = r
           entry(r) == IF frame(r) \in Missing(n) THEN Given(cached[r], frame(r)) ELSE cached[r]
           stamp(r) == clock + Cardinality({f \in WindowOf(n) : f <= frame(r)})
<1>1. DOMAIN place = WindowOf(n) /\ DOMAIN given = Missing(n) /\ place \in [WindowOf(n) -> Regions]
  BY PlaceFacts
<1>2. /\ \A r \in Regions : cached'[r] = IF r \in at THEN Pinned(entry(r), stamp(r)) ELSE cached[r]
      /\ cached' = [r \in Regions |-> cached'[r]]
      /\ clock' = clock + Cardinality(WindowOf(n))
  BY <1>1 DEF Pin
<1>3. \A f \in WindowOf(n) : frame(place[f]) = f
  BY PlaceFacts
<1>4. \A f \in WindowOf(n) : place[f] \in Regions /\ place[f] \in at
  BY <1>1
<1>5. clock' \in Nat /\ \A r \in Regions : stamp(r) \in Nat
  <2>1. IsFiniteSet(WindowOf(n)) /\ clock \in Nat
    BY WindowFacts DEF IInv, TypeOK
  <2>2. \A r \in Regions : IsFiniteSet({f \in WindowOf(n) : f <= frame(r)})
    BY <2>1, FS_Subset
  <2>3. Cardinality(WindowOf(n)) \in Nat /\ \A r \in Regions : Cardinality({f \in WindowOf(n) : f <= frame(r)}) \in Nat
    BY <2>1, <2>2, FS_CardinalityType
  <2> QED BY <1>2, <2>1, <2>3
<1>6. \A r \in Regions : cached[r] \in Entries
  BY DEF IInv, TypeOK
<1> HIDE DEF frame
<1>7. ASSUME NEW f \in WindowOf(n)
      PROVE  /\ entry(place[f]) \in Entries /\ entry(place[f]).pins = cached[place[f]].pins
             /\ entry(place[f]).n = f
             /\ f \in Missing(n) => ~entry(place[f]).queued /\ ~entry(place[f]).failed
             /\ f \notin Missing(n) => entry(place[f]) = cached[place[f]]
  <2>1. f \in Clip /\ cached[place[f]] \in Entries
    BY <1>4, <1>6, WindowFacts
  <2>2. entry(place[f]) = IF f \in Missing(n) THEN Given(cached[place[f]], f) ELSE cached[place[f]]
    BY <1>3
  <2>3. f \notin Missing(n) => cached[place[f]].n = f
    BY PlaceFacts
  <2>4. Given(cached[place[f]], f) \in Entries
    BY <2>1, EntriesTyped DEF Given
  <2> HIDE DEF entry
  <2> QED BY <2>1, <2>2, <2>3, <2>4 DEF Given, Entries
<1> HIDE DEF entry, stamp
<1>8. ASSUME NEW f \in WindowOf(n)
      PROVE  /\ cached'[place[f]] \in Entries /\ cached'[place[f]].pins = entry(place[f]).pins + 1
             /\ cached'[place[f]].n = entry(place[f]).n /\ cached'[place[f]].queued = entry(place[f]).queued
             /\ cached'[place[f]].failed = entry(place[f]).failed /\ cached'[place[f]].ready = entry(place[f]).ready
  <2>1. PICK e \in Entries : e = entry(place[f])
    BY <1>7
  <2>2. PICK s \in Nat : s = stamp(place[f])
    BY <1>4, <1>5
  <2>3. cached'[place[f]] = [e EXCEPT !.pins = @ + 1, !.used = s]
    BY <1>2, <1>4, <2>1, <2>2 DEF Pinned
  <2>4. cached'[place[f]] \in Entries
    BY <2>3, EntriesTyped
  <2> QED BY <2>1, <2>3, <2>4 DEF Entries
<1>9. \A r \in Regions : r \notin at => cached'[r] = cached[r]
  BY <1>2
<1>10. \A r \in Regions : cached'[r] \in Entries
  BY <1>6, <1>8, <1>9
<1> QED BY <1>2, <1>5, <1>7, <1>8, <1>9, <1>10

LEMMA PinWindowKeeps ==
    ASSUME WindowAssumption, IInv, NEW t \in Requesters, PinWindow(t)
    PROVE  IInv'
<1> DEFINE n == want[t]
<1>1. /\ pc[t] = "window" /\ n \in Clip /\ pinned[t] = NoPins /\ uploads[t] = {}
      /\ UNCHANGED <<staged, want, serial, stages, memory>>
      /\ pc' \in [Requesters -> Steps] /\ pc'[t] = "write" /\ \A u \in Requesters \ {t} : pc'[u] = pc[u]
  BY DEF PinWindow, Goto, IInv, WindowsHeld, TypeOK, Steps
<1>2. PICK given \in [Missing(n) -> FreeRegions(n)] :
          UsedLongestAgo(given, FreeRegions(n)) /\ Pin(t, PlaceOf(n, given), given)
  BY DEF PinWindow, PlaceOf
<1>3. PICK place : place = PlaceOf(n, given)
  OBVIOUS
<1> DEFINE at == {place[f] : f \in WindowOf(n)}
           mine == {place[f] : f \in Missing(n)}
<1>4. /\ place \in [WindowOf(n) -> Regions] /\ Missing(n) \subseteq WindowOf(n)
      /\ \A f, g \in WindowOf(n) : place[f] = place[g] => f = g
      /\ \A f \in Missing(n) : cached[place[f]].pins = 0
      /\ \A f \in WindowOf(n) \ Missing(n) : cached[place[f]].n = f
      /\ {given[f] : f \in DOMAIN given} = mine
  BY <1>1, <1>2, <1>3, PlaceFacts DEF Missing
<1>5. /\ cached' \in [Regions -> Entries] /\ clock' \in Nat
      /\ \A f \in WindowOf(n) :
            /\ cached'[place[f]].pins = cached[place[f]].pins + 1 /\ cached'[place[f]].n = f
            /\ f \in Missing(n) => ~cached'[place[f]].queued /\ ~cached'[place[f]].failed
            /\ f \notin Missing(n) => /\ cached'[place[f]].queued = cached[place[f]].queued
                                      /\ cached'[place[f]].ready = cached[place[f]].ready
                                      /\ cached'[place[f]].failed = cached[place[f]].failed
      /\ \A r \in Regions : r \notin at => cached'[r] = cached[r]
  BY <1>1, <1>2, <1>3, PinnedEntries
<1>6. /\ pinned'[t] = place /\ uploads'[t] = mine
      /\ \A u \in Requesters \ {t} : pinned'[u] = pinned[u] /\ uploads'[u] = uploads[u]
      /\ pinned' = [u \in Requesters |-> pinned'[u]]
      /\ uploads' \in [Requesters -> SUBSET Regions]
  <2>1. mine \subseteq Regions
    BY <1>4
  <2>2. pinned' = [pinned EXCEPT ![t] = place] /\ uploads' = [uploads EXCEPT ![t] = mine]
    BY <1>2, <1>3, <1>4 DEF Pin
  <2> HIDE DEF mine
  <2> QED BY <2>1, <2>2 DEF IInv, TypeOK
<1>7. /\ PinnedBy(t) = {} /\ PinnedBy(t)' = at /\ mine \subseteq at /\ at \subseteq Regions
      /\ \A u \in Requesters \ {t} : PinnedBy(u)' = PinnedBy(u)
  BY <1>1, <1>4, <1>6 DEF PinnedBy, NoPins
<1>8. \A u \in Requesters : PinnedBy(u) \subseteq Regions /\ uploads[u] \subseteq PinnedBy(u)
  <2>1. \A u \in Requesters : \A r \in PinnedBy(u) : r \in Regions
    BY PinFacts
  <2> QED BY <2>1 DEF IInv, WindowsHeld
<1>9. \A u \in Requesters : PinnedBy(u) \cap mine = {}
  BY <1>4, PinFacts
<1> HIDE DEF n
\* What the other requests pin keeps its frame and its marks.
<1>10. \A r \in Regions \ mine : /\ cached'[r].n = cached[r].n /\ cached'[r].queued = cached[r].queued
                                 /\ cached'[r].ready = cached[r].ready /\ cached'[r].failed = cached[r].failed
  BY <1>4, <1>5
<1>11. \A r \in mine : ~cached'[r].queued /\ ~cached'[r].failed
  BY <1>4, <1>5
<1>12. TypeOK'
  BY <1>1, <1>5, <1>6 DEF IInv, TypeOK
<1>13. WindowsHeld'
  BY <1>1, <1>4, <1>6, <1>7 DEF IInv, WindowsHeld, n
<1>14. PinsKept'
  <2> SUFFICES ASSUME NEW r \in Regions
               PROVE  IsFiniteSet(Pinners(r)') /\ cached'[r].pins = Cardinality(Pinners(r)')
    BY DEF PinsKept
  <2>1. Pinners(r)' = (IF r \in at THEN Pinners(r) \cup {t} ELSE Pinners(r)) /\ t \notin Pinners(r)
    BY <1>7 DEF Pinners
  <2>2. IsFiniteSet(Pinners(r)) /\ cached[r].pins = Cardinality(Pinners(r)) /\ cached[r].pins \in Nat
    BY DEF IInv, PinsKept, TypeOK, Entries
  <2>3. IsFiniteSet(Pinners(r) \cup {t}) /\ Cardinality(Pinners(r) \cup {t}) = Cardinality(Pinners(r)) + 1
    BY <2>1, <2>2, FS_AddElement
  <2>4. cached'[r].pins = IF r \in at THEN cached[r].pins + 1 ELSE cached[r].pins
    BY <1>5
  <2> QED BY <2>1, <2>2, <2>3, <2>4
<1>15. FramesHeld'
  <2>1. \A r \in Regions : cached'[r].failed => cached'[r].n = None
    BY <1>10, <1>11 DEF IInv, FramesHeld
  <2>2. ASSUME NEW u \in Requesters \ {t}, NEW f \in DOMAIN pinned[u]
        PROVE  \/ cached'[pinned[u][f]].n = f
               \/ cached'[pinned[u][f]].failed /\ pinned[u][f] \notin uploads[u] /\ pc[u] \in {"write", "wait_queued", "unpin"}
    <3>1. pinned[u][f] \in PinnedBy(u)
      BY DEF PinnedBy
    <3>2. pinned[u][f] \in Regions \ mine
      BY <1>8, <1>9, <3>1
    <3> QED BY <1>10, <3>2 DEF IInv, FramesHeld
  <2>3. \A f \in DOMAIN place : cached'[place[f]].n = f
    BY <1>4, <1>5
  <2> QED BY <1>1, <1>6, <2>1, <2>2, <2>3 DEF FramesHeld
<1>16. FrameOnce'
  <2> SUFFICES ASSUME NEW r \in Regions, NEW s \in Regions, cached'[r].n # None, cached'[r].n = cached'[s].n
               PROVE  r = s
    BY DEF FrameOnce
  <2>1. ASSUME NEW a \in Regions, NEW b \in Regions, a \in mine, b \notin mine PROVE cached'[a].n # cached'[b].n
    <3>1. cached'[a].n \in Missing(n) /\ cached'[b].n = cached[b].n
      BY <1>4, <1>5, <1>10, <2>1
    <3> QED BY <3>1 DEF Missing
  <2>2. r \in mine /\ s \in mine => r = s
    BY <1>4, <1>5
  <2>3. r \notin mine /\ s \notin mine => r = s
    BY <1>10 DEF IInv, FrameOnce
  <2> QED BY <2>1, <2>2, <2>3
<1>17. OneUploader'
  BY <1>6, <1>8, <1>9 DEF IInv, OneUploader
<1>18. QueuedInTime'
  <2> SUFFICES ASSUME NEW u \in Requesters
               PROVE  /\ staged /\ pc'[u] \in {"write", "wait_queued", "slot", "permit", "record", "submitted"} =>
                            \A r \in uploads'[u] : ~cached'[r].queued
                      /\ ~staged /\ pc'[u] \in {"wait_queued"} \cup Late => \A r \in uploads'[u] : cached'[r].queued
                      /\ pc'[u] \in Late => \A r \in PinnedBy(u)' : cached'[r].queued \/ r \in uploads'[u]
    BY <1>1 DEF QueuedInTime
  <2>1. CASE u = t
    BY <1>1, <1>6, <1>11, <2>1 DEF Late
  <2>2. CASE u # t
    <3>1. \A r \in PinnedBy(u) : cached'[r].queued = cached[r].queued
      BY <1>8, <1>9, <1>10
    <3> QED BY <1>1, <1>6, <1>7, <1>8, <2>2, <3>1 DEF IInv, QueuedInTime
  <2> QED BY <2>1, <2>2
<1>19. Filled'
  <2> SUFFICES ASSUME NEW r \in Regions, cached'[r].queued, memory[r] # cached'[r].n
               PROVE  \E u \in Requesters : r \in uploads'[u] /\ stages[u].upload.on /\ Stage(u, "upload") \in cached'[r].ready
    BY <1>1 DEF Filled, Stage
  <2>1. r \notin mine /\ cached[r].queued /\ memory[r] # cached[r].n
    BY <1>10, <1>11
  <2>2. PICK v \in Requesters : r \in uploads[v] /\ stages[v].upload.on /\ Stage(v, "upload") \in cached[r].ready
    BY <2>1 DEF IInv, Filled
  <2> QED BY <1>1, <1>6, <1>10, <2>1, <2>2
<1>20. StagesKept'
  <2> SUFFICES ASSUME NEW u \in Requesters
               PROVE  /\ stages[u].upload.on => staged /\ pc'[u] \in {"submitted", "settle"}
                      /\ stages[u].compute.on =>
                            /\ pc'[u] \in {"submitted", "settle"}
                            /\ \A r \in PinnedBy(u)' \ uploads'[u] : cached'[r].ready \subseteq stages[u].compute.waits
                      /\ staged /\ (pc'[u] = "submitted" \/ stages[u].compute.on) =>
                            \A r \in uploads'[u] : memory[r] = cached'[r].n \/ stages[u].upload.on
    BY <1>1 DEF StagesKept
  <2>1. CASE u = t
    <3>1. ~stages[t].upload.on /\ ~stages[t].compute.on
      BY <1>1 DEF IInv, StagesKept
    <3> QED BY <1>1, <2>1, <3>1
  <2>2. CASE u # t
    <3>1. \A r \in PinnedBy(u) : cached'[r].ready = cached[r].ready /\ cached'[r].n = cached[r].n
      BY <1>8, <1>9, <1>10
    <3> QED BY <1>1, <1>6, <1>7, <1>8, <2>2, <3>1 DEF IInv, StagesKept
  <2> QED BY <2>1, <2>2
<1> QED BY <1>12, <1>13, <1>14, <1>15, <1>16, <1>17, <1>18, <1>19, <1>20 DEF IInv

-----------------------------------------------------------------------------
(* Every step.                                                             *)

LEMMA WindowStart ==
    ASSUME WindowAssumption, WindowInit
    PROVE  IInv
<1>1. \A t \in Requesters : PinnedBy(t) = {} /\ pinned[t] = NoPins /\ DOMAIN pinned[t] = {}
  BY DEF WindowInit, PinnedBy, NoPins
<1>2. TypeOK
  BY DEF WindowInit, TypeOK, Entries, Steps, Submitted, NoStage, None, StageNames
<1>3. PinsKept
  <2>1. \A r \in Regions : Pinners(r) = {}
    BY <1>1 DEF Pinners
  <2> QED BY <2>1, FS_EmptySet DEF PinsKept, WindowInit
<1>4. WindowsHeld /\ FramesHeld /\ FrameOnce /\ OneUploader
  BY <1>1 DEF WindowInit, WindowsHeld, FramesHeld, FrameOnce, OneUploader
<1>5. QueuedInTime /\ Filled /\ StagesKept
  BY <1>1 DEF WindowInit, QueuedInTime, Filled, StagesKept, NoStage, Late
<1> QED BY <1>2, <1>3, <1>4, <1>5 DEF IInv

LEMMA OwnStepKeeps ==
    ASSUME WindowAssumption, IInv, NEW t \in Requesters, OwnSteps(t) \/ Throw(t)
    PROVE  IInv'
<1> USE DEF Moves, Goto, cacheState
<1>1. CASE PinWindow(t)
  BY <1>1, PinWindowKeeps
<1>2. CASE WriteFrames(t)
  <2>1. CASE ~staged
    BY <1>2, <2>1, WriteKeeps
  <2>2. CASE staged
    <3>1. Moves(t, "wait_queued") /\ pc[t] = "write"
      BY <1>2, <2>2 DEF WriteFrames
    <3> QED BY <2>2, <3>1, MoveKeeps DEF Steps
  <2> QED BY <2>1, <2>2
<1>3. CASE WaitQueued(t)
  <2>1. pc[t] = "wait_queued" /\ (SomeFailed(t) \/ AllQueued(t)) /\ Moves(t, IF SomeFailed(t) THEN "unpin" ELSE "slot")
    BY <1>3 DEF WaitQueued
  <2>2. ~stages[t].upload.on /\ ~stages[t].compute.on
    BY <2>1 DEF IInv, StagesKept
  <2>3. CASE SomeFailed(t)
    BY <2>1, <2>2, <2>3, MoveKeeps DEF Steps
  <2>4. CASE ~SomeFailed(t)
    BY <2>1, <2>4, MoveKeeps DEF Steps
  <2> QED BY <2>3, <2>4
<1>4. CASE TakeSlot(t)
  <2>1. Moves(t, "permit") /\ pc[t] = "slot"
    BY <1>4 DEF TakeSlot
  <2> QED BY <2>1, MoveKeeps DEF Steps
<1>5. CASE TakePermit(t)
  <2>1. Moves(t, "record") /\ pc[t] = "permit"
    BY <1>5 DEF TakePermit
  <2> QED BY <2>1, MoveKeeps DEF Steps
<1>6. CASE SubmitStages(t)
  BY <1>6, SubmitKeeps
<1>7. CASE MarkSubmitted(t)
  BY <1>7, MarkKeeps
<1>8. CASE ReturnSlot(t)
  <2>1. Moves(t, "unpin") /\ ~stages[t].upload.on /\ ~stages[t].compute.on
    BY <1>8 DEF ReturnSlot, DeviceDone
  <2> QED BY <2>1, MoveKeeps DEF Steps
<1>9. CASE Unpin(t)
  BY <1>9, UnpinKeeps
<1>10. CASE Throw(t) /\ pc[t] = "write"
  <2>1. Moves(t, "unpin") /\ ~stages[t].upload.on /\ ~stages[t].compute.on
    BY <1>10 DEF Throw, IInv, StagesKept
  <2> QED BY <2>1, MoveKeeps DEF Steps
<1>11. CASE Throw(t) /\ pc[t] = "record"
  <2>1. Moves(t, "settle")
    BY <1>11 DEF Throw
  <2> QED BY <1>11, <2>1, MoveKeeps DEF Steps
<1> HIDE DEF Moves, Goto, cacheState
<1> QED BY <1>1, <1>2, <1>3, <1>4, <1>5, <1>6, <1>7, <1>8, <1>9, <1>10, <1>11 DEF OwnSteps, Throw

LEMMA WindowStep ==
    ASSUME WindowAssumption, IInv, [WindowNext]_windowVars
    PROVE  IInv'
<1>1. CASE WindowNext
  <2>1. PICK t \in Requesters :
            \/ \E n \in Clip : Ask(t, n)
            \/ OwnSteps(t) \/ Throw(t) \/ SubmitThrows(t) \/ RunUpload(t) \/ RunCompute(t)
    BY <1>1 DEF WindowNext
  <2> QED BY <2>1, AskKeeps, OwnStepKeeps, SubmitKeeps, RunUploadKeeps, RunComputeKeeps
<1>2. CASE UNCHANGED windowVars
  <2> USE <1>2 DEF windowVars, cacheState
  <2>1. \A t \in Requesters : PinnedBy(t)' = PinnedBy(t)
    BY DEF PinnedBy
  <2>2. PinsKept'
    BY PinsSame DEF IInv
  <2>3. TypeOK' /\ WindowsHeld' /\ FramesHeld' /\ FrameOnce' /\ OneUploader'
    BY <2>1 DEF IInv, TypeOK, WindowsHeld, FramesHeld, FrameOnce, OneUploader
  <2>4. QueuedInTime' /\ Filled' /\ StagesKept'
    BY <2>1 DEF IInv, QueuedInTime, Filled, StagesKept, Stage
  <2> QED BY <2>2, <2>3, <2>4 DEF IInv
<1> QED BY <1>1, <1>2

\* What a kernel reads: a region that is not filled yet has its upload stage
\* among those the compute stage waits for.
LEMMA WindowRead ==
    ASSUME IInv
    PROVE  ReadsItsWindow
<1> SUFFICES ASSUME NEW t \in Requesters, ComputeReady(t), NEW f \in DOMAIN pinned[t]
             PROVE  memory[pinned[t][f]] = f
  BY DEF ReadsItsWindow
<1> DEFINE r == pinned[t][f]
<1>1. /\ stages[t].compute.on /\ ~stages[t].upload.on
      /\ \A s \in stages[t].compute.waits : StageDone(s)
  BY DEF ComputeReady, StageReady
<1>2. r \in PinnedBy(t) /\ r \in Regions /\ pc[t] \in {"submitted", "settle"}
  <2>1. r \in PinnedBy(t)
    BY DEF PinnedBy
  <2> QED BY <1>1, <2>1, PinFacts DEF IInv, StagesKept
<1>3. cached[r].n = f
  BY <1>2 DEF IInv, FramesHeld
<1> HIDE DEF r
<1>4. CASE r \in uploads[t] /\ staged
  BY <1>1, <1>3, <1>4 DEF IInv, StagesKept, r
<1>5. CASE r \in uploads[t] /\ ~staged
  <2>1. cached[r].queued
    BY <1>2, <1>5 DEF IInv, QueuedInTime, Late
  <2>2. \A u \in Requesters : ~stages[u].upload.on
    BY <1>5 DEF IInv, StagesKept
  <2> QED BY <1>2, <1>3, <2>1, <2>2 DEF IInv, Filled, r
<1>6. CASE r \notin uploads[t]
  <2>1. cached[r].queued
    BY <1>2, <1>6 DEF IInv, QueuedInTime, Late
  <2>2. cached[r].ready \subseteq stages[t].compute.waits
    BY <1>1, <1>2, <1>6 DEF IInv, StagesKept
  <2>3. ASSUME NEW u \in Requesters, stages[u].upload.on, Stage(u, "upload") \in cached[r].ready
        PROVE  FALSE
    <3>1. StageDone(Stage(u, "upload"))
      BY <1>1, <2>2, <2>3
    <3>2. serial[u] \in Nat /\ stages[u] \in [upload : Submitted, compute : Submitted]
      BY DEF IInv, TypeOK
    <3> QED BY <2>3, <3>1, <3>2 DEF StageDone, Stage
  <2> QED BY <1>2, <1>3, <2>1, <2>3 DEF IInv, Filled, r
<1> QED BY <1>4, <1>5, <1>6

\* A frame's kernels read the frames of its window, no frame is in two regions
\* and pins are counted, whichever uploads are shared, fail or come late
\* (Window, wait_queued, mark_queued and ~Window of window_cache.hpp).
THEOREM WindowsKeptHolds ==
    ASSUME WindowAssumption
    PROVE  WindowSpec => []WindowsKept
<1>1. IInv => WindowsKept
  BY WindowRead DEF IInv, PinsKept, Pinners, PinsCounted, WindowsKept
<1>2. IInv /\ [WindowNext]_windowVars => IInv'
  BY WindowStep
<1>3. WindowInit => IInv
  BY WindowStart
<1> QED BY <1>1, <1>2, <1>3, PTL DEF WindowSpec

-----------------------------------------------------------------------------
(* Requests never wait for each other in a circle.                         *)

Kinds == {"upload", "compute"}

\* A slot and a permit are with a request between taking and returning them.
HoldersKept ==
    /\ \A t \in leases : t \in Requesters /\ pc[t] \in {"permit", "record", "submitted", "settle"}
    /\ \A t \in permits : t \in Requesters /\ pc[t] \in {"record", "submitted", "settle", "unpin"}

\* A stage that a region is marked with: the last one of its request is
\* submitted.
Marked(s) == s.serial <= serial[s.by] /\ (s.serial = serial[s.by] => pc[s.by] \in {"settle", "unpin", "idle"})
Marks(r) == cached[r].ready \cup cached[r].uses

StagesMarked ==
    /\ \A r \in Regions : \A s \in Marks(r) : Marked(s)
    /\ \A t \in Requesters, k \in Kinds : stages[t][k].on => \A s \in stages[t][k].waits : Marked(s)

Ranking(rank, last) == last \in Nat /\ rank \in [Requesters -> Nat] /\ \A t \in Requesters : rank[t] <= last

\* On the device a stage waits for stages of requests before its own.
DeviceInRank(rank) ==
    \A t \in Requesters, k \in Kinds : stages[t][k].on =>
        \A s \in stages[t][k].waits : StageDone(s) \/ rank[s.by] < rank[t]
DeviceOrder == \E last \in Nat, rank \in [Requesters -> Nat] : Ranking(rank, last) /\ DeviceInRank(rank)

\* A request waits for the uploads of requests that pinned before it.
UploadsInRank(rank) ==
    \A t \in Requesters : \A r \in PinnedBy(t) \ uploads[t] : ~cached[r].queued /\ ~cached[r].failed =>
        \E u \in Requesters : r \in uploads[u] /\ rank[u] < rank[t]
UploadOrder == \E last \in Nat, rank \in [Requesters -> Nat] : Ranking(rank, last) /\ UploadsInRank(rank)

\* A frame that is not queued is about to be uploaded by a request.
InFlight == \A r \in Regions : cached[r].n # None /\ ~cached[r].queued => \E u \in Requesters : r \in uploads[u]

RInv == HoldersKept /\ StagesMarked /\ DeviceOrder /\ UploadOrder /\ InFlight

LEMMA StageFacts ==
    ASSUME IInv
    PROVE  /\ \A r \in Regions : Marks(r) \subseteq StageNames
           /\ \A t \in Requesters, k \in Kinds :
                 /\ stages[t][k].on \in BOOLEAN
                 /\ stages[t][k].on => stages[t][k].waits \subseteq StageNames
           /\ \A s \in StageNames : s.by \in Requesters /\ s.serial \in Nat /\ s.stage \in Kinds
<1>1. \A r \in Regions : Marks(r) \subseteq StageNames
  BY DEF IInv, TypeOK, Entries, Marks
<1>2. ASSUME NEW t \in Requesters, NEW k \in Kinds
      PROVE  stages[t][k].on \in BOOLEAN /\ (stages[t][k].on => stages[t][k].waits \subseteq StageNames)
  <2>1. stages[t] \in [upload : Submitted, compute : Submitted]
    BY DEF IInv, TypeOK
  <2>2. stages[t][k] \in Submitted
    BY <2>1 DEF Kinds
  <2>3. CASE stages[t][k] = NoStage
    BY <2>3 DEF NoStage
  <2>4. CASE stages[t][k] \in [on : {TRUE}, waits : SUBSET StageNames]
    <3> HIDE DEF StageNames
    <3> QED BY <2>4
  <2> QED BY <2>2, <2>3, <2>4 DEF Submitted
<1> QED BY <1>1, <1>2 DEF StageNames, Kinds

\* Request t goes on, not back to its start, and not into the device.
GoesOn(t) ==
    /\ serial' = serial /\ \A u \in Requesters \ {t} : pc'[u] = pc[u]
    /\ pc[t] \in {"settle", "unpin", "idle"} => pc'[t] \in {"settle", "unpin", "idle"}
NoNewStages == \A u \in Requesters, k \in Kinds : stages'[u][k].on => stages'[u][k] = stages[u][k]
MarksFrom(t) ==
    \A r \in Regions : Marks(r)' \subseteq Marks(r) \cup (IF pc'[t] = "settle" THEN {Stage(t, "upload"), Stage(t, "compute")} ELSE {})

LEMMA StillMarked ==
    ASSUME IInv, NEW t \in Requesters, GoesOn(t), NEW s \in StageNames, Marked(s)
    PROVE  Marked(s)'
<1>1. s.by \in Requesters
  BY StageFacts
<1> QED BY <1>1 DEF GoesOn, Marked

LEMMA DeviceKeeps ==
    ASSUME IInv, StagesMarked, DeviceOrder, NEW t \in Requesters, GoesOn(t), NoNewStages, MarksFrom(t)
    PROVE  StagesMarked' /\ DeviceOrder'
<1>1. ASSUME NEW r \in Regions, NEW s \in Marks(r)'
      PROVE  Marked(s)'
  <2>1. CASE s \in Marks(r)
    BY <2>1, StillMarked, StageFacts DEF StagesMarked
  <2>2. CASE s \in {Stage(t, "upload"), Stage(t, "compute")} /\ pc'[t] = "settle"
    <3>1. s.by = t /\ s.serial = serial[t] /\ serial[t] \in Nat
      BY <2>2 DEF Stage, IInv, TypeOK
    <3> QED BY <2>2, <3>1 DEF Marked, GoesOn
  <2> QED BY <2>1, <2>2 DEF MarksFrom
<1>2. ASSUME NEW u \in Requesters, NEW k \in Kinds, stages'[u][k].on, NEW s \in stages'[u][k].waits
      PROVE  /\ stages[u][k].on /\ s \in stages[u][k].waits /\ s \in StageNames
             /\ Marked(s)' /\ (StageDone(s) => StageDone(s)')
  <2>1. stages[u][k].on /\ s \in stages[u][k].waits
    BY <1>2 DEF NoNewStages
  <2>2. s \in StageNames /\ s.by \in Requesters /\ s.stage \in Kinds
    BY <2>1, StageFacts
  <2>3. Marked(s)'
    BY <2>1, <2>2, StillMarked DEF StagesMarked
  <2>4. StageDone(s) => StageDone(s)'
    BY <2>2 DEF StageDone, GoesOn, NoNewStages
  <2> QED BY <2>1, <2>2, <2>3, <2>4
<1>3. StagesMarked'
  BY <1>1, <1>2 DEF StagesMarked
<1>4. PICK last \in Nat, rank \in [Requesters -> Nat] : Ranking(rank, last) /\ DeviceInRank(rank)
  BY DEF DeviceOrder
<1>5. DeviceInRank(rank)'
  BY <1>2, <1>4 DEF DeviceInRank
<1>6. Ranking(rank, last)'
  BY <1>4 DEF Ranking
<1> QED BY <1>3, <1>5, <1>6 DEF DeviceOrder

\* A request that starts anew has no stage that is not done.
LEMMA AskDevice ==
    ASSUME IInv, StagesMarked, DeviceOrder, NEW t \in Requesters, NEW n \in Clip, Ask(t, n)
    PROVE  StagesMarked' /\ DeviceOrder'
<1>1. /\ serial'[t] = serial[t] + 1 /\ serial[t] \in Nat
      /\ \A u \in Requesters \ {t} : serial'[u] = serial[u] /\ pc'[u] = pc[u]
      /\ UNCHANGED <<cached, stages>> /\ \A u \in Requesters : serial[u] \in Nat
  BY DEF Ask, Goto, IInv, TypeOK, cacheState
<1>2. ASSUME NEW s \in StageNames
      PROVE  (Marked(s) => Marked(s)') /\ (StageDone(s) => StageDone(s)')
  <2>1. s.by \in Requesters /\ s.serial \in Nat
    BY StageFacts
  <2>2. CASE s.by = t
    BY <1>1, <2>1, <2>2 DEF Marked, StageDone
  <2>3. CASE s.by # t
    BY <1>1, <2>1, <2>3 DEF Marked, StageDone
  <2> QED BY <2>2, <2>3
<1>3. StagesMarked'
  <2>1. \A r \in Regions : Marks(r)' = Marks(r)
    BY <1>1 DEF Marks
  <2> QED BY <1>1, <1>2, <2>1, StageFacts DEF StagesMarked
<1>4. PICK last \in Nat, rank \in [Requesters -> Nat] : Ranking(rank, last) /\ DeviceInRank(rank)
  BY DEF DeviceOrder
<1>5. DeviceInRank(rank)'
  BY <1>1, <1>2, <1>4, StageFacts DEF DeviceInRank
<1>6. Ranking(rank, last)'
  BY <1>4 DEF Ranking
<1> QED BY <1>3, <1>5, <1>6 DEF DeviceOrder

\* The stages that are submitted come behind all others.
LEMMA SubmitDevice ==
    ASSUME IInv, StagesMarked, DeviceOrder, NEW t \in Requesters, SubmitStages(t) \/ SubmitThrows(t)
    PROVE  StagesMarked' /\ DeviceOrder'
<1>1. /\ pc[t] = "record" /\ GoesOn(t) /\ UNCHANGED <<cached, pinned, uploads>>
      /\ \A u \in Requesters \ {t} : stages'[u] = stages[u]
  BY DEF SubmitStages, SubmitThrows, Goto, GoesOn, IInv, TypeOK, cacheState
<1>2. ~stages[t].upload.on /\ ~stages[t].compute.on
  BY <1>1 DEF IInv, StagesKept
<1>3. stages[t] \in [upload : Submitted, compute : Submitted]
  BY DEF IInv, TypeOK
<1>4. \A k \in Kinds : stages'[t][k].on => stages'[t][k].waits \subseteq UNION {Marks(r) : r \in Regions}
  <2>1. \A r \in PinnedBy(t) : r \in Regions
    BY PinFacts
  <2>2. uploads[t] \subseteq Regions
    BY DEF IInv, TypeOK
  <2>3. /\ UploadStage(t).on => UploadStage(t).waits \subseteq UNION {Marks(r) : r \in Regions}
        /\ ComputeStage(t).on => ComputeStage(t).waits \subseteq UNION {Marks(r) : r \in Regions}
    BY <2>1, <2>2 DEF UploadStage, ComputeStage, Marks
  <2>4. stages'[t].upload \in {NoStage, UploadStage(t), stages[t].upload}
        /\ stages'[t].compute \in {ComputeStage(t), stages[t].compute}
    <3>1. CASE SubmitStages(t)
      BY <1>3, <3>1 DEF SubmitStages, IInv, TypeOK
    <3>2. CASE SubmitThrows(t)
      BY <1>3, <3>2 DEF SubmitThrows, IInv, TypeOK
    <3> QED BY <3>1, <3>2
  <2>5. ~NoStage.on
    BY DEF NoStage
  <2> HIDE DEF Marks
  <2> QED BY <1>2, <2>3, <2>4, <2>5 DEF Kinds
<1>5. \A r \in Regions : Marks(r)' = Marks(r)
  BY <1>1 DEF Marks
<1>6. \A s \in StageNames : Marked(s) => Marked(s)'
  BY <1>1, StillMarked
<1>7. \A r \in Regions : \A s \in Marks(r) : s \in StageNames /\ Marked(s)
  BY StageFacts DEF StagesMarked
<1>8. ASSUME NEW u \in Requesters, NEW k \in Kinds, stages'[u][k].on, NEW s \in stages'[u][k].waits
      PROVE  /\ s \in StageNames /\ Marked(s)
             /\ u # t => stages[u][k].on /\ s \in stages[u][k].waits
  <2>1. CASE u = t
    <3>1. PICK r \in Regions : s \in Marks(r)
      BY <1>4, <1>8, <2>1
    <3> QED BY <1>7, <2>1, <3>1
  <2>2. CASE u # t
    BY <1>1, <1>8, <2>2, StageFacts DEF StagesMarked
  <2> QED BY <2>1, <2>2
<1>9. StagesMarked'
  BY <1>5, <1>6, <1>7, <1>8 DEF StagesMarked
<1>10. PICK last \in Nat, old \in [Requesters -> Nat] : Ranking(old, last) /\ DeviceInRank(old)
  BY DEF DeviceOrder
<1>11. PICK rank \in [Requesters -> Nat] : rank[t] = last + 1 /\ \A u \in Requesters : u # t => rank[u] = old[u]
  <2> DEFINE behind == [u \in Requesters |-> IF u = t THEN last + 1 ELSE old[u]]
  <2>1. behind \in [Requesters -> Nat] /\ behind[t] = last + 1 /\ \A u \in Requesters : u # t => behind[u] = old[u]
    BY <1>10
  <2> QED BY <2>1
<1>12. DeviceInRank(rank)'
  <2> SUFFICES ASSUME NEW u \in Requesters, NEW k \in Kinds, stages'[u][k].on, NEW s \in stages'[u][k].waits,
                      ~StageDone(s)'
               PROVE  rank[s.by] < rank[u]
    BY DEF DeviceInRank
  <2>1. s \in StageNames /\ Marked(s) /\ s.by \in Requesters /\ s.serial \in Nat /\ s.stage \in Kinds
    BY <1>8, StageFacts
  <2>2. s.by # t
    <3> SUFFICES ASSUME s.by = t PROVE FALSE
      OBVIOUS
    <3>1. serial[t] \in Nat
      BY DEF IInv, TypeOK
    <3>2. s.serial # serial[t] /\ s.serial <= serial[t]
      BY <1>1, <2>1 DEF Marked
    <3>3. s.serial < serial[t]
      BY <2>1, <3>1, <3>2
    <3> QED BY <1>1, <3>3 DEF StageDone, GoesOn
  <2>3. ~StageDone(s)
    BY <1>1, <2>1, <2>2 DEF StageDone, GoesOn
  <2>4. CASE u = t
    <3>1. old[s.by] <= last
      BY <1>10, <2>1 DEF Ranking
    <3> QED BY <1>11, <2>1, <2>2, <2>4, <3>1
  <2>5. CASE u # t
    <3>1. old[s.by] < old[u]
      BY <1>8, <1>10, <2>3, <2>5 DEF DeviceInRank
    <3> QED BY <1>11, <2>1, <2>2, <2>5, <3>1
  <2> QED BY <2>4, <2>5
<1>13. Ranking(rank, last + 1)' /\ last + 1 \in Nat
  <2>1. \A u \in Requesters : rank[u] <= last + 1
    BY <1>10, <1>11 DEF Ranking
  <2> QED BY <1>11, <2>1 DEF Ranking
<1> QED BY <1>9, <1>12, <1>13 DEF DeviceOrder

\* The uploads, in a step that moves no window.
WindowsStay ==
    /\ UNCHANGED <<pinned, uploads>>
    /\ \A r \in Regions : /\ cached'[r].n = cached[r].n /\ cached'[r].failed = cached[r].failed
                          /\ cached[r].queued => cached'[r].queued

LEMMA UploadsSame ==
    ASSUME IInv, UploadOrder, InFlight, WindowsStay
    PROVE  UploadOrder' /\ InFlight'
<1> USE DEF WindowsStay
<1>1. PICK last \in Nat, rank \in [Requesters -> Nat] : Ranking(rank, last) /\ UploadsInRank(rank)
  BY DEF UploadOrder
<1>2. \A t \in Requesters : PinnedBy(t)' = PinnedBy(t) /\ \A r \in PinnedBy(t) : r \in Regions
  BY PinFacts DEF PinnedBy
<1>3. UploadsInRank(rank)'
  BY <1>1, <1>2 DEF UploadsInRank
<1>4. Ranking(rank, last)'
  BY <1>1 DEF Ranking
<1>5. InFlight'
  BY DEF InFlight
<1> QED BY <1>3, <1>4, <1>5 DEF UploadOrder

\* A window that is pinned waits for windows that were pinned before it.
LEMMA UploadsPin ==
    ASSUME WindowAssumption, IInv, UploadOrder, InFlight, NEW t \in Requesters, PinWindow(t)
    PROVE  UploadOrder' /\ InFlight'
<1> DEFINE n == want[t]
<1>1. /\ pc[t] = "window" /\ n \in Clip /\ pinned[t] = NoPins /\ uploads[t] = {}
  BY DEF PinWindow, IInv, WindowsHeld
<1>2. PICK given \in [Missing(n) -> FreeRegions(n)] :
          UsedLongestAgo(given, FreeRegions(n)) /\ Pin(t, PlaceOf(n, given), given)
  BY DEF PinWindow, PlaceOf
<1>3. PICK place : place = PlaceOf(n, given)
  OBVIOUS
<1> DEFINE at == {place[f] : f \in WindowOf(n)}
           mine == {place[f] : f \in Missing(n)}
<1>4. /\ place \in [WindowOf(n) -> Regions] /\ Missing(n) \subseteq WindowOf(n)
      /\ \A f \in Missing(n) : cached[place[f]].pins = 0
      /\ \A f \in WindowOf(n) \ Missing(n) : cached[place[f]].n = f
      /\ {given[f] : f \in DOMAIN given} = mine
  BY <1>1, <1>2, <1>3, PlaceFacts DEF Missing
<1>5. /\ \A f \in WindowOf(n) :
            f \notin Missing(n) => /\ cached'[place[f]].queued = cached[place[f]].queued
                                   /\ cached'[place[f]].failed = cached[place[f]].failed
                                   /\ cached'[place[f]].n = f
      /\ \A r \in Regions : r \notin at => cached'[r] = cached[r]
  BY <1>1, <1>2, <1>3, PinnedEntries
<1>6. /\ pinned'[t] = place /\ uploads'[t] = mine
      /\ \A u \in Requesters \ {t} : pinned'[u] = pinned[u] /\ uploads'[u] = uploads[u]
  <2>1. pinned' = [pinned EXCEPT ![t] = place] /\ uploads' = [uploads EXCEPT ![t] = mine]
    BY <1>2, <1>3, <1>4 DEF Pin
  <2> HIDE DEF mine
  <2> QED BY <2>1 DEF IInv, TypeOK
<1>7. PinnedBy(t)' = at /\ \A u \in Requesters \ {t} : PinnedBy(u)' = PinnedBy(u)
  BY <1>4, <1>6 DEF PinnedBy
<1>8. \A u \in Requesters : PinnedBy(u) \cap mine = {} /\ PinnedBy(u) \subseteq Regions
  BY <1>4, PinFacts
<1> HIDE DEF n
<1>9. \A r \in Regions \ mine : /\ cached'[r].queued = cached[r].queued /\ cached'[r].failed = cached[r].failed
                                /\ cached'[r].n = cached[r].n
  BY <1>4, <1>5
<1>10. \A r \in at \ mine : r \in Regions /\ cached[r].n # None
  BY <1>1, <1>4, WindowFacts
<1>11. InFlight'
  <2> SUFFICES ASSUME NEW r \in Regions, cached'[r].n # None, ~cached'[r].queued
               PROVE  \E u \in Requesters : r \in uploads'[u]
    BY DEF InFlight
  <2>1. CASE r \in mine
    BY <1>6, <2>1
  <2>2. CASE r \notin mine
    <3>1. PICK u \in Requesters : r \in uploads[u]
      BY <1>9, <2>2 DEF InFlight
    <3> QED BY <1>1, <1>6, <3>1
  <2> QED BY <2>1, <2>2
<1>12. PICK last \in Nat, old \in [Requesters -> Nat] : Ranking(old, last) /\ UploadsInRank(old)
  BY DEF UploadOrder
<1>13. PICK rank \in [Requesters -> Nat] : rank[t] = last + 1 /\ \A u \in Requesters : u # t => rank[u] = old[u]
  <2> DEFINE behind == [u \in Requesters |-> IF u = t THEN last + 1 ELSE old[u]]
  <2>1. behind \in [Requesters -> Nat] /\ behind[t] = last + 1 /\ \A u \in Requesters : u # t => behind[u] = old[u]
    BY <1>12
  <2> QED BY <2>1
<1>14. UploadsInRank(rank)'
  <2> SUFFICES ASSUME NEW v \in Requesters, NEW r \in PinnedBy(v)', r \notin uploads'[v], ~cached'[r].queued, ~cached'[r].failed
               PROVE  \E u \in Requesters : r \in uploads'[u] /\ rank[u] < rank[v]
    BY DEF UploadsInRank
  <2>1. CASE v = t
    <3>1. r \in at \ mine
      BY <1>6, <1>7, <2>1
    <3>2. PICK u \in Requesters : r \in uploads[u]
      BY <1>9, <1>10, <3>1 DEF InFlight
    <3>3. u # t /\ old[u] <= last
      BY <1>1, <1>12, <3>2 DEF Ranking
    <3>4. r \in uploads'[u] /\ rank[u] < rank[t]
      BY <1>6, <1>13, <3>2, <3>3
    <3> QED BY <2>1, <3>4
  <2>2. CASE v # t
    <3>1. r \in PinnedBy(v) \ uploads[v] /\ ~cached[r].queued /\ ~cached[r].failed
      BY <1>6, <1>7, <1>8, <1>9, <2>2
    <3>2. PICK u \in Requesters : r \in uploads[u] /\ old[u] < old[v]
      BY <1>12, <3>1 DEF UploadsInRank
    <3>3. u # t
      BY <1>1, <3>2
    <3> QED BY <1>6, <1>13, <2>2, <3>2, <3>3
  <2> QED BY <2>1, <2>2
<1>15. Ranking(rank, last + 1)' /\ last + 1 \in Nat
  <2>1. \A u \in Requesters : rank[u] <= last + 1
    BY <1>12, <1>13 DEF Ranking
  <2> QED BY <1>13, <2>1 DEF Ranking
<1> QED BY <1>11, <1>14, <1>15 DEF UploadOrder

\* What ~Window leaves of the entries: nobody waits for a frame it gave up.
LEMMA UploadsUnpin ==
    ASSUME WindowAssumption, IInv, UploadOrder, InFlight, NEW t \in Requesters, Unpin(t)
    PROVE  UploadOrder' /\ InFlight'
<1>1. /\ uploads'[t] = {} /\ PinnedBy(t)' = {}
      /\ \A u \in Requesters \ {t} : uploads'[u] = uploads[u] /\ PinnedBy(u)' = PinnedBy(u)
  BY DEF Unpin, IInv, TypeOK, PinnedBy, NoPins
<1>2. \A r \in Regions : /\ cached'[r].queued = cached[r].queued
                         /\ IF r \in uploads[t] /\ ~cached[r].queued
                            THEN cached'[r].n = None /\ cached'[r].failed
                            ELSE cached'[r].n = cached[r].n /\ cached'[r].failed = cached[r].failed
  <2> SUFFICES ASSUME NEW r \in Regions
               PROVE  /\ cached'[r].queued = cached[r].queued
                      /\ IF r \in uploads[t] /\ ~cached[r].queued
                         THEN cached'[r].n = None /\ cached'[r].failed
                         ELSE cached'[r].n = cached[r].n /\ cached'[r].failed = cached[r].failed
    OBVIOUS
  <2>1. PICK e \in Entries : e = cached[r]
    BY DEF IInv, TypeOK
  <2>2. PICK pins : pins = IF r \in PinnedBy(t) THEN e.pins - 1 ELSE e.pins
    OBVIOUS
  <2>3. cached'[r] = IF r \in uploads[t] /\ ~cached[r].queued THEN GivenUp([e EXCEPT !.pins = pins]) ELSE [e EXCEPT !.pins = pins]
    BY <2>1, <2>2 DEF Unpin
  <2> QED BY <2>1, <2>3 DEF GivenUp, Entries
<1>3. InFlight'
  BY <1>1, <1>2 DEF InFlight
<1>4. PICK last \in Nat, rank \in [Requesters -> Nat] : Ranking(rank, last) /\ UploadsInRank(rank)
  BY DEF UploadOrder
<1>5. UploadsInRank(rank)'
  <2> SUFFICES ASSUME NEW v \in Requesters, NEW r \in PinnedBy(v)', r \notin uploads'[v], ~cached'[r].queued, ~cached'[r].failed
               PROVE  \E u \in Requesters : r \in uploads'[u] /\ rank[u] < rank[v]
    BY DEF UploadsInRank
  <2>1. v # t /\ r \in PinnedBy(v) \ uploads[v] /\ r \in Regions
    BY <1>1, PinFacts
  <2>2. r \notin uploads[t] /\ ~cached[r].queued /\ ~cached[r].failed
    BY <1>2, <2>1
  <2>3. PICK u \in Requesters : r \in uploads[u] /\ rank[u] < rank[v]
    BY <1>4, <2>1, <2>2 DEF UploadsInRank
  <2> QED BY <1>1, <2>2, <2>3
<1>6. Ranking(rank, last)'
  BY <1>4 DEF Ranking
<1> QED BY <1>3, <1>5, <1>6 DEF UploadOrder

\* What the steps of a request other than its submit do on the device.
Lighter == \A r \in Regions : Marks(r)' \subseteq Marks(r)

LEMMA StepsOnDevice ==
    ASSUME WindowAssumption, IInv, NEW t \in Requesters,
           OwnSteps(t) \/ Throw(t) \/ RunUpload(t) \/ RunCompute(t), ~SubmitStages(t)
    PROVE  GoesOn(t) /\ NoNewStages /\ MarksFrom(t)
<1>1. pc \in [Requesters -> Steps] /\ \A r \in Regions : cached[r] \in Entries
  BY DEF IInv, TypeOK
<1>2. Lighter => MarksFrom(t)
  BY DEF Lighter, MarksFrom
<1>3. CASE (WriteFrames(t) /\ staged) \/ WaitQueued(t) \/ TakeSlot(t) \/ TakePermit(t) \/ ReturnSlot(t) \/ Throw(t)
  <2>1. UNCHANGED <<cached, stages, serial>>
    BY <1>3 DEF WriteFrames, WaitQueued, TakeSlot, TakePermit, ReturnSlot, Throw, cacheState
  <2>2. \E place \in Steps : pc' = [pc EXCEPT ![t] = place] /\ (pc[t] \in {"settle", "unpin", "idle"} => place = "unpin")
    BY <1>3 DEF WriteFrames, WaitQueued, TakeSlot, TakePermit, ReturnSlot, Throw, Goto, Steps
  <2>3. Lighter
    BY <2>1 DEF Lighter, Marks
  <2> QED BY <1>1, <1>2, <2>1, <2>2, <2>3 DEF GoesOn, NoNewStages
<1>4. CASE WriteFrames(t) /\ ~staged
  <2>1. \A r \in Regions : cached'[r] = IF r \in uploads[t] THEN [cached[r] EXCEPT !.queued = TRUE, !.ready = {}, !.uses = {}]
                                         ELSE cached[r]
    BY <1>4 DEF WriteFrames, MarkQueued
  <2>2. ASSUME NEW r \in Regions PROVE Marks(r)' \subseteq Marks(r)
    <3>1. PICK e \in Entries : e = cached[r]
      BY <1>1
    <3>2. cached'[r] = IF r \in uploads[t] THEN [e EXCEPT !.queued = TRUE, !.ready = {}, !.uses = {}] ELSE e
      BY <2>1, <3>1
    <3> QED BY <3>1, <3>2 DEF Marks, Entries
  <2> QED BY <1>1, <1>2, <1>4, <2>2 DEF WriteFrames, Goto, GoesOn, NoNewStages, Lighter
<1>5. CASE MarkSubmitted(t)
  <2>1. pc'[t] = "settle" /\ GoesOn(t) /\ NoNewStages
    BY <1>1, <1>5 DEF MarkSubmitted, Goto, GoesOn, NoNewStages
  <2>2. ASSUME NEW r \in Regions
        PROVE  Marks(r)' \subseteq Marks(r) \cup {Stage(t, "upload"), Stage(t, "compute")}
    <3>1. PICK e \in Entries : e = cached[r]
      BY <1>1
    <3>2. PICK up, down : up = Stage(t, "upload") /\ down = Stage(t, "compute")
      OBVIOUS
    <3>3. cached'[r] \in {[e EXCEPT !.queued = TRUE, !.ready = {up}, !.uses = {up, down}],
                          [e EXCEPT !.uses = @ \cup {down}], e}
      BY <1>5, <3>1, <3>2 DEF MarkSubmitted
    <3>4. CASE cached'[r] = [e EXCEPT !.queued = TRUE, !.ready = {up}, !.uses = {up, down}]
      <4>1. cached'[r].ready = {up} /\ cached'[r].uses = {up, down}
        BY <3>4 DEF Entries
      <4> QED BY <3>2, <4>1 DEF Marks
    <3>5. CASE cached'[r] = [e EXCEPT !.uses = @ \cup {down}]
      <4>1. cached'[r].ready = e.ready /\ cached'[r].uses = e.uses \cup {down}
        BY <3>5 DEF Entries
      <4> QED BY <3>1, <3>2, <4>1 DEF Marks
    <3>6. CASE cached'[r] = e
      BY <3>1, <3>6 DEF Marks
    <3> QED BY <3>3, <3>4, <3>5, <3>6
  <2> QED BY <2>1, <2>2 DEF MarksFrom
<1>6. CASE Unpin(t)
  <2>1. ASSUME NEW r \in Regions PROVE Marks(r)' \subseteq Marks(r)
    <3>1. PICK e \in Entries : e = cached[r]
      BY <1>1
    <3>2. PICK pins : pins = IF r \in PinnedBy(t) THEN e.pins - 1 ELSE e.pins
      OBVIOUS
    <3>3. cached'[r] \in {GivenUp([e EXCEPT !.pins = pins]), [e EXCEPT !.pins = pins]}
      BY <1>6, <3>1, <3>2 DEF Unpin
    <3> QED BY <3>1, <3>3 DEF GivenUp, Marks, Entries
  <2> QED BY <1>1, <1>2, <1>6, <2>1 DEF Unpin, Goto, GoesOn, NoNewStages, Lighter
<1>7. CASE PinWindow(t)
  <2>1. PICK place, given : Pin(t, place, given)
    BY <1>7 DEF PinWindow
  <2>2. ASSUME NEW r \in Regions PROVE Marks(r)' \subseteq Marks(r)
    <3>1. PICK e \in Entries : e = cached[r]
      BY <1>1
    <3>2. \E f, stamp : cached'[r] \in {e, Pinned(e, stamp), Pinned(Given(e, f), stamp)}
      BY <2>1, <3>1 DEF Pin
    <3> QED BY <3>1, <3>2 DEF Pinned, Given, Marks, Entries
  <2> QED BY <1>1, <1>2, <1>7, <2>2 DEF PinWindow, Goto, GoesOn, NoNewStages, Lighter
<1>8. CASE RunUpload(t) \/ RunCompute(t)
  <2>1. UNCHANGED <<pc, serial, cached>>
    BY <1>8 DEF RunUpload, RunCompute, cacheState
  <2>2. stages[t] \in [upload : Submitted, compute : Submitted] /\ ~NoStage.on
    BY DEF IInv, TypeOK, NoStage
  <2>3. NoNewStages
    <3>1. stages' \in {[stages EXCEPT ![t].upload = NoStage], [stages EXCEPT ![t].compute = NoStage]}
      BY <1>8 DEF RunUpload, RunCompute
    <3>2. \A u \in Requesters \ {t} : stages'[u] = stages[u]
      BY <3>1 DEF IInv, TypeOK
    <3>3. stages'[t] \in {[stages[t] EXCEPT !.upload = NoStage], [stages[t] EXCEPT !.compute = NoStage]}
      BY <3>1 DEF IInv, TypeOK
    <3>4. \A k \in Kinds : stages'[t][k] \in {NoStage, stages[t][k]}
      BY <2>2, <3>3 DEF Kinds
    <3> QED BY <2>2, <3>2, <3>4 DEF NoNewStages
  <2>4. Lighter
    BY <2>1 DEF Lighter, Marks
  <2> QED BY <1>2, <2>1, <2>3, <2>4 DEF GoesOn
<1> QED BY <1>3, <1>4, <1>5, <1>6, <1>7, <1>8 DEF OwnSteps

\* The uploads, in every step.
LEMMA UploadsKeep ==
    ASSUME WindowAssumption, IInv, UploadOrder, InFlight, NEW t \in Requesters,
           \/ \E n \in Clip : Ask(t, n)
           \/ OwnSteps(t) \/ Throw(t) \/ SubmitThrows(t) \/ RunUpload(t) \/ RunCompute(t)
    PROVE  UploadOrder' /\ InFlight'
<1>1. \A r \in Regions : cached[r] \in Entries
  BY DEF IInv, TypeOK
<1>2. CASE PinWindow(t)
  BY <1>2, UploadsPin
<1>3. CASE Unpin(t)
  BY <1>3, UploadsUnpin
<1>4. CASE WriteFrames(t) /\ ~staged
  <2>1. \A r \in Regions : cached'[r] = IF r \in uploads[t] THEN [cached[r] EXCEPT !.queued = TRUE, !.ready = {}, !.uses = {}]
                                         ELSE cached[r]
    BY <1>4 DEF WriteFrames, MarkQueued
  <2>2. WindowsStay
    BY <1>1, <1>4, <2>1 DEF WriteFrames, WindowsStay, Entries
  <2> QED BY <2>2, UploadsSame
<1>5. CASE MarkSubmitted(t)
  <2>1. ASSUME NEW r \in Regions
        PROVE  cached'[r].n = cached[r].n /\ cached'[r].failed = cached[r].failed /\ (cached[r].queued => cached'[r].queued)
    <3>1. PICK e \in Entries : e = cached[r]
      BY <1>1
    <3>2. PICK up, down : up = Stage(t, "upload") /\ down = Stage(t, "compute")
      OBVIOUS
    <3>3. cached'[r] \in {[e EXCEPT !.queued = TRUE, !.ready = {up}, !.uses = {up, down}],
                          [e EXCEPT !.uses = @ \cup {down}], e}
      BY <1>5, <3>1, <3>2 DEF MarkSubmitted
    <3> QED BY <3>1, <3>3 DEF Entries
  <2>2. WindowsStay
    BY <1>5, <2>1 DEF MarkSubmitted, WindowsStay
  <2> QED BY <2>2, UploadsSame
<1>6. CASE UNCHANGED <<pinned, uploads, cached>>
  <2>1. WindowsStay
    BY <1>6 DEF WindowsStay
  <2> QED BY <2>1, UploadsSame
<1>7. UNCHANGED <<pinned, uploads, cached>>
      \/ PinWindow(t) \/ Unpin(t) \/ MarkSubmitted(t) \/ (WriteFrames(t) /\ ~staged)
  BY DEF Ask, OwnSteps, WriteFrames, WaitQueued, TakeSlot, TakePermit, SubmitStages, ReturnSlot, Throw, SubmitThrows,
         RunUpload, RunCompute, cacheState
<1> QED BY <1>2, <1>3, <1>4, <1>5, <1>6, <1>7

LEMMA HoldersStay ==
    ASSUME IInv, HoldersKept, NEW t \in Requesters,
           \/ \E n \in Clip : Ask(t, n)
           \/ OwnSteps(t) \/ Throw(t) \/ SubmitThrows(t) \/ RunUpload(t) \/ RunCompute(t)
    PROVE  HoldersKept'
<1>1. pc \in [Requesters -> Steps]
  BY DEF IInv, TypeOK
<1> USE <1>1 DEF Goto, HoldersKept
<1>2. CASE \E n \in Clip : Ask(t, n)
  BY <1>2 DEF Ask
<1>3. CASE PinWindow(t) \/ WriteFrames(t) \/ WaitQueued(t)
  BY <1>3 DEF PinWindow, WriteFrames, WaitQueued
<1>4. CASE TakeSlot(t) \/ TakePermit(t)
  BY <1>4 DEF TakeSlot, TakePermit
<1>5. CASE SubmitStages(t) \/ SubmitThrows(t) \/ MarkSubmitted(t) \/ Throw(t)
  BY <1>5 DEF SubmitStages, SubmitThrows, MarkSubmitted, Throw
<1>6. CASE ReturnSlot(t) \/ Unpin(t)
  BY <1>6 DEF ReturnSlot, Unpin
<1>7. CASE RunUpload(t) \/ RunCompute(t)
  BY <1>7 DEF RunUpload, RunCompute
<1> QED BY <1>2, <1>3, <1>4, <1>5, <1>6, <1>7 DEF OwnSteps

LEMMA RunsStep ==
    ASSUME WindowAssumption, IInv, RInv, [WindowNext]_windowVars
    PROVE  RInv'
<1>1. CASE WindowNext
  <2>1. PICK t \in Requesters :
            \/ \E n \in Clip : Ask(t, n)
            \/ OwnSteps(t) \/ Throw(t) \/ SubmitThrows(t) \/ RunUpload(t) \/ RunCompute(t)
    BY <1>1 DEF WindowNext
  <2>2. HoldersKept' /\ UploadOrder' /\ InFlight'
    BY <2>1, HoldersStay, UploadsKeep DEF RInv
  <2>3. CASE \E n \in Clip : Ask(t, n)
    BY <2>2, <2>3, AskDevice DEF RInv
  <2>4. CASE SubmitStages(t) \/ SubmitThrows(t)
    BY <2>2, <2>4, SubmitDevice DEF RInv
  <2>5. CASE (OwnSteps(t) \/ Throw(t) \/ RunUpload(t) \/ RunCompute(t)) /\ ~SubmitStages(t)
    <3>1. GoesOn(t) /\ NoNewStages /\ MarksFrom(t)
      BY <2>5, StepsOnDevice
    <3> QED BY <2>2, <3>1, DeviceKeeps DEF RInv
  <2> QED BY <2>1, <2>3, <2>4, <2>5
<1>2. CASE UNCHANGED windowVars
  <2> USE <1>2 DEF windowVars, cacheState
  <2>1. HoldersKept' /\ InFlight'
    BY DEF RInv, HoldersKept, InFlight
  <2>2. StagesMarked'
    BY DEF RInv, StagesMarked, Marked, Marks
  <2>3. DeviceOrder'
    BY DEF RInv, DeviceOrder, Ranking, DeviceInRank, StageDone
  <2>4. UploadOrder'
    BY DEF RInv, UploadOrder, Ranking, UploadsInRank, PinnedBy
  <2> QED BY <2>1, <2>2, <2>3, <2>4 DEF RInv
<1> QED BY <1>1, <1>2

LEMMA RunsStart ==
    ASSUME WindowAssumption, WindowInit
    PROVE  RInv
<1>1. HoldersKept /\ InFlight
  BY DEF WindowInit, HoldersKept, InFlight
<1>2. \A t \in Requesters, k \in Kinds : ~stages[t][k].on
  BY DEF WindowInit, Kinds, NoStage
<1>3. StagesMarked
  BY <1>2 DEF WindowInit, StagesMarked, Marks
<1>4. \A t \in Requesters : PinnedBy(t) = {}
  BY DEF WindowInit, PinnedBy, NoPins
<1>5. PICK rank \in [Requesters -> Nat] : \A t \in Requesters : rank[t] = 0
  <2> DEFINE zero == [t \in Requesters |-> 0]
  <2>1. zero \in [Requesters -> Nat] /\ \A t \in Requesters : zero[t] = 0
    OBVIOUS
  <2> QED BY <2>1
<1>6. Ranking(rank, 0) /\ DeviceInRank(rank) /\ UploadsInRank(rank)
  BY <1>2, <1>4, <1>5 DEF Ranking, DeviceInRank, UploadsInRank
<1> QED BY <1>1, <1>3, <1>6 DEF RInv, DeviceOrder, UploadOrder

-----------------------------------------------------------------------------
(* Nobody can run: then nobody has a request.                              *)

Stuck == \A t \in Requesters : ~CanRun(t)

\* The request of the least rank among those that P says.
LEMMA LeastRanked ==
    ASSUME NEW rank \in [Requesters -> Nat], NEW P \in SUBSET Requesters, P # {}
    PROVE  \E t \in P : \A u \in P : rank[t] <= rank[u]
<1> DEFINE ranks == {rank[u] : u \in P}
<1>1. ranks \in SUBSET Nat /\ ranks # {}
  OBVIOUS
<1>2. PICK x \in ranks : \A y \in ranks : x <= y
  BY <1>1, Smallest
<1>3. PICK t \in P : x = rank[t]
  BY <1>2
<1> QED BY <1>2, <1>3

\* On the device the stages of the least rank can run.
LEMMA NoStagesLeft ==
    ASSUME IInv, RInv, Stuck
    PROVE  \A t \in Requesters : DeviceDone(t)
<1> DEFINE busy == {t \in Requesters : ~DeviceDone(t)}
<1> SUFFICES ASSUME busy # {} PROVE FALSE
  OBVIOUS
<1>1. PICK rank \in [Requesters -> Nat] : DeviceInRank(rank)
  BY DEF RInv, DeviceOrder
<1>2. PICK t \in busy : \A u \in busy : rank[t] <= rank[u]
  BY LeastRanked
<1>3. ASSUME NEW k \in Kinds, stages[t][k].on
      PROVE  StageReady(stages[t][k])
  <2> SUFFICES ASSUME NEW s \in stages[t][k].waits, ~StageDone(s) PROVE FALSE
    BY <1>3 DEF StageReady
  <2>1. s.by \in Requesters /\ s.stage \in Kinds
    BY <1>3, StageFacts
  <2>2. s.by \in busy
    BY <2>1 DEF StageDone, DeviceDone, Kinds
  <2>3. rank[s.by] < rank[t]
    BY <1>1, <1>3 DEF DeviceInRank
  <2>4. rank[s.by] \in Nat /\ rank[t] \in Nat /\ rank[t] <= rank[s.by]
    BY <1>2, <2>1, <2>2
  <2> QED BY <2>3, <2>4
<1>4. CASE stages[t].upload.on
  BY <1>3, <1>4 DEF Kinds, Stuck, CanRun
<1>5. CASE ~stages[t].upload.on
  <2>1. stages[t].compute.on
    BY <1>5 DEF DeviceDone
  <2> QED BY <1>3, <1>5, <2>1 DEF Kinds, Stuck, CanRun, ComputeReady
<1> QED BY <1>4, <1>5

\* Who holds a slot or a permit can go on, so nobody waits for one.
LEMMA NoneWaitsForSlots ==
    ASSUME WindowAssumption, IInv, RInv, Stuck
    PROVE  \A t \in Requesters : pc[t] \in {"idle", "window", "wait_queued"}
<1>1. \A t \in Requesters : pc[t] \in {"idle", "window", "wait_queued", "slot", "permit"}
  BY NoStagesLeft DEF Stuck, CanRun, IInv, TypeOK, Steps
<1>2. Slots \in Nat /\ Slots > 0 /\ Permits \in Nat /\ Permits > 0
  BY DEF WindowAssumption
<1>3. permits = {}
  BY <1>1 DEF RInv, HoldersKept
<1>4. \A t \in Requesters : pc[t] # "permit"
  BY <1>2, <1>3, FS_EmptySet DEF Stuck, CanRun
<1>5. leases = {}
  BY <1>1, <1>4 DEF RInv, HoldersKept
<1>6. \A t \in Requesters : pc[t] # "slot"
  BY <1>2, <1>5, FS_EmptySet DEF Stuck, CanRun
<1> QED BY <1>1, <1>4, <1>6

\* The request that pinned first waits for no upload.
LEMMA NoneWaitsForUploads ==
    ASSUME WindowAssumption, IInv, RInv, Stuck
    PROVE  \A t \in Requesters : pc[t] \in {"idle", "window"}
<1> DEFINE waiting == {t \in Requesters : pc[t] = "wait_queued"}
<1>1. waiting = {}
  <2> SUFFICES ASSUME waiting # {} PROVE FALSE
    OBVIOUS
  <2>1. PICK rank \in [Requesters -> Nat] : UploadsInRank(rank)
    BY DEF RInv, UploadOrder
  <2>2. PICK t \in waiting : \A u \in waiting : rank[t] <= rank[u]
    BY LeastRanked
  <2>3. PICK r \in PinnedBy(t) : ~cached[r].queued /\ r \notin uploads[t] /\ ~cached[r].failed
    BY <2>2 DEF Stuck, CanRun, SomeFailed, AllQueued
  <2>4. PICK u \in Requesters : r \in uploads[u] /\ rank[u] < rank[t]
    BY <2>1, <2>2, <2>3 DEF UploadsInRank
  <2>5. u \in waiting
    BY <2>4, NoneWaitsForSlots DEF IInv, WindowsHeld
  <2>6. rank[u] \in Nat /\ rank[t] \in Nat /\ rank[t] <= rank[u]
    BY <2>2, <2>5
  <2> QED BY <2>4, <2>6
<1> QED BY <1>1, NoneWaitsForSlots

\* A window has a region for every frame when no other is pinned.
LEMMA WindowIsSmall ==
    ASSUME WindowAssumption, NEW n \in Clip
    PROVE  IsFiniteSet(WindowOf(n)) /\ Cardinality(WindowOf(n)) <= Cardinality(Regions)
<1>1. n \in Int /\ Radius \in Nat /\ Cardinality(Regions) \in Nat /\ Clip \subseteq Int
  BY WindowFacts, FS_CardinalityType DEF WindowAssumption
<1>2. WindowOf(n) \subseteq n - Radius .. n + Radius
  <2>1. ASSUME NEW f \in WindowOf(n) PROVE f \in Int /\ n - Radius <= f /\ f <= n + Radius
    BY <1>1 DEF WindowOf
  <2> QED BY <1>1, <2>1
<1>3. /\ IsFiniteSet(n - Radius .. n + Radius)
      /\ Cardinality(n - Radius .. n + Radius) = 2 * Radius + 1
  BY <1>1, FS_Interval
<1>4. /\ IsFiniteSet(WindowOf(n)) /\ Cardinality(WindowOf(n)) \in Nat
      /\ Cardinality(WindowOf(n)) <= Cardinality(n - Radius .. n + Radius)
  BY <1>2, <1>3, FS_Subset, FS_CardinalityType
<1>5. 2 * Radius + 1 <= Cardinality(Regions)
  BY <1>1 DEF WindowAssumption
<1> QED BY <1>1, <1>3, <1>4, <1>5

LEMMA UnpinnedFits ==
    ASSUME WindowAssumption, IInv, NEW n \in Clip, \A t \in Requesters : PinnedBy(t) = {}
    PROVE  WindowFits(n)
<1> DEFINE there == WindowOf(n) \ Missing(n)
<1>1. \A r \in Regions : cached[r].pins = 0
  <2>1. \A r \in Regions : Pinners(r) = {}
    BY DEF Pinners
  <2> QED BY <2>1, FS_EmptySet DEF IInv, PinsKept
<1>2. FreeRegions(n) = Regions \ Found(n) /\ Found(n) \subseteq Regions /\ Missing(n) \subseteq WindowOf(n)
  BY <1>1 DEF FreeRegions, Found, Missing
<1>3. IsFiniteSet(Regions) /\ IsFiniteSet(WindowOf(n)) /\ Cardinality(WindowOf(n)) <= Cardinality(Regions)
  BY WindowIsSmall DEF WindowAssumption
<1>4. /\ IsFiniteSet(Found(n)) /\ IsFiniteSet(there) /\ IsFiniteSet(Missing(n))
  BY <1>2, <1>3, FS_Subset
<1>5. Cardinality(Found(n)) <= Cardinality(there)
  <2> DEFINE frame == [r \in Found(n) |-> cached[r].n]
  <2>1. frame \in Injection(Found(n), there)
    <3>1. \A r \in Found(n) : r \in Regions /\ cached[r].n \in WindowOf(n)
      BY DEF Found
    <3>2. \A r \in Found(n) : cached[r].n \in there
      BY <3>1 DEF Missing
    <3>3. \A r, s \in Found(n) : cached[r].n = cached[s].n => r = s
      <4>1. None \notin WindowOf(n)
        BY WindowFacts
      <4> QED BY <3>1, <4>1 DEF IInv, FrameOnce
    <3> QED BY <3>2, <3>3 DEF Injection, IsInjective
  <2> QED BY <1>4, <2>1, FS_Injection DEF ExistsInjection
<1>6. /\ Cardinality(FreeRegions(n)) = Cardinality(Regions) - Cardinality(Found(n))
      /\ Cardinality(there) = Cardinality(WindowOf(n)) - Cardinality(Missing(n))
  <2>1. Regions \cap Found(n) = Found(n) /\ WindowOf(n) \cap Missing(n) = Missing(n)
    BY <1>2
  <2> QED BY <1>2, <1>3, <2>1, FS_Difference
<1>7. /\ Cardinality(Regions) \in Nat /\ Cardinality(WindowOf(n)) \in Nat /\ Cardinality(Missing(n)) \in Nat
      /\ Cardinality(Found(n)) \in Nat
  BY <1>3, <1>4, FS_CardinalityType
<1> HIDE DEF there
<1> QED BY <1>3, <1>5, <1>6, <1>7 DEF WindowFits

LEMMA SomeRuns ==
    ASSUME WindowAssumption, IInv, RInv
    PROVE  SomeoneRuns
<1> SUFFICES ASSUME NEW t \in Requesters, pc[t] # "idle", Stuck PROVE FALSE
  BY DEF SomeoneRuns, Stuck
<1>1. pc[t] = "window" /\ want[t] \in Clip
  BY NoneWaitsForUploads DEF IInv, WindowsHeld
<1>2. \A u \in Requesters : PinnedBy(u) = {}
  BY NoneWaitsForUploads, PinFacts
<1> QED BY <1>1, <1>2, UnpinnedFits DEF Stuck, CanRun

\* Requests never wait for each other in a circle: not for regions ("never
\* waiting while it holds pins"), the uploads of others, slots, permits or on
\* the device (Window, wait_queued and tile_frame of nlm/filter.cpp).
THEOREM SomeoneRunsHolds ==
    ASSUME WindowAssumption
    PROVE  WindowSpec => []SomeoneRuns
<1>1. IInv /\ RInv => SomeoneRuns
  BY SomeRuns
<1>2. IInv /\ RInv /\ [WindowNext]_windowVars => IInv' /\ RInv'
  BY WindowStep, RunsStep
<1>3. WindowInit => IInv /\ RInv
  BY WindowStart, RunsStart
<1> QED BY <1>1, <1>2, <1>3, PTL DEF WindowSpec

-----------------------------------------------------------------------------
(* Rolling chunks never wait for each other in a circle.                   *)

Places == {"idle", "enter", "record", "leave", "wait", "settle", "failed"}
Ats == {"queued", "uploading", "uploaded", "computing", "computed", "done", "dropped"}
Over == {"done", "dropped"}
Laned == {"record", "settle", "leave", "wait"}
Owning == {"settle", "leave", "wait"}

TurnShape(r) == DOMAIN r = DOMAIN NoTurn /\ r.pc \in Places /\ r.lane \in 0 .. 1 /\ r.job \in Nat
JobShape(x) == {"at", "after", "part", "wait_upload"} \subseteq DOMAIN x /\ x.at \in Ats /\ x.part \in {"all", "upload", "compute"}
IsSequence(s) == s \in Seq({s[i] : i \in DOMAIN s})

RollTyped ==
    /\ turn = [t \in Threads |-> turn[t]] /\ \A t \in Threads : TurnShape(turn[t])
    /\ "tickets" \in DOMAIN state /\ state.tickets \in Seq(Threads)
    /\ slot \in [recording : BOOLEAN, next_lane : 0 .. 1, in_use : [0 .. 1 -> BOOLEAN], computed : Nat]
    /\ IsSequence(jobs) /\ \A j \in DOMAIN jobs : JobShape(jobs[j])

\* Who has not left has a ticket, and who records is the first.
TicketsHeld ==
    \A t \in Threads :
        /\ turn[t].pc \in {"enter", "failed", "record", "leave", "settle"} => \E i \in DOMAIN state.tickets : state.tickets[i] = t
        /\ turn[t].pc \in {"record", "leave", "settle"} => AtTurn(t)

\* The slot and its lanes are in use for somebody.
LanesHeld ==
    /\ slot.recording => \E t \in Threads : turn[t].pc \in {"record", "settle"}
    /\ \A l \in 0 .. 1 : slot.in_use[l] => \E t \in Threads : turn[t].lane = l /\ turn[t].pc \in Laned

\* A submission waits for one before it, and is somebody's until it is over.
JobsHeld ==
    /\ slot.computed \in 0 .. Len(jobs)
    /\ \A j \in DOMAIN jobs :
          /\ jobs[j].after \in 0 .. j - 1
          /\ jobs[j].at \notin Over => \E t \in Threads : turn[t].job = j /\ turn[t].pc \in Owning
          /\ jobs[j].part = "upload" => jobs[j].at \notin {"computing", "computed"}
    /\ \A t \in Threads : turn[t].pc \in Owning =>
          /\ turn[t].job \in DOMAIN jobs /\ jobs[turn[t].job].at \notin Over
          /\ turn[t].pc = "settle" <=> jobs[turn[t].job].part # "all"
    /\ \A t, u \in Threads : turn[t].pc \in Owning /\ turn[u].pc \in Owning /\ turn[t].job = turn[u].job => t = u

\* A thread has one ticket, and only until it has left.
Ticketed == {"enter", "failed", "record", "leave", "settle"}
QueueHeld ==
    /\ \A i, k \in DOMAIN state.tickets : state.tickets[i] = state.tickets[k] => i = k
    /\ \A i \in DOMAIN state.tickets : turn[state.tickets[i]].pc \in Ticketed

RollInv == RollTyped /\ TicketsHeld /\ LanesHeld /\ JobsHeld

-----------------------------------------------------------------------------
(* Sequences of submissions.                                               *)

Attach(s, x) == Append(s, x)

LEMMA Appended ==
    ASSUME NEW s, IsSequence(s), NEW x
    PROVE  /\ IsSequence(Attach(s, x)) /\ Len(s) \in Nat /\ Len(Attach(s, x)) = Len(s) + 1
           /\ DOMAIN s = 1 .. Len(s) /\ DOMAIN Attach(s, x) = 1 .. Len(s) + 1
           /\ Attach(s, x)[Len(s) + 1] = x /\ \A i \in DOMAIN s : Attach(s, x)[i] = s[i]
<1> SUFFICES ASSUME NEW r, r = Append(s, x)
             PROVE  /\ IsSequence(r) /\ Len(s) \in Nat /\ Len(r) = Len(s) + 1
                    /\ DOMAIN s = 1 .. Len(s) /\ DOMAIN r = 1 .. Len(s) + 1
                    /\ r[Len(s) + 1] = x /\ \A i \in DOMAIN s : r[i] = s[i]
  BY DEF Attach
<1> DEFINE S == {s[i] : i \in DOMAIN s}
           T == S \cup {x}
<1>1. s \in Seq(S)
  BY DEF IsSequence
<1>2. Len(s) \in Nat /\ DOMAIN s = 1 .. Len(s) /\ s \in [1 .. Len(s) -> S]
  BY <1>1, LenProperties
<1>3. s \in Seq(T)
  <2>1. s \in [1 .. Len(s) -> T]
    BY <1>2
  <2> QED BY <1>2, <2>1, SeqDef
<1>4. /\ r \in Seq(T) /\ Len(r) = Len(s) + 1 /\ r[Len(s) + 1] = x /\ \A i \in 1 .. Len(s) : r[i] = s[i]
  BY <1>3, AppendProperties
<1>5. DOMAIN r = 1 .. Len(s) + 1
  BY <1>4, LenProperties
<1>6. r \in Seq({r[i] : i \in DOMAIN r})
  <2> DEFINE R == {r[i] : i \in DOMAIN r}
  <2>1. Len(r) \in Nat /\ r \in [1 .. Len(r) -> R]
    BY <1>2, <1>4, <1>5, LenProperties
  <2> HIDE DEF R
  <2>2. r \in Seq(R)
    BY <2>1, SeqDef
  <2> QED BY <2>2 DEF R
<1> QED BY <1>2, <1>4, <1>5, <1>6 DEF IsSequence

Replace(s, j, x) == [s EXCEPT ![j] = x]

LEMMA Replaced ==
    ASSUME NEW s, IsSequence(s), NEW j \in DOMAIN s, NEW x
    PROVE  /\ IsSequence(Replace(s, j, x)) /\ Len(Replace(s, j, x)) = Len(s) /\ DOMAIN Replace(s, j, x) = DOMAIN s
           /\ Replace(s, j, x)[j] = x /\ \A i \in DOMAIN s : i # j => Replace(s, j, x)[i] = s[i]
<1> DEFINE r == Replace(s, j, x)
           R == {r[i] : i \in DOMAIN r}
<1>1. Len(s) \in Nat /\ DOMAIN s = 1 .. Len(s)
  BY LenProperties DEF IsSequence
<1>2. DOMAIN r = DOMAIN s /\ r[j] = x /\ \A i \in DOMAIN s : i # j => r[i] = s[i]
  BY DEF Replace
<1>3. r \in [1 .. Len(s) -> R]
  BY <1>1, <1>2 DEF Replace
<1> HIDE DEF R
<1>4. r \in Seq(R)
  BY <1>1, <1>3, SeqDef
<1>5. Len(r) = Len(s)
  BY <1>1, <1>2, <1>4, LenProperties
<1> QED BY <1>2, <1>4, <1>5 DEF IsSequence, R

LEMMA JobsOrdered ==
    ASSUME RollTyped
    PROVE  Len(jobs) \in Nat /\ DOMAIN jobs = 1 .. Len(jobs)
BY LenProperties DEF RollTyped, IsSequence

\* Submission j gets on, to place.
JobGoes(j, place) == jobs' = [jobs EXCEPT ![j].at = place]

LEMMA JobGone ==
    ASSUME RollTyped, NEW j \in DOMAIN jobs, NEW place \in Ats, JobGoes(j, place)
    PROVE  /\ IsSequence(jobs') /\ Len(jobs') = Len(jobs) /\ DOMAIN jobs' = DOMAIN jobs
           /\ jobs'[j].at = place
           /\ \A i \in DOMAIN jobs : /\ JobShape(jobs'[i])
                                     /\ jobs'[i].after = jobs[i].after /\ jobs'[i].part = jobs[i].part
                                     /\ i # j => jobs'[i].at = jobs[i].at
<1> DEFINE new == [jobs[j] EXCEPT !.at = place]
<1>1. jobs' = Replace(jobs, j, new)
  BY DEF JobGoes, Replace
<1>2. JobShape(jobs[j]) /\ \A i \in DOMAIN jobs : JobShape(jobs[i])
  BY DEF RollTyped
<1>3. JobShape(new) /\ new.at = place /\ new.after = jobs[j].after /\ new.part = jobs[j].part
  BY <1>2 DEF JobShape
<1> HIDE DEF new
<1>4. /\ IsSequence(jobs') /\ Len(jobs') = Len(jobs) /\ DOMAIN jobs' = DOMAIN jobs
      /\ jobs'[j] = new /\ \A i \in DOMAIN jobs : i # j => jobs'[i] = jobs[i]
  BY <1>1, Replaced DEF RollTyped
<1> QED BY <1>2, <1>3, <1>4

-----------------------------------------------------------------------------
(* The steps.                                                              *)

\* Thread t is at place, the others where they were.
TurnTo(t, place) ==
    /\ turn' = [u \in Threads |-> turn'[u]] /\ \A u \in Threads \ {t} : turn'[u] = turn[u]
    /\ TurnShape(turn'[t]) /\ turn'[t].pc = place

\* A step of thread t that keeps its lane and submission.
LEMMA TurnSet ==
    ASSUME RollTyped, NEW t \in Threads, NEW place \in Places, turn' = [turn EXCEPT ![t].pc = place]
    PROVE  TurnTo(t, place) /\ turn'[t].lane = turn[t].lane /\ turn'[t].job = turn[t].job
<1>1. TurnShape(turn[t])
  BY DEF RollTyped
<1>2. turn'[t] = [turn[t] EXCEPT !.pc = place] /\ turn' = [u \in Threads |-> turn'[u]]
      /\ \A u \in Threads \ {t} : turn'[u] = turn[u]
  BY DEF RollTyped
<1> QED BY <1>1, <1>2 DEF TurnTo, TurnShape, NoTurn

LEMMA TurnReset ==
    ASSUME RollTyped, NEW t \in Threads, turn' = [turn EXCEPT ![t] = NoTurn]
    PROVE  TurnTo(t, "idle")
<1>1. TurnShape(NoTurn) /\ NoTurn.pc = "idle"
  BY DEF TurnShape, NoTurn, Places
<1> QED BY <1>1 DEF TurnTo, RollTyped

\* The device goes on with submission j.
LEMMA DeviceStepKeeps ==
    ASSUME RollInv, NEW j \in DOMAIN jobs, NEW place \in Ats \ Over, JobGoes(j, place), jobs[j].at \notin Over,
           jobs[j].part = "upload" => place \notin {"computing", "computed"},
           UNCHANGED <<state, slot, turn>>
    PROVE  RollInv'
<1>1. /\ IsSequence(jobs') /\ Len(jobs') = Len(jobs) /\ DOMAIN jobs' = DOMAIN jobs
      /\ jobs'[j].at = place
      /\ \A i \in DOMAIN jobs : /\ JobShape(jobs'[i])
                                /\ jobs'[i].after = jobs[i].after /\ jobs'[i].part = jobs[i].part
                                /\ i # j => jobs'[i].at = jobs[i].at
  BY JobGone DEF RollInv
<1>2. RollTyped'
  BY <1>1 DEF RollInv, RollTyped
<1>3. TicketsHeld' /\ LanesHeld'
  BY DEF RollInv, TicketsHeld, LanesHeld, AtTurn
<1>4. JobsHeld'
  <2> USE DEF RollInv, JobsHeld
  <2>1. slot'.computed \in 0 .. Len(jobs')
    BY <1>1
  <2>2. ASSUME NEW i \in DOMAIN jobs'
        PROVE  /\ jobs'[i].after \in 0 .. i - 1
               /\ jobs'[i].at \notin Over => jobs[i].at \notin Over
               /\ jobs'[i].part = "upload" => jobs'[i].at \notin {"computing", "computed"}
    <3>1. i \in DOMAIN jobs /\ jobs'[i].after = jobs[i].after /\ jobs'[i].part = jobs[i].part
      BY <1>1
    <3>2. CASE i = j
      BY <3>1, <3>2, <1>1
    <3>3. CASE i # j
      BY <3>1, <3>3, <1>1
    <3> QED BY <3>2, <3>3
  <2>3. ASSUME NEW i \in DOMAIN jobs', jobs'[i].at \notin Over
        PROVE  \E t \in Threads : turn'[t].job = i /\ turn'[t].pc \in Owning
    BY <2>2, <2>3, <1>1
  <2>4. ASSUME NEW t \in Threads, turn'[t].pc \in Owning
        PROVE  /\ turn'[t].job \in DOMAIN jobs' /\ jobs'[turn'[t].job].at \notin Over
               /\ turn'[t].pc = "settle" <=> jobs'[turn'[t].job].part # "all"
    <3>1. /\ turn[t].job \in DOMAIN jobs /\ jobs[turn[t].job].at \notin Over
          /\ turn[t].pc = "settle" <=> jobs[turn[t].job].part # "all"
      BY <2>4
    <3>2. jobs'[turn[t].job].part = jobs[turn[t].job].part /\ jobs'[turn[t].job].at \notin Over
      BY <3>1, <1>1
    <3> QED BY <3>1, <3>2, <1>1
  <2>5. \A t, u \in Threads : turn'[t].pc \in Owning /\ turn'[u].pc \in Owning /\ turn'[t].job = turn'[u].job => t = u
    OBVIOUS
  <2> QED BY <2>1, <2>2, <2>3, <2>4, <2>5
<1> QED BY <1>2, <1>3, <1>4 DEF RollInv

LEMMA WorkKeeps ==
    ASSUME RollInv, NEW j \in DOMAIN jobs, Work(j)
    PROVE  RollInv'
<1> USE DEF host
<1>1. jobs[j].part = "upload" => jobs[j].at # "computing"
  BY DEF RollInv, JobsHeld
<1>2. CASE UploadStarts(j)
  BY <1>2, DeviceStepKeeps DEF UploadStarts, MayUpload, JobGoes, Ats, Over
<1>3. CASE UploadEnds(j)
  BY <1>3, DeviceStepKeeps DEF UploadEnds, JobGoes, Ats, Over
<1>4. CASE KernelsStart(j)
  BY <1>4, DeviceStepKeeps DEF KernelsStart, MayCompute, JobGoes, Ats, Over
<1>5. CASE KernelsEnd(j)
  <2>1. JobGoes(j, "computed") /\ jobs[j].at = "computing" /\ UNCHANGED <<state, slot, turn>>
    BY <1>5 DEF KernelsEnd, JobGoes
  <2> QED BY <1>1, <2>1, DeviceStepKeeps DEF Ats, Over
<1> QED BY <1>2, <1>3, <1>4, <1>5 DEF Work

\* A step of a thread that has no submission and no lane, before or after.
LEMMA OthersKeep ==
    ASSUME LanesHeld, JobsHeld, NEW t \in Threads, NEW place, TurnTo(t, place), UNCHANGED <<slot, jobs>>,
           turn[t].pc \notin Laned, place \notin Laned
    PROVE  LanesHeld' /\ JobsHeld'
<1>1. \A u \in Threads \ {t} : turn'[u] = turn[u]
  BY DEF TurnTo
<1>2. turn'[t].pc \notin Laned /\ turn'[t].pc \notin Owning /\ turn[t].pc \notin Owning
  BY DEF TurnTo, Laned, Owning
<1>3. \A u \in Threads :
          (\/ turn[u].pc \in Laned \/ turn'[u].pc \in Laned
           \/ turn[u].pc \in Owning \/ turn'[u].pc \in Owning) => turn'[u] = turn[u]
  <2> SUFFICES ASSUME NEW u \in Threads, turn'[u] # turn[u]
               PROVE  turn[u].pc \notin Laned \cup Owning /\ turn'[u].pc \notin Laned \cup Owning
    OBVIOUS
  <2>1. u = t
    BY <1>1
  <2> QED BY <1>2, <2>1
<1>4. slot'.recording => \E u \in Threads : turn'[u].pc \in {"record", "settle"}
  BY <1>1, <1>3 DEF LanesHeld, Laned
<1>5. LanesHeld'
  BY <1>1, <1>3, <1>4 DEF LanesHeld
<1>6. \A u \in Threads : turn'[u].pc \in Owning => turn[u].pc \in Owning /\ turn'[u] = turn[u]
  BY <1>1, <1>3
<1>7. ASSUME NEW j \in DOMAIN jobs, jobs[j].at \notin Over
      PROVE  \E u \in Threads : turn'[u].job = j /\ turn'[u].pc \in Owning
  <2>1. PICK u \in Threads : turn[u].job = j /\ turn[u].pc \in Owning
    BY <1>7 DEF JobsHeld
  <2>2. turn'[u] = turn[u]
    BY <1>1, <1>3, <2>1
  <2> QED BY <2>1, <2>2
<1>8. JobsHeld'
  BY <1>6, <1>7 DEF JobsHeld
<1> QED BY <1>5, <1>8

LEMMA PlanKeeps ==
    ASSUME RollInv, NEW t \in Threads, NEW start, Plan(t, start)
    PROVE  RollInv'
<1>1. RollTyped /\ turn[t].pc = "idle" /\ UNCHANGED <<slot, jobs>>
  BY DEF Plan, RollInv
<1>2. TurnTo(t, "enter")
  <2>1. PICK carry, uploaded, chained, waits :
            turn' = [turn EXCEPT ![t] = [NoTurn EXCEPT !.pc = "enter", !.start = start, !.carry = carry, !.chain = chained,
                                                       !.wait_upload = waits, !.uploads = uploaded]]
    BY DEF Plan
  <2> DEFINE new == [pc |-> "enter", start |-> start, carry |-> carry, wait_upload |-> waits, uploads |-> uploaded,
                     chain |-> chained, lane |-> 0, job |-> 0]
  <2>2. turn'[t] = new
    BY <1>1, <2>1 DEF RollTyped, NoTurn
  <2>3. TurnShape(new) /\ new.pc = "enter"
    <3>1. DOMAIN new = DOMAIN NoTurn
      BY DEF NoTurn
    <3> QED BY <3>1 DEF TurnShape, Places
  <2> HIDE DEF new
  <2> QED BY <1>1, <2>1, <2>2, <2>3 DEF TurnTo, RollTyped
<1>3. "tickets" \in DOMAIN state' /\ state'.tickets = Append(state.tickets, t)
  <2>1. \E promised, fresh, chained, next :
            state' = [state EXCEPT !.promised = promised, !.fresh_last = fresh, !.chain = chained,
                                   !.tickets = Append(@, t), !.next_start = next]
    BY DEF Plan
  <2> QED BY <1>1, <2>1 DEF RollTyped
<1>4. /\ state.tickets \in Seq(Threads) /\ state'.tickets \in Seq(Threads)
      /\ \A i \in DOMAIN state.tickets : i \in DOMAIN state'.tickets /\ state'.tickets[i] = state.tickets[i]
      /\ \E i \in DOMAIN state'.tickets : state'.tickets[i] = t
  <2>1. state.tickets \in Seq(Threads)
    BY <1>1 DEF RollTyped
  <2>2. /\ DOMAIN state.tickets = 1 .. Len(state.tickets) /\ Len(state.tickets) \in Nat
        /\ DOMAIN Append(state.tickets, t) = 1 .. Len(state.tickets) + 1
    BY <2>1, AppendProperties, LenProperties
  <2> QED BY <1>3, <2>1, <2>2, AppendProperties
<1>5. \A u \in Threads : AtTurn(u) => AtTurn(u)'
  BY <1>3, <1>4, HeadTailProperties, EmptySeq, LenProperties DEF AtTurn
<1>6. RollTyped'
  BY <1>1, <1>2, <1>3, <1>4 DEF RollTyped, TurnTo
<1>7. TicketsHeld'
  <2>1. ASSUME NEW u \in Threads \ {t}
        PROVE  /\ turn'[u].pc \in {"enter", "failed", "record", "leave", "settle"} =>
                      \E i \in DOMAIN state'.tickets : state'.tickets[i] = u
               /\ turn'[u].pc \in {"record", "leave", "settle"} => AtTurn(u)'
    BY <1>2, <1>4, <1>5 DEF RollInv, TicketsHeld, TurnTo
  <2>2. turn'[t].pc = "enter"
    BY <1>2 DEF TurnTo
  <2>3. ASSUME NEW u \in Threads
        PROVE  /\ turn'[u].pc \in {"enter", "failed", "record", "leave", "settle"} =>
                      \E i \in DOMAIN state'.tickets : state'.tickets[i] = u
               /\ turn'[u].pc \in {"record", "leave", "settle"} => AtTurn(u)'
    <3>1. CASE u = t
      BY <1>4, <2>2, <3>1
    <3>2. CASE u # t
      BY <2>1, <3>2
    <3> QED BY <3>1, <3>2
  <2> QED BY <2>3 DEF TicketsHeld
<1>8. LanesHeld' /\ JobsHeld'
  BY <1>1, <1>2, OthersKeep DEF RollInv, Laned, Owning
<1> QED BY <1>6, <1>7, <1>8 DEF RollInv

LEMMA StageFailsKeeps ==
    ASSUME RollInv, NEW t \in Threads, StageFails(t)
    PROVE  RollInv'
<1>1. RollTyped /\ turn[t].pc = "enter" /\ UNCHANGED <<state, slot, jobs>>
  BY DEF StageFails, RollInv
<1>2. TurnTo(t, "failed")
  BY <1>1, TurnSet DEF StageFails, Places
<1>3. RollTyped'
  BY <1>1, <1>2 DEF RollTyped, TurnTo
<1>4. TicketsHeld'
  BY <1>1, <1>2 DEF RollInv, TicketsHeld, TurnTo, AtTurn
<1>5. LanesHeld' /\ JobsHeld'
  BY <1>1, <1>2, OthersKeep DEF RollInv, Laned
<1> QED BY <1>3, <1>4, <1>5 DEF RollInv

LEMMA EnterKeeps ==
    ASSUME RollInv, NEW t \in Threads, Enter(t)
    PROVE  RollInv'
<1> DEFINE place == IF Failed(t) THEN "failed" ELSE "record"
<1>1. /\ RollTyped /\ turn[t].pc = "enter" /\ AtTurn(t) /\ ~slot.recording /\ ~slot.in_use[slot.next_lane]
      /\ UNCHANGED <<state, jobs>>
  BY DEF Enter, MayEnter, RollInv
<1>2. TurnTo(t, place) /\ turn'[t].lane = slot.next_lane
  <2>1. turn' = [turn EXCEPT ![t].pc = place, ![t].lane = slot.next_lane] /\ place \in Places
    BY DEF Enter, Places
  <2>2. turn'[t] = [turn[t] EXCEPT !.pc = place, !.lane = slot.next_lane]
    BY <1>1, <2>1 DEF RollTyped
  <2> HIDE DEF place
  <2>3. turn' = [u \in Threads |-> turn'[u]] /\ \A u \in Threads \ {t} : turn'[u] = turn[u]
    BY <1>1, <2>1 DEF RollTyped
  <2>4. slot.next_lane \in 0 .. 1 /\ TurnShape(turn[t])
    BY <1>1 DEF RollTyped
  <2>5. TurnShape(turn'[t]) /\ turn'[t].pc = place /\ turn'[t].lane = slot.next_lane
    <3>1. DOMAIN turn[t] = DOMAIN NoTurn /\ "pc" \in DOMAIN NoTurn /\ "lane" \in DOMAIN NoTurn
      BY <2>4 DEF TurnShape, NoTurn
    <3>2. turn'[t].pc = place /\ turn'[t].lane = slot.next_lane /\ turn'[t].job = turn[t].job
          /\ DOMAIN turn'[t] = DOMAIN turn[t]
      BY <2>2, <3>1
    <3> QED BY <2>1, <2>4, <3>1, <3>2 DEF TurnShape
  <2> QED BY <2>3, <2>5 DEF TurnTo
<1>3. /\ slot' \in [recording : BOOLEAN, next_lane : 0 .. 1, in_use : [0 .. 1 -> BOOLEAN], computed : Nat]
      /\ slot'.recording = ~Failed(t) /\ slot'.computed = slot.computed
      /\ slot'.in_use[slot.next_lane] = ~Failed(t)
      /\ \A l \in 0 .. 1 : l # slot.next_lane => slot'.in_use[l] = slot.in_use[l]
  <2>1. slot \in [recording : BOOLEAN, next_lane : 0 .. 1, in_use : [0 .. 1 -> BOOLEAN], computed : Nat]
    BY <1>1 DEF RollTyped
  <2>2. PICK ok \in BOOLEAN : ok = ~Failed(t)
    BY DEF Failed
  <2>3. PICK l \in 0 .. 1 : l = slot.next_lane
    BY <2>1
  <2>4. slot' = [slot EXCEPT !.next_lane = 1 - l, !.recording = ok, !.in_use = [slot.in_use EXCEPT ![l] = ok]]
    BY <2>1, <2>2, <2>3 DEF Enter, Entered
  <2>5. [slot.in_use EXCEPT ![l] = ok] \in [0 .. 1 -> BOOLEAN] /\ 1 - l \in 0 .. 1
    BY <2>1
  <2> QED BY <2>1, <2>2, <2>3, <2>4, <2>5
<1>4. RollTyped'
  BY <1>1, <1>2, <1>3 DEF RollTyped, TurnTo
<1>5. TicketsHeld'
  BY <1>1, <1>2 DEF RollInv, TicketsHeld, TurnTo, AtTurn
<1>6. LanesHeld'
  BY <1>1, <1>2, <1>3 DEF RollInv, LanesHeld, TurnTo, Laned
<1>7. JobsHeld'
  BY <1>1, <1>2, <1>3 DEF RollInv, JobsHeld, TurnTo, Owning
<1> QED BY <1>4, <1>5, <1>6, <1>7 DEF RollInv

\* A lane is released, and its thread has none.
Frees(t, recording) ==
    /\ slot'.recording = recording /\ slot'.computed = slot.computed
    /\ slot' \in [recording : BOOLEAN, next_lane : 0 .. 1, in_use : [0 .. 1 -> BOOLEAN], computed : Nat]
    /\ ~slot'.in_use[turn[t].lane] /\ \A l \in 0 .. 1 : l # turn[t].lane => slot'.in_use[l] = slot.in_use[l]

LEMMA Freed ==
    ASSUME RollTyped, NEW t \in Threads
    PROVE  /\ slot' = [slot EXCEPT !.recording = FALSE, !.in_use[turn[t].lane] = FALSE] => Frees(t, FALSE)
           /\ slot' = [slot EXCEPT !.in_use[turn[t].lane] = FALSE] => Frees(t, slot.recording)
<1>1. PICK l \in 0 .. 1 : l = turn[t].lane
  BY DEF RollTyped, TurnShape
<1>2. slot \in [recording : BOOLEAN, next_lane : 0 .. 1, in_use : [0 .. 1 -> BOOLEAN], computed : Nat]
  BY DEF RollTyped
<1>3. PICK lanes \in [0 .. 1 -> BOOLEAN] : lanes = [slot.in_use EXCEPT ![l] = FALSE]
  BY <1>2
<1>4. ~lanes[l] /\ \A k \in 0 .. 1 : k # l => lanes[k] = slot.in_use[k]
  BY <1>2, <1>3
<1>5. ASSUME slot' = [slot EXCEPT !.recording = FALSE, !.in_use[turn[t].lane] = FALSE]
      PROVE  Frees(t, FALSE)
  <2>1. slot' = [slot EXCEPT !.recording = FALSE, !.in_use = lanes]
    BY <1>1, <1>2, <1>3, <1>5
  <2> QED BY <1>1, <1>2, <1>4, <2>1 DEF Frees
<1>6. ASSUME slot' = [slot EXCEPT !.in_use[turn[t].lane] = FALSE]
      PROVE  Frees(t, slot.recording)
  <2>1. slot' = [slot EXCEPT !.in_use = lanes]
    BY <1>1, <1>2, <1>3, <1>6
  <2> QED BY <1>1, <1>2, <1>4, <2>1 DEF Frees
<1> QED BY <1>5, <1>6

LEMMA LanesFreed ==
    ASSUME RollTyped, LanesHeld, NEW t \in Threads, NEW place, TurnTo(t, place), place \notin Laned, NEW recording, Frees(t, recording),
           ~recording \/ (recording = slot.recording /\ turn[t].pc = "wait")
    PROVE  LanesHeld'
<1>1. \A u \in Threads \ {t} : turn'[u] = turn[u]
  BY DEF TurnTo
<1>2. ASSUME slot'.recording PROVE \E u \in Threads : turn'[u].pc \in {"record", "settle"}
  <2>1. slot.recording /\ turn[t].pc = "wait"
    BY <1>2 DEF Frees
  <2>2. PICK u \in Threads : turn[u].pc \in {"record", "settle"}
    BY <2>1 DEF LanesHeld
  <2>3. u # t
    BY <2>1, <2>2
  <2> QED BY <1>1, <2>2, <2>3
<1>3. ASSUME NEW l \in 0 .. 1, slot'.in_use[l]
      PROVE  \E u \in Threads : turn'[u].lane = l /\ turn'[u].pc \in Laned
  <2>1. l # turn[t].lane /\ slot.in_use[l]
    BY <1>3 DEF Frees
  <2>2. PICK u \in Threads : turn[u].lane = l /\ turn[u].pc \in Laned
    BY <2>1 DEF LanesHeld
  <2> QED BY <1>1, <2>1, <2>2
<1> QED BY <1>2, <1>3 DEF LanesHeld

\* A thread gives its submission back, which is over.
LEMMA JobLeft ==
    ASSUME RollTyped, JobsHeld, NEW t \in Threads, NEW place, TurnTo(t, place), place \notin Owning, turn[t].pc \in Owning,
           NEW over \in Over, JobGoes(turn[t].job, over), slot'.computed = slot.computed
    PROVE  JobsHeld' /\ IsSequence(jobs') /\ \A i \in DOMAIN jobs' : JobShape(jobs'[i])
<1> DEFINE j == turn[t].job
<1>1. j \in DOMAIN jobs /\ over \in Ats
  BY DEF JobsHeld, Over, Ats
<1>2. /\ IsSequence(jobs') /\ Len(jobs') = Len(jobs) /\ DOMAIN jobs' = DOMAIN jobs
      /\ jobs'[j].at = over
      /\ \A i \in DOMAIN jobs : /\ JobShape(jobs'[i])
                                /\ jobs'[i].after = jobs[i].after /\ jobs'[i].part = jobs[i].part
                                /\ i # j => jobs'[i].at = jobs[i].at
  BY <1>1, JobGone
<1>3. \A u \in Threads : /\ turn'[u].pc \in Owning => u # t /\ turn'[u] = turn[u] /\ turn[u].job # j
                         /\ u # t => turn'[u] = turn[u]
  BY DEF TurnTo, JobsHeld
<1> HIDE DEF j
<1>4. ASSUME NEW i \in DOMAIN jobs, jobs'[i].at \notin Over
      PROVE  \E u \in Threads : turn'[u].job = i /\ turn'[u].pc \in Owning
  <2>1. i # j /\ jobs[i].at \notin Over
    BY <1>2, <1>4
  <2>2. PICK u \in Threads : turn[u].job = i /\ turn[u].pc \in Owning
    BY <2>1 DEF JobsHeld
  <2>3. u # t
    BY <2>1, <2>2 DEF j
  <2> QED BY <1>3, <2>2, <2>3
<1>5. \A i \in DOMAIN jobs : jobs'[i].part = "upload" => jobs'[i].at \notin {"computing", "computed"}
  BY <1>2 DEF JobsHeld, Over
<1>6. \A u \in Threads : turn'[u].pc \in Owning =>
          /\ turn'[u].job \in DOMAIN jobs' /\ jobs'[turn'[u].job].at \notin Over
          /\ turn'[u].pc = "settle" <=> jobs'[turn'[u].job].part # "all"
  BY <1>2, <1>3 DEF JobsHeld
<1>7. \A u, v \in Threads : turn'[u].pc \in Owning /\ turn'[v].pc \in Owning /\ turn'[u].job = turn'[v].job => u = v
  BY <1>3 DEF JobsHeld
<1>8. slot'.computed \in 0 .. Len(jobs') /\ \A i \in DOMAIN jobs' : jobs'[i].after \in 0 .. i - 1
  BY <1>2 DEF JobsHeld
<1>9. JobsHeld'
  BY <1>2, <1>4, <1>5, <1>6, <1>7, <1>8 DEF JobsHeld
<1> QED BY <1>2, <1>9

\* The first ticket is taken from the queue.
LEMMA TicketLeft ==
    ASSUME RollTyped, TicketsHeld, NEW t \in Threads, NEW place \in {"idle", "wait"}, TurnTo(t, place), AtTurn(t),
           "tickets" \in DOMAIN state', state'.tickets = Tail(state.tickets)
    PROVE  TicketsHeld' /\ state'.tickets \in Seq(Threads)
<1>1. /\ state.tickets \in Seq(Threads) /\ state.tickets # <<>> /\ Head(state.tickets) = t
  BY DEF RollTyped, AtTurn
<1>2. /\ Len(state.tickets) \in Nat /\ Len(state.tickets) # 0 /\ DOMAIN state.tickets = 1 .. Len(state.tickets)
      /\ state.tickets[1] = t
  BY <1>1, LenProperties, EmptySeq, HeadTailProperties
<1>3. /\ state'.tickets \in Seq(Threads) /\ Len(state'.tickets) = Len(state.tickets) - 1
      /\ \A i \in 1 .. Len(state'.tickets) : state'.tickets[i] = state.tickets[i + 1]
      /\ DOMAIN state'.tickets = 1 .. Len(state'.tickets)
  BY <1>1, <1>2, HeadTailProperties, LenProperties
<1>4. ASSUME NEW u \in Threads
      PROVE  /\ turn'[u].pc \in {"enter", "failed", "record", "leave", "settle"} =>
                    \E i \in DOMAIN state'.tickets : state'.tickets[i] = u
             /\ turn'[u].pc \in {"record", "leave", "settle"} => AtTurn(u)'
  <2>1. CASE u = t
    BY <2>1 DEF TurnTo
  <2>2. CASE u # t
    <3>1. turn'[u] = turn[u] /\ turn[u].pc \notin {"record", "leave", "settle"}
      BY <1>1, <2>2 DEF TurnTo, TicketsHeld, AtTurn
    <3>2. ASSUME turn[u].pc \in {"enter", "failed", "record", "leave", "settle"}
          PROVE  \E i \in DOMAIN state'.tickets : state'.tickets[i] = u
      <4>1. PICK i \in DOMAIN state.tickets : state.tickets[i] = u
        BY <3>2 DEF TicketsHeld
      <4>2. i # 1 /\ i - 1 \in DOMAIN state'.tickets /\ (i - 1) + 1 = i
        BY <1>2, <1>3, <2>2, <4>1
      <4> QED BY <1>3, <4>1, <4>2
    <3> QED BY <3>1, <3>2
  <2> QED BY <2>1, <2>2
<1> QED BY <1>3, <1>4 DEF TicketsHeld

LEMMA SettleKeeps ==
    ASSUME RollInv, NEW t \in Threads, Settle(t)
    PROVE  RollInv'
<1>1. RollTyped /\ turn[t].pc = "settle" /\ UNCHANGED state /\ JobGoes(turn[t].job, "dropped")
      /\ slot' = [slot EXCEPT !.recording = FALSE, !.in_use[turn[t].lane] = FALSE]
  BY DEF Settle, RollInv, JobGoes
<1>2. TurnTo(t, "failed") /\ Frees(t, FALSE)
  BY <1>1, TurnSet, Freed DEF Settle, Places
<1>3. LanesHeld'
  BY <1>1, <1>2, LanesFreed DEF RollInv, Laned
<1>4. JobsHeld' /\ IsSequence(jobs') /\ \A i \in DOMAIN jobs' : JobShape(jobs'[i])
  BY <1>1, <1>2, JobLeft DEF RollInv, Over, Owning, Frees
<1>5. TicketsHeld'
  BY <1>1, <1>2 DEF RollInv, TicketsHeld, TurnTo, AtTurn
<1>6. RollTyped'
  BY <1>1, <1>2, <1>4 DEF RollTyped, TurnTo, Frees
<1> QED BY <1>3, <1>4, <1>5, <1>6 DEF RollInv

LEMMA UnwindKeeps ==
    ASSUME RollInv, NEW t \in Threads, Unwind(t)
    PROVE  RollInv'
<1>1. RollTyped /\ turn[t].pc = "failed" /\ AtTurn(t) /\ UNCHANGED <<slot, jobs>>
  BY DEF Unwind, RollInv
<1>2. TurnTo(t, "idle")
  BY <1>1, TurnReset DEF Unwind
<1>3. "tickets" \in DOMAIN state' /\ state'.tickets = Tail(state.tickets)
  BY <1>1 DEF Unwind, MarkedFailed, RollTyped
<1>4. TicketsHeld' /\ state'.tickets \in Seq(Threads)
  BY <1>1, <1>2, <1>3, TicketLeft DEF RollInv
<1>5. LanesHeld' /\ JobsHeld'
  BY <1>1, <1>2, OthersKeep DEF RollInv, Laned
<1>6. RollTyped'
  BY <1>1, <1>2, <1>3, <1>4 DEF RollTyped, TurnTo
<1> QED BY <1>4, <1>5, <1>6 DEF RollInv

LEMMA WaitKeeps ==
    ASSUME RollInv, NEW t \in Threads, Wait(t) \/ WaitFails(t)
    PROVE  RollInv'
<1>1. /\ RollTyped /\ turn[t].pc = "wait" /\ \E over \in Over : JobGoes(turn[t].job, over)
      /\ slot' = [slot EXCEPT !.in_use[turn[t].lane] = FALSE] /\ turn' = [turn EXCEPT ![t] = NoTurn]
  BY DEF Wait, WaitFails, RollInv, JobGoes, Over
<1>2. "tickets" \in DOMAIN state' /\ state'.tickets = state.tickets
  BY <1>1 DEF Wait, WaitFails, RollTyped
<1>3. TurnTo(t, "idle") /\ Frees(t, slot.recording)
  BY <1>1, TurnReset, Freed
<1>4. LanesHeld'
  BY <1>1, <1>3, LanesFreed DEF RollInv, Laned
<1>5. JobsHeld' /\ IsSequence(jobs') /\ \A i \in DOMAIN jobs' : JobShape(jobs'[i])
  BY <1>1, <1>3, JobLeft DEF RollInv, Owning, Frees
<1>6. TicketsHeld'
  BY <1>1, <1>2, <1>3 DEF RollInv, TicketsHeld, TurnTo, AtTurn
<1>7. RollTyped'
  BY <1>1, <1>2, <1>3, <1>5 DEF RollTyped, TurnTo, Frees
<1> QED BY <1>4, <1>5, <1>6, <1>7 DEF RollInv

LEMMA LeaveKeeps ==
    ASSUME RollInv, NEW t \in Threads, Leave(t)
    PROVE  RollInv'
<1>1. RollTyped /\ turn[t].pc = "leave" /\ UNCHANGED <<slot, jobs>>
  BY DEF Leave, RollInv
<1>2. TurnTo(t, "wait") /\ turn'[t].lane = turn[t].lane /\ turn'[t].job = turn[t].job
  BY <1>1, TurnSet DEF Leave, Places
<1>3. "tickets" \in DOMAIN state' /\ state'.tickets = Tail(state.tickets) /\ AtTurn(t)
  BY <1>1 DEF Leave, RollTyped, RollInv, TicketsHeld
<1>4. TicketsHeld' /\ state'.tickets \in Seq(Threads)
  BY <1>1, <1>2, <1>3, TicketLeft DEF RollInv
<1>5. \A u \in Threads : /\ turn'[u].lane = turn[u].lane /\ turn'[u].job = turn[u].job
                         /\ turn'[u].pc \in Laned <=> turn[u].pc \in Laned
                         /\ turn'[u].pc \in Owning <=> turn[u].pc \in Owning
                         /\ turn'[u].pc = "settle" <=> turn[u].pc = "settle"
                         /\ turn'[u].pc \in {"record", "settle"} <=> turn[u].pc \in {"record", "settle"}
  BY <1>1, <1>2 DEF TurnTo, Laned, Owning
<1>6. LanesHeld'
  BY <1>1, <1>5 DEF RollInv, LanesHeld
<1>7. JobsHeld'
  BY <1>1, <1>5 DEF RollInv, JobsHeld
<1>8. RollTyped'
  BY <1>1, <1>2, <1>3, <1>4 DEF RollTyped, TurnTo
<1> QED BY <1>4, <1>6, <1>7, <1>8 DEF RollInv

LEMMA RecordFailsKeeps ==
    ASSUME RollInv, NEW t \in Threads, RecordFails(t)
    PROVE  RollInv'
<1>1. RollTyped /\ turn[t].pc = "record" /\ UNCHANGED <<state, jobs>>
      /\ slot' = [slot EXCEPT !.recording = FALSE, !.in_use[turn[t].lane] = FALSE]
  BY DEF RecordFails, RollInv
<1>2. TurnTo(t, "failed") /\ Frees(t, FALSE)
  BY <1>1, TurnSet, Freed DEF RecordFails, Places
<1>3. LanesHeld'
  BY <1>1, <1>2, LanesFreed DEF RollInv, Laned
<1>4. \A u \in Threads : turn'[u].pc \in Owning \/ turn[u].pc \in Owning => turn'[u] = turn[u]
  <2> SUFFICES ASSUME NEW u \in Threads, turn'[u] # turn[u]
               PROVE  turn[u].pc \notin Owning /\ turn'[u].pc \notin Owning
    OBVIOUS
  <2>1. u = t
    BY <1>2 DEF TurnTo
  <2> QED BY <1>1, <1>2, <2>1 DEF TurnTo, Owning
<1>5. JobsHeld'
  BY <1>1, <1>2, <1>4 DEF RollInv, JobsHeld, Frees
<1>6. TicketsHeld'
  BY <1>1, <1>2 DEF RollInv, TicketsHeld, TurnTo, AtTurn
<1>7. RollTyped'
  BY <1>1, <1>2 DEF RollTyped, TurnTo, Frees
<1> QED BY <1>3, <1>5, <1>6, <1>7 DEF RollInv

\* A submission is made, whole or in part.
Submits(t, new, place) ==
    /\ jobs' = Append(jobs, new)
    /\ TurnTo(t, place) /\ turn'[t].job = Len(jobs) + 1 /\ turn'[t].lane = turn[t].lane
    /\ UNCHANGED state
    /\ slot' \in [recording : BOOLEAN, next_lane : 0 .. 1, in_use : [0 .. 1 -> BOOLEAN], computed : Nat]
    /\ slot'.in_use = slot.in_use /\ slot'.computed \in {slot.computed, Len(jobs) + 1}
    /\ slot'.recording => place = "settle"

LEMMA SubmitsKeep ==
    ASSUME RollInv, NEW t \in Threads, turn[t].pc = "record", NEW new, NEW place \in {"leave", "settle"}, Submits(t, new, place),
           JobShape(new), new.at = "queued", new.after = slot.computed, place = "settle" <=> new.part # "all"
    PROVE  RollInv'
<1> DEFINE n == Len(jobs)
<1>1. /\ IsSequence(jobs') /\ n \in Nat /\ Len(jobs') = n + 1 /\ DOMAIN jobs = 1 .. n /\ DOMAIN jobs' = 1 .. n + 1
      /\ jobs'[n + 1] = new /\ \A i \in 1 .. n : jobs'[i] = jobs[i]
  <2>1. jobs' = Attach(jobs, new) /\ IsSequence(jobs)
    BY DEF RollInv, RollTyped, Submits, Attach
  <2> QED BY <2>1, Appended
<1>2. /\ RollTyped /\ TurnTo(t, place) /\ turn'[t].job = n + 1 /\ turn'[t].lane = turn[t].lane /\ UNCHANGED state
      /\ \A u \in Threads \ {t} : turn'[u] = turn[u]
      /\ slot.computed \in 0 .. n
  BY DEF RollInv, Submits, TurnTo, JobsHeld
<1> HIDE DEF n
<1>3. RollTyped'
  <2>1. \A j \in DOMAIN jobs' : JobShape(jobs'[j])
    BY <1>1, <1>2 DEF RollTyped
  <2> QED BY <1>1, <1>2, <2>1 DEF RollTyped, TurnTo, Submits
<1>4. TicketsHeld'
  BY <1>2 DEF RollInv, TicketsHeld, TurnTo, AtTurn
<1>5. LanesHeld'
  <2>1. slot'.recording => \E u \in Threads : turn'[u].pc \in {"record", "settle"}
    BY <1>2 DEF Submits, TurnTo
  <2>2. \A l \in 0 .. 1 : slot'.in_use[l] => \E u \in Threads : turn'[u].lane = l /\ turn'[u].pc \in Laned
    BY <1>2 DEF Submits, TurnTo, Laned, RollInv, LanesHeld
  <2> QED BY <2>1, <2>2 DEF LanesHeld
<1>6. turn[t].pc \notin Owning /\ turn'[t].pc \in Owning /\ turn'[t].pc = place
  BY <1>2 DEF Owning, TurnTo
<1>7. ASSUME NEW i \in 1 .. n + 1
      PROVE  /\ jobs'[i].after \in 0 .. i - 1
             /\ jobs'[i].at \notin Over => \E u \in Threads : turn'[u].job = i /\ turn'[u].pc \in Owning
             /\ jobs'[i].part = "upload" => jobs'[i].at \notin {"computing", "computed"}
  <2>1. CASE i = n + 1
    BY <1>1, <1>2, <1>6, <2>1
  <2>2. CASE i \in 1 .. n
    <3>1. ASSUME jobs[i].at \notin Over PROVE \E u \in Threads : turn'[u].job = i /\ turn'[u].pc \in Owning
      <4>1. PICK u \in Threads : turn[u].job = i /\ turn[u].pc \in Owning
        BY <1>1, <2>2, <3>1 DEF RollInv, JobsHeld
      <4>2. u # t
        BY <1>6, <4>1
      <4> QED BY <1>2, <4>1, <4>2
    <3> QED BY <1>1, <2>2, <3>1 DEF RollInv, JobsHeld
  <2> QED BY <1>1, <2>1, <2>2
<1>8. ASSUME NEW u \in Threads, turn'[u].pc \in Owning
      PROVE  /\ turn'[u].job \in 1 .. n + 1 /\ jobs'[turn'[u].job].at \notin Over
             /\ turn'[u].pc = "settle" <=> jobs'[turn'[u].job].part # "all"
             /\ u # t => turn[u].pc \in Owning /\ turn'[u].job = turn[u].job /\ turn[u].job \in 1 .. n
  <2>1. CASE u = t
    BY <1>1, <1>2, <1>6, <2>1 DEF Over
  <2>2. CASE u # t
    <3>1. turn'[u] = turn[u] /\ turn[u].job \in 1 .. n
      BY <1>1, <1>2, <1>8, <2>2 DEF RollInv, JobsHeld
    <3> QED BY <1>1, <1>8, <2>2, <3>1 DEF RollInv, JobsHeld
  <2> QED BY <2>1, <2>2
<1>9. ASSUME NEW u \in Threads, NEW v \in Threads, turn'[u].pc \in Owning, turn'[v].pc \in Owning, turn'[u].job = turn'[v].job
      PROVE  u = v
  <2>1. CASE u # t /\ v # t
    BY <1>8, <1>9, <2>1 DEF RollInv, JobsHeld
  <2>2. CASE u = t \/ v = t
    BY <1>1, <1>2, <1>8, <1>9, <2>2
  <2> QED BY <2>1, <2>2
<1>10. slot'.computed \in 0 .. n + 1
  BY <1>1, <1>2 DEF Submits, n
<1>11. JobsHeld'
  BY <1>1, <1>7, <1>8, <1>9, <1>10 DEF JobsHeld
<1> QED BY <1>3, <1>4, <1>5, <1>11 DEF RollInv

LEMMA SubmitKeepsTurns ==
    ASSUME RollInv, NEW t \in Threads, Submit(t) \/ \E stage \in {"upload", "compute"} : SubmitFails(t, stage)
    PROVE  RollInv'
<1>1. RollTyped /\ turn[t].pc = "record" /\ UNCHANGED state /\ TurnShape(turn[t]) /\ Len(jobs) \in Nat
      /\ slot \in [recording : BOOLEAN, next_lane : 0 .. 1, in_use : [0 .. 1 -> BOOLEAN], computed : Nat]
  BY JobsOrdered DEF Submit, SubmitFails, RollInv, RollTyped
<1>2. /\ JobShape(Submission(t)) /\ Submission(t).at = "queued" /\ Submission(t).after = slot.computed
      /\ Submission(t).part = "all"
      /\ \A stage \in {"upload", "compute"} :
            LET new == [Submission(t) EXCEPT !.part = stage]
            IN  JobShape(new) /\ new.at = "queued" /\ new.after = slot.computed /\ new.part = stage
  BY DEF Submission, JobShape, Ats
<1>3. ASSUME NEW place \in {"leave", "settle"}, turn' = [turn EXCEPT ![t].pc = place, ![t].job = Len(jobs) + 1]
      PROVE  TurnTo(t, place) /\ turn'[t].job = Len(jobs) + 1 /\ turn'[t].lane = turn[t].lane
  <2>1. turn'[t] = [turn[t] EXCEPT !.pc = place, !.job = Len(jobs) + 1] /\ turn' = [u \in Threads |-> turn'[u]]
        /\ \A u \in Threads \ {t} : turn'[u] = turn[u]
    BY <1>1, <1>3 DEF RollTyped
  <2>2. DOMAIN turn[t] = DOMAIN NoTurn /\ {"pc", "job", "lane"} \subseteq DOMAIN NoTurn
    BY <1>1 DEF TurnShape, NoTurn
  <2>3. /\ turn'[t].pc = place /\ turn'[t].job = Len(jobs) + 1 /\ turn'[t].lane = turn[t].lane
        /\ DOMAIN turn'[t] = DOMAIN NoTurn
    BY <2>1, <2>2
  <2> QED BY <1>1, <2>1, <2>3 DEF TurnTo, TurnShape, Places
<1>4. CASE Submit(t)
  <2>1. /\ jobs' = Append(jobs, Submission(t)) /\ slot' = [slot EXCEPT !.recording = FALSE, !.computed = Len(jobs) + 1]
        /\ turn' = [turn EXCEPT ![t].pc = "leave", ![t].job = Len(jobs) + 1]
    BY <1>4 DEF Submit
  <2>2. TurnTo(t, "leave") /\ turn'[t].job = Len(jobs) + 1 /\ turn'[t].lane = turn[t].lane
    BY <1>3, <2>1
  <2>3. slot'.recording = FALSE /\ slot'.in_use = slot.in_use /\ slot'.computed = Len(jobs) + 1
        /\ slot' \in [recording : BOOLEAN, next_lane : 0 .. 1, in_use : [0 .. 1 -> BOOLEAN], computed : Nat]
    <3>1. PICK n \in Nat : n = Len(jobs) + 1
      BY <1>1
    <3>2. slot' = [slot EXCEPT !.recording = FALSE, !.computed = n]
      BY <2>1, <3>1
    <3> QED BY <1>1, <3>1, <3>2
  <2>4. Submits(t, Submission(t), "leave")
    BY <1>1, <2>1, <2>2, <2>3 DEF Submits
  <2> QED BY <1>1, <1>2, <2>4, SubmitsKeep
<1>5. CASE \E stage \in {"upload", "compute"} : SubmitFails(t, stage)
  <2>1. PICK stage \in {"upload", "compute"} : SubmitFails(t, stage)
    BY <1>5
  <2>2. PICK new : new = [Submission(t) EXCEPT !.part = stage]
    OBVIOUS
  <2>3. JobShape(new) /\ new.at = "queued" /\ new.after = slot.computed /\ new.part # "all"
    BY <1>2, <2>2
  <2>4. /\ jobs' = Append(jobs, new) /\ UNCHANGED slot
        /\ turn' = [turn EXCEPT ![t].pc = "settle", ![t].job = Len(jobs) + 1]
    BY <2>1, <2>2 DEF SubmitFails
  <2>5. Submits(t, new, "settle")
    BY <1>1, <1>3, <2>4 DEF Submits
  <2> QED BY <1>1, <2>3, <2>5, SubmitsKeep
<1> QED BY <1>4, <1>5

LEMMA RollStart ==
    ASSUME Init
    PROVE  RollInv /\ QueueHeld
<1> USE DEF Init
<1>1. jobs = <<>> /\ IsSequence(jobs) /\ DOMAIN jobs = {} /\ Len(jobs) = 0
  BY EmptySeq, LenProperties DEF IsSequence
<1>2. \A t \in Threads : turn[t] = NoTurn /\ turn[t].pc = "idle"
  BY DEF NoTurn
<1>3. TurnShape(NoTurn)
  BY DEF TurnShape, NoTurn, Places
<1>4. slot \in [recording : BOOLEAN, next_lane : 0 .. 1, in_use : [0 .. 1 -> BOOLEAN], computed : Nat]
  OBVIOUS
<1>5. "tickets" \in DOMAIN state /\ state.tickets \in Seq(Threads)
  BY EmptySeq
<1>6. RollTyped
  BY <1>1, <1>2, <1>3, <1>4, <1>5 DEF RollTyped
<1>7. TicketsHeld /\ LanesHeld
  BY <1>2 DEF TicketsHeld, LanesHeld
<1>8. JobsHeld
  BY <1>1, <1>2 DEF JobsHeld, Owning
<1>9. state.tickets = <<>> /\ DOMAIN state.tickets = {}
  BY EmptySeq, LenProperties
<1>10. QueueHeld
  BY <1>9 DEF QueueHeld
<1> QED BY <1>6, <1>7, <1>8, <1>10 DEF RollInv

LEMMA RollStep ==
    ASSUME RollInv, [Next]_vars
    PROVE  RollInv'
<1>1. CASE Next
  <2>1. CASE \E t \in Threads : (\E start \in Starts(d) : Plan(t, start)) \/ Run(t) \/ Fail(t)
    <3>1. PICK t \in Threads : (\E start \in Starts(d) : Plan(t, start)) \/ Run(t) \/ Fail(t)
      BY <2>1
    <3> QED BY <3>1, PlanKeeps, EnterKeeps, SubmitKeepsTurns, LeaveKeeps, SettleKeeps, UnwindKeeps, WaitKeeps, StageFailsKeeps,
               RecordFailsKeeps DEF Run, Fail
  <2>2. CASE \E j \in DOMAIN jobs : Work(j)
    BY <2>2, WorkKeeps
  <2> QED BY <1>1, <2>1, <2>2 DEF Next
<1>2. CASE UNCHANGED vars
  BY <1>2 DEF vars, host, RollInv, RollTyped, TicketsHeld, LanesHeld, JobsHeld, AtTurn
<1> QED BY <1>1, <1>2

-----------------------------------------------------------------------------
(* The queue.                                                              *)

Goes(t, place) == turn'[t].pc = place /\ \A u \in Threads \ {t} : turn'[u] = turn[u]

LEMMA QueueKept ==
    ASSUME RollTyped, QueueHeld, NEW t \in Threads, NEW place, Goes(t, place), state'.tickets = state.tickets,
           place \in Ticketed \/ turn[t].pc \notin Ticketed
    PROVE  QueueHeld'
<1>1. \A i \in DOMAIN state.tickets : state.tickets[i] \in Threads
  BY ElementOfSeq, LenProperties DEF RollTyped
<1>2. ASSUME NEW i \in DOMAIN state.tickets PROVE turn'[state.tickets[i]].pc \in Ticketed
  <2>1. CASE state.tickets[i] = t
    BY <1>2, <2>1 DEF QueueHeld, Goes
  <2>2. CASE state.tickets[i] # t
    BY <1>1, <1>2, <2>2 DEF QueueHeld, Goes
  <2> QED BY <2>1, <2>2
<1> QED BY <1>2 DEF QueueHeld

LEMMA QueueLeft ==
    ASSUME RollTyped, QueueHeld, NEW t \in Threads, NEW place, Goes(t, place), AtTurn(t), state'.tickets = Tail(state.tickets)
    PROVE  QueueHeld'
<1>1. /\ state.tickets \in Seq(Threads) /\ state.tickets # <<>> /\ Head(state.tickets) = t
  BY DEF RollTyped, AtTurn
<1>2. /\ Len(state.tickets) \in Nat /\ Len(state.tickets) # 0 /\ DOMAIN state.tickets = 1 .. Len(state.tickets)
      /\ state.tickets[1] = t /\ \A i \in 1 .. Len(state.tickets) : state.tickets[i] \in Threads
  BY <1>1, LenProperties, EmptySeq, HeadTailProperties, ElementOfSeq
<1>3. /\ state'.tickets \in Seq(Threads) /\ Len(state'.tickets) = Len(state.tickets) - 1
      /\ \A i \in 1 .. Len(state'.tickets) : state'.tickets[i] = state.tickets[i + 1]
      /\ DOMAIN state'.tickets = 1 .. Len(state'.tickets)
  BY <1>1, <1>2, HeadTailProperties, LenProperties
<1>4. ASSUME NEW i \in 1 .. Len(state'.tickets)
      PROVE  turn'[state'.tickets[i]].pc \in Ticketed
  <2>1. i + 1 \in DOMAIN state.tickets /\ i + 1 # 1 /\ 1 \in DOMAIN state.tickets
    BY <1>2, <1>3
  <2>2. state.tickets[i + 1] # t
    BY <1>2, <2>1 DEF QueueHeld
  <2> QED BY <1>2, <1>3, <2>1, <2>2 DEF QueueHeld, Goes
<1>5. ASSUME NEW i \in 1 .. Len(state'.tickets), NEW k \in 1 .. Len(state'.tickets), state'.tickets[i] = state'.tickets[k]
      PROVE  i = k
  <2>1. i + 1 \in DOMAIN state.tickets /\ k + 1 \in DOMAIN state.tickets /\ state.tickets[i + 1] = state.tickets[k + 1]
    BY <1>2, <1>3, <1>5
  <2>2. i + 1 = k + 1
    BY <2>1 DEF QueueHeld
  <2> QED BY <2>2
<1> QED BY <1>3, <1>4, <1>5 DEF QueueHeld

LEMMA QueueJoined ==
    ASSUME RollTyped, QueueHeld, NEW t \in Threads, Goes(t, "enter"), turn[t].pc = "idle", state'.tickets = Append(state.tickets, t)
    PROVE  QueueHeld'
<1> DEFINE n == Len(state.tickets)
<1>1. /\ n \in Nat /\ DOMAIN state.tickets = 1 .. n /\ DOMAIN state'.tickets = 1 .. n + 1
      /\ state'.tickets[n + 1] = t /\ \A i \in 1 .. n : state'.tickets[i] = state.tickets[i] /\ state.tickets[i] \in Threads
  BY AppendProperties, LenProperties, ElementOfSeq DEF RollTyped
<1> HIDE DEF n
<1>2. \A i \in 1 .. n : state.tickets[i] # t /\ turn'[state.tickets[i]].pc \in Ticketed
  BY <1>1 DEF QueueHeld, Goes, Ticketed
<1>3. ASSUME NEW i \in 1 .. n + 1 PROVE turn'[state'.tickets[i]].pc \in Ticketed
  <2>1. CASE i = n + 1
    BY <1>1, <2>1 DEF Goes, Ticketed
  <2>2. CASE i \in 1 .. n
    BY <1>1, <1>2, <2>2
  <2> QED BY <1>1, <2>1, <2>2
<1>4. ASSUME NEW i \in 1 .. n + 1, NEW k \in 1 .. n + 1, state'.tickets[i] = state'.tickets[k] PROVE i = k
  <2>1. CASE i = n + 1 \/ k = n + 1
    BY <1>1, <1>2, <1>4, <2>1
  <2>2. CASE i \in 1 .. n /\ k \in 1 .. n
    BY <1>1, <1>4, <2>2 DEF QueueHeld
  <2> QED BY <1>1, <2>1, <2>2
<1> QED BY <1>1, <1>3, <1>4 DEF QueueHeld

LEMMA QueueStep ==
    ASSUME RollInv, QueueHeld, [Next]_vars
    PROVE  QueueHeld'
<1>1. RollTyped /\ \A t \in Threads : {"pc", "lane", "job"} \subseteq DOMAIN turn[t] /\ t \in DOMAIN turn
  BY DEF RollInv, RollTyped, TurnShape, NoTurn
<1>2. ASSUME NEW t \in Threads, StageFails(t) \/ RecordFails(t) \/ Settle(t) PROVE QueueHeld'
  <2>1. Goes(t, "failed") /\ state'.tickets = state.tickets
    BY <1>1, <1>2 DEF StageFails, RecordFails, Settle, Goes
  <2> QED BY <1>1, <2>1, QueueKept DEF Ticketed
<1>3. ASSUME NEW t \in Threads, Enter(t) PROVE QueueHeld'
  <2>1. PICK place \in {"failed", "record"} : place = IF Failed(t) THEN "failed" ELSE "record"
    OBVIOUS
  <2>2. turn' = [turn EXCEPT ![t].pc = place, ![t].lane = slot.next_lane] /\ state'.tickets = state.tickets
    BY <1>3, <2>1 DEF Enter
  <2>3. Goes(t, place)
    BY <1>1, <2>2 DEF Goes
  <2> QED BY <1>1, <2>2, <2>3, QueueKept DEF Ticketed
<1>4. ASSUME NEW t \in Threads, Submit(t) PROVE QueueHeld'
  <2>1. Goes(t, "leave") /\ state'.tickets = state.tickets
    BY <1>1, <1>4 DEF Submit, Goes
  <2> QED BY <1>1, <2>1, QueueKept DEF Ticketed
<1>5. ASSUME NEW t \in Threads, NEW stage, SubmitFails(t, stage) PROVE QueueHeld'
  <2>1. Goes(t, "settle") /\ state'.tickets = state.tickets
    BY <1>1, <1>5 DEF SubmitFails, Goes
  <2> QED BY <1>1, <2>1, QueueKept DEF Ticketed
<1>6. ASSUME NEW t \in Threads, Wait(t) \/ WaitFails(t) PROVE QueueHeld'
  <2>1. Goes(t, "idle") /\ turn[t].pc = "wait"
    BY <1>1, <1>6 DEF Wait, WaitFails, Goes, NoTurn
  <2>2. CASE Wait(t)
    BY <1>1, <2>1, <2>2, QueueKept DEF Wait, Ticketed
  <2>3. CASE WaitFails(t)
    <3>1. \E failed, next : state' = [state EXCEPT !.failed_chain = failed, !.next_start = next]
      BY <2>3 DEF WaitFails
    <3>2. state'.tickets = state.tickets
      BY <1>1, <3>1 DEF RollTyped
    <3> QED BY <1>1, <2>1, <3>2, QueueKept DEF Ticketed
  <2> QED BY <1>6, <2>2, <2>3
<1>7. ASSUME NEW t \in Threads, Leave(t) PROVE QueueHeld'
  <2>1. Goes(t, "wait") /\ state'.tickets = Tail(state.tickets) /\ AtTurn(t)
    BY <1>1, <1>7 DEF Leave, Goes, RollInv, TicketsHeld, RollTyped
  <2> QED BY <1>1, <2>1, QueueLeft
<1>8. ASSUME NEW t \in Threads, Unwind(t) PROVE QueueHeld'
  <2>1. Goes(t, "idle") /\ AtTurn(t)
    BY <1>1, <1>8 DEF Unwind, Goes, NoTurn
  <2>2. state'.tickets = Tail(state.tickets)
    BY <1>8 DEF Unwind, MarkedFailed, RollInv, RollTyped
  <2> QED BY <1>1, <2>1, <2>2, QueueLeft
<1>9. ASSUME NEW t \in Threads, NEW start, Plan(t, start) PROVE QueueHeld'
  <2>1. Goes(t, "enter") /\ turn[t].pc = "idle"
    <3>1. PICK carry, uploaded, chained, waits :
              turn' = [turn EXCEPT ![t] = [NoTurn EXCEPT !.pc = "enter", !.start = start, !.carry = carry, !.chain = chained,
                                                         !.wait_upload = waits, !.uploads = uploaded]]
      BY <1>9 DEF Plan
    <3> QED BY <1>1, <1>9, <3>1 DEF Plan, Goes, NoTurn
  <2>2. state'.tickets = Append(state.tickets, t)
    <3>1. \E promised, fresh, chained, next :
              state' = [state EXCEPT !.promised = promised, !.fresh_last = fresh, !.chain = chained,
                                     !.tickets = Append(@, t), !.next_start = next]
      BY <1>9 DEF Plan
    <3> QED BY <1>1, <3>1 DEF RollTyped
  <2> QED BY <1>1, <2>1, <2>2, QueueJoined
<1>10. ASSUME NEW j \in DOMAIN jobs, Work(j) PROVE QueueHeld'
  <2>1. UNCHANGED <<state, turn>>
    BY <1>10 DEF Work, UploadStarts, UploadEnds, KernelsStart, KernelsEnd, host
  <2> QED BY <2>1 DEF QueueHeld
<1>11. CASE UNCHANGED vars
  BY <1>11 DEF vars, host, QueueHeld
<1>12. ASSUME NEW t \in Threads, Run(t) \/ Fail(t) PROVE QueueHeld'
  BY <1>2, <1>3, <1>4, <1>5, <1>6, <1>7, <1>8, <1>12 DEF Run, Fail
<1> QED BY <1>9, <1>10, <1>11, <1>12 DEF Next

-----------------------------------------------------------------------------
(* Nobody can go on: then nobody computes a chunk.                         *)

\* The first submission that is not past the device's kernels can run, or is
\* given up by its thread.
LEMMA DeviceGoesOn ==
    ASSUME RollInv, \E j \in DOMAIN jobs : ~Past(j)
    PROVE  \/ \E j \in DOMAIN jobs : MayUpload(j) \/ jobs[j].at = "uploading" \/ MayCompute(j) \/ jobs[j].at = "computing"
           \/ \E t \in Threads : turn[t].pc = "settle" /\ Settled(turn[t].job)
<1> DEFINE waiting == {j \in DOMAIN jobs : ~Past(j)}
<1>1. DOMAIN jobs = 1 .. Len(jobs) /\ Len(jobs) \in Nat
  BY JobsOrdered DEF RollInv
<1>2. waiting \in SUBSET Nat /\ waiting # {}
  BY <1>1
<1>3. PICK j \in waiting : \A i \in waiting : j <= i
  BY <1>2, Smallest
<1>4. j \in DOMAIN jobs /\ jobs[j].after \in 0 .. j - 1 /\ JobShape(jobs[j]) /\ ~Past(j)
  BY DEF RollInv, JobsHeld, RollTyped
<1>5. Past(jobs[j].after)
  <2>1. CASE jobs[j].after = 0
    BY <2>1 DEF Past
  <2>2. CASE jobs[j].after # 0
    <3>1. jobs[j].after \in DOMAIN jobs /\ ~(j <= jobs[j].after)
      BY <1>1, <1>4, <2>2
    <3> QED BY <1>3, <3>1
  <2> QED BY <2>1, <2>2
<1>6. jobs[j].at \in {"queued", "uploading", "uploaded", "computing"}
  BY <1>4 DEF JobShape, Ats, Past
<1>7. CASE jobs[j].at = "uploaded" /\ jobs[j].part = "upload"
  <2>1. PICK t \in Threads : turn[t].job = j /\ turn[t].pc \in Owning
    BY <1>4, <1>7 DEF RollInv, JobsHeld, Over
  <2>2. turn[t].pc = "settle"
    BY <1>7, <2>1 DEF RollInv, JobsHeld
  <2> QED BY <1>7, <2>1, <2>2 DEF Settled
<1> QED BY <1>4, <1>5, <1>6, <1>7 DEF MayUpload, MayCompute

\* Tickets, lanes and the device's stages never wait for each other in a
\* circle (RollTurn::enter, leave and ~RollTurn of vulkan/common/group_driver.cpp).
LEMMA SomeMoves ==
    ASSUME RollInv, QueueHeld
    PROVE  SomeoneMoves
<1> SUFFICES ASSUME NEW someone \in Threads, turn[someone].pc # "idle", ~SomeoneMoves
             PROVE  FALSE
  BY DEF SomeoneMoves
<1>1. /\ \A t \in Threads : /\ turn[t].pc \notin {"record", "leave"}
                            /\ turn[t].pc = "enter" => ~MayEnter(t)
                            /\ turn[t].pc = "failed" => ~AtTurn(t)
                            /\ turn[t].pc = "settle" => ~Settled(turn[t].job)
                            /\ turn[t].pc = "wait" => jobs[turn[t].job].at # "computed"
      /\ \A j \in DOMAIN jobs : ~MayUpload(j) /\ jobs[j].at # "uploading" /\ ~MayCompute(j) /\ jobs[j].at # "computing"
  BY DEF SomeoneMoves
<1>2. \A j \in DOMAIN jobs : Past(j)
  BY <1>1, DeviceGoesOn
<1>3. \A t \in Threads : turn[t].pc \notin Owning
  <2> SUFFICES ASSUME NEW t \in Threads, turn[t].pc \in Owning PROVE FALSE
    OBVIOUS
  <2>1. /\ turn[t].job \in DOMAIN jobs /\ jobs[turn[t].job].at \notin Over
        /\ jobs[turn[t].job].part = "upload" => jobs[turn[t].job].at # "computed"
        /\ turn[t].job > 0
    BY JobsOrdered DEF RollInv, JobsHeld
  <2>2. jobs[turn[t].job].at = "computed"
    BY <1>2, <2>1 DEF Past, Over
  <2> QED BY <1>1, <2>1, <2>2 DEF Owning, Settled
<1>4. \A t \in Threads : turn[t].pc \in {"idle", "enter", "failed"}
  BY <1>1, <1>3 DEF RollInv, RollTyped, TurnShape, Places, Owning
<1>5. ~slot.recording /\ \A l \in 0 .. 1 : ~slot.in_use[l]
  BY <1>4 DEF RollInv, LanesHeld, Laned
<1>6. PICK t \in Threads : AtTurn(t) /\ turn[t].pc \in Ticketed
  <2>1. PICK i \in DOMAIN state.tickets : state.tickets[i] = someone
    BY <1>4 DEF RollInv, TicketsHeld
  <2>2. state.tickets \in Seq(Threads) /\ Len(state.tickets) \in Nat /\ DOMAIN state.tickets = 1 .. Len(state.tickets)
    BY LenProperties DEF RollInv, RollTyped
  <2>3. state.tickets # <<>> /\ 1 \in DOMAIN state.tickets
    BY <2>1, <2>2, EmptySeq
  <2>4. Head(state.tickets) = state.tickets[1] /\ Head(state.tickets) \in Threads
    BY <2>2, <2>3, HeadTailProperties
  <2> QED BY <2>3, <2>4 DEF AtTurn, QueueHeld
<1>7. turn[t].pc \in {"enter", "failed"}
  BY <1>4, <1>6 DEF Ticketed
<1>8. ~slot.in_use[slot.next_lane]
  BY <1>5 DEF RollInv, RollTyped
<1>9. MayEnter(t)
  BY <1>5, <1>6, <1>8 DEF MayEnter
<1> QED BY <1>1, <1>6, <1>7, <1>9

\* Tickets, lanes and the device's stages never wait for each other in a
\* circle, whichever chunks fail and wherever (RollTurn::enter, leave and
\* ~RollTurn of vulkan/common/group_driver.cpp).
THEOREM SomeoneMovesHolds == Spec => []SomeoneMoves
<1>1. Init => RollInv /\ QueueHeld
  BY RollStart
<1>2. RollInv /\ QueueHeld /\ [Next]_vars => RollInv' /\ QueueHeld'
  BY RollStep, QueueStep
<1>3. RollInv /\ QueueHeld => SomeoneMoves
  BY SomeMoves
<1> QED BY <1>1, <1>2, <1>3, PTL DEF Spec

\* While a chunk or a frame is computed, some thread can go on or the device
\* can, in the rolling filters (RollTurn::enter, group_driver.cpp) and in the
\* window cache (Window and wait_queued, nlm/filter.cpp).
THEOREM SomeoneGoesOnHolds ==
    ASSUME WindowAssumption
    PROVE  MCSpec => []SomeoneGoesOn
<1> DEFINE Inv == IInv /\ RInv /\ RollInv /\ QueueHeld
<1>1. MCInit => Inv
  BY WindowStart, RunsStart, RollStart DEF MCInit
<1>2. ASSUME Inv, [MCNext]_<<part, vars, windowVars>> PROVE Inv'
  <2>1. [Next]_vars /\ [WindowNext]_windowVars
    BY <1>2 DEF MCNext
  <2> QED BY <1>2, <2>1, RollStep, QueueStep, WindowStep, RunsStep
<1>3. Inv => SomeoneGoesOn
  BY SomeMoves, SomeRuns DEF SomeoneGoesOn
<1> HIDE DEF Inv
<1> QED BY <1>1, <1>2, <1>3, PTL DEF MCSpec
=============================================================================
