----------------------------- MODULE CarryProofs ----------------------------
(***************************************************************************)
(* Proofs about what a request leaves for the ones after it.               *)
(*                                                                         *)
(* WeightCache, for any requests, frames and number of sets: what the      *)
(* cache says of a set is true whatever failed, and while no request fails *)
(* between its stages a frame reads the weights of the frame before it,    *)
(* whole.                                                                  *)
(*                                                                         *)
(* CpuRolling, for any nodes and threads: a chunk has one store, which is  *)
(* charged as it is held, and a thread that sleeps is awaited.             *)
(***************************************************************************)
EXTENDS WeightCache, CpuRolling, FoldLemmas, FiniteSetTheorems, SequenceTheorems, TLAPS

Steps == {"idle", "record", "submitted", "failed", "wait"}
SetRecords == [written : Nat, read : Nat, frame : Frames \cup {NoFrame}, busy : BOOLEAN, loaded : BOOLEAN, used : Nat]
Requests == [pc : Steps, n : Frames \cup {NoFrame}, load : Sets \cup {None}, save : Sets \cup {None},
             waits : SUBSET Nat, last : Nat]
Jobs == [n : Frames, load : Sets \cup {None}, save : Sets \cup {None}, waits : SUBSET Nat,
         state : {"queued", "runs", "done"}]

TypeOK ==
    /\ faults \in FaultSets /\ clock \in Nat /\ requests \in Nat
    /\ sets \in [Sets -> SetRecords]
    /\ request \in [Requesters -> Requests]
    /\ jobs \in Seq(Jobs)
    /\ content \in [Sets -> Int]

\* A request between its lease and the lease's end has taken set w.
Holds(r, w) == r.pc \in {"record", "submitted", "failed"} /\ w \in {r.load, r.save}

\* The jobs that sets, requests and jobs name have been submitted.
Known(ss, rq, js) ==
    /\ \A w \in Sets : ss[w].written <= Len(js) /\ ss[w].read <= Len(js)
    /\ \A t \in Requesters : rq[t].last <= Len(js) /\ rq[t].waits \subseteq 1 .. Len(js)
    /\ \A j \in 1 .. Len(js) : js[j].waits \subseteq 1 .. j - 1

\* A set taken is busy, by one request, and one to be saved says nothing.
Taken(ss, rq) ==
    /\ \A t \in Requesters, w \in Sets : Holds(rq[t], w) => ss[w].busy
    /\ \A t, u \in Requesters, w \in Sets : Holds(rq[t], w) /\ Holds(rq[u], w) => t = u
    /\ \A t \in Requesters : rq[t].pc # "idle" => rq[t].n \in Frames
    /\ \A t \in Requesters, w \in Sets : Holds(rq[t], w) /\ rq[t].save = w =>
          rq[t].load # w /\ ss[w].frame = NoFrame

\* A submitted request's job is the stage it recorded, and no job behind it
\* saves its set.
Submissions(rq, js) ==
    \A t \in Requesters : rq[t].pc = "submitted" =>
        /\ rq[t].last \in 1 .. Len(js)
        /\ js[rq[t].last].n = rq[t].n /\ js[rq[t].last].load = rq[t].load /\ js[rq[t].last].save = rq[t].save
        /\ rq[t].save # None => \A j \in rq[t].last + 1 .. Len(js) : js[j].save # rq[t].save

\* What a set says of its frame.
Saying(ss, js) ==
    \A w \in Sets : ss[w].frame >= 0 =>
        /\ ss[w].written \in 1 .. Len(js) /\ js[ss[w].written].n = ss[w].frame /\ js[ss[w].written].save = w
        /\ \A j \in 1 .. Len(js) : j > ss[w].written => js[j].save # w

IInv == TypeOK /\ Known(sets, request, jobs) /\ Taken(sets, request) /\ Submissions(request, jobs) /\ Saying(sets, jobs)

-----------------------------------------------------------------------------
(* While no request fails between its stages.                              *)

Touches(j, w) == j.save = w \/ j.load = w
Pending(rq, i) == \E t \in Requesters : rq[t].pc = "submitted" /\ rq[t].last = i

\* Whoever waits for these jobs starts behind job i, which touches set w.
Behind(js, waits, i, w) == i \in waits \/ \E k \in waits : i < k /\ js[k].save = w

\* The jobs that save and load a set are those its cache entry names, or before
\* them, or of the request that has taken it.
Marked(ss, rq, js) ==
    \A w \in Sets :
        /\ ss[w].written # None => js[ss[w].written].save = w
        /\ \A i \in 1 .. Len(js) : js[i].save = w => i <= ss[w].written \/ Pending(rq, i)
        /\ \A i \in 1 .. Len(js) : js[i].load = w => i = ss[w].read \/ i < ss[w].written \/ Pending(rq, i)
        /\ ss[w].frame >= 0 /\ ~ss[w].loaded =>
              \A i \in 1 .. Len(js) : js[i].load = w => i < ss[w].written \/ Pending(rq, i)

\* What a request knew of its sets when it took them still is.
Leased(ss, rq) ==
    \A t \in Requesters, w \in Sets :
        /\ rq[t].pc \in {"record", "submitted"} /\ rq[t].load = w =>
              ss[w].frame = rq[t].n - 1 /\ ss[w].frame >= 0 /\ ~ss[w].loaded
        /\ rq[t].pc = "record" /\ rq[t].load = w => ss[w].written \in rq[t].waits
        /\ rq[t].pc = "record" /\ rq[t].save = w => {ss[w].written, ss[w].read} \ {None} \subseteq rq[t].waits
        /\ rq[t].pc = "submitted" /\ w \in {rq[t].load, rq[t].save} =>
              ss[w].written < rq[t].last /\ ss[w].read < rq[t].last

\* No job loads the set it saves.  One that saves waits for all that touched
\* its set before, one that loads for the job that saved the frame before its
\* own, the last to save the set.
Ordered(js) ==
    \A j \in 1 .. Len(js), w \in Sets :
        /\ js[j].load = w => js[j].save # w
        /\ js[j].save = w => \A i \in 1 .. j - 1 : Touches(js[i], w) => Behind(js, js[j].waits, i, w)
        /\ js[j].load = w =>
              \E k \in js[j].waits : /\ js[k].save = w /\ js[k].n = js[j].n - 1
                                     /\ \A i \in 1 .. j - 1 : js[i].save = w => i <= k

\* What the device does in that order.
Followed(js) ==
    \A j \in 1 .. Len(js) : js[j].state # "queued" =>
        \A i \in 1 .. j - 1, w \in Sets :
            \/ js[j].save = w /\ Touches(js[i], w)
            \/ js[j].load = w /\ js[i].save = w
            => js[i].state = "done"

\* A set holds what the last job to save it left, until the next one starts.
Left(js, ct) ==
    \A k \in 1 .. Len(js), w \in Sets :
        /\ js[k].save = w /\ js[k].state = "done"
        /\ \A i \in k + 1 .. Len(js) : js[i].save = w => js[i].state = "queued"
        => ct[w] = js[k].n

Whole == Marked(sets, request, jobs) /\ Leased(sets, request) /\ Ordered(jobs) /\ Followed(jobs) /\ Left(jobs, content)
WInv == "partial" \notin faults => Whole

-----------------------------------------------------------------------------
(* The sets a request takes.                                               *)

LEMMA SetsFacts ==
    ASSUME WeightAssumption
    PROVE  /\ Sets \subseteq Nat /\ None \notin Sets /\ NoFrame \notin Frames /\ Frames \subseteq Int
           /\ \E most \in Nat : Sets = 1 .. most
<1>1. Cardinality(Sets) \in Nat /\ Sets = 1 .. Cardinality(Sets)
  BY FS_CardinalityType DEF WeightAssumption
<1>2. 0 \notin 1 .. Cardinality(Sets) /\ 1 .. Cardinality(Sets) \subseteq Nat
  BY <1>1
<1> QED BY <1>1, <1>2 DEF WeightAssumption, None, NoFrame

\* Some sets have a greatest one.
LEMMA MaxOfSets ==
    ASSUME WeightAssumption, NEW T \in SUBSET Sets, T # {}
    PROVE  Max(T) \in T
<1>1. PICK most \in Nat : Sets = 1 .. most
  BY SetsFacts
<1> DEFINE from == {most - x : x \in T}
<1>2. \A x \in T : x \in Nat /\ most - x \in Nat
  BY <1>1
<1>3. from \in SUBSET Nat /\ from # {}
  BY <1>2
<1>4. PICK y \in from : \A z \in from : y <= z
  BY <1>3, Smallest
<1>5. PICK x \in T : y = most - x
  BY <1>4
<1>6. \A z \in T : most - x <= most - z
  BY <1>4, <1>5
<1>7. \A z \in T : x >= z
  BY <1>1, <1>2, <1>6
<1> QED BY <1>7 DEF Max

LEMMA LoadFacts ==
    ASSUME WeightAssumption, NEW n
    PROVE  LoadOf(n) = None \/ LoadOf(n) \in Loadable(n)
<1>1. Loadable(n) \in SUBSET Sets
  BY DEF Loadable
<1> QED BY <1>1, MaxOfSets DEF LoadOf

\* Ranks orders the sets by whether they wait for their frame and by when they
\* were saved: of some sets one is first.
LEMMA FirstExists ==
    ASSUME WeightAssumption, TypeOK, NEW T \in SUBSET Sets, T # {}
    PROVE  \E v \in T : \A w \in T : ~Ranks(w, v)
<1> DEFINE waits(x) == sets[x].frame >= 0 /\ ~sets[x].loaded
           idle == {x \in T : ~waits(x)}
           first == IF idle = {} THEN T ELSE idle
           times == {sets[x].used : x \in first}
<1>1. first \in SUBSET Sets /\ first # {} /\ first \subseteq T
  OBVIOUS
<1>2. \A x \in Sets : sets[x].used \in Nat
  BY DEF TypeOK, SetRecords
<1>3. times \in SUBSET Nat /\ times # {}
  BY <1>1, <1>2
<1>4. PICK least \in times : \A time \in times : least <= time
  BY <1>3, Smallest
<1>5. PICK v \in first : sets[v].used = least
  BY <1>4
<1>6. \A w \in first : ~(sets[w].used < sets[v].used)
  <2>1. \A w \in first : sets[w].used \in times
    OBVIOUS
  <2>2. \A w \in first : least <= sets[w].used
    BY <1>4, <2>1
  <2> HIDE DEF first, times
  <2> QED BY <1>1, <1>2, <1>5, <2>2
<1>7. \A w \in T : ~waits(w) /\ waits(v) => FALSE
  OBVIOUS
<1>8. \A w \in T : (waits(w) <=> waits(v)) => w \in first
  OBVIOUS
<1>9. \A w \in T : Ranks(w, v) => (~waits(w) /\ waits(v)) \/ ((waits(w) <=> waits(v)) /\ sets[w].used < sets[v].used)
  BY DEF Ranks
<1> QED BY <1>1, <1>6, <1>7, <1>8, <1>9

LEMMA SaveFacts ==
    ASSUME WeightAssumption, TypeOK, NEW load
    PROVE  SaveOf(load) = None \/ SaveOf(load) \in Savable(load)
<1> DEFINE free == Savable(load)
           best == {v \in free : \A w \in free : ~Ranks(w, v)}
<1> SUFFICES ASSUME free # {} PROVE SaveOf(load) \in free
  BY DEF SaveOf
<1>1. free \in SUBSET Sets
  BY DEF Savable
<1>2. best # {}
  BY <1>1, FirstExists
<1>3. best \in SUBSET Nat
  BY <1>1, SetsFacts
<1>4. Min(best) \in best
  BY <1>2, <1>3, MinOfNaturals DEF Min
<1> QED BY <1>4 DEF SaveOf

-----------------------------------------------------------------------------
(* What each step changes.                                                 *)

SetsTyped(ss) == ss \in [Sets -> SetRecords]
RequestsTyped(rq) == rq \in [Requesters -> Requests]

\* Only thread t's request has changed, and is r now.
Becomes(t, r) == r \in Requests /\ request' = [request EXCEPT ![t] = r]

LEMMA BecomesFacts ==
    ASSUME TypeOK, NEW t \in Requesters, NEW r, Becomes(t, r)
    PROVE  /\ request' \in [Requesters -> Requests]
           /\ request'[t] = r
           /\ \A u \in Requesters : u # t => request'[u] = request[u]
  BY DEF TypeOK, Becomes

\* A request takes its sets.
Leases(t, r) ==
    /\ request[t].pc = "idle"
    /\ r.pc = "record" /\ r.n \in Frames /\ r.last = request[t].last
    /\ r.waits = Waits(r.load, r.save) \cup ({r.last} \ {None})
    /\ r.load # None => r.load \in Sets /\ r.load \in Loadable(r.n)
    /\ r.save # None => r.save \in Sets /\ r.save # r.load /\ ~sets[r.save].busy
    /\ SetsTyped(sets')
    /\ \A w \in Sets :
          /\ sets'[w].written = sets[w].written /\ sets'[w].read = sets[w].read /\ sets'[w].loaded = sets[w].loaded
          /\ sets'[w].busy <=> w \in {r.load, r.save} \/ sets[w].busy
          /\ sets'[w].frame = IF w = r.save THEN NoFrame ELSE sets[w].frame
    /\ UNCHANGED <<faults, clock, jobs, content>> /\ requests' = requests + 1

LEMMA BusyFacts ==
    ASSUME WeightAssumption, TypeOK, NEW w \in Sets, NEW load, NEW save, load # save \/ load = None
    PROVE  LET x == Busy(w, load, save)
           IN  /\ x \in SetRecords
               /\ x.written = sets[w].written /\ x.read = sets[w].read /\ x.loaded = sets[w].loaded
               /\ x.busy <=> w \in {load, save} \/ sets[w].busy
               /\ x.frame = IF w = save THEN NoFrame ELSE sets[w].frame
<1>1. PICK s \in SetRecords : s = sets[w]
  BY DEF TypeOK
<1>2. w # None
  BY SetsFacts
<1>3. CASE w = load
  BY <1>1, <1>2, <1>3 DEF SetRecords, Busy
<1>4. CASE w # load /\ w = save
  BY <1>1, <1>4 DEF SetRecords, Busy
<1>5. CASE w # load /\ w # save
  BY <1>1, <1>5 DEF SetRecords, Busy
<1> QED BY <1>3, <1>4, <1>5

LEMMA LeaseFacts ==
    ASSUME WeightAssumption, TypeOK, NEW t \in Requesters, NEW n \in Frames, Lease(t, n)
    PROVE  \E r : Becomes(t, r) /\ Leases(t, r)
<1>1. PICK load : load = LoadOf(n)
  OBVIOUS
<1>2. PICK save : save = SaveOf(load)
  OBVIOUS
<1>3. Take(t, n, load, save)
  BY <1>1, <1>2 DEF Lease
<1>4. load = None \/ (load \in Sets /\ load \in Loadable(n))
  BY <1>1, LoadFacts DEF Loadable
<1>5. save = None \/ (save \in Sets /\ save # load /\ ~sets[save].busy)
  BY <1>2, SaveFacts DEF Savable
<1>6. load # save \/ load = None
  BY <1>5
<1>7. PICK last : last = request[t].last
  OBVIOUS
<1>8. last \in Nat /\ request \in [Requesters -> Requests] /\ \A w \in Sets : sets[w] \in SetRecords
  BY <1>7 DEF TypeOK, Requests
<1>9. PICK waits : waits = Waits(load, save) \cup ({last} \ {None})
  OBVIOUS
<1>10. waits \in SUBSET Nat
  BY <1>8, <1>9 DEF Waits, SetRecords
<1> DEFINE r == [pc |-> "record", n |-> n, load |-> load, save |-> save, waits |-> waits, last |-> last]
<1>11. r \in Requests
  BY <1>4, <1>5, <1>8, <1>10 DEF Requests, Steps
<1>12. request' = [request EXCEPT ![t] = r]
  BY <1>3, <1>7, <1>9 DEF Take
<1>13. sets' = [w \in Sets |-> Busy(w, load, save)]
  BY <1>3 DEF Take
<1>14. SetsTyped(sets')
  BY <1>6, <1>13, BusyFacts DEF SetsTyped
<1>15. UNCHANGED <<faults, clock, jobs, content>> /\ requests' = requests + 1 /\ request[t].pc = "idle"
  BY DEF Lease
<1>16. /\ r.pc = "record" /\ r.n = n /\ r.last = last /\ r.load = load /\ r.save = save /\ r.waits = waits
  OBVIOUS
<1>17. \A w \in Sets :
          /\ sets'[w].written = sets[w].written /\ sets'[w].read = sets[w].read /\ sets'[w].loaded = sets[w].loaded
          /\ sets'[w].busy <=> w \in {load, save} \/ sets[w].busy
          /\ sets'[w].frame = IF w = save THEN NoFrame ELSE sets[w].frame
  BY <1>6, <1>13, BusyFacts
<1> HIDE DEF r
<1>18. Leases(t, r)
  BY <1>4, <1>5, <1>7, <1>9, <1>14, <1>15, <1>16, <1>17 DEF Leases
<1> QED BY <1>11, <1>12, <1>18 DEF Becomes

\* A request's stage is submitted.
Submits(t, r) ==
    /\ request[t].pc = "record"
    /\ r.n = request[t].n /\ r.load = request[t].load /\ r.save = request[t].save /\ r.last = Len(jobs) + 1
    /\ r.waits = request[t].waits
    /\ jobs' \in Seq(Jobs) /\ Len(jobs') = Len(jobs) + 1
    /\ \A i \in 1 .. Len(jobs) : jobs'[i] = jobs[i]
    /\ jobs'[r.last] = [n |-> r.n, load |-> r.load, save |-> r.save, waits |-> r.waits, state |-> "queued"]
    /\ UNCHANGED <<faults, sets, clock, content, requests>>

LEMMA SubmittedRecord ==
    ASSUME NEW r \in Requests, NEW next, NEW last
    PROVE  [[r EXCEPT !.pc = next] EXCEPT !.last = last]
           = [pc |-> next, n |-> r.n, load |-> r.load, save |-> r.save, waits |-> r.waits, last |-> last]
<1>1. PICK x : x = [r EXCEPT !.pc = next]
  OBVIOUS
<1>2. x = [pc |-> next, n |-> r.n, load |-> r.load, save |-> r.save, waits |-> r.waits, last |-> r.last]
  BY <1>1 DEF Requests
<1>3. [x EXCEPT !.last = last] = [pc |-> next, n |-> r.n, load |-> r.load, save |-> r.save, waits |-> r.waits, last |-> last]
  BY <1>2
<1> QED BY <1>1, <1>3

LEMMA SubmitFacts ==
    ASSUME TypeOK, NEW t \in Requesters, request[t].n \in Frames, NEW next \in Steps,
           request[t].pc = "record", Submitted(t, next)
    PROVE  \E r : Becomes(t, r) /\ Submits(t, r) /\ r.pc = next
<1>1. PICK old \in Requests : old = request[t]
  BY DEF TypeOK
<1>2. PICK js \in Seq(Jobs) : js = jobs
  BY DEF TypeOK
<1>3. PICK last : last = Len(js) + 1
  OBVIOUS
<1>4. Len(js) \in Nat /\ last \in Nat
  BY <1>3
<1> DEFINE r == [pc |-> next, n |-> old.n, load |-> old.load, save |-> old.save, waits |-> old.waits, last |-> last]
           job == [n |-> old.n, load |-> old.load, save |-> old.save, waits |-> old.waits, state |-> "queued"]
<1>5. r \in Requests
  BY <1>4 DEF Requests
<1>6. job \in Jobs
  BY <1>1 DEF Requests, Jobs
<1>7. request' = [request EXCEPT ![t].pc = next, ![t].last = last]
  BY <1>2, <1>3 DEF Submitted
<1>8. request' = [request EXCEPT ![t] = [[old EXCEPT !.pc = next] EXCEPT !.last = last]]
  BY <1>1, <1>7 DEF TypeOK
<1>9. Becomes(t, r)
  <2>1. PICK x : x = [[old EXCEPT !.pc = next] EXCEPT !.last = last]
    OBVIOUS
  <2>2. x = r
    BY <2>1, SubmittedRecord
  <2>3. request' = [request EXCEPT ![t] = x]
    BY <1>8, <2>1
  <2> QED BY <1>5, <2>2, <2>3 DEF Becomes
<1>10. jobs' = Append(js, job) /\ UNCHANGED <<faults, sets, clock, content, requests>>
  BY <1>1, <1>2 DEF Submitted
<1> HIDE DEF job
<1>11. /\ Append(js, job) \in Seq(Jobs) /\ Len(Append(js, job)) = last
       /\ \A i \in 1 .. Len(js) : Append(js, job)[i] = js[i]
       /\ Append(js, job)[last] = job
  BY <1>3, <1>4, <1>6
<1>12. /\ r.n = old.n /\ r.load = old.load /\ r.save = old.save /\ r.waits = old.waits /\ r.last = last /\ r.pc = next
       /\ job = [n |-> r.n, load |-> r.load, save |-> r.save, waits |-> r.waits, state |-> "queued"]
  BY DEF job
<1> HIDE DEF r
<1>13. Submits(t, r)
  BY <1>1, <1>2, <1>3, <1>10, <1>11, <1>12 DEF Submits
<1> QED BY <1>9, <1>12, <1>13

\* A request gives its sets back: submitted, with its frame; failed, as it
\* found them but for the frame they said they hold.
Gives(t, r) ==
    /\ r.pc = "wait" /\ r.n = request[t].n /\ r.last = request[t].last /\ r.waits = request[t].waits
    /\ SetsTyped(sets')
    /\ \A w \in Sets : ~(w \in {request[t].load, request[t].save}) => sets'[w] = sets[w]
    /\ \A w \in Sets : w \in {request[t].load, request[t].save} => ~sets'[w].busy
    /\ UNCHANGED <<faults, jobs, content, requests>>

Stamps(t) ==
    \A w \in Sets :
        /\ w = request[t].load =>
              /\ sets'[w].written = sets[w].written /\ sets'[w].read = request[t].last
              /\ sets'[w].frame = sets[w].frame /\ sets'[w].loaded
        /\ w = request[t].save /\ w # request[t].load =>
              /\ sets'[w].written = request[t].last /\ sets'[w].read = sets[w].read
              /\ sets'[w].frame = request[t].n /\ ~sets'[w].loaded

LEMMA StampedFacts ==
    ASSUME TypeOK, NEW r \in Requests, NEW w \in Sets, r.n \in Frames, w = r.load => w # r.save
    PROVE  LET x == Stamped(w, r)
           IN  /\ x \in SetRecords
               /\ w \notin {r.load, r.save} => x = sets[w]
               /\ w \in {r.load, r.save} => ~x.busy
               /\ w = r.load =>
                     x.written = sets[w].written /\ x.read = r.last /\ x.frame = sets[w].frame /\ x.loaded
               /\ w = r.save /\ w # r.load =>
                     x.written = r.last /\ x.read = sets[w].read /\ x.frame = r.n /\ ~x.loaded
<1>1. PICK s \in SetRecords : s = sets[w]
  BY DEF TypeOK
<1>2. clock \in Nat
  BY DEF TypeOK
<1>3. r.last \in Nat
  BY DEF Requests
<1>4. CASE w = r.load
  <2>1. PICK x : x = [s EXCEPT !.read = r.last]
    OBVIOUS
  <2>2. PICK y : y = [x EXCEPT !.loaded = TRUE]
    OBVIOUS
  <2>3. Stamped(w, r) = [y EXCEPT !.busy = FALSE]
    BY <1>1, <1>4, <2>1, <2>2 DEF Stamped
  <2>4. x = [written |-> s.written, read |-> r.last, frame |-> s.frame, busy |-> s.busy, loaded |-> s.loaded, used |-> s.used]
    BY <2>1 DEF SetRecords
  <2>5. y = [written |-> s.written, read |-> r.last, frame |-> s.frame, busy |-> s.busy, loaded |-> TRUE, used |-> s.used]
    BY <2>2, <2>4
  <2>6. Stamped(w, r) = [written |-> s.written, read |-> r.last, frame |-> s.frame, busy |-> FALSE, loaded |-> TRUE, used |-> s.used]
    BY <2>3, <2>5
  <2> QED BY <1>1, <1>3, <1>4, <2>6 DEF SetRecords
<1>5. CASE w # r.load /\ w = r.save
  BY <1>1, <1>2, <1>3, <1>5 DEF SetRecords, Stamped
<1>6. CASE w # r.load /\ w # r.save
  BY <1>1, <1>6 DEF SetRecords, Stamped
<1> QED BY <1>4, <1>5, <1>6

LEMMA GivenBackFacts ==
    ASSUME TypeOK, NEW r \in Requests, NEW w \in Sets
    PROVE  LET x == GivenBack(w, r)
           IN  /\ x \in SetRecords
               /\ w \notin {r.load, r.save} => x = sets[w]
               /\ w \in {r.load, r.save} => ~x.busy
               /\ x.written = sets[w].written /\ x.read = sets[w].read /\ x.frame = sets[w].frame
               /\ x.loaded <=> sets[w].loaded
<1>1. PICK s \in SetRecords : s = sets[w]
  BY DEF TypeOK
<1>2. CASE w \in {r.load, r.save}
  BY <1>1, <1>2 DEF SetRecords, GivenBack
<1>3. CASE w \notin {r.load, r.save}
  BY <1>1, <1>3 DEF SetRecords, GivenBack
<1> QED BY <1>2, <1>3

LEMMA RequestStep ==
    ASSUME NEW r \in Requests, NEW next \in Steps
    PROVE  LET x == [r EXCEPT !.pc = next]
           IN  /\ x \in Requests /\ x.pc = next /\ x.n = r.n /\ x.load = r.load /\ x.save = r.save
               /\ x.waits = r.waits /\ x.last = r.last
  BY DEF Requests

LEMMA MarkFacts ==
    ASSUME TypeOK, Taken(sets, request), NEW t \in Requesters, MarkSubmitted(t)
    PROVE  /\ request[t].pc = "submitted" /\ Stamps(t) /\ clock' \in Nat
           /\ \E r : Becomes(t, r) /\ Gives(t, r)
<1>1. PICK old \in Requests : old = request[t]
  BY DEF TypeOK
<1>2. request[t].pc = "submitted" /\ sets' = [w \in Sets |-> Stamped(w, old)]
  BY <1>1 DEF MarkSubmitted
<1>3. old.n \in Frames /\ \A w \in Sets : w = old.load => w # old.save
  BY <1>1, <1>2 DEF Taken, Holds
<1>4. \A w \in Sets : sets'[w] = Stamped(w, old)
  BY <1>2
<1>5. SetsTyped(sets')
  BY <1>2, <1>3, StampedFacts DEF SetsTyped
<1>6. Stamps(t)
  BY <1>1, <1>3, <1>4, StampedFacts DEF Stamps
<1>7. \A w \in Sets : /\ w \notin {old.load, old.save} => sets'[w] = sets[w]
                      /\ w \in {old.load, old.save} => ~sets'[w].busy
  BY <1>3, <1>4, StampedFacts
<1>8. PICK r : r = [old EXCEPT !.pc = "wait"]
  OBVIOUS
<1>9. r \in Requests /\ r.pc = "wait" /\ r.n = old.n /\ r.last = old.last /\ r.waits = old.waits
  BY <1>8, RequestStep DEF Steps
<1>10. request' = [request EXCEPT ![t] = r]
  BY <1>1, <1>8 DEF MarkSubmitted, TypeOK
<1>11. UNCHANGED <<faults, jobs, content, requests>> /\ clock' \in Nat
  BY DEF MarkSubmitted, TypeOK
<1>12. Becomes(t, r) /\ Gives(t, r)
  BY <1>1, <1>5, <1>7, <1>9, <1>10, <1>11 DEF Becomes, Gives
<1> QED BY <1>2, <1>6, <1>11, <1>12

LEMMA DropFacts ==
    ASSUME TypeOK, NEW t \in Requesters, DropLease(t)
    PROVE  /\ request[t].pc = "failed" /\ clock' = clock
           /\ \E r : Becomes(t, r) /\ Gives(t, r)
           /\ \A w \in Sets : /\ sets'[w].written = sets[w].written /\ sets'[w].read = sets[w].read
                              /\ sets'[w].frame = sets[w].frame /\ (sets'[w].loaded <=> sets[w].loaded)
<1>1. PICK old \in Requests : old = request[t]
  BY DEF TypeOK
<1>2. request[t].pc = "failed" /\ sets' = [w \in Sets |-> GivenBack(w, old)]
  BY <1>1 DEF DropLease
<1>3. \A w \in Sets : sets'[w] = GivenBack(w, old)
  BY <1>2
<1>4. SetsTyped(sets')
  BY <1>2, GivenBackFacts DEF SetsTyped
<1>5. \A w \in Sets : /\ w \notin {old.load, old.save} => sets'[w] = sets[w]
                      /\ w \in {old.load, old.save} => ~sets'[w].busy
                      /\ sets'[w].written = sets[w].written /\ sets'[w].read = sets[w].read
                      /\ sets'[w].frame = sets[w].frame /\ (sets'[w].loaded <=> sets[w].loaded)
  BY <1>3, GivenBackFacts
<1>6. PICK r : r = [old EXCEPT !.pc = "wait"]
  OBVIOUS
<1>7. r \in Requests /\ r.pc = "wait" /\ r.n = old.n /\ r.last = old.last /\ r.waits = old.waits
  BY <1>6, RequestStep DEF Steps
<1>8. request' = [request EXCEPT ![t] = r]
  BY <1>1, <1>6 DEF DropLease, TypeOK
<1>9. UNCHANGED <<faults, clock, jobs, content, requests>>
  BY DEF DropLease
<1>10. Becomes(t, r) /\ Gives(t, r)
  BY <1>1, <1>4, <1>5, <1>7, <1>8, <1>9 DEF Becomes, Gives
<1> QED BY <1>2, <1>5, <1>9, <1>10

\* A request goes on without touching a set or a job.
GoesOn(t, r) ==
    /\ \/ /\ request[t].pc = "record" /\ r.pc = "failed" /\ r.n = request[t].n
          /\ r.load = request[t].load /\ r.save = request[t].save /\ r.waits = request[t].waits
       \/ /\ request[t].pc = "wait" /\ r.pc = "idle" /\ r.waits = {}
    /\ r.last = request[t].last
    /\ UNCHANGED <<faults, sets, clock, jobs, content, requests>>

LEMMA GoesOnFacts ==
    ASSUME TypeOK, NEW t \in Requesters, RecordFails(t) \/ Wait(t)
    PROVE  \E r : Becomes(t, r) /\ GoesOn(t, r)
<1>1. PICK old \in Requests : old = request[t]
  BY DEF TypeOK
<1>2. CASE RecordFails(t)
  <2>1. PICK r : r = [old EXCEPT !.pc = "failed"]
    OBVIOUS
  <2>2. /\ r \in Requests /\ r.pc = "failed" /\ r.n = old.n /\ r.load = old.load /\ r.save = old.save
        /\ r.waits = old.waits /\ r.last = old.last
    BY <2>1, RequestStep DEF Steps
  <2>3. request' = [request EXCEPT ![t] = r]
    BY <1>1, <1>2, <2>1 DEF RecordFails, TypeOK
  <2>4. request[t].pc = "record" /\ UNCHANGED <<faults, sets, clock, jobs, content, requests>>
    BY <1>2 DEF RecordFails
  <2> QED BY <1>1, <2>2, <2>3, <2>4 DEF Becomes, GoesOn
<1>3. CASE Wait(t)
  <2>1. PICK r : r = [IdleRequest EXCEPT !.last = old.last]
    OBVIOUS
  <2>2. r = [pc |-> "idle", n |-> NoFrame, load |-> None, save |-> None, waits |-> {}, last |-> old.last]
    BY <2>1 DEF IdleRequest
  <2>3. r \in Requests
    BY <2>2 DEF Requests, Steps
  <2>4. request' = [request EXCEPT ![t] = r]
    BY <1>1, <1>3, <2>1 DEF Wait
  <2>5. request[t].pc = "wait" /\ UNCHANGED <<faults, sets, clock, jobs, content, requests>>
    BY <1>3 DEF Wait
  <2> QED BY <1>1, <2>2, <2>3, <2>4, <2>5 DEF Becomes, GoesOn
<1> QED BY <1>2, <1>3

\* The device starts or finishes job j.
Moves(j, from, to) ==
    /\ j \in 1 .. Len(jobs) /\ jobs[j].state = from
    /\ jobs' \in Seq(Jobs) /\ Len(jobs') = Len(jobs)
    /\ \A i \in 1 .. Len(jobs) :
          /\ jobs'[i].n = jobs[i].n /\ jobs'[i].load = jobs[i].load /\ jobs'[i].save = jobs[i].save
          /\ jobs'[i].waits = jobs[i].waits
          /\ jobs'[i].state = IF i = j THEN to ELSE jobs[i].state
    /\ \A w \in Sets : w # jobs[j].save => content'[w] = content[w]
    /\ content' \in [Sets -> Int]
    /\ UNCHANGED <<faults, sets, clock, request, requests>>

LEMMA JobStep ==
    ASSUME NEW r \in Jobs, NEW next \in {"queued", "runs", "done"}
    PROVE  LET x == [r EXCEPT !.state = next]
           IN  x \in Jobs /\ x.state = next /\ x.n = r.n /\ x.load = r.load /\ x.save = r.save /\ x.waits = r.waits
  BY DEF Jobs

LEMMA MoveFacts ==
    ASSUME WeightAssumption, TypeOK, NEW j \in DOMAIN jobs
    PROVE  /\ Start(j) => Moves(j, "queued", "runs") /\ \A i \in jobs[j].waits : jobs[i].state = "done"
           /\ Finish(j) => Moves(j, "runs", "done") /\ \A w \in Sets : w = jobs[j].save => content'[w] = jobs[j].n
<1>1. PICK js \in Seq(Jobs) : js = jobs
  BY DEF TypeOK
<1>2. j \in 1 .. Len(js) /\ js[j] \in Jobs
  BY <1>1
<1>3. PICK ct \in [Sets -> Int] : ct = content
  BY DEF TypeOK
<1>4. js[j].n \in Int /\ Partial \in Int
  BY <1>2, SetsFacts DEF Jobs, Partial
<1>5. ASSUME NEW next \in {"queued", "runs", "done"}, jobs' = [jobs EXCEPT ![j].state = next]
      PROVE  /\ jobs' \in Seq(Jobs) /\ Len(jobs') = Len(jobs)
             /\ \A i \in 1 .. Len(jobs) :
                   /\ jobs'[i].n = jobs[i].n /\ jobs'[i].load = jobs[i].load /\ jobs'[i].save = jobs[i].save
                   /\ jobs'[i].waits = jobs[i].waits
                   /\ jobs'[i].state = IF i = j THEN next ELSE jobs[i].state
  <2>1. PICK x : x = [js[j] EXCEPT !.state = next]
    OBVIOUS
  <2>2. /\ x \in Jobs /\ x.state = next /\ x.n = js[j].n /\ x.load = js[j].load /\ x.save = js[j].save
        /\ x.waits = js[j].waits
    BY <1>2, <2>1, JobStep
  <2>3. jobs' = [js EXCEPT ![j] = x]
    BY <1>1, <1>5, <2>1
  <2>4. jobs' \in Seq(Jobs) /\ Len(jobs') = Len(js) /\ \A i \in 1 .. Len(js) : jobs'[i] = IF i = j THEN x ELSE js[i]
    BY <1>2, <2>2, <2>3, ExceptSeq
  <2> QED BY <1>1, <2>2, <2>4
<1>6. ASSUME NEW n \in Int, content' = IF js[j].save = None THEN ct ELSE [ct EXCEPT ![js[j].save] = n]
      PROVE  /\ content' \in [Sets -> Int]
             /\ \A w \in Sets : w # js[j].save => content'[w] = ct[w]
             /\ \A w \in Sets : w = js[j].save => content'[w] = n
  <2>1. js[j].save \in Sets \cup {None} /\ None \notin Sets
    BY <1>2, SetsFacts DEF Jobs
  <2> QED BY <1>6, <2>1
<1>7. ASSUME Start(j)
      PROVE  Moves(j, "queued", "runs") /\ \A i \in jobs[j].waits : jobs[i].state = "done"
  <2>1. /\ jobs' = [jobs EXCEPT ![j].state = "runs"]
        /\ jobs[j].state = "queued" /\ \A i \in jobs[j].waits : jobs[i].state = "done"
        /\ UNCHANGED <<faults, sets, clock, request, requests>>
    BY <1>7 DEF Start, Startable
  <2>2. content' = IF js[j].save = None THEN ct ELSE [ct EXCEPT ![js[j].save] = Partial]
    BY <1>1, <1>3, <1>7 DEF Start
  <2>3. /\ content' \in [Sets -> Int]
        /\ \A w \in Sets : w # js[j].save => content'[w] = ct[w]
    BY <1>4, <1>6, <2>2
  <2>4. /\ jobs' \in Seq(Jobs) /\ Len(jobs') = Len(jobs)
        /\ \A i \in 1 .. Len(jobs) :
              /\ jobs'[i].n = jobs[i].n /\ jobs'[i].load = jobs[i].load /\ jobs'[i].save = jobs[i].save
              /\ jobs'[i].waits = jobs[i].waits
              /\ jobs'[i].state = IF i = j THEN "runs" ELSE jobs[i].state
    BY <1>5, <2>1
  <2> QED BY <1>1, <1>2, <1>3, <2>1, <2>3, <2>4 DEF Moves
<1>8. ASSUME Finish(j)
      PROVE  Moves(j, "runs", "done") /\ \A w \in Sets : w = jobs[j].save => content'[w] = jobs[j].n
  <2>1. /\ jobs' = [jobs EXCEPT ![j].state = "done"] /\ jobs[j].state = "runs"
        /\ UNCHANGED <<faults, sets, clock, request, requests>>
    BY <1>8 DEF Finish
  <2>2. content' = IF js[j].save = None THEN ct ELSE [ct EXCEPT ![js[j].save] = js[j].n]
    BY <1>1, <1>3, <1>8 DEF Finish
  <2>3. /\ content' \in [Sets -> Int]
        /\ \A w \in Sets : w # js[j].save => content'[w] = ct[w]
        /\ \A w \in Sets : w = js[j].save => content'[w] = js[j].n
    BY <1>4, <1>6, <2>2
  <2>4. /\ jobs' \in Seq(Jobs) /\ Len(jobs') = Len(jobs)
        /\ \A i \in 1 .. Len(jobs) :
              /\ jobs'[i].n = jobs[i].n /\ jobs'[i].load = jobs[i].load /\ jobs'[i].save = jobs[i].save
              /\ jobs'[i].waits = jobs[i].waits
              /\ jobs'[i].state = IF i = j THEN "done" ELSE jobs[i].state
    BY <1>5, <2>1
  <2> QED BY <1>1, <1>2, <1>3, <2>1, <2>3, <2>4 DEF Moves
<1> QED BY <1>7, <1>8

-----------------------------------------------------------------------------
(* The invariant for SetsHoldWhatTheySay.                                  *)

LEMMA InitIInv == ASSUME WeightAssumption, WeightInit PROVE IInv
<1>1. jobs = <<>> /\ Len(jobs) = 0 /\ jobs \in Seq(Jobs)
  BY DEF WeightInit
<1>2. sets = [w \in Sets |-> [written |-> 0, read |-> 0, frame |-> NoFrame, busy |-> FALSE, loaded |-> FALSE, used |-> 0]]
  BY DEF WeightInit, None
<1>3. /\ sets \in [Sets -> SetRecords]
      /\ \A w \in Sets : sets[w].written = 0 /\ sets[w].read = 0 /\ sets[w].frame = NoFrame
  BY <1>2 DEF SetRecords
<1>4. IdleRequest \in Requests /\ IdleRequest.pc = "idle" /\ IdleRequest.last = 0 /\ IdleRequest.waits = {}
  BY DEF IdleRequest, Requests, Steps, None
<1>5. request \in [Requesters -> Requests] /\ \A t \in Requesters : request[t] = IdleRequest
  BY <1>4 DEF WeightInit
<1>6. TypeOK
  <2>1. content = [w \in Sets |-> -1]
    BY DEF WeightInit, NoFrame
  <2>2. content \in [Sets -> Int]
    BY <2>1
  <2>3. faults \in FaultSets /\ clock = 0 /\ requests = 0
    BY DEF WeightInit
  <2> QED BY <1>1, <1>3, <1>5, <2>2, <2>3 DEF TypeOK
<1>7. Known(sets, request, jobs)
  BY <1>1, <1>3, <1>4, <1>5 DEF Known
<1>8. Taken(sets, request) /\ Submissions(request, jobs)
  BY <1>4, <1>5 DEF Taken, Submissions, Holds
<1>9. Saying(sets, jobs)
  BY <1>3 DEF Saying, NoFrame
<1> QED BY <1>6, <1>7, <1>8, <1>9 DEF IInv

LEMMA LeaseKeeps ==
    ASSUME WeightAssumption, IInv, NEW t \in Requesters, NEW r, Becomes(t, r), Leases(t, r)
    PROVE  IInv'
<1>1. /\ request' \in [Requesters -> Requests] /\ request'[t] = r
      /\ \A u \in Requesters : u # t => request'[u] = request[u]
  BY BecomesFacts DEF IInv
<1>2. jobs' = jobs /\ r.pc = "record" /\ r.last = request[t].last /\ r.n \in Frames
  BY DEF Leases
<1>3. \A w \in Sets : /\ sets'[w].written = sets[w].written /\ sets'[w].read = sets[w].read
                      /\ sets'[w].busy <=> w \in {r.load, r.save} \/ sets[w].busy
                      /\ sets'[w].frame = IF w = r.save THEN NoFrame ELSE sets[w].frame
  BY DEF Leases
<1>4. None \notin Sets
  BY SetsFacts
<1>5. \A w \in Sets : w \in {r.load, r.save} => ~sets[w].busy
  BY <1>4 DEF Leases, Loadable
<1>6. \A w \in Sets : w = r.save => w # r.load
  BY <1>4 DEF Leases
<1>7. TypeOK'
  <2>1. requests \in Nat /\ requests' = requests + 1 /\ UNCHANGED <<faults, clock, jobs, content>> /\ SetsTyped(sets')
    BY DEF IInv, TypeOK, Leases
  <2> QED BY <1>1, <2>1 DEF IInv, TypeOK, SetsTyped
<1>8. Known(sets', request', jobs')
  <2>1. \A w \in Sets : sets[w].written \in Nat /\ sets[w].read \in Nat
    BY DEF IInv, TypeOK, SetRecords
  <2>2. r.last \in Nat
    BY DEF Becomes, Requests
  <2>3. r.waits \subseteq {sets[w].written : w \in Sets} \cup {sets[w].read : w \in Sets} \cup {r.last}
    BY DEF Leases, Waits
  <2>4. 0 \notin r.waits
    BY DEF Leases, Waits, None
  <2>5. Len(jobs) \in Nat
    BY DEF IInv, TypeOK
  <2>6. \A w \in Sets : sets[w].written <= Len(jobs) /\ sets[w].read <= Len(jobs)
    BY DEF IInv, Known
  <2>7. r.last <= Len(jobs)
    BY <1>2 DEF IInv, Known
  <2>8. r.waits \subseteq 1 .. Len(jobs)
    BY <2>1, <2>2, <2>3, <2>4, <2>5, <2>6, <2>7
  <2>9. \A u \in Requesters : request'[u].last <= Len(jobs) /\ request'[u].waits \subseteq 1 .. Len(jobs)
    BY <1>1, <2>7, <2>8 DEF IInv, Known
  <2> QED BY <1>2, <1>3, <2>9 DEF IInv, Known
<1>9. Taken(sets', request')
  <2>1. \A u \in Requesters, w \in Sets : u # t /\ Holds(request[u], w) => w \notin {r.load, r.save}
    BY <1>5 DEF IInv, Taken
  <2> QED BY <1>1, <1>2, <1>3, <1>6, <2>1 DEF IInv, Taken, Holds
<1>10. Submissions(request', jobs')
  BY <1>1, <1>2 DEF IInv, Submissions
<1>11. Saying(sets', jobs')
  BY <1>2, <1>3 DEF IInv, Saying, NoFrame
<1> QED BY <1>7, <1>8, <1>9, <1>10, <1>11 DEF IInv, Known, Taken, Submissions, Saying

LEMMA SubmitKeeps ==
    ASSUME WeightAssumption, IInv, NEW t \in Requesters, NEW r, Becomes(t, r), Submits(t, r),
           r.pc \in {"submitted", "failed"}
    PROVE  IInv'
<1>1. /\ request' \in [Requesters -> Requests] /\ request'[t] = r
      /\ \A u \in Requesters : u # t => request'[u] = request[u]
  BY BecomesFacts DEF IInv
<1>2. PICK last \in Nat : last = Len(jobs) /\ r.last = last + 1 /\ Len(jobs') = last + 1
  <2>1. Len(jobs) \in Nat
    BY DEF IInv, TypeOK
  <2> QED BY <2>1 DEF Submits
<1>3. /\ sets' = sets /\ request[t].pc = "record" /\ r.n = request[t].n /\ r.load = request[t].load
      /\ r.save = request[t].save /\ r.waits = request[t].waits
      /\ \A i \in 1 .. last : jobs'[i] = jobs[i]
  BY <1>2 DEF Submits
<1>4. PICK job : job = jobs'[last + 1]
  OBVIOUS
<1>5. job.n = r.n /\ job.load = r.load /\ job.save = r.save /\ job.waits = r.waits
  BY <1>2, <1>4 DEF Submits
<1>6. Known(sets, request, jobs) /\ Taken(sets, request) /\ Submissions(request, jobs) /\ Saying(sets, jobs)
  BY DEF IInv
<1>7. TypeOK'
  BY <1>1 DEF IInv, TypeOK, Submits
<1>8. Known(sets', request', jobs')
  <2>1. r.waits \subseteq 1 .. last
    BY <1>2, <1>3, <1>6 DEF Known
  <2>2. \A w \in Sets : sets[w].written <= last /\ sets[w].read <= last
    BY <1>2, <1>6 DEF Known
  <2>3. \A w \in Sets : sets[w].written \in Nat /\ sets[w].read \in Nat
    BY DEF IInv, TypeOK, SetRecords
  <2>4. \A u \in Requesters : request[u].last \in Nat /\ request[u].last <= last /\ request[u].waits \subseteq 1 .. last
    BY <1>2, <1>6 DEF Known, IInv, TypeOK, Requests
  <2>5. \A u \in Requesters : request'[u].last <= last + 1 /\ request'[u].waits \subseteq 1 .. last + 1
    BY <1>1, <1>2, <2>1, <2>4
  <2>6. \A i \in 1 .. last : jobs[i].waits \subseteq 1 .. i - 1
    BY <1>2, <1>6 DEF Known
  <2>7. \A i \in 1 .. last + 1 : jobs'[i].waits \subseteq 1 .. i - 1
    BY <1>3, <1>4, <1>5, <2>1, <2>6
  <2>8. \A w \in Sets : sets'[w].written <= last + 1 /\ sets'[w].read <= last + 1
    BY <1>3, <2>2, <2>3
  <2> QED BY <1>2, <2>5, <2>7, <2>8 DEF Known
<1>9. Taken(sets', request')
  BY <1>1, <1>3, <1>6 DEF Taken, Holds
<1>10. Submissions(request', jobs')
  <2>1. ASSUME NEW u \in Requesters, request'[u].pc = "submitted", u = t
        PROVE  /\ r.last \in 1 .. last + 1
               /\ jobs'[r.last].n = r.n /\ jobs'[r.last].load = r.load /\ jobs'[r.last].save = r.save
               /\ \A j \in r.last + 1 .. last + 1 : jobs'[j].save # r.save
    BY <1>2, <1>4, <1>5
  <2>2. ASSUME NEW u \in Requesters, request[u].pc = "submitted", u # t
        PROVE  /\ request[u].last \in 1 .. last + 1
               /\ jobs'[request[u].last].n = request[u].n /\ jobs'[request[u].last].load = request[u].load
               /\ jobs'[request[u].last].save = request[u].save
               /\ request[u].save # None => \A j \in request[u].last + 1 .. last + 1 : jobs'[j].save # request[u].save
    <3>1. /\ request[u].last \in 1 .. last
          /\ jobs[request[u].last].n = request[u].n /\ jobs[request[u].last].load = request[u].load
          /\ jobs[request[u].last].save = request[u].save
          /\ request[u].save # None => \A j \in request[u].last + 1 .. last : jobs[j].save # request[u].save
      BY <1>2, <1>6, <2>2 DEF Submissions
    <3>2. request[u].save # None => request[u].save # request[t].save
      <4>1. request[u].save # None => request[u].save \in Sets
        BY DEF IInv, TypeOK, Requests
      <4> QED BY <1>3, <1>6, <2>2, <4>1 DEF Taken, Holds
    <3>3. \A j \in request[u].last + 1 .. last + 1 : j \in request[u].last + 1 .. last \/ j = last + 1
      BY <3>1
    <3>4. \A j \in request[u].last + 1 .. last : j \in 1 .. last
      BY <3>1
    <3> QED BY <1>3, <1>4, <1>5, <3>1, <3>2, <3>3, <3>4
  <2> QED BY <1>1, <1>2, <2>1, <2>2 DEF Submissions
<1>11. Saying(sets', jobs')
  <2> SUFFICES ASSUME NEW w \in Sets, sets[w].frame >= 0
               PROVE  /\ sets[w].written \in 1 .. last + 1 /\ jobs'[sets[w].written].n = sets[w].frame
                      /\ jobs'[sets[w].written].save = w
                      /\ \A j \in 1 .. last + 1 : j > sets[w].written => jobs'[j].save # w
    BY <1>2, <1>3 DEF Saying
  <2>1. /\ sets[w].written \in 1 .. last /\ jobs[sets[w].written].n = sets[w].frame
        /\ jobs[sets[w].written].save = w
        /\ \A j \in 1 .. last : j > sets[w].written => jobs[j].save # w
    BY <1>2, <1>6 DEF Saying
  <2>2. request[t].save # w
    BY <1>3, <1>6 DEF Taken, Holds, NoFrame
  <2>3. \A j \in 1 .. last + 1 : j \in 1 .. last \/ j = last + 1
    OBVIOUS
  <2> QED BY <1>3, <1>4, <1>5, <2>1, <2>2, <2>3
<1> QED BY <1>7, <1>8, <1>9, <1>10, <1>11 DEF IInv, Known, Taken, Submissions, Saying

LEMMA GiveKeeps ==
    ASSUME WeightAssumption, IInv, NEW t \in Requesters, NEW r, Becomes(t, r), Gives(t, r), clock' \in Nat,
           \/ request[t].pc = "submitted" /\ Stamps(t)
           \/ /\ request[t].pc = "failed"
              /\ \A w \in Sets : /\ sets'[w].written = sets[w].written /\ sets'[w].read = sets[w].read
                                 /\ sets'[w].frame = sets[w].frame
    PROVE  IInv'
<1>1. /\ request' \in [Requesters -> Requests] /\ request'[t] = r
      /\ \A u \in Requesters : u # t => request'[u] = request[u]
  BY BecomesFacts DEF IInv
<1>2. PICK old : old = request[t]
  OBVIOUS
<1>3. /\ jobs' = jobs /\ r.pc = "wait" /\ r.n = old.n /\ r.last = old.last
      /\ \A w \in Sets : ~(w \in {old.load, old.save}) => sets'[w] = sets[w]
  BY <1>2 DEF Gives
<1>4. Known(sets, request, jobs) /\ Taken(sets, request) /\ Submissions(request, jobs) /\ Saying(sets, jobs)
  BY DEF IInv
<1>5. old.pc \in {"submitted", "failed"}
  BY <1>2
<1>6. old.n \in Frames /\ \A w \in Sets : w \in {old.load, old.save} => Holds(old, w) /\ (w = old.save => w # old.load)
  BY <1>2, <1>4, <1>5 DEF Taken, Holds
<1>7. TypeOK'
  <2>1. SetsTyped(sets') /\ UNCHANGED <<faults, jobs, content, requests>>
    BY DEF Gives
  <2> QED BY <1>1, <2>1 DEF IInv, TypeOK, SetsTyped
<1>8. \A w \in Sets : w \in {old.load, old.save} =>
          \/ sets'[w].written = sets[w].written /\ sets'[w].frame = sets[w].frame
          \/ /\ old.pc = "submitted" /\ w = old.save
             /\ sets'[w].written = old.last /\ sets'[w].frame = old.n
  BY <1>2, <1>6 DEF Stamps
<1>9. \A w \in Sets : sets'[w].read \in {sets[w].read, old.last}
  <2> TAKE w \in Sets
  <2>1. CASE w = old.load
    BY <1>2, <2>1 DEF Stamps
  <2>2. CASE w # old.load /\ w = old.save
    BY <1>2, <2>2 DEF Stamps
  <2>3. CASE w \notin {old.load, old.save}
    BY <1>3, <2>3
  <2> QED BY <2>1, <2>2, <2>3
<1>10. Known(sets', request', jobs')
  <2>1. old.last <= Len(jobs)
    BY <1>2, <1>4 DEF Known
  <2>2. \A w \in Sets : sets[w].written <= Len(jobs) /\ sets[w].read <= Len(jobs)
    BY <1>4 DEF Known
  <2>3. \A w \in Sets : sets'[w].written <= Len(jobs) /\ sets'[w].read <= Len(jobs)
    BY <1>3, <1>8, <1>9, <2>1, <2>2
  <2>4. r.waits \subseteq 1 .. Len(jobs) /\ r.last <= Len(jobs)
    BY <1>2, <1>3, <1>4, <2>1 DEF Known, Gives
  <2> QED BY <1>1, <1>3, <1>4, <2>3, <2>4 DEF Known
<1>11. Taken(sets', request')
  <2>1. \A u \in Requesters, w \in Sets : u # t /\ Holds(request[u], w) => w \notin {old.load, old.save}
    BY <1>2, <1>4, <1>6 DEF Taken
  <2> QED BY <1>1, <1>3, <1>4, <1>6, <2>1 DEF Taken, Holds
<1>12. Submissions(request', jobs')
  BY <1>1, <1>3, <1>4 DEF Submissions
<1>13. Saying(sets', jobs')
  <2> SUFFICES ASSUME NEW w \in Sets, sets'[w].frame >= 0
               PROVE  /\ sets'[w].written \in 1 .. Len(jobs) /\ jobs[sets'[w].written].n = sets'[w].frame
                      /\ jobs[sets'[w].written].save = w
                      /\ \A j \in 1 .. Len(jobs) : j > sets'[w].written => jobs[j].save # w
    BY <1>3 DEF Saying
  <2>1. CASE sets'[w].written = sets[w].written /\ sets'[w].frame = sets[w].frame
    BY <1>4, <2>1 DEF Saying
  <2>2. CASE old.pc = "submitted" /\ w = old.save /\ sets'[w].written = old.last /\ sets'[w].frame = old.n
    <3>1. /\ old.last \in 1 .. Len(jobs) /\ jobs[old.last].n = old.n /\ jobs[old.last].save = w
          /\ old.save # None => \A j \in old.last + 1 .. Len(jobs) : jobs[j].save # w
      BY <1>2, <1>4, <2>2 DEF Submissions
    <3>2. old.save # None
      BY <2>2, SetsFacts
    <3>3. \A j \in 1 .. Len(jobs) : j > old.last => j \in old.last + 1 .. Len(jobs)
      BY <3>1
    <3> QED BY <2>2, <3>1, <3>2, <3>3
  <2> QED BY <1>3, <1>8, <2>1, <2>2
<1> QED BY <1>7, <1>10, <1>11, <1>12, <1>13 DEF IInv, Known, Taken, Submissions, Saying

LEMMA GoOnKeeps ==
    ASSUME WeightAssumption, IInv, NEW t \in Requesters, NEW r, Becomes(t, r), GoesOn(t, r)
    PROVE  IInv'
<1>1. /\ request' \in [Requesters -> Requests] /\ request'[t] = r
      /\ \A u \in Requesters : u # t => request'[u] = request[u]
  BY BecomesFacts DEF IInv
<1>2. /\ sets' = sets /\ jobs' = jobs /\ r.pc # "submitted" /\ r.last = request[t].last
      /\ r.waits = request[t].waits \/ r.waits = {}
      /\ \A w \in Sets : Holds(r, w) => Holds(request[t], w) /\ r.save = request[t].save /\ r.load = request[t].load
      /\ r.pc # "idle" => request[t].pc # "idle" /\ r.n = request[t].n
  BY DEF GoesOn, Holds
<1>3. Known(sets, request, jobs) /\ Taken(sets, request) /\ Submissions(request, jobs) /\ Saying(sets, jobs)
  BY DEF IInv
<1>4. TypeOK'
  BY <1>1 DEF IInv, TypeOK, GoesOn
<1>5. Known(sets', request', jobs')
  BY <1>1, <1>2, <1>3 DEF Known
<1>6. Taken(sets', request')
  BY <1>1, <1>2, <1>3 DEF Taken
<1>7. Submissions(request', jobs')
  BY <1>1, <1>2, <1>3 DEF Submissions
<1>8. Saying(sets', jobs')
  BY <1>2, <1>3
<1> QED BY <1>4, <1>5, <1>6, <1>7, <1>8 DEF IInv, Known, Taken, Submissions, Saying

LEMMA MoveKeeps ==
    ASSUME WeightAssumption, IInv, NEW j, NEW from, NEW to, Moves(j, from, to)
    PROVE  IInv'
<1>1. /\ jobs' \in Seq(Jobs) /\ Len(jobs') = Len(jobs) /\ Len(jobs) \in Nat
      /\ \A i \in 1 .. Len(jobs) : /\ jobs'[i].n = jobs[i].n /\ jobs'[i].load = jobs[i].load
                                   /\ jobs'[i].save = jobs[i].save /\ jobs'[i].waits = jobs[i].waits
  BY DEF Moves, IInv, TypeOK
<1>2. UNCHANGED <<faults, sets, clock, request, requests>> /\ content' \in [Sets -> Int]
  BY DEF Moves
<1>3. Known(sets, request, jobs) /\ Taken(sets, request) /\ Submissions(request, jobs) /\ Saying(sets, jobs)
  BY DEF IInv
<1>4. TypeOK'
  BY <1>1, <1>2 DEF IInv, TypeOK
<1>5. Known(sets', request', jobs')
  BY <1>1, <1>2, <1>3 DEF Known
<1>6. Taken(sets', request')
  BY <1>2, <1>3
<1>7. Submissions(request', jobs')
  <2> SUFFICES ASSUME NEW u \in Requesters, request[u].pc = "submitted"
               PROVE  /\ request[u].last \in 1 .. Len(jobs)
                      /\ jobs'[request[u].last].n = request[u].n /\ jobs'[request[u].last].load = request[u].load
                      /\ jobs'[request[u].last].save = request[u].save
                      /\ request[u].save # None =>
                            \A i \in request[u].last + 1 .. Len(jobs) : jobs'[i].save # request[u].save
    BY <1>1, <1>2 DEF Submissions
  <2>1. /\ request[u].last \in 1 .. Len(jobs)
        /\ jobs[request[u].last].n = request[u].n /\ jobs[request[u].last].load = request[u].load
        /\ jobs[request[u].last].save = request[u].save
        /\ request[u].save # None =>
              \A i \in request[u].last + 1 .. Len(jobs) : jobs[i].save # request[u].save
    BY <1>3 DEF Submissions
  <2>2. \A i \in request[u].last + 1 .. Len(jobs) : i \in 1 .. Len(jobs)
    BY <1>1, <2>1
  <2> QED BY <1>1, <2>1, <2>2
<1>8. Saying(sets', jobs')
  BY <1>1, <1>2, <1>3 DEF Saying
<1> QED BY <1>4, <1>5, <1>6, <1>7, <1>8 DEF IInv, Known, Taken, Submissions, Saying

LEMMA StutterKeeps == ASSUME IInv, UNCHANGED weightVars PROVE IInv'
<1>1. UNCHANGED <<faults, sets, clock, request, jobs, content, requests>>
  BY DEF weightVars
<1>2. TypeOK'
  BY <1>1 DEF IInv, TypeOK
<1>3. /\ Known(sets', request', jobs') /\ Taken(sets', request')
      /\ Submissions(request', jobs') /\ Saying(sets', jobs')
  BY <1>1 DEF IInv
<1> QED BY <1>2, <1>3 DEF IInv, Known, Taken, Submissions, Saying

\* One of its steps leads from a state to the next.
StepTaken ==
    \/ UNCHANGED weightVars
    \/ \E t \in Requesters : \E r : Becomes(t, r) /\
          \/ Leases(t, r)
          \/ Submits(t, r) /\ (r.pc = "submitted" \/ (r.pc = "failed" /\ "partial" \in faults))
          \/ Gives(t, r) /\ clock' \in Nat /\
                \/ request[t].pc = "submitted" /\ Stamps(t)
                \/ /\ request[t].pc = "failed"
                   /\ \A w \in Sets : /\ sets'[w].written = sets[w].written /\ sets'[w].read = sets[w].read
                                      /\ sets'[w].frame = sets[w].frame /\ (sets'[w].loaded <=> sets[w].loaded)
          \/ GoesOn(t, r)
    \/ \E j : /\ Moves(j, "queued", "runs")
              /\ \A i \in jobs[j].waits : jobs[i].state = "done"
    \/ \E j : /\ Moves(j, "runs", "done")
              /\ \A w \in Sets : w = jobs[j].save => content'[w] = jobs[j].n

LEMMA StepFacts ==
    ASSUME WeightAssumption, IInv, [WeightNext]_weightVars
    PROVE  StepTaken
<1>1. TypeOK /\ Taken(sets, request)
  BY DEF IInv
<1>2. ASSUME NEW t \in Requesters, NEW n \in Frames, Lease(t, n)
      PROVE  StepTaken
  BY <1>1, <1>2, LeaseFacts DEF StepTaken
<1>3. ASSUME NEW t \in Requesters, Submit(t) \/ SubmitFails(t)
      PROVE  StepTaken
  <2>1. request[t].pc = "record" /\ request[t].n \in Frames
    BY <1>1, <1>3 DEF Submit, SubmitFails, Taken
  <2>2. CASE Submit(t)
    <3>1. PICK r : Becomes(t, r) /\ Submits(t, r) /\ r.pc = "submitted"
      BY <1>1, <2>1, <2>2, SubmitFacts DEF Submit, Steps
    <3> QED BY <3>1 DEF StepTaken
  <2>3. CASE SubmitFails(t)
    <3>1. PICK r : Becomes(t, r) /\ Submits(t, r) /\ r.pc = "failed"
      BY <1>1, <2>1, <2>3, SubmitFacts DEF SubmitFails, Steps
    <3> QED BY <2>3, <3>1 DEF StepTaken, SubmitFails
  <2> QED BY <1>3, <2>2, <2>3
<1>4. ASSUME NEW t \in Requesters, MarkSubmitted(t)
      PROVE  StepTaken
  BY <1>1, <1>4, MarkFacts DEF StepTaken
<1>5. ASSUME NEW t \in Requesters, DropLease(t)
      PROVE  StepTaken
  <2>1. /\ request[t].pc = "failed" /\ clock' \in Nat
        /\ \A w \in Sets : /\ sets'[w].written = sets[w].written /\ sets'[w].read = sets[w].read
                           /\ sets'[w].frame = sets[w].frame /\ (sets'[w].loaded <=> sets[w].loaded)
    BY <1>1, <1>5, DropFacts DEF TypeOK
  <2>2. PICK r : Becomes(t, r) /\ Gives(t, r)
    BY <1>1, <1>5, DropFacts
  <2> QED BY <2>1, <2>2 DEF StepTaken
<1>6. ASSUME NEW t \in Requesters, RecordFails(t) \/ Wait(t)
      PROVE  StepTaken
  BY <1>1, <1>6, GoesOnFacts DEF StepTaken
<1>7. ASSUME NEW j \in DOMAIN jobs, Start(j) \/ Finish(j)
      PROVE  StepTaken
  BY <1>1, <1>7, MoveFacts DEF StepTaken
<1>8. CASE UNCHANGED weightVars
  BY <1>8 DEF StepTaken
<1> QED BY <1>2, <1>3, <1>4, <1>5, <1>6, <1>7, <1>8 DEF WeightNext

LEMMA IInvStep == ASSUME WeightAssumption, IInv, StepTaken PROVE IInv'
  BY StutterKeeps, LeaseKeeps, SubmitKeeps, GiveKeeps, GoOnKeeps, MoveKeeps DEF StepTaken

LEMMA IInvHolds == ASSUME WeightAssumption PROVE WeightSpec => []IInv
<1>1. WeightInit => IInv
  BY InitIInv
<1>2. IInv /\ [WeightNext]_weightVars => IInv'
  BY StepFacts, IInvStep
<1> QED BY <1>1, <1>2, PTL DEF WeightSpec

\* What the cache says of a set that nobody has taken will be true by the time
\* a frame that waits for its writer reads it, wherever requests failed
\* (WeightSet, WeightLease).
THEOREM SetsSayHolds ==
    ASSUME WeightAssumption
    PROVE  WeightSpec => []SetsHoldWhatTheySay
<1>1. ASSUME IInv
      PROVE  SetsHoldWhatTheySay
  <2>1. jobs \in Seq(Jobs) /\ Saying(sets, jobs)
    BY <1>1 DEF IInv, TypeOK
  <2>2. DOMAIN jobs = 1 .. Len(jobs) /\ Len(jobs) \in Nat
    BY <2>1
  <2> QED BY <2>1, <2>2 DEF SetsHoldWhatTheySay, Saying, None
<1>2. WeightSpec => []IInv
  BY IInvHolds
<1> QED BY <1>1, <1>2, PTL

-----------------------------------------------------------------------------
(* The invariant for WeightsKept, while no request fails between stages.   *)

LEMMA JobsFacts ==
    ASSUME WeightAssumption, IInv
    PROVE  /\ Len(jobs) \in Nat /\ None \notin Sets
           /\ \A j \in 1 .. Len(jobs) : /\ jobs[j].waits \subseteq 1 .. j - 1
                                        /\ jobs[j].save \in Sets \cup {None} /\ jobs[j].load \in Sets \cup {None}
           /\ \A w \in Sets : /\ sets[w].written \in 0 .. Len(jobs) /\ sets[w].read \in 0 .. Len(jobs)
           /\ \A u \in Requesters : request[u].last \in 0 .. Len(jobs)
<1>1. jobs \in Seq(Jobs) /\ Known(sets, request, jobs)
  BY DEF IInv, TypeOK
<1>2. Len(jobs) \in Nat /\ \A j \in 1 .. Len(jobs) : jobs[j] \in Jobs
  BY <1>1
<1>3. \A j \in 1 .. Len(jobs) : jobs[j].save \in Sets \cup {None} /\ jobs[j].load \in Sets \cup {None}
  BY <1>2 DEF Jobs
<1>4. \A w \in Sets : sets[w].written \in Nat /\ sets[w].read \in Nat
  BY DEF IInv, TypeOK, SetRecords
<1>5. \A u \in Requesters : request[u].last \in Nat
  BY DEF IInv, TypeOK, Requests
<1> QED BY <1>1, <1>2, <1>3, <1>4, <1>5, SetsFacts DEF Known

LEMMA InitWhole == ASSUME WeightInit PROVE Whole
<1>1. jobs = <<>> /\ Len(jobs) = 0
  BY DEF WeightInit
<1>2. \A w \in Sets : sets[w].written = None
  BY DEF WeightInit
<1>3. \A t \in Requesters : request[t].pc = "idle"
  BY DEF WeightInit, IdleRequest
<1>4. Marked(sets, request, jobs)
  BY <1>1, <1>2 DEF Marked
<1>5. Leased(sets, request)
  BY <1>3 DEF Leased
<1>6. Ordered(jobs) /\ Followed(jobs) /\ Left(jobs, content)
  BY <1>1 DEF Ordered, Followed, Left
<1> QED BY <1>4, <1>5, <1>6 DEF Whole

LEMMA LeaseWhole ==
    ASSUME WeightAssumption, IInv, Whole, NEW t \in Requesters, NEW r, Becomes(t, r), Leases(t, r)
    PROVE  Whole'
<1>1. /\ request'[t] = r /\ \A u \in Requesters : u # t => request'[u] = request[u]
  BY BecomesFacts DEF IInv
<1>2. jobs' = jobs /\ content' = content /\ r.pc = "record" /\ request[t].pc = "idle"
  BY DEF Leases
<1>3. \A w \in Sets : /\ sets'[w].written = sets[w].written /\ sets'[w].read = sets[w].read
                      /\ sets'[w].loaded = sets[w].loaded
                      /\ sets'[w].frame = IF w = r.save THEN NoFrame ELSE sets[w].frame
  BY DEF Leases
<1>4. Marked(sets, request, jobs) /\ Leased(sets, request) /\ Ordered(jobs) /\ Followed(jobs) /\ Left(jobs, content)
  BY DEF Whole
<1>5. Len(jobs) \in Nat /\ None \notin Sets
  BY JobsFacts
<1>6. \A i : Pending(request, i) => Pending(request', i)
  BY <1>1, <1>2 DEF Pending
<1>7. Marked(sets', request', jobs')
  <2> SUFFICES ASSUME NEW w \in Sets
               PROVE  /\ sets[w].written # None => jobs[sets[w].written].save = w
                      /\ \A i \in 1 .. Len(jobs) : jobs[i].save = w => i <= sets[w].written \/ Pending(request', i)
                      /\ \A i \in 1 .. Len(jobs) : jobs[i].load = w =>
                            i = sets[w].read \/ i < sets[w].written \/ Pending(request', i)
                      /\ sets'[w].frame >= 0 /\ ~sets[w].loaded =>
                            \A i \in 1 .. Len(jobs) : jobs[i].load = w => i < sets[w].written \/ Pending(request', i)
    BY <1>2, <1>3 DEF Marked
  <2>1. sets'[w].frame >= 0 => sets[w].frame >= 0
    BY <1>3 DEF NoFrame
  <2> QED BY <1>4, <1>6, <2>1 DEF Marked
<1>8. Leased(sets', request')
  <2>1. ASSUME NEW u \in Requesters, u # t, NEW w \in Sets, Holds(request[u], w)
        PROVE  sets'[w].frame = sets[w].frame
    <3>1. sets[w].busy
      BY <2>1 DEF IInv, Taken
    <3>2. w # r.save
      BY <1>5, <3>1 DEF Leases
    <3> QED BY <1>3, <3>2
  <2>2. ASSUME NEW w \in Sets, r.load = w
        PROVE  sets'[w].frame = r.n - 1 /\ sets'[w].frame >= 0 /\ ~sets'[w].loaded /\ sets'[w].written \in r.waits
    <3>1. w \in Loadable(r.n) /\ w # r.save /\ r.n \in Nat
      <4>1. r.n \in Frames /\ w \in Loadable(r.n) /\ (r.save # None => r.save # w)
        BY <1>5, <2>2 DEF Leases
      <4> QED BY <1>5, <4>1 DEF WeightAssumption
    <3>2. r.n > 0 /\ sets[w].frame = r.n - 1 /\ ~sets[w].loaded
      BY <3>1 DEF Loadable
    <3>3. sets[w].written \in 1 .. Len(jobs)
      BY <3>1, <3>2 DEF IInv, Saying
    <3>4. sets[w].written \in r.waits
      BY <2>2, <3>3 DEF Leases, Waits, None
    <3> QED BY <1>3, <3>1, <3>2, <3>4
  <2>3. ASSUME NEW w \in Sets, r.save = w
        PROVE  {sets'[w].written, sets'[w].read} \ {None} \subseteq r.waits
    BY <1>3, <2>3 DEF Leases, Waits
  <2>4. \A u \in Requesters, w \in Sets : request[u].pc \in {"record", "submitted"} /\ w \in {request[u].load, request[u].save} =>
            Holds(request[u], w)
    BY DEF Holds
  <2> QED BY <1>1, <1>2, <1>3, <1>4, <2>1, <2>2, <2>3, <2>4 DEF Leased
<1> QED BY <1>2, <1>4, <1>7, <1>8 DEF Whole, Marked, Leased, Ordered, Followed, Left

LEMMA DropWhole ==
    ASSUME WeightAssumption, IInv, Whole, NEW t \in Requesters, NEW r, Becomes(t, r),
           \/ /\ Gives(t, r) /\ request[t].pc = "failed"
              /\ \A w \in Sets : /\ sets'[w].written = sets[w].written /\ sets'[w].read = sets[w].read
                                 /\ sets'[w].frame = sets[w].frame /\ (sets'[w].loaded <=> sets[w].loaded)
           \/ GoesOn(t, r)
    PROVE  Whole'
<1>1. /\ request'[t] = r /\ \A u \in Requesters : u # t => request'[u] = request[u]
  BY BecomesFacts DEF IInv
<1>2. /\ jobs' = jobs /\ content' = content /\ request[t].pc \notin {"submitted"}
      /\ r.pc \notin {"record", "submitted"}
  BY DEF Gives, GoesOn
<1>3. \A w \in Sets : /\ sets'[w].written = sets[w].written /\ sets'[w].read = sets[w].read
                      /\ sets'[w].frame = sets[w].frame /\ (sets'[w].loaded <=> sets[w].loaded)
  BY DEF GoesOn
<1>4. Marked(sets, request, jobs) /\ Leased(sets, request) /\ Ordered(jobs) /\ Followed(jobs) /\ Left(jobs, content)
  BY DEF Whole
<1>5. \A i : Pending(request, i) => Pending(request', i)
  BY <1>1, <1>2 DEF Pending
<1>6. Marked(sets', request', jobs')
  BY <1>2, <1>3, <1>4, <1>5 DEF Marked
<1>7. Leased(sets', request')
  BY <1>1, <1>2, <1>3, <1>4 DEF Leased
<1> QED BY <1>2, <1>4, <1>6, <1>7 DEF Whole, Marked, Leased, Ordered, Followed, Left

\* Nobody but request t has a job that touches a set it has taken on its mind.
LEMMA PendingFacts ==
    ASSUME IInv, NEW i, NEW u \in Requesters, request[u].pc = "submitted", request[u].last = i,
           NEW w \in Sets, Touches(jobs[i], w)
    PROVE  Holds(request[u], w)
<1>1. jobs[i].load = request[u].load /\ jobs[i].save = request[u].save
  BY DEF IInv, Submissions
<1> QED BY <1>1 DEF Touches, Holds

LEMMA SubmitWhole ==
    ASSUME WeightAssumption, IInv, Whole, NEW t \in Requesters, NEW r, Becomes(t, r), Submits(t, r), r.pc = "submitted"
    PROVE  Whole'
<1>1. /\ request'[t] = r /\ \A u \in Requesters : u # t => request'[u] = request[u]
  BY BecomesFacts DEF IInv
<1>2. PICK last \in Nat : last = Len(jobs) /\ r.last = last + 1 /\ Len(jobs') = last + 1
  BY JobsFacts DEF Submits
<1>3. /\ sets' = sets /\ content' = content /\ request[t].pc = "record" /\ r.n = request[t].n /\ r.load = request[t].load
      /\ r.save = request[t].save /\ r.waits = request[t].waits
      /\ \A i \in 1 .. last : jobs'[i] = jobs[i]
  BY <1>2 DEF Submits
<1>4. PICK job : job = jobs'[last + 1]
  OBVIOUS
<1>5. job.n = r.n /\ job.load = r.load /\ job.save = r.save /\ job.waits = r.waits /\ job.state = "queued"
  BY <1>2, <1>4 DEF Submits
<1>6. Marked(sets, request, jobs) /\ Leased(sets, request) /\ Ordered(jobs) /\ Followed(jobs) /\ Left(jobs, content)
  BY DEF Whole
<1>7. \A i : Pending(request, i) => Pending(request', i)
  BY <1>1, <1>3 DEF Pending
<1>8. Pending(request', last + 1)
  BY <1>1, <1>2 DEF Pending
<1>9. \A w \in Sets : sets[w].written \in 0 .. last /\ sets[w].read \in 0 .. last
  BY <1>2, JobsFacts
<1>10. \A i \in 1 .. last + 1 : i \in 1 .. last \/ i = last + 1
  BY <1>2
<1>11. \A i \in 1 .. last : jobs[i].waits \subseteq 1 .. i - 1
  BY <1>2, JobsFacts
<1>12. Marked(sets', request', jobs')
  <2> SUFFICES ASSUME NEW w \in Sets
               PROVE  /\ sets[w].written # None => jobs'[sets[w].written].save = w
                      /\ \A i \in 1 .. last + 1 : jobs'[i].save = w => i <= sets[w].written \/ Pending(request', i)
                      /\ \A i \in 1 .. last + 1 : jobs'[i].load = w =>
                            i = sets[w].read \/ i < sets[w].written \/ Pending(request', i)
                      /\ sets[w].frame >= 0 /\ ~sets[w].loaded =>
                            \A i \in 1 .. last + 1 : jobs'[i].load = w => i < sets[w].written \/ Pending(request', i)
    BY <1>2, <1>3 DEF Marked
  <2>1. /\ sets[w].written # None => jobs[sets[w].written].save = w
        /\ \A i \in 1 .. last : jobs[i].save = w => i <= sets[w].written \/ Pending(request, i)
        /\ \A i \in 1 .. last : jobs[i].load = w => i = sets[w].read \/ i < sets[w].written \/ Pending(request, i)
        /\ sets[w].frame >= 0 /\ ~sets[w].loaded =>
              \A i \in 1 .. last : jobs[i].load = w => i < sets[w].written \/ Pending(request, i)
    BY <1>2, <1>6 DEF Marked
  <2>2. sets[w].written # None => sets[w].written \in 1 .. last
    BY <1>9 DEF None
  <2> QED BY <1>3, <1>7, <1>8, <1>10, <2>1, <2>2
<1>13. Leased(sets', request')
  <2>1. ASSUME NEW w \in Sets, w \in {r.load, r.save}
        PROVE  sets[w].written < r.last /\ sets[w].read < r.last
    BY <1>2, <1>9
  <2> QED BY <1>1, <1>3, <1>6, <2>1 DEF Leased
<1>14. ASSUME NEW w \in Sets, w \in {r.load, r.save}, NEW i \in 1 .. last, Touches(jobs[i], w)
       PROVE  ~Pending(request, i)
  <2> SUFFICES ASSUME NEW u \in Requesters, request[u].pc = "submitted", request[u].last = i
               PROVE  FALSE
    BY DEF Pending
  <2>1. Holds(request[u], w)
    BY <1>14, PendingFacts
  <2>2. Holds(request[t], w)
    BY <1>3, <1>14 DEF Holds
  <2> QED BY <1>3, <2>1, <2>2 DEF IInv, Taken
<1>15. ASSUME NEW w \in Sets, r.save = w, NEW i \in 1 .. last, Touches(jobs[i], w)
       PROVE  Behind(jobs', r.waits, i, w)
  <2>1. {sets[w].written, sets[w].read} \ {None} \subseteq r.waits
    BY <1>3, <1>6, <1>15 DEF Leased
  <2>2. ~Pending(request, i)
    BY <1>14, <1>15
  <2>3. i <= sets[w].written \/ i = sets[w].read
    <3>1. CASE jobs[i].save = w
      BY <1>2, <1>6, <2>2, <3>1 DEF Marked
    <3>2. CASE jobs[i].load = w
      BY <1>2, <1>6, <1>9, <2>2, <3>2 DEF Marked
    <3> QED BY <1>15, <3>1, <3>2 DEF Touches
  <2>4. CASE i = sets[w].written \/ i = sets[w].read
    BY <2>1, <2>4 DEF Behind, None
  <2>5. CASE i < sets[w].written
    <3>1. sets[w].written \in 1 .. last /\ sets[w].written # None
      BY <1>9, <2>5 DEF None
    <3>2. jobs'[sets[w].written].save = w
      BY <1>3, <1>6, <3>1 DEF Marked
    <3> QED BY <2>1, <2>5, <3>1, <3>2 DEF Behind
  <2> QED BY <1>9, <2>3, <2>4, <2>5
<1>16. ASSUME NEW w \in Sets, r.load = w
       PROVE  \E k \in r.waits : /\ jobs'[k].save = w /\ jobs'[k].n = r.n - 1
                                 /\ \A i \in 1 .. last : jobs'[i].save = w => i <= k
  <2>1. sets[w].written \in r.waits /\ sets[w].frame = r.n - 1 /\ sets[w].frame >= 0
    BY <1>3, <1>6, <1>16 DEF Leased
  <2>2. /\ sets[w].written \in 1 .. last /\ jobs[sets[w].written].n = sets[w].frame
        /\ jobs[sets[w].written].save = w
        /\ \A i \in 1 .. last : i > sets[w].written => jobs[i].save # w
    BY <1>2, <2>1 DEF IInv, Saying
  <2>3. \A i \in 1 .. last : jobs'[i].save = w => i <= sets[w].written
    BY <1>3, <2>2
  <2> QED BY <1>3, <2>1, <2>2, <2>3
<1>17. \A w \in Sets : r.load = w => r.save # w
  <2> SUFFICES ASSUME NEW w \in Sets, r.load = w, r.save = w
               PROVE  FALSE
    OBVIOUS
  <2>1. Holds(request[t], w)
    BY <1>3 DEF Holds
  <2> QED BY <1>3, <2>1 DEF IInv, Taken
<1>18. Ordered(jobs')
  <2>1. ASSUME NEW j \in 1 .. last, NEW w \in Sets
        PROVE  /\ jobs[j].load = w => jobs[j].save # w
               /\ jobs[j].save = w => \A i \in 1 .. j - 1 : Touches(jobs'[i], w) => Behind(jobs', jobs[j].waits, i, w)
               /\ jobs[j].load = w =>
                     \E k \in jobs[j].waits : /\ jobs'[k].save = w /\ jobs'[k].n = jobs[j].n - 1
                                              /\ \A i \in 1 .. j - 1 : jobs'[i].save = w => i <= k
    <3>1. \A i \in 1 .. j - 1 : jobs'[i] = jobs[i]
      BY <1>2, <1>3
    <3>2. \A k \in jobs[j].waits : jobs'[k] = jobs[k]
      BY <1>11, <3>1
    <3>3. /\ jobs[j].load = w => jobs[j].save # w
          /\ jobs[j].save = w => \A i \in 1 .. j - 1 : Touches(jobs[i], w) => Behind(jobs, jobs[j].waits, i, w)
          /\ jobs[j].load = w =>
                \E k \in jobs[j].waits : /\ jobs[k].save = w /\ jobs[k].n = jobs[j].n - 1
                                         /\ \A i \in 1 .. j - 1 : jobs[i].save = w => i <= k
      BY <1>2, <1>6 DEF Ordered
    <3>4. \A i : Behind(jobs, jobs[j].waits, i, w) => Behind(jobs', jobs[j].waits, i, w)
      BY <3>2 DEF Behind
    <3> QED BY <3>1, <3>2, <3>3, <3>4
  <2>2. ASSUME NEW w \in Sets
        PROVE  /\ job.load = w => job.save # w
               /\ job.save = w => \A i \in 1 .. last : Touches(jobs'[i], w) => Behind(jobs', job.waits, i, w)
               /\ job.load = w =>
                     \E k \in job.waits : /\ jobs'[k].save = w /\ jobs'[k].n = job.n - 1
                                          /\ \A i \in 1 .. last : jobs'[i].save = w => i <= k
    BY <1>3, <1>5, <1>15, <1>16, <1>17
  <2>3. (last + 1) - 1 = last
    BY <1>2
  <2> QED BY <1>2, <1>3, <1>4, <1>10, <2>1, <2>2, <2>3 DEF Ordered
<1>19. Followed(jobs')
  <2>1. ASSUME NEW j \in 1 .. last, jobs[j].state # "queued", NEW i \in 1 .. j - 1, NEW w \in Sets,
               \/ jobs[j].save = w /\ Touches(jobs[i], w)
               \/ jobs[j].load = w /\ jobs[i].save = w
        PROVE  jobs[i].state = "done"
    BY <1>2, <1>6, <2>1 DEF Followed
  <2>2. \A j \in 1 .. last : \A i \in 1 .. j - 1 : jobs'[i] = jobs[i]
    BY <1>2, <1>3
  <2> QED BY <1>2, <1>3, <1>4, <1>5, <1>10, <2>1, <2>2 DEF Followed
<1>20. Left(jobs', content')
  <2> SUFFICES ASSUME NEW k \in 1 .. last + 1, NEW w \in Sets, jobs'[k].save = w, jobs'[k].state = "done",
                      \A i \in k + 1 .. last + 1 : jobs'[i].save = w => jobs'[i].state = "queued"
               PROVE  content[w] = jobs'[k].n
    BY <1>2, <1>3 DEF Left
  <2>1. k \in 1 .. last /\ jobs'[k] = jobs[k]
    BY <1>3, <1>4, <1>5, <1>10
  <2>2. \A i \in k + 1 .. last : i \in k + 1 .. last + 1 /\ jobs'[i] = jobs[i]
    BY <1>2, <1>3, <2>1
  <2> QED BY <1>2, <1>6, <2>1, <2>2 DEF Left
<1> QED BY <1>12, <1>13, <1>18, <1>19, <1>20 DEF Whole, Marked, Leased, Ordered, Followed, Left

LEMMA MarkWhole ==
    ASSUME WeightAssumption, IInv, Whole, NEW t \in Requesters, NEW r, Becomes(t, r), Gives(t, r),
           request[t].pc = "submitted", Stamps(t)
    PROVE  Whole'
<1>1. /\ request'[t] = r /\ \A u \in Requesters : u # t => request'[u] = request[u]
  BY BecomesFacts DEF IInv
<1>2. PICK old : old = request[t]
  OBVIOUS
<1>3. PICK last : last = old.last
  OBVIOUS
<1>4. /\ jobs' = jobs /\ content' = content /\ r.pc = "wait"
      /\ \A w \in Sets : ~(w \in {old.load, old.save}) => sets'[w] = sets[w]
  BY <1>2 DEF Gives
<1>5. Marked(sets, request, jobs) /\ Leased(sets, request) /\ Ordered(jobs) /\ Followed(jobs) /\ Left(jobs, content)
  BY DEF Whole
<1>6. last \in 1 .. Len(jobs) /\ jobs[last].load = old.load /\ jobs[last].save = old.save
  BY <1>2, <1>3 DEF IInv, Submissions
<1>7. Len(jobs) \in Nat /\ \A w \in Sets : sets[w].written \in 0 .. Len(jobs) /\ sets[w].read \in 0 .. Len(jobs)
  BY JobsFacts
<1>8. \A i : Pending(request, i) => i = last \/ Pending(request', i)
  BY <1>1, <1>2, <1>3 DEF Pending
<1>9. \A w \in Sets : w = old.save => w # old.load
  <2> SUFFICES ASSUME NEW w \in Sets, w = old.save, w = old.load
               PROVE  FALSE
    OBVIOUS
  <2>1. Holds(request[t], w)
    BY <1>2 DEF Holds
  <2> QED BY <1>2, <2>1 DEF IInv, Taken
<1>10. \A w \in Sets : w \in {old.load, old.save} => sets[w].written < last /\ sets[w].read < last
  BY <1>2, <1>3, <1>5 DEF Leased
<1>11. ASSUME NEW w \in Sets
       PROVE  /\ sets[w].written # None => jobs[sets[w].written].save = w
              /\ \A i \in 1 .. Len(jobs) : jobs[i].save = w => i <= sets[w].written \/ Pending(request, i)
              /\ \A i \in 1 .. Len(jobs) : jobs[i].load = w =>
                    i = sets[w].read \/ i < sets[w].written \/ Pending(request, i)
              /\ sets[w].frame >= 0 /\ ~sets[w].loaded =>
                    \A i \in 1 .. Len(jobs) : jobs[i].load = w => i < sets[w].written \/ Pending(request, i)
  BY <1>5 DEF Marked
<1>12. Marked(sets', request', jobs')
  <2> SUFFICES ASSUME NEW w \in Sets
               PROVE  /\ sets'[w].written # None => jobs[sets'[w].written].save = w
                      /\ \A i \in 1 .. Len(jobs) : jobs[i].save = w => i <= sets'[w].written \/ Pending(request', i)
                      /\ \A i \in 1 .. Len(jobs) : jobs[i].load = w =>
                            i = sets'[w].read \/ i < sets'[w].written \/ Pending(request', i)
                      /\ sets'[w].frame >= 0 /\ ~sets'[w].loaded =>
                            \A i \in 1 .. Len(jobs) : jobs[i].load = w => i < sets'[w].written \/ Pending(request', i)
    BY <1>4 DEF Marked
  <2>1. CASE w = old.load
    <3>1. sets'[w].written = sets[w].written /\ sets'[w].read = last /\ sets'[w].loaded
      BY <1>2, <1>3, <2>1 DEF Stamps
    <3>2. sets[w].frame >= 0 /\ ~sets[w].loaded
      BY <1>2, <1>5, <2>1 DEF Leased
    <3>3. jobs[last].save # w
      BY <1>6, <1>9, <2>1
    <3> QED BY <1>8, <1>11, <3>1, <3>2, <3>3
  <2>2. CASE w = old.save /\ w # old.load
    <3>1. sets'[w].written = last /\ sets'[w].read = sets[w].read
      BY <1>2, <1>3, <2>2 DEF Stamps
    <3>2. sets[w].written < last /\ sets[w].read < last /\ sets[w].written \in Nat /\ sets[w].read \in Nat /\ last \in Nat
      BY <1>6, <1>7, <1>10, <2>2
    <3>3. ASSUME NEW i \in 1 .. Len(jobs), jobs[i].save = w
          PROVE  i <= last \/ Pending(request', i)
      BY <1>8, <1>11, <3>2, <3>3
    <3>4. ASSUME NEW i \in 1 .. Len(jobs), jobs[i].load = w
          PROVE  i < last \/ Pending(request', i)
      <4>1. i # last
        BY <1>6, <2>2, <3>4
      <4>2. i = sets[w].read \/ i < sets[w].written \/ Pending(request, i)
        BY <1>11, <3>4
      <4> QED BY <1>8, <3>2, <4>1, <4>2
    <3> QED BY <1>6, <2>2, <3>1, <3>3, <3>4
  <2>3. CASE w \notin {old.load, old.save}
    <3>1. sets'[w] = sets[w]
      BY <1>4, <2>3
    <3>2. jobs[last].load # w /\ jobs[last].save # w
      BY <1>6, <2>3
    <3>3. \A i : Touches(jobs[i], w) /\ Pending(request, i) => Pending(request', i)
      BY <1>8, <3>2 DEF Touches
    <3> QED BY <1>11, <3>1, <3>3 DEF Touches
  <2> QED BY <2>1, <2>2, <2>3
<1>13. Leased(sets', request')
  <2>1. ASSUME NEW u \in Requesters, u # t, NEW w \in Sets, Holds(request[u], w)
        PROVE  sets'[w] = sets[w]
    <3>1. ~Holds(request[t], w)
      BY <2>1 DEF IInv, Taken
    <3> QED BY <1>2, <1>4, <3>1 DEF Holds
  <2>2. \A u \in Requesters, w \in Sets :
            request[u].pc \in {"record", "submitted"} /\ w \in {request[u].load, request[u].save} => Holds(request[u], w)
    BY DEF Holds
  <2> QED BY <1>1, <1>4, <1>5, <2>1, <2>2 DEF Leased
<1> QED BY <1>4, <1>5, <1>12, <1>13 DEF Whole, Marked, Leased, Ordered, Followed, Left

LEMMA MoveWhole ==
    ASSUME WeightAssumption, IInv, Whole, NEW j, NEW from, NEW to, Moves(j, from, to),
           Followed(jobs'), Left(jobs', content')
    PROVE  Whole'
<1>1. /\ Len(jobs') = Len(jobs) /\ Len(jobs) \in Nat
      /\ \A i \in 1 .. Len(jobs) : /\ jobs'[i].n = jobs[i].n /\ jobs'[i].load = jobs[i].load
                                   /\ jobs'[i].save = jobs[i].save /\ jobs'[i].waits = jobs[i].waits
      /\ sets' = sets /\ request' = request
  BY JobsFacts DEF Moves
<1>2. Marked(sets, request, jobs) /\ Leased(sets, request) /\ Ordered(jobs)
  BY DEF Whole
<1>3. \A w \in Sets : sets[w].written # None => sets[w].written \in 1 .. Len(jobs)
  BY JobsFacts DEF None
<1>4. Marked(sets', request', jobs')
  BY <1>1, <1>2, <1>3 DEF Marked
<1>5. Leased(sets', request')
  BY <1>1, <1>2
<1>6. Ordered(jobs')
  <2>1. \A k \in 1 .. Len(jobs) : jobs[k].waits \subseteq 1 .. k - 1
    BY JobsFacts
  <2>2. ASSUME NEW k \in 1 .. Len(jobs), NEW w \in Sets
        PROVE  /\ jobs[k].load = w => jobs[k].save # w
               /\ jobs[k].save = w => \A i \in 1 .. k - 1 : Touches(jobs'[i], w) => Behind(jobs', jobs[k].waits, i, w)
               /\ jobs[k].load = w =>
                     \E m \in jobs[k].waits : /\ jobs'[m].save = w /\ jobs'[m].n = jobs[k].n - 1
                                              /\ \A i \in 1 .. k - 1 : jobs'[i].save = w => i <= m
    <3>1. \A i \in 1 .. k - 1 : i \in 1 .. Len(jobs)
      BY <1>1
    <3>2. \A m \in jobs[k].waits : m \in 1 .. Len(jobs)
      BY <2>1, <3>1
    <3>3. /\ jobs[k].load = w => jobs[k].save # w
          /\ jobs[k].save = w => \A i \in 1 .. k - 1 : Touches(jobs[i], w) => Behind(jobs, jobs[k].waits, i, w)
          /\ jobs[k].load = w =>
                \E m \in jobs[k].waits : /\ jobs[m].save = w /\ jobs[m].n = jobs[k].n - 1
                                         /\ \A i \in 1 .. k - 1 : jobs[i].save = w => i <= m
      BY <1>2 DEF Ordered
    <3>4. \A i : Behind(jobs, jobs[k].waits, i, w) => Behind(jobs', jobs[k].waits, i, w)
      BY <1>1, <3>2 DEF Behind
    <3>5. \A i \in 1 .. k - 1 : Touches(jobs'[i], w) <=> Touches(jobs[i], w)
      BY <1>1, <3>1 DEF Touches
    <3> QED BY <1>1, <3>1, <3>2, <3>3, <3>4, <3>5
  <2> QED BY <1>1, <2>2 DEF Ordered
<1> QED BY <1>4, <1>5, <1>6 DEF Whole, Marked, Leased, Ordered, Followed, Left

\* A job ahead of job j that it has to run behind.
Ahead(js, i, j, w) == (js[j].save = w /\ Touches(js[i], w)) \/ (js[j].load = w /\ js[i].save = w)

LEMMA AheadDone ==
    ASSUME Followed(jobs), NEW j \in 1 .. Len(jobs), jobs[j].state # "queued", NEW i \in 1 .. j - 1, NEW w \in Sets,
           Ahead(jobs, i, j, w)
    PROVE  jobs[i].state = "done"
  BY DEF Followed, Ahead

LEMMA StartFollowed ==
    ASSUME WeightAssumption, IInv, Whole, NEW j, Moves(j, "queued", "runs"),
           \A i \in jobs[j].waits : jobs[i].state = "done"
    PROVE  Followed(jobs')
<1>1. /\ Len(jobs') = Len(jobs) /\ Len(jobs) \in Nat /\ j \in 1 .. Len(jobs) /\ jobs[j].state = "queued"
      /\ \A i \in 1 .. Len(jobs) : /\ jobs'[i].load = jobs[i].load /\ jobs'[i].save = jobs[i].save
                                   /\ jobs'[i].state = IF i = j THEN "runs" ELSE jobs[i].state
  BY JobsFacts DEF Moves
<1>2. Ordered(jobs) /\ Followed(jobs)
  BY DEF Whole
<1>3. jobs[j].waits \subseteq 1 .. j - 1 /\ \A k \in 1 .. j - 1 : k \in 1 .. Len(jobs)
  BY <1>1, JobsFacts
<1>4. ASSUME NEW i \in 1 .. j - 1, NEW w \in Sets, Ahead(jobs, i, j, w)
      PROVE  jobs[i].state = "done"
  <2>1. ASSUME NEW k \in jobs[j].waits, i < k, Ahead(jobs, i, k, w)
        PROVE  jobs[i].state = "done"
    <3>1. k \in 1 .. Len(jobs) /\ jobs[k].state # "queued" /\ i \in 1 .. k - 1
      BY <1>3, <2>1
    <3> QED BY <1>2, <2>1, <3>1, AheadDone
  <2>2. CASE jobs[j].save = w /\ Touches(jobs[i], w)
    <3>1. Behind(jobs, jobs[j].waits, i, w)
      BY <1>1, <1>2, <2>2 DEF Ordered
    <3> QED BY <2>1, <2>2, <3>1 DEF Behind, Ahead
  <2>3. CASE jobs[j].load = w /\ jobs[i].save = w
    <3>1. PICK k \in jobs[j].waits : jobs[k].save = w /\ i <= k
      BY <1>1, <1>2, <2>3 DEF Ordered
    <3>2. i = k \/ i < k
      BY <1>3, <3>1
    <3> QED BY <2>1, <2>3, <3>1, <3>2 DEF Ahead, Touches
  <2> QED BY <1>4, <2>2, <2>3 DEF Ahead
<1>5. ASSUME NEW k \in 1 .. Len(jobs), jobs'[k].state # "queued", NEW i \in 1 .. k - 1, NEW w \in Sets,
             Ahead(jobs, i, k, w)
      PROVE  jobs'[i].state = "done"
  <2>1. i \in 1 .. Len(jobs)
    BY <1>1
  <2>2. jobs[i].state = "done"
    <3>1. CASE k = j
      BY <1>4, <1>5, <3>1
    <3>2. CASE k # j
      BY <1>1, <1>2, <1>5, <3>2, AheadDone
    <3> QED BY <3>1, <3>2
  <2> QED BY <1>1, <2>1, <2>2
<1>6. \A k \in 1 .. Len(jobs) : \A i \in 1 .. k - 1 : i \in 1 .. Len(jobs)
  BY <1>1
<1> QED BY <1>1, <1>5, <1>6 DEF Followed, Ahead, Touches

LEMMA FinishFollowed ==
    ASSUME WeightAssumption, IInv, Whole, NEW j, Moves(j, "runs", "done")
    PROVE  Followed(jobs')
<1>1. /\ Len(jobs') = Len(jobs) /\ Len(jobs) \in Nat /\ j \in 1 .. Len(jobs) /\ jobs[j].state = "runs"
      /\ \A i \in 1 .. Len(jobs) : /\ jobs'[i].load = jobs[i].load /\ jobs'[i].save = jobs[i].save
                                   /\ jobs'[i].state = IF i = j THEN "done" ELSE jobs[i].state
  BY JobsFacts DEF Moves
<1>2. ASSUME NEW k \in 1 .. Len(jobs), jobs'[k].state # "queued", NEW i \in 1 .. k - 1, NEW w \in Sets,
             Ahead(jobs, i, k, w)
      PROVE  jobs'[i].state = "done"
  <2>1. i \in 1 .. Len(jobs) /\ jobs[k].state # "queued"
    BY <1>1, <1>2
  <2>2. jobs[i].state = "done"
    BY <1>2, <2>1, AheadDone DEF Whole
  <2> QED BY <1>1, <2>1, <2>2
<1>3. \A k \in 1 .. Len(jobs) : \A i \in 1 .. k - 1 : i \in 1 .. Len(jobs)
  BY <1>1
<1> QED BY <1>1, <1>2, <1>3 DEF Followed, Ahead, Touches

LEMMA MoveLeft ==
    ASSUME WeightAssumption, IInv, Whole, NEW j, NEW from, NEW to, Moves(j, from, to),
           \/ from = "queued" /\ to = "runs"
           \/ from = "runs" /\ to = "done" /\ \A w \in Sets : w = jobs[j].save => content'[w] = jobs[j].n
    PROVE  Left(jobs', content')
<1>1. /\ Len(jobs') = Len(jobs) /\ Len(jobs) \in Nat /\ j \in 1 .. Len(jobs)
      /\ jobs[j].state # "done" /\ to # "queued"
      /\ \A i \in 1 .. Len(jobs) : /\ jobs'[i].n = jobs[i].n /\ jobs'[i].save = jobs[i].save
                                   /\ jobs'[i].state = IF i = j THEN to ELSE jobs[i].state
      /\ \A w \in Sets : w # jobs[j].save => content'[w] = content[w]
  BY JobsFacts DEF Moves
<1>2. Followed(jobs) /\ Left(jobs, content)
  BY DEF Whole
<1> SUFFICES ASSUME NEW k \in 1 .. Len(jobs), NEW w \in Sets, jobs[k].save = w, jobs'[k].state = "done",
                    \A i \in k + 1 .. Len(jobs) : jobs'[i].save = w => jobs'[i].state = "queued"
             PROVE  content'[w] = jobs[k].n
  BY <1>1 DEF Left
<1>3. CASE k = j
  BY <1>1, <1>3
<1>4. CASE k # j
  <2>1. jobs[k].state = "done"
    BY <1>1, <1>4
  <2>2. \A i \in k + 1 .. Len(jobs) : i \in 1 .. Len(jobs)
    BY <1>1
  <2>3. \A i \in k + 1 .. Len(jobs) : jobs[i].save = w => i # j /\ jobs[i].state = "queued"
    BY <1>1, <2>2
  <2>4. content[w] = jobs[k].n
    BY <1>2, <2>1, <2>3 DEF Left
  <2>5. jobs[j].save # w
    <3> SUFFICES ASSUME jobs[j].save = w PROVE FALSE
      OBVIOUS
    <3>1. j \notin k + 1 .. Len(jobs)
      BY <2>3
    <3>2. j \in 1 .. k - 1
      BY <1>1, <1>4, <3>1
    <3>3. Ahead(jobs, j, k, w)
      BY DEF Ahead, Touches
    <3> QED BY <1>1, <1>2, <2>1, <3>2, <3>3, AheadDone
  <2> QED BY <1>1, <2>4, <2>5
<1> QED BY <1>3, <1>4

LEMMA WholeStep == ASSUME WeightAssumption, IInv, Whole, StepTaken, "partial" \notin faults PROVE Whole'
<1>1. CASE UNCHANGED weightVars
  <2>1. UNCHANGED <<sets, request, jobs, content>>
    BY <1>1 DEF weightVars
  <2>2. /\ Marked(sets', request', jobs') /\ Leased(sets', request') /\ Ordered(jobs') /\ Followed(jobs')
        /\ Left(jobs', content')
    BY <2>1 DEF Whole
  <2> QED BY <2>2 DEF Whole, Marked, Leased, Ordered, Followed, Left
<1>2. ASSUME NEW t \in Requesters, NEW r, Becomes(t, r), Leases(t, r)
      PROVE  Whole'
  BY <1>2, LeaseWhole
<1>3. ASSUME NEW t \in Requesters, NEW r, Becomes(t, r), Submits(t, r), r.pc = "submitted"
      PROVE  Whole'
  BY <1>3, SubmitWhole
<1>4. ASSUME NEW t \in Requesters, NEW r, Becomes(t, r), Gives(t, r), request[t].pc = "submitted", Stamps(t)
      PROVE  Whole'
  BY <1>4, MarkWhole
<1>5. ASSUME NEW t \in Requesters, NEW r, Becomes(t, r),
             \/ /\ Gives(t, r) /\ request[t].pc = "failed"
                /\ \A w \in Sets : /\ sets'[w].written = sets[w].written /\ sets'[w].read = sets[w].read
                                   /\ sets'[w].frame = sets[w].frame /\ (sets'[w].loaded <=> sets[w].loaded)
             \/ GoesOn(t, r)
      PROVE  Whole'
  BY <1>5, DropWhole
<1>6. ASSUME NEW j, Moves(j, "queued", "runs"), \A i \in jobs[j].waits : jobs[i].state = "done"
      PROVE  Whole'
  BY <1>6, StartFollowed, MoveLeft, MoveWhole
<1>7. ASSUME NEW j, Moves(j, "runs", "done"), \A w \in Sets : w = jobs[j].save => content'[w] = jobs[j].n
      PROVE  Whole'
  BY <1>7, FinishFollowed, MoveLeft, MoveWhole
<1> QED BY <1>1, <1>2, <1>3, <1>4, <1>5, <1>6, <1>7 DEF StepTaken

LEMMA LoadsFollow == ASSUME WeightAssumption, IInv, Whole PROVE LoadsPredecessor
<1>1. Len(jobs) \in Nat /\ DOMAIN jobs = 1 .. Len(jobs) /\ None \notin Sets
  BY JobsFacts DEF IInv, TypeOK
<1>2. Ordered(jobs) /\ Followed(jobs) /\ Left(jobs, content)
  BY DEF Whole
<1> SUFFICES ASSUME NEW j \in 1 .. Len(jobs), jobs[j].state = "runs", NEW w, w = jobs[j].load, w # None
             PROVE  content[w] = jobs[j].n - 1
  BY <1>1 DEF LoadsPredecessor, Running
<1>3. w \in Sets /\ jobs[j].waits \subseteq 1 .. j - 1
  BY JobsFacts
<1>4. PICK k \in jobs[j].waits : /\ jobs[k].save = w /\ jobs[k].n = jobs[j].n - 1
                                 /\ \A i \in 1 .. j - 1 : jobs[i].save = w => i <= k
  BY <1>2, <1>3 DEF Ordered
<1>5. k \in 1 .. j - 1 /\ k \in 1 .. Len(jobs)
  BY <1>1, <1>3
<1>6. jobs[k].state = "done"
  BY <1>2, <1>3, <1>4, <1>5, AheadDone DEF Ahead
<1>7. ASSUME NEW i \in k + 1 .. Len(jobs), jobs[i].save = w
      PROVE  jobs[i].state = "queued"
  <2>1. i \in 1 .. Len(jobs) /\ i > k
    BY <1>5
  <2>2. i \notin 1 .. j - 1
    BY <1>4, <1>5, <1>7, <2>1
  <2>3. i # j
    BY <1>2, <1>3, <1>7 DEF Ordered
  <2>4. j \in 1 .. i - 1
    BY <2>1, <2>2, <2>3
  <2>5. Ahead(jobs, j, i, w)
    BY <1>7 DEF Ahead, Touches
  <2> QED BY <1>2, <1>3, <2>1, <2>4, <2>5, AheadDone
<1> QED BY <1>2, <1>3, <1>4, <1>5, <1>6, <1>7 DEF Left

LEMMA SetsApart == ASSUME WeightAssumption, IInv, Whole PROVE SetsUnshared
<1>1. Len(jobs) \in Nat /\ DOMAIN jobs = 1 .. Len(jobs)
  BY JobsFacts DEF IInv, TypeOK
<1> SUFFICES ASSUME NEW i \in 1 .. Len(jobs), NEW j \in 1 .. Len(jobs), i # j,
                    jobs[i].state = "runs", jobs[j].state = "runs",
                    jobs[i].save \in {jobs[j].save, jobs[j].load}, jobs[i].save # None
             PROVE  FALSE
  BY <1>1 DEF SetsUnshared, Running
<1>2. PICK w \in Sets : w = jobs[i].save
  BY JobsFacts
<1>3. Followed(jobs)
  BY DEF Whole
<1>4. CASE i < j
  <2>1. i \in 1 .. j - 1 /\ Ahead(jobs, i, j, w)
    BY <1>2, <1>4 DEF Ahead, Touches
  <2> QED BY <1>3, <2>1, AheadDone
<1>5. CASE j < i
  <2>1. j \in 1 .. i - 1 /\ Ahead(jobs, j, i, w)
    BY <1>2, <1>5 DEF Ahead, Touches
  <2> QED BY <1>3, <2>1, AheadDone
<1> QED BY <1>4, <1>5

\* While every request that fails was not submitted at all, a frame that loads
\* weights reads those of the frame before it, whole, and no set is written
\* while another dispatch uses it, for any number of requests and of sets
\* (Slot::wait_for, WeightLease).
THEOREM WeightsKeptHolds ==
    ASSUME WeightAssumption
    PROVE  WeightSpec => []WeightsKept
<1>1. WeightInit => IInv /\ WInv
  BY InitIInv, InitWhole DEF WInv
<1>2. IInv /\ WInv /\ [WeightNext]_weightVars => (IInv /\ WInv)'
  <2> SUFFICES ASSUME IInv, WInv, [WeightNext]_weightVars PROVE IInv' /\ WInv'
    OBVIOUS
  <2>1. StepTaken
    BY StepFacts
  <2>2. faults' = faults
    BY <2>1 DEF StepTaken, weightVars, Leases, Submits, Gives, GoesOn, Moves
  <2> QED BY <2>1, <2>2, IInvStep, WholeStep DEF WInv
<1>3. IInv /\ WInv => WeightsKept
  BY LoadsFollow, SetsApart DEF WInv, WeightsKept
<1> QED BY <1>1, <1>2, <1>3, PTL DEF WeightSpec

-----------------------------------------------------------------------------
(* The chunks of the CPU filters.                                          *)

CpuSteps == {"idle", "look", "asleep", "fill", "publish", "erase", "notify", "return"}

CpuTyped ==
    /\ d \in Nodes
    /\ cache \in Seq(Nat) /\ ToSet(cache) \subseteq DOMAIN store
    /\ store \in Seq(ToSet(store))
    /\ \A i \in DOMAIN store : DOMAIN store[i] = {"start", "frames", "kind"}
    /\ pc \in [Threads -> CpuSteps]
    /\ want \in [Threads -> Int]
    /\ result \in [Threads -> Nat]
    /\ \A t \in Threads : result[t] # NoStore => result[t] \in DOMAIN store

Computes(t) == pc[t] \in {"fill", "publish", "erase"}
Filling(t) == pc[t] \in {"fill", "publish"}

\* The chunks being computed are those of the threads that compute, one each.
ComputersKept ==
    /\ computing = {want[t] : t \in {u \in Threads : Computes(u)}}
    /\ \A t, u \in Threads : Computes(t) /\ Computes(u) /\ want[t] = want[u] => t = u

\* A chunk that is being filled is not cached, and its store is one thread's.
FillersKept ==
    \A t \in Threads : Filling(t) =>
        /\ result[t] \in DOMAIN store
        /\ store[result[t]].start = want[t]
        /\ \A i \in DOMAIN cache : cache[i] # result[t] /\ store[cache[i]].start # want[t]
        /\ \A u \in Threads : result[u] = result[t] => u = t

CpuInv == CpuTyped /\ ComputersKept /\ FillersKept /\ StoresKept

-----------------------------------------------------------------------------
\* A sequence is one over its own elements, and stays one.
LEMMA OwnElements ==
    ASSUME NEW S, NEW s \in Seq(S)
    PROVE  s \in Seq(ToSet(s)) /\ DOMAIN s = 1 .. Len(s) /\ Len(s) \in Nat
<1>1. s \in [1 .. Len(s) -> S] /\ Len(s) \in Nat /\ DOMAIN s = 1 .. Len(s)
  BY LenProperties
<1>2. s \in [1 .. Len(s) -> ToSet(s)]
  BY <1>1 DEF ToSet
<1>3. s \in UNION {[1 .. n -> ToSet(s)] : n \in Nat}
  BY <1>1, <1>2
<1> QED BY <1>1, <1>3, SeqDef

LEMMA SameDomain ==
    ASSUME NEW S, NEW s \in Seq(S), NEW r, r = [i \in DOMAIN s |-> r[i]]
    PROVE  r \in Seq(ToSet(r))
<1>1. Len(s) \in Nat /\ DOMAIN s = 1 .. Len(s)
  BY LenProperties
<1>2. r \in [1 .. Len(s) -> ToSet(r)]
  BY <1>1 DEF ToSet
<1>3. r \in UNION {[1 .. n -> ToSet(r)] : n \in Nat}
  BY <1>1, <1>2
<1> QED BY <1>3, SeqDef

\* What the sequence operators return.
LEMMA SubSeqOfNats ==
    ASSUME NEW s \in Seq(Nat), NEW m \in Int, NEW n \in Int, 1 <= m, n <= Len(s)
    PROVE  /\ SubSeq(s, m, n) \in Seq(Nat)
           /\ Len(SubSeq(s, m, n)) = IF m <= n THEN n - m + 1 ELSE 0
           /\ \A k \in 1 .. n - m + 1 : SubSeq(s, m, n)[k] = s[m + k - 1]
<1>1. Len(s) \in Nat /\ \A k \in m .. n : s[k] \in Nat
  BY LenProperties, ElementOfSeq
<1> QED BY <1>1, SubSeqProperties

LEMMA ConcatOfNats ==
    ASSUME NEW s \in Seq(Nat), NEW r \in Seq(Nat)
    PROVE  /\ s \o r \in Seq(Nat) /\ Len(s \o r) = Len(s) + Len(r)
           /\ \A k \in 1 .. Len(s) + Len(r) : (s \o r)[k] = IF k <= Len(s) THEN s[k] ELSE r[k - Len(s)]
  BY ConcatProperties

LEMMA NatsHave ==
    ASSUME NEW s \in Seq(Nat)
    PROVE  Len(s) \in Nat /\ DOMAIN s = 1 .. Len(s) /\ \A k \in DOMAIN s : s[k] \in Nat
  BY LenProperties, ElementOfSeq

LEMMA Appended ==
    ASSUME NEW S, NEW s \in Seq(S), NEW e
    PROVE  /\ Append(s, e) \in Seq(ToSet(Append(s, e)))
           /\ DOMAIN Append(s, e) = 1 .. Len(s) + 1
           /\ \A i \in DOMAIN s : Append(s, e)[i] = s[i]
           /\ Append(s, e)[Len(s) + 1] = e
<1>1. s \in Seq(S \cup {e}) /\ e \in S \cup {e}
  BY SeqMonotonic
<1>2. Append(s, e) \in Seq(S \cup {e}) /\ Len(Append(s, e)) = Len(s) + 1 /\ Append(s, e)[Len(s) + 1] = e
  BY <1>1
<1>3. Len(s) \in Nat /\ DOMAIN s = 1 .. Len(s)
  BY LenProperties
<1>4. \A i \in 1 .. Len(s) : Append(s, e)[i] = s[i]
  BY <1>1, <1>3
<1> QED BY <1>2, <1>3, <1>4, OwnElements

\* An element moved to the front: each of the sequence's elements once more.
FromPlace(i, k) == IF k = 1 THEN i ELSE IF k <= i THEN k - 1 ELSE k
ToFront(s, i) == <<s[i]>> \o RemoveAt(s, i)

LEMMA Rest ==
    ASSUME NEW s \in Seq(Nat), NEW i \in 1 .. Len(s)
    PROVE  /\ RemoveAt(s, i) \in Seq(Nat) /\ Len(RemoveAt(s, i)) = Len(s) - 1
           /\ \A k \in 1 .. Len(s) - 1 : RemoveAt(s, i)[k] = IF k <= i - 1 THEN s[k] ELSE s[k + 1]
<1> DEFINE a == SubSeq(s, 1, i - 1)
           b == SubSeq(s, i + 1, Len(s))
<1>1. Len(s) \in Nat /\ i \in 1 .. Len(s)
  BY NatsHave
<1>2. a \in Seq(Nat) /\ Len(a) = i - 1 /\ \A k \in 1 .. i - 1 : a[k] = s[k]
  <2>1. 1 \in Int /\ i - 1 \in Int /\ i - 1 <= Len(s)
    BY <1>1
  <2>2. /\ a \in Seq(Nat) /\ Len(a) = IF 1 <= i - 1 THEN i - 1 - 1 + 1 ELSE 0
        /\ \A k \in 1 .. i - 1 - 1 + 1 : a[k] = s[1 + k - 1]
    BY <2>1, SubSeqOfNats
  <2> HIDE DEF a
  <2> QED BY <2>2, <1>1
<1>3. b \in Seq(Nat) /\ Len(b) = Len(s) - i /\ \A k \in 1 .. Len(s) - i : b[k] = s[i + k]
  <2>1. i + 1 \in Int /\ Len(s) \in Int /\ 1 <= i + 1
    BY <1>1
  <2>2. /\ b \in Seq(Nat) /\ Len(b) = IF i + 1 <= Len(s) THEN Len(s) - (i + 1) + 1 ELSE 0
        /\ \A k \in 1 .. Len(s) - (i + 1) + 1 : b[k] = s[i + 1 + k - 1]
    BY <2>1, SubSeqOfNats
  <2>3. Len(s) - (i + 1) + 1 = Len(s) - i /\ (~(i + 1 <= Len(s)) => Len(s) - i = 0)
    BY <1>1
  <2> HIDE DEF b
  <2>4. Len(b) = Len(s) - i
    BY <2>2, <2>3, <1>1
  <2>5. ASSUME NEW k \in 1 .. Len(s) - i
        PROVE  b[k] = s[i + k]
    <3>1. i + 1 + k - 1 = i + k
      BY <1>1
    <3> QED BY <3>1, <2>2, <2>3
  <2> QED BY <2>2, <2>4, <2>5
<1>4. RemoveAt(s, i) = a \o b
  BY DEF RemoveAt
<1> HIDE DEF a, b
<1>5. /\ a \o b \in Seq(Nat) /\ Len(a \o b) = Len(a) + Len(b)
      /\ \A k \in 1 .. Len(a) + Len(b) : (a \o b)[k] = IF k <= Len(a) THEN a[k] ELSE b[k - Len(a)]
  BY <1>2, <1>3, ConcatOfNats
<1>6. \A k \in 1 .. Len(s) - 1 : (a \o b)[k] = IF k <= i - 1 THEN s[k] ELSE s[k + 1]
  <2> SUFFICES ASSUME NEW k \in 1 .. Len(s) - 1
               PROVE  (a \o b)[k] = IF k <= i - 1 THEN s[k] ELSE s[k + 1]
    OBVIOUS
  <2>1. k \in 1 .. Len(a) + Len(b)
    BY <1>1, <1>2, <1>3
  <2>2. CASE k <= i - 1
    <3>1. k \in 1 .. i - 1 /\ k <= Len(a)
      BY <2>2, <1>1, <1>2
    <3> QED BY <3>1, <2>1, <1>2, <1>5
  <2>3. CASE ~(k <= i - 1)
    <3>1. k - Len(a) \in 1 .. Len(s) - i /\ ~(k <= Len(a)) /\ i + (k - Len(a)) = k + 1
      BY <2>3, <1>1, <1>2
    <3>2. (a \o b)[k] = b[k - Len(a)] /\ b[k - Len(a)] = s[i + (k - Len(a))]
      BY <3>1, <2>1, <1>3, <1>5
    <3> QED BY <3>1, <3>2, <2>3
  <2> QED BY <2>2, <2>3
<1>7. Len(a) + Len(b) = Len(s) - 1
  BY <1>1, <1>2, <1>3
<1> QED BY <1>4, <1>5, <1>6, <1>7

LEMMA MovedToFront ==
    ASSUME NEW s \in Seq(Nat), NEW i \in 1 .. Len(s)
    PROVE  /\ ToFront(s, i) \in Seq(Nat) /\ DOMAIN ToFront(s, i) = DOMAIN s
           /\ \A k \in DOMAIN s : FromPlace(i, k) \in DOMAIN s /\ ToFront(s, i)[k] = s[FromPlace(i, k)]
           /\ \A j, k \in DOMAIN s : FromPlace(i, j) = FromPlace(i, k) => j = k
           /\ ToSet(ToFront(s, i)) = ToSet(s)
<1> DEFINE rest == RemoveAt(s, i)
           head == <<s[i]>>
           moved == ToFront(s, i)
           n == Len(s)
<1>1. n \in Nat /\ DOMAIN s = 1 .. n /\ i \in 1 .. n /\ s[i] \in Nat
  BY NatsHave
<1>2. /\ rest \in Seq(Nat) /\ Len(rest) = n - 1
      /\ \A k \in 1 .. n - 1 : rest[k] = IF k <= i - 1 THEN s[k] ELSE s[k + 1]
  BY Rest
<1>3. head \in Seq(Nat) /\ Len(head) = 1 /\ head[1] = s[i]
  BY <1>1
<1>4. moved = head \o rest
  BY DEF ToFront
<1> HIDE DEF rest, head, moved, n
<1>5. /\ moved \in Seq(Nat) /\ Len(moved) = n
      /\ \A k \in 1 .. n : moved[k] = IF k <= 1 THEN head[k] ELSE rest[k - 1]
  <2>1. /\ moved \in Seq(Nat) /\ Len(moved) = Len(head) + Len(rest)
        /\ \A k \in 1 .. Len(head) + Len(rest) :
              moved[k] = IF k <= Len(head) THEN head[k] ELSE rest[k - Len(head)]
    BY <1>2, <1>3, <1>4, ConcatOfNats
  <2>2. Len(head) + Len(rest) = n
    BY <1>1, <1>2, <1>3
  <2> QED BY <2>1, <2>2, <1>3
<1>6. Len(moved) = n /\ DOMAIN moved = 1 .. n
  BY <1>1, <1>5, NatsHave
<1>7. ASSUME NEW k \in 1 .. n
      PROVE  FromPlace(i, k) \in 1 .. n /\ moved[k] = s[FromPlace(i, k)]
  <2>1. CASE k = 1
    BY <2>1, <1>1, <1>3, <1>5 DEF FromPlace
  <2>2. CASE k # 1
    <3>1. k - 1 \in 1 .. n - 1 /\ moved[k] = rest[k - 1] /\ k - 1 + 1 = k
      BY <2>2, <1>1, <1>5
    <3>2. rest[k - 1] = IF k - 1 <= i - 1 THEN s[k - 1] ELSE s[k]
      BY <3>1, <1>2
    <3>3. k - 1 <= i - 1 <=> k <= i
      BY <1>1
    <3> QED BY <2>2, <3>1, <3>2, <3>3, <1>1 DEF FromPlace
  <2> QED BY <2>1, <2>2
<1>8. \A j, k \in 1 .. n : FromPlace(i, j) = FromPlace(i, k) => j = k
  BY <1>1 DEF FromPlace
<1>9. ASSUME NEW k \in 1 .. n
       PROVE  \E j \in 1 .. n : FromPlace(i, j) = k
  <2>1. CASE k = i
    <3>1. 1 \in 1 .. n /\ FromPlace(i, 1) = k
      BY <2>1, <1>1 DEF FromPlace
    <3> QED BY <3>1
  <2>2. CASE k < i
    <3>1. k + 1 \in 1 .. n /\ FromPlace(i, k + 1) = k
      BY <2>2, <1>1 DEF FromPlace
    <3> QED BY <3>1
  <2>3. CASE k > i
    <3>1. FromPlace(i, k) = k
      BY <2>3, <1>1 DEF FromPlace
    <3> QED BY <3>1
  <2> QED BY <2>1, <2>2, <2>3, <1>1
<1>10. ToSet(moved) = ToSet(s)
  <2>1. \A k \in 1 .. n : moved[k] \in ToSet(s)
    BY <1>1, <1>7 DEF ToSet
  <2>2. \A k \in 1 .. n : s[k] \in ToSet(moved)
    BY <1>6, <1>7, <1>9 DEF ToSet
  <2>3. ToSet(moved) \subseteq ToSet(s)
    BY <2>1, <1>6 DEF ToSet
  <2>4. ToSet(s) \subseteq ToSet(moved)
    BY <2>2, <1>1 DEF ToSet
  <2> QED BY <2>3, <2>4
<1> QED BY <1>1, <1>5, <1>6, <1>7, <1>8, <1>10 DEF moved

\* An element put in front, and the sequence cut to a length.
Pushed(e, s) == <<e>> \o s
Cut(s, n) == SubSeq(s, 1, Lesser(Len(s), n))

LEMMA CutBehind ==
    ASSUME NEW s \in Seq(Nat), NEW e \in Nat, NEW n \in Nat \ {0}
    PROVE  /\ Cut(Pushed(e, s), n) \in Seq(Nat)
           /\ 1 \in DOMAIN Cut(Pushed(e, s), n) /\ Cut(Pushed(e, s), n)[1] = e
           /\ \A k \in DOMAIN Cut(Pushed(e, s), n) :
                 k \in Nat /\ (k # 1 => k - 1 \in DOMAIN s /\ Cut(Pushed(e, s), n)[k] = s[k - 1])
           /\ ToSet(Pushed(e, s)) = ToSet(s) \cup {e}
<1> DEFINE head == <<e>>
           all == Pushed(e, s)
           m == Lesser(Len(all), n)
           cut == Cut(all, n)
<1>1. Len(s) \in Nat /\ DOMAIN s = 1 .. Len(s) /\ \A k \in 1 .. Len(s) : s[k] \in Nat
  BY NatsHave
<1>2. head \in Seq(Nat) /\ Len(head) = 1 /\ head[1] = e
  OBVIOUS
<1>3. all = head \o s /\ cut = SubSeq(all, 1, m)
  BY DEF Cut, Pushed
<1> HIDE DEF head, all, cut
<1>4. /\ all \in Seq(Nat) /\ Len(all) = 1 + Len(s)
      /\ \A k \in 1 .. 1 + Len(s) : all[k] = IF k <= 1 THEN head[k] ELSE s[k - 1]
  <2>1. /\ all \in Seq(Nat) /\ Len(all) = Len(head) + Len(s)
        /\ \A k \in 1 .. Len(head) + Len(s) :
              all[k] = IF k <= Len(head) THEN head[k] ELSE s[k - Len(head)]
    BY <1>2, <1>3, ConcatOfNats
  <2> QED BY <2>1, <1>2
<1>5. m \in 1 .. 1 + Len(s) /\ m <= Len(all)
  BY <1>1, <1>4 DEF Lesser
<1> HIDE DEF m
<1>6. /\ cut \in Seq(Nat) /\ Len(cut) = m
      /\ \A k \in 1 .. m : cut[k] = all[k]
  <2>1. m \in Int /\ 1 \in Int /\ 1 <= 1
    BY <1>1, <1>5
  <2>2. /\ cut \in Seq(Nat) /\ Len(cut) = IF 1 <= m THEN m - 1 + 1 ELSE 0
        /\ \A k \in 1 .. m - 1 + 1 : cut[k] = all[1 + k - 1]
    BY <1>3, <1>4, <1>5, <2>1, SubSeqOfNats
  <2> QED BY <2>1, <2>2, <1>1, <1>5
<1>7. DOMAIN cut = 1 .. m
  BY <1>6, NatsHave
<1>8. ASSUME NEW k \in 1 .. m
      PROVE  k \in Nat /\ (k # 1 => k - 1 \in DOMAIN s /\ cut[k] = s[k - 1])
  <2>1. k \in 1 .. 1 + Len(s) /\ cut[k] = all[k]
    BY <1>1, <1>5, <1>6
  <2>2. k # 1 => ~(k <= 1) /\ k - 1 \in 1 .. Len(s)
    BY <2>1, <1>1
  <2> QED BY <2>1, <2>2, <1>1, <1>4
<1>9. 1 \in 1 .. m /\ 1 <= 1 /\ 1 \in 1 .. 1 + Len(s)
  BY <1>1, <1>5
<1>10. cut[1] = e
  BY <1>2, <1>4, <1>6, <1>9
<1>11. ToSet(all) = ToSet(s) \cup {e}
  <2>1. DOMAIN all = 1 .. 1 + Len(s)
    BY <1>4, NatsHave
  <2>2. ASSUME NEW k \in 1 .. 1 + Len(s)
        PROVE  all[k] \in ToSet(s) \cup {e}
    <3>1. CASE k = 1
      BY <3>1, <1>2, <1>4, <1>9
    <3>2. CASE k # 1
      <4>1. k - 1 \in 1 .. Len(s) /\ ~(k <= 1)
        BY <3>2, <1>1
      <4> QED BY <4>1, <1>1, <1>4 DEF ToSet
    <3> QED BY <3>1, <3>2
  <2>3. ASSUME NEW k \in 1 .. Len(s)
        PROVE  \E j \in 1 .. 1 + Len(s) : all[j] = s[k]
    <3>1. k + 1 \in 1 .. 1 + Len(s) /\ ~(k + 1 <= 1) /\ k + 1 - 1 = k
      BY <1>1
    <3>2. all[k + 1] = s[k + 1 - 1]
      BY <3>1, <1>4
    <3> QED BY <3>1, <3>2
  <2>4. all[1] = e
    BY <1>2, <1>4, <1>9
  <2>5. ToSet(all) \subseteq ToSet(s) \cup {e}
    BY <2>1, <2>2 DEF ToSet
  <2>6. ToSet(s) \subseteq ToSet(all)
    BY <2>1, <2>3, <1>1 DEF ToSet
  <2>7. e \in ToSet(all)
    BY <2>1, <2>4, <1>9 DEF ToSet
  <2> QED BY <2>5, <2>6, <2>7
<1> QED BY <1>6, <1>7, <1>8, <1>9, <1>10, <1>11 DEF all, cut

-----------------------------------------------------------------------------
(* Each action keeps the invariant.                                        *)

LEMMA StoreNames ==
    ASSUME CpuTyped
    PROVE  /\ Len(store) \in Nat /\ DOMAIN store = 1 .. Len(store) /\ NoStore \notin DOMAIN store
           /\ DOMAIN cache = 1 .. Len(cache) /\ Len(cache) \in Nat
           /\ \A i \in DOMAIN cache : cache[i] \in DOMAIN store /\ cache[i] \in Nat
<1>1. Len(store) \in Nat /\ DOMAIN store = 1 .. Len(store)
  BY LenProperties DEF CpuTyped
<1>2. DOMAIN cache = 1 .. Len(cache) /\ Len(cache) \in Nat
  BY LenProperties DEF CpuTyped
<1>3. \A i \in DOMAIN cache : cache[i] \in DOMAIN store
  BY DEF CpuTyped, ToSet
<1> QED BY <1>1, <1>2, <1>3 DEF NoStore

\* The threads that compute stay the same.
LEMMA ComputersSame ==
    ASSUME ComputersKept, computing' = computing,
           \A t \in Threads : Computes(t)' <=> Computes(t),
           \A t \in Threads : Computes(t) => want'[t] = want[t]
    PROVE  ComputersKept'
  BY DEF ComputersKept

\* Threads let their stores go: those that fill stay the same, or give up.
LEMMA StoresLetGo ==
    ASSUME CpuTyped, FillersKept, StoresKept, UNCHANGED <<cache, store>>,
           \A t \in Threads : Filling(t)' => Filling(t) /\ want'[t] = want[t] /\ result'[t] = result[t],
           \A t \in Threads : result'[t] \in {result[t], NoStore},
           \A t \in Threads : Filling(t) /\ ~Filling(t)' => result'[t] = NoStore
    PROVE  FillersKept' /\ StoresKept'
<1>1. NoStore \notin DOMAIN store
  BY StoreNames
<1>2. FillersKept'
  BY <1>1 DEF FillersKept
<1>3. ComputedOnce'
  BY DEF StoresKept, ComputedOnce, Filling
<1>4. ASSUME NEW i \in DOMAIN store, NEW t \in Threads, result'[t] = i
      PROVE  (\E u \in Threads : result'[u] = i /\ Filling(u)') <=> (\E u \in Threads : result[u] = i /\ Filling(u))
  <2>1. result[t] = i
    BY <1>1, <1>4
  <2>2. ASSUME NEW u \in Threads, result[u] = i, Filling(u)
        PROVE  result'[u] = i /\ Filling(u)'
    <3>1. t = u
      BY <2>1, <2>2 DEF FillersKept
    <3> QED BY <3>1, <1>1, <1>4, <2>2
  <2>3. ASSUME NEW u \in Threads, result'[u] = i, Filling(u)'
        PROVE  result[u] = i /\ Filling(u)
    BY <2>3
  <2> QED BY <2>2, <2>3
<1>5. ChargedAsHeld'
  <2>1. SUFFICES ASSUME NEW i \in DOMAIN store,
                        i \in ToSet(cache) \union {result'[t] : t \in Threads}
                 PROVE  store[i].kind = IF i \in ToSet(cache) THEN "Cached"
                            ELSE IF \E t \in Threads : result'[t] = i /\ Filling(t)' THEN "Inflight"
                            ELSE "Pinned"
    BY DEF ChargedAsHeld, Filling
  <2>2. CASE i \in ToSet(cache)
    BY <2>2 DEF StoresKept, ChargedAsHeld
  <2>3. CASE i \notin ToSet(cache)
    <3>1. PICK t \in Threads : result'[t] = i
      BY <2>1, <2>3
    <3>2. result[t] = i
      BY <1>1, <3>1
    <3>3. store[i].kind = IF \E u \in Threads : result[u] = i /\ Filling(u) THEN "Inflight" ELSE "Pinned"
      BY <2>3, <3>2 DEF StoresKept, ChargedAsHeld, Filling
    <3> QED BY <2>3, <3>1, <3>3, <1>4
  <2> QED BY <2>2, <2>3
<1> QED BY <1>2, <1>3, <1>5 DEF StoresKept

LEMMA AskKeeps ==
    ASSUME CpuInv, NEW t \in Threads, NEW start \in Starts, Ask(t, start)
    PROVE  CpuInv'
<1>1. /\ pc[t] = "idle" /\ UNCHANGED <<d, cache, computing, store, result>>
      /\ \A u \in Threads : pc'[u] = IF u = t THEN "look" ELSE pc[u]
      /\ \A u \in Threads \ {t} : want'[u] = want[u]
  BY DEF Ask, Goto, CpuInv, CpuTyped
<1>2. start \in Int
  BY DEF Starts, CpuInv, CpuTyped
<1>3. CpuTyped'
  BY <1>1, <1>2 DEF Ask, Goto, CpuInv, CpuTyped, CpuSteps
<1>4. \A u \in Threads : (Computes(u)' <=> Computes(u)) /\ (Filling(u)' <=> Filling(u))
  BY <1>1 DEF Computes, Filling
<1>5. \A u \in Threads : Computes(u) \/ Filling(u) => want'[u] = want[u]
  BY <1>1 DEF Computes, Filling
<1>6. ComputersKept'
  BY <1>1, <1>4, <1>5, ComputersSame DEF CpuInv
<1>7. FillersKept' /\ StoresKept'
  BY <1>1, <1>4, <1>5, StoresLetGo DEF CpuInv
<1> QED BY <1>3, <1>6, <1>7 DEF CpuInv

\* A thread that moves between the steps outside the computation.
LEMMA OutsideKeeps ==
    ASSUME CpuInv, NEW t \in Threads, WaitForOther(t) \/ NotifyAll(t) \/ SpuriousWake(t) \/ Return(t)
    PROVE  CpuInv'
<1>1. /\ UNCHANGED <<d, cache, computing, store, want>>
      /\ pc' \in [Threads -> CpuSteps]
      /\ \A u \in Threads : ~Computes(u) => ~Computes(u)'
      /\ \A u \in Threads : Computes(u) => pc'[u] = pc[u]
  BY DEF WaitForOther, NotifyAll, SpuriousWake, Return, Goto, Woken, CpuInv, CpuTyped, CpuSteps, Computes
<1>2. result' \in [Threads -> Nat] /\ \A u \in Threads : result'[u] \in {result[u], NoStore}
  <2>1. result \in [Threads -> Nat] /\ 0 \in Nat
    BY DEF CpuInv, CpuTyped
  <2>2. CASE UNCHANGED result
    BY <2>1, <2>2
  <2>3. CASE result' = [result EXCEPT ![t] = NoStore]
    BY <2>1, <2>3 DEF NoStore
  <2> QED BY <2>2, <2>3 DEF WaitForOther, NotifyAll, SpuriousWake, Return
<1>3. \A u \in Threads : Computes(u) => result'[u] = result[u]
  BY DEF WaitForOther, NotifyAll, SpuriousWake, Return, CpuInv, CpuTyped, NoStore, Computes
<1>4. CpuTyped'
  BY <1>1, <1>2 DEF CpuInv, CpuTyped
<1>5. \A u \in Threads : Filling(u) => Computes(u) /\ Filling(u)'
  BY <1>1 DEF Computes, Filling
<1>6. \A u \in Threads : Filling(u)' => Filling(u)
  BY <1>1 DEF Computes, Filling
<1>7. ComputersKept'
  <2>1. \A u \in Threads : Computes(u)' <=> Computes(u)
    BY <1>1 DEF Computes
  <2> QED BY <2>1, <1>1, ComputersSame DEF CpuInv
<1>8. FillersKept' /\ StoresKept'
  BY <1>1, <1>2, <1>3, <1>5, <1>6, StoresLetGo DEF CpuInv
<1> QED BY <1>4, <1>7, <1>8 DEF CpuInv

LEMMA FillThrowsKeeps ==
    ASSUME CpuInv, NEW t \in Threads, FillThrows(t)
    PROVE  CpuInv'
<1>1. /\ pc[t] = "fill" /\ UNCHANGED <<d, cache, computing, store, want>>
      /\ \A u \in Threads : pc'[u] = IF u = t THEN "erase" ELSE pc[u]
      /\ \A u \in Threads : result'[u] = IF u = t THEN NoStore ELSE result[u]
  BY DEF FillThrows, Goto, CpuInv, CpuTyped
<1>2. CpuTyped'
  BY <1>1 DEF FillThrows, Goto, CpuInv, CpuTyped, CpuSteps, NoStore
<1>3. ComputersKept'
  <2>1. \A u \in Threads : Computes(u)' <=> Computes(u)
    BY <1>1 DEF Computes
  <2> QED BY <2>1, <1>1, ComputersSame DEF CpuInv
<1>4. FillersKept' /\ StoresKept'
  <2>1. \A u \in Threads : Filling(u)' => Filling(u) /\ u # t
    BY <1>1 DEF Filling
  <2>2. \A u \in Threads : u # t => (Filling(u)' <=> Filling(u))
    BY <1>1 DEF Filling
  <2> QED BY <2>1, <2>2, <1>1, StoresLetGo DEF CpuInv
<1> QED BY <1>2, <1>3, <1>4 DEF CpuInv

LEMMA EraseKeeps ==
    ASSUME CpuInv, NEW t \in Threads, EraseComputing(t)
    PROVE  CpuInv'
<1>1. /\ pc[t] = "erase" /\ UNCHANGED <<d, cache, store, want, result>>
      /\ computing' = computing \ {want[t]}
      /\ \A u \in Threads : pc'[u] = IF u = t THEN "notify" ELSE pc[u]
  BY DEF EraseComputing, Goto, CpuInv, CpuTyped
<1>2. CpuTyped'
  BY <1>1 DEF EraseComputing, Goto, CpuInv, CpuTyped, CpuSteps
<1>3. ComputersKept'
  <2>1. \A u \in Threads : Computes(u)' <=> Computes(u) /\ u # t
    BY <1>1 DEF Computes
  <2>2. \A u \in Threads : Computes(u) /\ u # t => want[u] # want[t]
    BY <1>1 DEF CpuInv, ComputersKept, Computes
  <2>3. computing' = {want[u] : u \in {v \in Threads : Computes(v) /\ v # t}}
    BY <1>1, <2>2 DEF CpuInv, ComputersKept
  <2> QED BY <1>1, <2>1, <2>3 DEF CpuInv, ComputersKept
<1>4. FillersKept' /\ StoresKept'
  <2>1. \A u \in Threads : Filling(u)' <=> Filling(u)
    BY <1>1 DEF Filling
  <2> QED BY <2>1, <1>1, StoresLetGo DEF CpuInv
<1> QED BY <1>2, <1>3, <1>4 DEF CpuInv

LEMMA HitKeeps ==
    ASSUME CpuInv, NEW t \in Threads, Hit(t)
    PROVE  CpuInv'
<1>1. PICK i \in DOMAIN cache : cache' = Touched(i) /\ result' = [result EXCEPT ![t] = cache[i]]
  BY DEF Hit, CachedAt
<1>2. /\ pc[t] = "look" /\ UNCHANGED <<d, computing, store, want>>
      /\ \A u \in Threads : pc'[u] = IF u = t THEN "return" ELSE pc[u]
      /\ \A u \in Threads : result'[u] = IF u = t THEN cache[i] ELSE result[u]
  BY <1>1 DEF Hit, Goto, CpuInv, CpuTyped
<1>3. cache \in Seq(Nat) /\ cache[i] \in Nat /\ cache[i] \in DOMAIN store /\ cache[i] \in ToSet(cache)
  BY StoreNames DEF CpuInv, CpuTyped, ToSet
<1>4. /\ cache' \in Seq(Nat) /\ DOMAIN cache' = DOMAIN cache
      /\ \A k \in DOMAIN cache : FromPlace(i, k) \in DOMAIN cache /\ cache'[k] = cache[FromPlace(i, k)]
      /\ \A j, k \in DOMAIN cache : FromPlace(i, j) = FromPlace(i, k) => j = k
      /\ ToSet(cache') = ToSet(cache)
  <2>1. cache' = ToFront(cache, i)
    BY <1>1 DEF Touched, ToFront
  <2>2. i \in 1 .. Len(cache)
    BY <1>3, NatsHave
  <2> QED BY <1>3, <2>1, <2>2, MovedToFront
<1>5. CpuTyped'
  BY <1>1, <1>2, <1>3, <1>4 DEF Hit, Goto, CpuInv, CpuTyped, CpuSteps
<1>6. \A u \in Threads : (Computes(u)' <=> Computes(u)) /\ (Filling(u)' <=> Filling(u))
  BY <1>2 DEF Computes, Filling
<1>7. ComputersKept'
  BY <1>2, <1>6, ComputersSame DEF CpuInv
<1>8. ~Filling(t)
  BY <1>2 DEF Filling
<1>9. FillersKept'
  <2>1. SUFFICES ASSUME NEW u \in Threads, Filling(u)
                 PROVE  /\ result'[u] \in DOMAIN store
                        /\ store[result'[u]].start = want[u]
                        /\ \A k \in DOMAIN cache' : cache'[k] # result'[u] /\ store[cache'[k]].start # want[u]
                        /\ \A v \in Threads : result'[v] = result'[u] => v = u
    BY <1>2, <1>6 DEF FillersKept
  <2>2. result'[u] = result[u] /\ u # t
    BY <1>2, <1>8, <2>1
  <2>3. \A k \in DOMAIN cache : cache[k] # result[u] /\ store[cache[k]].start # want[u]
    BY <2>1 DEF CpuInv, FillersKept
  <2>4. \A k \in DOMAIN cache' : cache'[k] # result[u] /\ store[cache'[k]].start # want[u]
    BY <1>4, <2>3
  <2>5. \A v \in Threads : result'[v] = result[u] => v = u
    BY <1>2, <2>1, <2>3 DEF CpuInv, FillersKept
  <2> QED BY <2>1, <2>2, <2>4, <2>5 DEF CpuInv, FillersKept
<1>10. ComputedOnce'
  <2>1. ASSUME NEW j \in DOMAIN cache, NEW k \in DOMAIN cache, j # k
        PROVE  store[cache'[j]].start # store[cache'[k]].start
    <3>1. /\ FromPlace(i, j) # FromPlace(i, k)
          /\ FromPlace(i, j) \in DOMAIN cache /\ FromPlace(i, k) \in DOMAIN cache
      BY <2>1, <1>4
    <3>2. store[cache[FromPlace(i, j)]].start # store[cache[FromPlace(i, k)]].start
      BY <3>1 DEF CpuInv, StoresKept, ComputedOnce
    <3> QED BY <3>2, <1>4
  <2>2. \A u, v \in Threads : u # v /\ Filling(u)' /\ Filling(v)' => want'[u] # want'[v]
    BY <1>2, <1>6 DEF CpuInv, StoresKept, ComputedOnce, Filling
  <2> QED BY <1>2, <1>4, <2>1, <2>2 DEF ComputedOnce, Filling
<1>11. ChargedAsHeld'
  <2>1. SUFFICES ASSUME NEW k \in DOMAIN store,
                        k \in ToSet(cache) \union {result'[u] : u \in Threads}
                 PROVE  store[k].kind = IF k \in ToSet(cache) THEN "Cached"
                            ELSE IF \E u \in Threads : result'[u] = k /\ Filling(u)' THEN "Inflight"
                            ELSE "Pinned"
    BY <1>2, <1>4 DEF ChargedAsHeld, Filling
  <2>2. CASE k \in ToSet(cache)
    BY <2>2 DEF CpuInv, StoresKept, ChargedAsHeld
  <2>3. CASE k \notin ToSet(cache)
    <3>1. k \in {result[u] : u \in Threads}
      BY <1>2, <1>3, <2>1, <2>3
    <3>2. store[k].kind = IF \E u \in Threads : result[u] = k /\ Filling(u) THEN "Inflight" ELSE "Pinned"
      BY <2>3, <3>1 DEF CpuInv, StoresKept, ChargedAsHeld, Filling
    <3>3. (\E u \in Threads : result'[u] = k /\ Filling(u)') <=> (\E u \in Threads : result[u] = k /\ Filling(u))
      BY <1>2, <1>6, <1>8
    <3> QED BY <2>3, <3>2, <3>3
  <2> QED BY <2>2, <2>3
<1> QED BY <1>5, <1>7, <1>9, <1>10, <1>11 DEF CpuInv, StoresKept

LEMMA BeginKeeps ==
    ASSUME CpuInv, NEW t \in Threads, Begin(t)
    PROVE  CpuInv'
<1> DEFINE new == Len(store) + 1
           made_store == [start |-> want[t], frames |-> <<>>, kind |-> "Inflight"]
<1>1. /\ pc[t] = "look" /\ UNCHANGED <<d, cache, want>>
      /\ computing' = computing \union {want[t]} /\ want[t] \notin computing
      /\ \A u \in Threads : pc'[u] = IF u = t THEN "fill" ELSE pc[u]
      /\ \A u \in Threads : result'[u] = IF u = t THEN new ELSE result[u]
  BY DEF Begin, IsComputing, Goto, CpuInv, CpuTyped
<1>2. /\ store' \in Seq(ToSet(store')) /\ DOMAIN store' = 1 .. new
      /\ \A i \in DOMAIN store : store'[i] = store[i]
      /\ store'[new] = made_store
  <2>1. store \in Seq(ToSet(store)) /\ store' = Append(store, made_store)
    BY DEF Begin, CpuInv, CpuTyped
  <2> QED BY <2>1, Appended
<1>3. /\ Len(store) \in Nat /\ DOMAIN store = 1 .. Len(store) /\ NoStore \notin DOMAIN store
      /\ \A i \in DOMAIN cache : cache[i] \in DOMAIN store /\ cache[i] \in Nat
  BY StoreNames DEF CpuInv
<1>4. /\ new \in Nat /\ new \notin DOMAIN store /\ DOMAIN store' = DOMAIN store \cup {new}
      /\ new # NoStore
  BY <1>2, <1>3 DEF NoStore
<1>5. /\ DOMAIN made_store = {"start", "frames", "kind"}
      /\ made_store.start = want[t] /\ made_store.kind = "Inflight"
  OBVIOUS
<1> HIDE DEF new, made_store
<1>6. CpuTyped'
  <2>1. \A i \in DOMAIN store' : DOMAIN store'[i] = {"start", "frames", "kind"}
    BY <1>2, <1>4, <1>5 DEF CpuInv, CpuTyped
  <2>2. result' \in [Threads -> Nat] /\ \A u \in Threads : result'[u] # NoStore => result'[u] \in DOMAIN store'
    BY <1>1, <1>4 DEF Begin, CpuInv, CpuTyped, new
  <2>3. pc' \in [Threads -> CpuSteps]
    BY DEF Begin, Goto, CpuInv, CpuTyped, CpuSteps
  <2>4. ToSet(cache') \subseteq DOMAIN store'
    BY <1>1, <1>4 DEF CpuInv, CpuTyped
  <2> QED BY <1>1, <1>2, <2>1, <2>2, <2>3, <2>4 DEF CpuInv, CpuTyped
<1>7. \A u \in Threads : (Computes(u)' <=> Computes(u) \/ u = t) /\ (Filling(u)' <=> Filling(u) \/ u = t)
  BY <1>1 DEF Computes, Filling
<1>8. ~Computes(t) /\ ~Filling(t)
  BY <1>1 DEF Computes, Filling
<1>9. \A u \in Threads : Computes(u) => want[u] # want[t]
  BY <1>1 DEF CpuInv, ComputersKept
<1>10. ComputersKept'
  <2>1. computing' = {want[u] : u \in {v \in Threads : Computes(v) \/ v = t}}
    BY <1>1 DEF CpuInv, ComputersKept
  <2>2. computing' = {want'[u] : u \in {v \in Threads : Computes(v)'}}
    BY <1>1, <1>7, <2>1
  <2>3. \A u, v \in Threads : Computes(u)' /\ Computes(v)' /\ want'[u] = want'[v] => u = v
    BY <1>1, <1>7, <1>9 DEF CpuInv, ComputersKept
  <2> QED BY <2>2, <2>3 DEF ComputersKept
<1>11. \A i \in DOMAIN cache : store[cache[i]].start # want[t] /\ cache[i] # new
  BY <1>3, <1>4 DEF Begin, CachedAt
<1>12. \A u \in Threads : result[u] # new
  BY <1>4 DEF CpuInv, CpuTyped
<1>13. FillersKept'
  <2>1. ASSUME NEW u \in Threads, Filling(u), u # t
        PROVE  /\ result'[u] \in DOMAIN store'
               /\ store'[result'[u]].start = want[u]
               /\ \A k \in DOMAIN cache : cache[k] # result'[u] /\ store'[cache[k]].start # want[u]
               /\ \A v \in Threads : result'[v] = result'[u] => v = u
    <3>1. /\ result[u] \in DOMAIN store /\ store[result[u]].start = want[u]
          /\ \A k \in DOMAIN cache : cache[k] # result[u] /\ store[cache[k]].start # want[u]
          /\ \A v \in Threads : result[v] = result[u] => v = u
      BY <2>1 DEF CpuInv, FillersKept
    <3> QED BY <2>1, <3>1, <1>1, <1>2, <1>3, <1>4
  <2>2. /\ result'[t] \in DOMAIN store' /\ store'[result'[t]].start = want[t]
        /\ \A k \in DOMAIN cache : cache[k] # result'[t] /\ store'[cache[k]].start # want[t]
        /\ \A v \in Threads : result'[v] = result'[t] => v = t
    BY <1>1, <1>2, <1>3, <1>4, <1>5, <1>11, <1>12
  <2> QED BY <2>1, <2>2, <1>1, <1>7 DEF FillersKept
<1>14. ComputedOnce'
  <2>1. \A u, v \in Threads : u # v /\ Filling(u)' /\ Filling(v)' => want'[u] # want'[v]
    BY <1>10 DEF ComputersKept, Filling, Computes
  <2>2. \A j, k \in DOMAIN cache : j # k => store'[cache[j]].start # store'[cache[k]].start
    BY <1>2, <1>3 DEF CpuInv, StoresKept, ComputedOnce
  <2> QED BY <1>1, <2>1, <2>2 DEF ComputedOnce, Filling
<1>15. ChargedAsHeld'
  <2>1. SUFFICES ASSUME NEW k \in DOMAIN store',
                        k \in ToSet(cache) \union {result'[u] : u \in Threads}
                 PROVE  store'[k].kind = IF k \in ToSet(cache) THEN "Cached"
                            ELSE IF \E u \in Threads : result'[u] = k /\ Filling(u)' THEN "Inflight"
                            ELSE "Pinned"
    BY <1>1 DEF ChargedAsHeld, Filling
  <2>2. CASE k = new
    <3>1. new \notin ToSet(cache)
      BY <1>11 DEF ToSet
    <3> QED BY <2>2, <3>1, <1>1, <1>2, <1>5, <1>7
  <2>3. CASE k \in DOMAIN store
    <3>1. k # new /\ store'[k] = store[k]
      BY <2>3, <1>2, <1>4
    <3>2. k \in ToSet(cache) \union {result[u] : u \in Threads}
      BY <2>1, <3>1, <1>1
    <3>3. (\E u \in Threads : result'[u] = k /\ Filling(u)') <=> (\E u \in Threads : result[u] = k /\ Filling(u))
      BY <3>1, <1>1, <1>7, <1>8
    <3>4. store[k].kind = IF k \in ToSet(cache) THEN "Cached"
                            ELSE IF \E u \in Threads : result[u] = k /\ Filling(u) THEN "Inflight"
                            ELSE "Pinned"
      BY <2>3, <3>2 DEF CpuInv, StoresKept, ChargedAsHeld, Filling
    <3> QED BY <3>1, <3>3, <3>4
  <2> QED BY <2>2, <2>3, <1>4
<1> QED BY <1>6, <1>10, <1>13, <1>14, <1>15 DEF CpuInv, StoresKept

LEMMA FillKeeps ==
    ASSUME CpuInv, NEW t \in Threads, Fill(t)
    PROVE  CpuInv'
<1>1. /\ pc[t] = "fill" /\ UNCHANGED <<d, cache, computing, want, result>>
      /\ \A u \in Threads : pc'[u] = IF u = t THEN "publish" ELSE pc[u]
  BY DEF Fill, Goto, CpuInv, CpuTyped
<1>2. PICK frames : store' = [store EXCEPT ![result[t]].frames = frames]
  BY DEF Fill
<1>3. /\ DOMAIN store' = DOMAIN store
      /\ \A i \in DOMAIN store : /\ DOMAIN store'[i] = {"start", "frames", "kind"}
                                 /\ store'[i].start = store[i].start
                                 /\ store'[i].kind = store[i].kind
  BY <1>2 DEF CpuInv, CpuTyped
<1>4. store' \in Seq(ToSet(store'))
  <2>1. store' = [i \in DOMAIN store |-> store'[i]]
    BY <1>2
  <2>2. store \in Seq(ToSet(store))
    BY DEF CpuInv, CpuTyped
  <2> QED BY <2>1, <2>2, SameDomain
<1>5. CpuTyped'
  <2>1. pc' \in [Threads -> CpuSteps]
    BY DEF Fill, Goto, CpuInv, CpuTyped, CpuSteps
  <2> QED BY <2>1, <1>1, <1>3, <1>4 DEF CpuInv, CpuTyped
<1>6. \A u \in Threads : (Computes(u)' <=> Computes(u)) /\ (Filling(u)' <=> Filling(u))
  BY <1>1 DEF Computes, Filling
<1>7. ComputersKept'
  BY <1>1, <1>6, ComputersSame DEF CpuInv
<1>8. \A i \in DOMAIN cache : cache[i] \in DOMAIN store
  BY StoreNames DEF CpuInv
<1>9. FillersKept'
  <2>1. ASSUME NEW u \in Threads, Filling(u)
        PROVE  /\ result[u] \in DOMAIN store'
               /\ store'[result[u]].start = want[u]
               /\ \A k \in DOMAIN cache : cache[k] # result[u] /\ store'[cache[k]].start # want[u]
               /\ \A v \in Threads : result[v] = result[u] => v = u
    BY <2>1, <1>3, <1>8 DEF CpuInv, FillersKept
  <2> QED BY <2>1, <1>1, <1>6 DEF FillersKept
<1>10. ComputedOnce'
  <2>1. \A u, v \in Threads : u # v /\ Filling(u)' /\ Filling(v)' => want'[u] # want'[v]
    BY <1>1, <1>6 DEF CpuInv, StoresKept, ComputedOnce, Filling
  <2>2. \A j, k \in DOMAIN cache : j # k => store'[cache[j]].start # store'[cache[k]].start
    BY <1>3, <1>8 DEF CpuInv, StoresKept, ComputedOnce
  <2> QED BY <1>1, <2>1, <2>2 DEF ComputedOnce, Filling
<1>11. ChargedAsHeld'
  <2>1. SUFFICES ASSUME NEW k \in DOMAIN store,
                        k \in ToSet(cache) \union {result[u] : u \in Threads}
                 PROVE  store'[k].kind = IF k \in ToSet(cache) THEN "Cached"
                            ELSE IF \E u \in Threads : result[u] = k /\ Filling(u)' THEN "Inflight"
                            ELSE "Pinned"
    BY <1>1, <1>3 DEF ChargedAsHeld, Filling
  <2>2. store[k].kind = IF k \in ToSet(cache) THEN "Cached"
                            ELSE IF \E u \in Threads : result[u] = k /\ Filling(u) THEN "Inflight"
                            ELSE "Pinned"
    BY <2>1 DEF CpuInv, StoresKept, ChargedAsHeld, Filling
  <2> QED BY <2>1, <2>2, <1>3, <1>6
<1> QED BY <1>5, <1>7, <1>9, <1>10, <1>11 DEF CpuInv, StoresKept

LEMMA PublishKeeps ==
    ASSUME CpuInv, NEW t \in Threads, Publish(t)
    PROVE  CpuInv'
<1> DEFINE mine == result[t]
           all == Pushed(mine, cache)
           evicted == ToSet(all) \ ToSet(cache')
<1>1. /\ pc[t] = "publish" /\ UNCHANGED <<d, computing, want, result>>
      /\ \A u \in Threads : pc'[u] = IF u = t THEN "erase" ELSE pc[u]
      /\ cache' = Cut(all, d.cache_limit)
      /\ store' = Retag(evicted, mine)
  BY DEF Publish, Cut, Pushed, Goto, CpuInv, CpuTyped
<1>2. /\ mine \in DOMAIN store /\ store[mine].start = want[t] /\ mine \in Nat
      /\ \A k \in DOMAIN cache : cache[k] # mine /\ store[cache[k]].start # want[t]
      /\ \A u \in Threads : result[u] = mine => u = t
  BY <1>1 DEF CpuInv, CpuTyped, FillersKept, Filling
<1>3. /\ cache' \in Seq(Nat) /\ 1 \in DOMAIN cache' /\ cache'[1] = mine
      /\ \A k \in DOMAIN cache' : k # 1 => k - 1 \in DOMAIN cache /\ cache'[k] = cache[k - 1]
      /\ \A k \in DOMAIN cache' : k \in Nat
      /\ ToSet(all) = ToSet(cache) \cup {mine}
  <2>1. cache \in Seq(Nat) /\ d.cache_limit \in Nat \ {0}
    BY CpuAssumption DEF CpuInv, CpuTyped
  <2>2. PICK limit \in Nat \ {0} : cache' = Cut(Pushed(mine, cache), limit)
    BY <1>1, <2>1
  <2> HIDE DEF mine
  <2>3. /\ Cut(Pushed(mine, cache), limit) \in Seq(Nat)
        /\ 1 \in DOMAIN Cut(Pushed(mine, cache), limit) /\ Cut(Pushed(mine, cache), limit)[1] = mine
        /\ \A k \in DOMAIN Cut(Pushed(mine, cache), limit) :
              k \in Nat /\ (k # 1 => k - 1 \in DOMAIN cache /\ Cut(Pushed(mine, cache), limit)[k] = cache[k - 1])
        /\ ToSet(Pushed(mine, cache)) = ToSet(cache) \cup {mine}
    BY ONLY <1>2, <2>1, CutBehind
  <2> QED BY <2>2, <2>3
<1>4. \A i \in DOMAIN cache : cache[i] \in DOMAIN store /\ cache[i] \in ToSet(cache)
  BY StoreNames DEF CpuInv, ToSet
<1> HIDE DEF all
<1>5. mine \in ToSet(cache') /\ ToSet(cache') \subseteq ToSet(cache) \cup {mine}
  BY <1>3, <1>4 DEF ToSet
<1>6. mine \notin evicted /\ evicted = ToSet(cache) \ ToSet(cache')
  BY <1>3, <1>5
<1> HIDE DEF evicted, mine
<1>7. /\ DOMAIN store' = DOMAIN store
      /\ \A i \in DOMAIN store :
            /\ DOMAIN store'[i] = {"start", "frames", "kind"}
            /\ store'[i].start = store[i].start
            /\ store'[i].kind = IF i \in evicted THEN "Pinned" ELSE IF i = mine THEN "Cached" ELSE store[i].kind
  BY <1>1 DEF Retag, CpuInv, CpuTyped
<1>8. store' \in Seq(ToSet(store'))
  <2>1. store' = [i \in DOMAIN store |-> store'[i]]
    BY <1>1 DEF Retag
  <2>2. store \in Seq(ToSet(store))
    BY DEF CpuInv, CpuTyped
  <2> QED BY <2>1, <2>2, SameDomain
<1>9. CpuTyped'
  <2>1. pc' \in [Threads -> CpuSteps]
    BY DEF Publish, Goto, CpuInv, CpuTyped, CpuSteps
  <2>2. ToSet(cache') \subseteq DOMAIN store'
    BY <1>2, <1>5, <1>7 DEF CpuInv, CpuTyped
  <2> QED BY <2>1, <2>2, <1>1, <1>3, <1>7, <1>8 DEF CpuInv, CpuTyped
<1>10. \A u \in Threads : (Computes(u)' <=> Computes(u)) /\ (Filling(u)' <=> Filling(u) /\ u # t)
  BY <1>1 DEF Computes, Filling
<1>11. ComputersKept'
  BY <1>1, <1>10, ComputersSame DEF CpuInv
<1>12. Filling(t)
  BY <1>1 DEF Filling
<1>13. \A u \in Threads : Filling(u) /\ u # t => want[u] # want[t] /\ result[u] # mine
  BY <1>2, <1>12 DEF CpuInv, StoresKept, ComputedOnce, Filling
<1>14. FillersKept'
  <2>1. ASSUME NEW u \in Threads, Filling(u), u # t
        PROVE  /\ result[u] \in DOMAIN store'
               /\ store'[result[u]].start = want[u]
               /\ \A k \in DOMAIN cache' : cache'[k] # result[u] /\ store'[cache'[k]].start # want[u]
               /\ \A v \in Threads : result[v] = result[u] => v = u
    <3>1. /\ result[u] \in DOMAIN store /\ store[result[u]].start = want[u]
          /\ \A k \in DOMAIN cache : cache[k] # result[u] /\ store[cache[k]].start # want[u]
          /\ \A v \in Threads : result[v] = result[u] => v = u
      BY <2>1 DEF CpuInv, FillersKept
    <3>2. ASSUME NEW k \in DOMAIN cache'
          PROVE  cache'[k] # result[u] /\ store'[cache'[k]].start # want[u]
      <4>1. CASE k = 1
        BY <4>1, <1>2, <1>3, <1>7, <1>13, <2>1
      <4>2. CASE k # 1
        BY <4>2, <1>3, <1>4, <1>7, <3>1
      <4> QED BY <4>1, <4>2
    <3> QED BY <3>1, <3>2, <1>7
  <2> QED BY <2>1, <1>1, <1>10 DEF FillersKept
<1>15. ComputedOnce'
  <2>1. \A u, v \in Threads : u # v /\ Filling(u)' /\ Filling(v)' => want'[u] # want'[v]
    BY <1>1, <1>10 DEF CpuInv, StoresKept, ComputedOnce, Filling
  <2>2. ASSUME NEW j \in DOMAIN cache', NEW k \in DOMAIN cache', j # k
        PROVE  store'[cache'[j]].start # store'[cache'[k]].start
    <3>1. \A i \in DOMAIN cache' : cache'[i] \in DOMAIN store
      BY <1>2, <1>3, <1>4
    <3>2. store[cache'[j]].start # store[cache'[k]].start
      <4>1. CASE j = 1
        BY <4>1, <2>2, <1>2, <1>3
      <4>2. CASE k = 1
        BY <4>2, <2>2, <1>2, <1>3
      <4>3. CASE j # 1 /\ k # 1
        <5>1. j - 1 # k - 1 /\ j - 1 \in DOMAIN cache /\ k - 1 \in DOMAIN cache
          BY <4>3, <2>2, <1>3
        <5> QED BY <5>1, <4>3, <1>3 DEF CpuInv, StoresKept, ComputedOnce
      <4> QED BY <4>1, <4>2, <4>3
    <3> QED BY <3>1, <3>2, <1>7
  <2> QED BY <2>1, <2>2 DEF ComputedOnce, Filling
<1>16. ChargedAsHeld'
  <2>1. SUFFICES ASSUME NEW k \in DOMAIN store,
                        k \in ToSet(cache') \union {result[u] : u \in Threads}
                 PROVE  store'[k].kind = IF k \in ToSet(cache') THEN "Cached"
                            ELSE IF \E u \in Threads : result[u] = k /\ Filling(u)' THEN "Inflight"
                            ELSE "Pinned"
    BY <1>1, <1>7 DEF ChargedAsHeld, Filling
  <2>2. CASE k = mine
    BY <2>2, <1>5, <1>6, <1>7
  <2>3. CASE k \in ToSet(cache) /\ k # mine
    <3>1. store[k].kind = "Cached"
      BY <2>3 DEF CpuInv, StoresKept, ChargedAsHeld
    <3>2. CASE k \in ToSet(cache')
      BY <2>3, <3>1, <3>2, <1>6, <1>7
    <3>3. CASE k \notin ToSet(cache')
      <4>1. store'[k].kind = "Pinned"
        BY <2>3, <3>3, <1>6, <1>7
      <4>2. \A u \in Threads : Filling(u) => result[u] # k
        BY <2>3 DEF CpuInv, FillersKept, ToSet
      <4> QED BY <4>1, <4>2, <3>3, <1>10
    <3> QED BY <3>2, <3>3
  <2>4. CASE k \notin ToSet(cache) /\ k # mine
    <3>1. k \notin ToSet(cache') /\ k \notin evicted /\ k \in {result[u] : u \in Threads}
      BY <2>1, <2>4, <1>5, <1>6
    <3>2. store'[k].kind = store[k].kind
      BY <2>4, <3>1, <1>7
    <3>3. store[k].kind = IF \E u \in Threads : result[u] = k /\ Filling(u) THEN "Inflight" ELSE "Pinned"
      BY <2>4, <3>1 DEF CpuInv, StoresKept, ChargedAsHeld, Filling
    <3>4. (\E u \in Threads : result[u] = k /\ Filling(u)') <=> (\E u \in Threads : result[u] = k /\ Filling(u))
      BY <2>4, <1>10 DEF mine
    <3> QED BY <3>1, <3>2, <3>3, <3>4
  <2> QED BY <2>2, <2>3, <2>4
<1> QED BY <1>9, <1>11, <1>14, <1>15, <1>16 DEF CpuInv, StoresKept

-----------------------------------------------------------------------------
LEMMA CpuInitHolds == Init => CpuInv
<1> SUFFICES ASSUME Init PROVE CpuInv
  OBVIOUS
<1>1. cache = <<>> /\ store = <<>> /\ computing = {} /\ \A t \in Threads : pc[t] = "idle" /\ result[t] = NoStore
  BY DEF Init
<1>2. CpuTyped
  BY DEF Init, CpuTyped, CpuSteps, NoStore, ToSet
<1>3. ComputersKept /\ FillersKept
  BY <1>1 DEF ComputersKept, FillersKept, Computes, Filling
<1>4. StoresKept
  BY <1>1 DEF StoresKept, ComputedOnce, ChargedAsHeld
<1> QED BY <1>2, <1>3, <1>4 DEF CpuInv

LEMMA CpuStep == CpuInv /\ [Next]_vars => CpuInv'
<1> SUFFICES ASSUME CpuInv, [Next]_vars PROVE CpuInv'
  OBVIOUS
<1>1. CASE UNCHANGED vars
  BY <1>1 DEF vars, CpuInv, CpuTyped, ComputersKept, FillersKept, StoresKept, ComputedOnce, ChargedAsHeld,
              Computes, Filling
<1>2. CASE Next
  <2>1. PICK t \in Threads : \/ \E start \in Starts : Ask(t, start)
                             \/ Run(t) \/ FillThrows(t) \/ SpuriousWake(t)
    BY <1>2 DEF Next
  <2> QED BY <2>1, AskKeeps, HitKeeps, OutsideKeeps, BeginKeeps, FillKeeps, FillThrowsKeeps,
             PublishKeeps, EraseKeeps DEF Run
<1> QED BY <1>1, <1>2

LEMMA CpuHolds == Spec => []CpuInv
  BY CpuInitHolds, CpuStep, PTL DEF Spec

\* A chunk of the CPU filter has one store: it is computed by one thread at a
\* time and cached once, and the store's account says where it is, through
\* eviction under a reader and computations that throw (rollingGetFrame).
THEOREM StoresKeptHolds == Spec => []StoresKept
<1>1. CpuInv => StoresKept
  BY DEF CpuInv
<1> QED BY <1>1, CpuHolds, PTL

\* No sleeper is forgotten: a thread waits for a chunk only while that is
\* being computed or its notify_all is to come (Computing's destructor).
THEOREM SleepersAwaitedHolds == Spec => []SleepersAwaited
<1>1. Init => SleepersAwaited
  BY DEF Init, SleepersAwaited
<1>2. CpuInv /\ SleepersAwaited /\ [Next]_vars => SleepersAwaited'
  <2> SUFFICES ASSUME CpuInv, SleepersAwaited, [Next]_vars,
                      NEW t \in Threads, pc'[t] = "asleep"
               PROVE  want'[t] \in computing' \/ \E u \in Threads : pc'[u] = "notify"
    BY DEF SleepersAwaited
  <2>1. CASE UNCHANGED vars
    BY <2>1 DEF vars, SleepersAwaited
  <2>2. CASE Next
    <3>1. PICK u \in Threads : \/ \E start \in Starts : Ask(u, start)
                               \/ Run(u) \/ FillThrows(u) \/ SpuriousWake(u)
      BY <2>2 DEF Next
    <3>2. CASE WaitForOther(u)
      <4>1. want' = want /\ computing' = computing /\ want[u] \in computing
        BY <3>2 DEF WaitForOther, IsComputing
      <4>2. t # u => pc[t] = "asleep"
        BY <3>2 DEF WaitForOther, Goto, CpuInv, CpuTyped
      <4>3. \A v \in Threads : pc[v] = "notify" => pc'[v] = "notify"
        BY <3>2 DEF WaitForOther, Goto, CpuInv, CpuTyped
      <4> QED BY <4>1, <4>2, <4>3 DEF SleepersAwaited
    <3>3. CASE EraseComputing(u)
      BY <3>3 DEF EraseComputing, Goto, CpuInv, CpuTyped
    <3>4. CASE NotifyAll(u)
      <4>1. pc'[t] = IF t = u THEN "return" ELSE IF t \in Woken THEN "look" ELSE pc[t]
        BY <3>4 DEF NotifyAll
      <4> QED BY <4>1 DEF Woken
    <3>5. CASE \/ \E start \in Starts : Ask(u, start)
               \/ Hit(u) \/ Begin(u) \/ Fill(u) \/ Publish(u) \/ Return(u) \/ FillThrows(u) \/ SpuriousWake(u)
      <4>1. pc[u] # "notify" /\ pc'[u] # "asleep" /\ \A v \in Threads \ {u} : pc'[v] = pc[v]
        BY <3>5 DEF Ask, Hit, Begin, Fill, Publish, Return, FillThrows, SpuriousWake, Goto, CpuInv, CpuTyped
      <4>2. computing \subseteq computing' /\ \A v \in Threads \ {u} : want'[v] = want[v]
        BY <3>5 DEF Ask, Hit, Begin, Fill, Publish, Return, FillThrows, SpuriousWake, CpuInv, CpuTyped
      <4> QED BY <4>1, <4>2 DEF SleepersAwaited
    <3> QED BY <3>1, <3>2, <3>3, <3>4, <3>5 DEF Run
  <2> QED BY <2>1, <2>2
<1> QED BY <1>1, <1>2, CpuHolds, PTL DEF Spec
=============================================================================
