------------------------------ MODULE ClientsProofs ------------------------------
(***************************************************************************)
(* Proofs about Clients, for any requests and tickets, any recovery window *)
(* of at least a day, and any number of failures and restarts.             *)
(***************************************************************************)
EXTENDS Clients, TLAPS

-----------------------------------------------------------------------------
(* The invariant *)

Gone == client.state = "gone"
Busy == tasks[Purge].step # "idle"
Commits(a) == tasks[a].step = "commit"

\* Each job goes through its own steps.
JobOK(a) ==
  /\ a = Purge => tasks[a].job = IF tasks[a].step = "idle" THEN "none" ELSE "purge"
  /\ a # Purge => tasks[a].job # "purge"
  /\ tasks[a].step \in {"export", "record"} => tasks[a].job \in {"export", "hard", "purge"}
  /\ tasks[a].step \in {"list", "cascade"} => tasks[a].job \in {"hard", "purge"}
  /\ tasks[a].step = "rmdirs" => tasks[a].job \in {"hard", "purge", "delete"}
  /\ tasks[a].job = "soft" => tasks[a].stamp <= now /\ now <= tasks[a].stamp + 1

\* What a deletion has exported and listed, up to what was filed meanwhile.
DeletionOK(a) ==
  /\ tasks[a].step = "rmdirs" /\ tasks[a].job # "delete" => Gone
  /\ ~Gone /\ tasks[a].step \in {"list", "cascade"} => exported
  /\ ~Gone /\ PastList(a) => Rows \subseteq tasks[a].listed \cup stray
  /\ tasks[a].job = "hard" /\ tasks[a].step \in {"record", "cascade"} =>
       Rows \ tasks[a].content \subseteq stray

\* A directory belongs to a ticket, or a deletion is about to remove it.
Leaves(t) == \E a \in Actors : tasks[a].step = "rmdirs" /\ t \in tasks[a].listed
DirsOK ==
  /\ Gone => Rows = {}
  /\ \A t \in dirs \ stray : t \in Rows \/ Leaves(t)

\* Unless it was overtaken, what the purge read is still so.
PurgeOK ==
  Busy /\ ~tasks[Purge].overtaken =>
    /\ Gone \/ (client.state = "hidden" /\ now > client.at + Window)
    /\ \A h \in Handlers : ~Commits(h)

\* On its last day an account waits for the purge.
OnTime ==
  /\ nextRun <= now + 1
  /\ client.state = "hidden" =>
       /\ now <= client.at + Window + 1 + failures + restarts
       /\ now = client.at + Window + 1 + failures + restarts => nextRun <= now \/ Busy

IInv == /\ TypeOK /\ TogetherUnlessRaced /\ DirsOK /\ PurgeOK /\ OnTime
        /\ \A a \in Actors : JobOK(a) /\ DeletionOK(a)

\* The bounds of the model are naturals.
LEMMA Bounds == Window \in Nat /\ Window > 0 /\ MaxTime \in Nat /\ MaxSlips \in Nat /\ Purge \notin Handlers
BY ClientsAssumption

LEMMA IdleType ==
  /\ Idle \in Task /\ Idle.step = "idle" /\ Idle.job = "none" /\ Idle.listed = {} /\ Idle.overtaken = FALSE
BY Bounds DEF Idle, Task, Jobs, Steps, Days

\* The client is live and has nothing yet.
LEMMA IInvInit == Init => IInv
<1> SUFFICES ASSUME Init PROVE IInv
  OBVIOUS
<1>1. TypeOK
  <2>1. 0 \in Days /\ 1 \in 0..(MaxTime + 1) /\ 0 \in 0..MaxSlips
    BY Bounds DEF Days
  <2>2. tasks \in [Actors -> Task]
    BY IdleType DEF Init
  <2>3. /\ client \in [state : {"live", "hidden", "gone"}, at : Days]
        /\ tickets \in [Tickets -> [state : {"none", "shown", "hidden", "gone"}, at : Days,
                                    late : BOOLEAN]]
    BY <2>1 DEF Init
  <2> QED BY <2>1, <2>2, <2>3 DEF Init, TypeOK
<1>2. TogetherUnlessRaced /\ DirsOK
  BY DEF Init, TogetherUnlessRaced, DirsOK, Gone, Rows, Leaves
<1>3. \A a \in Actors : tasks[a] = Idle
  BY DEF Init
<1>4. PurgeOK /\ OnTime
  BY <1>3, IdleType DEF Init, PurgeOK, OnTime, Busy, Actors
<1>5. \A a \in Actors : JobOK(a) /\ DeletionOK(a)
  BY <1>3, IdleType DEF JobOK, DeletionOK, PastList
<1> QED BY <1>1, <1>2, <1>4, <1>5 DEF IInv

-----------------------------------------------------------------------------
(* What each kind of step keeps *)

\* A task that does not act.
LEMMA OtherOK ==
  ASSUME IInv, NEW b \in Actors, tasks'[b] = tasks[b], now' = now,
         Gone => Gone', ~Gone' /\ exported => exported', stray \subseteq stray',
         PastList(b) => Rows' \subseteq Rows \cup stray'
  PROVE  JobOK(b)' /\ DeletionOK(b)'
<1>1. JobOK(b) /\ DeletionOK(b)
  BY DEF IInv
<1>2. PastList(b)' <=> PastList(b)
  BY DEF PastList
<1>3. JobOK(b)'
  BY <1>1 DEF JobOK
<1>4. tasks[b].job = "hard" /\ tasks[b].step \in {"record", "cascade"} => PastList(b)
  BY DEF PastList
<1>5. DeletionOK(b)'
  BY <1>1, <1>2, <1>4 DEF DeletionOK
<1> QED BY <1>3, <1>5

LEMMA BeginOK ==
  ASSUME IInv, NEW a \in Actors, NEW r, Begin(a, r)
  PROVE  tasks' = [tasks EXCEPT ![a] = r] /\ tasks'[a] = r /\ \A b \in Actors \ {a} : tasks'[b] = tasks[b]
BY DEF Begin, IInv, TypeOK

\* A step of one task that leaves the account, its tickets and its directories.
LEMMA StepOK ==
  ASSUME IInv, NEW a \in Actors, NEW r \in Task, Begin(a, r),
         UNCHANGED <<now, client, tickets, dirs, raced, restarts>>,
         exported => exported', exported' \in BOOLEAN, stray \subseteq stray', stray' \subseteq Tickets,
         nextRun' \in 0..(MaxTime + 1), failures' \in 0..MaxSlips,
         JobOK(a)', DeletionOK(a)', PurgeOK', OnTime',
         tasks[a].step = "rmdirs" => tasks[a].listed \subseteq stray'
  PROVE  IInv'
<1>1. tasks' = [tasks EXCEPT ![a] = r] /\ tasks'[a] = r /\ \A b \in Actors \ {a} : tasks'[b] = tasks[b]
  BY BeginOK
<1>2. TypeOK'
  BY <1>1 DEF IInv, TypeOK
<1>3. Rows' = Rows /\ (Gone' <=> Gone)
  BY DEF Rows, Gone
<1>4. ASSUME NEW b \in Actors, b # a PROVE JobOK(b)' /\ DeletionOK(b)'
  BY <1>1, <1>3, <1>4, OtherOK
<1>5. TogetherUnlessRaced'
  BY DEF IInv, TogetherUnlessRaced
<1>6. DirsOK'
  <2>1. ASSUME NEW t \in dirs \ stray', t \notin Rows PROVE Leaves(t)'
    <3>1. PICK b \in Actors : tasks[b].step = "rmdirs" /\ t \in tasks[b].listed
      BY <2>1 DEF IInv, DirsOK, Leaves
    <3>2. b # a
      BY <3>1
    <3> QED BY <3>1, <3>2, <1>1 DEF Leaves
  <2>2. Gone => Rows = {}
    BY DEF IInv, DirsOK
  <2> QED BY <2>1, <2>2, <1>3 DEF DirsOK
<1> QED BY <1>1, <1>2, <1>4, <1>5, <1>6 DEF IInv

\* The clock and the account stay, and the purge goes on if it was under way.
LEMMA OnTimeKept ==
  ASSUME IInv, UNCHANGED <<now, client, nextRun, failures, restarts>>, Busy => Busy' \/ Gone
  PROVE  OnTime'
BY DEF IInv, OnTime, Gone

\* The purge goes on, the account stays or is gone, and no request has read it anew.
LEMMA PurgeOKKept ==
  ASSUME IInv, now' = now, client' = client \/ Gone', Busy' => Busy,
         Busy' => tasks'[Purge].overtaken = tasks[Purge].overtaken,
         \A h \in Handlers : Commits(h)' => Commits(h)
  PROVE  PurgeOK'
BY DEF IInv, PurgeOK, Gone

\* A step of one request, seen from the purge.
LEMMA HandlerKeeps ==
  ASSUME IInv, NEW h \in Handlers, NEW r, Begin(h, r), r.step # "commit",
         UNCHANGED <<now, client, nextRun, failures, restarts>>
  PROVE  PurgeOK' /\ OnTime'
<1>1. h \in Actors /\ h # Purge /\ Purge \in Actors /\ Handlers \subseteq Actors
  BY Bounds DEF Actors
<1>2. tasks'[h] = r /\ \A b \in Actors \ {h} : tasks'[b] = tasks[b]
  BY <1>1, BeginOK
<1>3. tasks'[Purge] = tasks[Purge]
  BY <1>1, <1>2
<1>4. \A g \in Handlers : Commits(g)' => Commits(g)
  BY <1>1, <1>2 DEF Commits
<1>5. PurgeOK'
  BY <1>3, <1>4, PurgeOKKept DEF Busy
<1>6. OnTime'
  BY <1>3, OnTimeKept DEF Busy
<1> QED BY <1>5, <1>6

\* A step of a deletion or of the purge that leaves the account.
LEMMA DeletionKeeps ==
  ASSUME IInv, NEW a \in Actors, NEW r, Begin(a, r), r.step # "commit",
         r.overtaken = tasks[a].overtaken, tasks[a].step # "idle",
         UNCHANGED <<now, nextRun, failures, restarts>>,
         client' = client \/ Gone', r.step # "idle" \/ Gone'
  PROVE  PurgeOK' /\ OnTime'
<1>1. Purge \in Actors /\ Handlers \subseteq Actors
  BY DEF Actors
<1>2. tasks'[a] = r /\ \A b \in Actors \ {a} : tasks'[b] = tasks[b]
  BY BeginOK
<1>3. (Busy' => Busy) /\ (Busy => Busy' \/ Gone') /\ tasks'[Purge].overtaken = tasks[Purge].overtaken
  BY <1>1, <1>2 DEF Busy
<1>4. \A g \in Handlers : Commits(g)' => Commits(g)
  BY <1>1, <1>2 DEF Commits
<1>5. PurgeOK'
  BY <1>3, <1>4, PurgeOKKept
<1>6. OnTime'
  <2>1. CASE Gone'
    BY <2>1 DEF IInv, OnTime, Gone
  <2>2. CASE ~Gone'
    BY <2>2, <1>3 DEF IInv, OnTime, Gone
  <2> QED BY <2>1, <2>2
<1> QED BY <1>5, <1>6

-----------------------------------------------------------------------------
(* Requests that find the account *)

\* A request starts, with what it read.
LEMMA StartOK ==
  ASSUME IInv, NEW h \in Handlers, NEW r \in Task, Begin(h, r), ~At(h, "rmdirs"),
         UNCHANGED <<now, client, tickets, dirs, exported, nextRun, failures, restarts, raced, stray>>,
         JobOK(h)', DeletionOK(h)', PurgeOK'
  PROVE  IInv'
<1>1. h \in Actors /\ h # Purge /\ Purge \in Actors
  BY Bounds DEF Actors
<1>2. tasks'[Purge] = tasks[Purge]
  BY <1>1, BeginOK
<1>3. OnTime'
  BY <1>2, OnTimeKept DEF Busy
<1>4. TypeOK /\ exported \in BOOLEAN /\ stray \subseteq Tickets /\ nextRun \in 0..(MaxTime + 1) /\ failures \in 0..MaxSlips
  BY DEF IInv, TypeOK
<1> HIDE DEF TypeOK
<1> QED BY <1>1, <1>3, <1>4, StepOK DEF At

LEMMA UploadFindOK ==
  ASSUME IInv, NEW h \in Handlers, NEW t \in Tickets, UploadFind(h, t)
  PROVE  IInv'
<1> DEFINE r == [Idle EXCEPT !.job = "upload", !.step = "write", !.listed = {t}]
<1>1. r \in Task /\ r.job = "upload" /\ r.step = "write"
  BY IdleType DEF Idle, Task, Jobs, Steps
<1>2. Begin(h, r) /\ h \in Actors /\ h # Purge
  BY Bounds DEF UploadFind, Actors
<1> HIDE DEF r
<1>3. tasks'[h] = r
  BY <1>2, BeginOK
<1>4. JobOK(h)' /\ DeletionOK(h)'
  BY <1>1, <1>2, <1>3 DEF JobOK, DeletionOK, PastList
<1>5. PurgeOK'
  BY <1>1, <1>2, HandlerKeeps DEF UploadFind
<1> QED BY <1>1, <1>2, <1>4, <1>5, StartOK DEF UploadFind, At

LEMMA SoftFindOK ==
  ASSUME IInv, NEW h \in Handlers, SoftFind(h)
  PROVE  IInv'
<1> DEFINE r == [Idle EXCEPT !.job = "soft", !.step = "commit", !.stamp = now]
<1>0. now \in Days /\ now \in Nat
  BY Bounds DEF IInv, TypeOK, Days
<1>1. r \in Task /\ r.job = "soft" /\ r.step = "commit" /\ r.stamp = now
  BY <1>0, IdleType DEF Idle, Task, Jobs, Steps
<1>2. Begin(h, r) /\ h \in Actors /\ h # Purge /\ Purge \in Actors
  BY Bounds DEF SoftFind, Actors
<1> HIDE DEF r
<1>3. tasks'[h] = r /\ tasks'[Purge] = tasks[Purge]
  BY <1>2, BeginOK
<1>4. JobOK(h)' /\ DeletionOK(h)'
  BY <1>0, <1>1, <1>2, <1>3 DEF JobOK, DeletionOK, PastList, SoftFind
<1>5. PurgeOK'
  BY <1>3 DEF IInv, PurgeOK, Busy, Gone, SoftFind
<1> QED BY <1>1, <1>2, <1>4, <1>5, StartOK DEF SoftFind, At

LEMMA RestoreFindOK ==
  ASSUME IInv, NEW h \in Handlers, RestoreFind(h)
  PROVE  IInv'
<1> DEFINE r == [Idle EXCEPT !.job = "restore", !.step = "commit", !.stamp = client.at]
<1>0. now \in Nat /\ client.at \in Days /\ client.at \in Nat
  BY Bounds DEF IInv, TypeOK, Days
<1>1. r \in Task /\ r.job = "restore" /\ r.step = "commit"
  BY <1>0, IdleType DEF Idle, Task, Jobs, Steps
<1>2. Begin(h, r) /\ h \in Actors /\ h # Purge /\ Purge \in Actors
  BY Bounds DEF RestoreFind, Actors
<1> HIDE DEF r
<1>3. tasks'[h] = r /\ tasks'[Purge] = tasks[Purge]
  BY <1>2, BeginOK
<1>4. JobOK(h)' /\ DeletionOK(h)'
  BY <1>1, <1>2, <1>3 DEF JobOK, DeletionOK, PastList
<1>5. ~(Gone \/ (client.state = "hidden" /\ now > client.at + Window))
  BY <1>0, Bounds DEF Gone, RestoreFind, Recoverable
<1>6. PurgeOK'
  BY <1>3, <1>5 DEF IInv, PurgeOK, Busy, Gone, RestoreFind
<1> QED BY <1>1, <1>2, <1>4, <1>6, StartOK DEF RestoreFind, At

LEMMA ExportBeginOK ==
  ASSUME IInv, NEW h \in Handlers, ExportBegin(h)
  PROVE  IInv'
<1> DEFINE r == [Idle EXCEPT !.job = "export", !.step = "export"]
<1>1. r \in Task /\ r.job = "export" /\ r.step = "export"
  BY IdleType DEF Idle, Task, Jobs, Steps
<1>2. Begin(h, r) /\ h \in Actors /\ h # Purge
  BY Bounds DEF ExportBegin, Actors
<1> HIDE DEF r
<1>3. tasks'[h] = r
  BY <1>2, BeginOK
<1>4. JobOK(h)' /\ DeletionOK(h)'
  BY <1>1, <1>2, <1>3 DEF JobOK, DeletionOK, PastList
<1>5. PurgeOK'
  BY <1>1, <1>2, HandlerKeeps DEF ExportBegin
<1> QED BY <1>1, <1>2, <1>4, <1>5, StartOK DEF ExportBegin, At

LEMMA HardBeginOK ==
  ASSUME IInv, NEW h \in Handlers, HardBegin(h)
  PROVE  IInv'
<1> DEFINE r == [Idle EXCEPT !.job = "hard", !.step = "list"]
<1>1. r \in Task /\ r.job = "hard" /\ r.step = "list"
  BY IdleType DEF Idle, Task, Jobs, Steps
<1>2. Begin(h, r) /\ h \in Actors /\ h # Purge
  BY Bounds DEF HardBegin, Actors
<1> HIDE DEF r
<1>3. tasks'[h] = r
  BY <1>2, BeginOK
<1>4. JobOK(h)' /\ DeletionOK(h)'
  BY <1>1, <1>2, <1>3 DEF JobOK, DeletionOK, PastList, HardBegin
<1>5. PurgeOK'
  BY <1>1, <1>2, HandlerKeeps DEF HardBegin
<1> QED BY <1>1, <1>2, <1>4, <1>5, StartOK DEF HardBegin, At

-----------------------------------------------------------------------------
(* Uploads, exports and deletions *)

\* A step of a task that keeps its job, its time and its reading of the account.
LEMMA ProgressOK ==
  ASSUME IInv, NEW a \in Actors, NEW r \in Task, Begin(a, r),
         r.job = tasks[a].job, r.stamp = tasks[a].stamp, r.overtaken = tasks[a].overtaken,
         tasks[a].step \in {"export", "record", "list", "check"},
         r.step \in {"export", "record", "list", "cascade"},
         UNCHANGED <<now, client, tickets, dirs, nextRun, failures, restarts, raced, stray>>,
         exported => exported', exported' \in BOOLEAN,
         a # Purge => r.job \in {"export", "hard"}, r.step \in {"list", "cascade"} => r.job # "export",
         ~Gone /\ r.step \in {"list", "cascade"} => exported',
         ~Gone /\ PastList(a)' => Rows \subseteq r.listed \cup stray,
         r.job = "hard" /\ r.step \in {"record", "cascade"} => Rows \ r.content \subseteq stray
  PROVE  IInv'
<1>1. tasks'[a] = r
  BY BeginOK
<1>2. JobOK(a)
  BY DEF IInv
<1>3. JobOK(a)'
  BY <1>1, <1>2 DEF JobOK
<1>4. DeletionOK(a)'
  BY <1>1 DEF DeletionOK, Gone, Rows
<1>5. PurgeOK' /\ OnTime'
  BY DeletionKeeps
<1>6. stray \subseteq Tickets /\ nextRun \in 0..(MaxTime + 1) /\ failures \in 0..MaxSlips
  BY DEF IInv, TypeOK
<1> QED BY <1>3, <1>4, <1>5, <1>6, StepOK

LEMMA ExportReadOK ==
  ASSUME IInv, NEW a \in Actors, ExportRead(a)
  PROVE  IInv'
<1> DEFINE r == [tasks[a] EXCEPT !.step = "record", !.content = Rows]
<1>0. tasks[a] \in Task /\ exported \in BOOLEAN /\ JobOK(a) /\ DeletionOK(a)
  BY DEF IInv, TypeOK
<1>1. /\ r \in Task /\ r.job = tasks[a].job /\ r.stamp = tasks[a].stamp /\ r.overtaken = tasks[a].overtaken
      /\ r.step = "record" /\ r.content = Rows /\ r.listed = tasks[a].listed
  BY <1>0 DEF Task, Steps, Rows
<1>2. Begin(a, r) /\ tasks[a].step = "export"
  BY DEF ExportRead, At
<1> HIDE DEF r
<1>3. tasks'[a] = r
  BY <1>2, BeginOK
<1>4. a # Purge => r.job \in {"export", "hard"}
  BY <1>0, <1>1, <1>2 DEF JobOK
<1>5. ~Gone /\ PastList(a)' => Rows \subseteq r.listed \cup stray
  BY <1>0, <1>1, <1>2, <1>3 DEF PastList, DeletionOK
<1> QED BY <1>0, <1>1, <1>2, <1>4, <1>5, ProgressOK DEF ExportRead

\* An export on its own is over; a deletion goes on.
LEMMA ExportRecordOK ==
  ASSUME IInv, NEW a \in Actors, ExportRecord(a)
  PROVE  IInv'
<1>0. tasks[a] \in Task /\ exported \in BOOLEAN /\ JobOK(a) /\ DeletionOK(a) /\ At(a, "record")
  BY DEF IInv, TypeOK, ExportRecord
<1>1. CASE tasks[a].job = "export"
  <2>1. Begin(a, Idle) /\ a # Purge /\ a \in Handlers
    BY <1>0, <1>1 DEF ExportRecord, AfterExport, JobOK, At, Actors
  <2>2. tasks'[a] = Idle
    BY <2>1, BeginOK
  <2>3. JobOK(a)' /\ DeletionOK(a)'
    BY <2>1, <2>2, IdleType DEF JobOK, DeletionOK, PastList
  <2>4. PurgeOK' /\ OnTime'
    BY <2>1, IdleType, HandlerKeeps DEF ExportRecord
  <2>5. stray \subseteq Tickets /\ nextRun \in 0..(MaxTime + 1) /\ failures \in 0..MaxSlips
    BY DEF IInv, TypeOK
  <2> QED BY <1>0, <2>1, <2>3, <2>4, <2>5, IdleType, StepOK DEF ExportRecord, At
<1>2. CASE tasks[a].job = "hard"
  <2> DEFINE r == [tasks[a] EXCEPT !.step = "cascade"]
  <2>1. /\ r \in Task /\ r.job = tasks[a].job /\ r.stamp = tasks[a].stamp /\ r.overtaken = tasks[a].overtaken
        /\ r.step = "cascade" /\ r.content = tasks[a].content /\ r.listed = tasks[a].listed
    BY <1>0 DEF Task, Steps
  <2>2. Begin(a, r)
    BY <1>2 DEF ExportRecord, AfterExport
  <2> HIDE DEF r
  <2>3. ~Gone => Rows \subseteq r.listed \cup stray
    BY <1>0, <1>2, <2>1 DEF DeletionOK, PastList, At
  <2>4. Rows \ r.content \subseteq stray
    BY <1>0, <1>2, <2>1 DEF DeletionOK, At
  <2> QED BY <1>0, <1>2, <2>1, <2>2, <2>3, <2>4, ProgressOK DEF ExportRecord, At
<1>3. CASE tasks[a].job = "purge"
  <2> DEFINE r == [tasks[a] EXCEPT !.step = "list", !.content = {}]
  <2>1. /\ r \in Task /\ r.job = tasks[a].job /\ r.stamp = tasks[a].stamp /\ r.overtaken = tasks[a].overtaken
        /\ r.step = "list"
    BY <1>0 DEF Task, Steps
  <2>2. Begin(a, r) /\ a = Purge
    BY <1>0, <1>3 DEF ExportRecord, AfterExport, JobOK
  <2> HIDE DEF r
  <2>3. tasks'[a] = r
    BY <2>2, BeginOK
  <2>4. ~PastList(a)'
    BY <1>3, <2>1, <2>3 DEF PastList
  <2> QED BY <1>0, <1>3, <2>1, <2>2, <2>4, ProgressOK DEF ExportRecord, At
<1> QED BY <1>0, <1>1, <1>2, <1>3 DEF JobOK, At

\* The desk goes on to its final export, the purge to its cascade.
LEMMA ListOK ==
  ASSUME IInv, NEW a \in Actors, List(a)
  PROVE  IInv'
<1> DEFINE r == [tasks[a] EXCEPT !.listed = Listed,
                                 !.step = IF tasks[a].job = "hard" THEN "export" ELSE "cascade"]
<1>0. tasks[a] \in Task /\ exported \in BOOLEAN /\ JobOK(a) /\ DeletionOK(a)
  BY DEF IInv, TypeOK
<1>1. /\ r \in Task /\ r.job = tasks[a].job /\ r.stamp = tasks[a].stamp /\ r.overtaken = tasks[a].overtaken
      /\ r.step = IF tasks[a].job = "hard" THEN "export" ELSE "cascade"
      /\ r.listed = Rows
  BY <1>0 DEF Task, Steps, Rows, Listed
<1>2. Begin(a, r) /\ tasks[a].step = "list"
  BY DEF List, At
<1> HIDE DEF r
<1>3. tasks[a].job \in {"hard", "purge"} /\ (a # Purge => tasks[a].job = "hard")
  BY <1>0, <1>2 DEF JobOK
<1>4. ~Gone => exported
  BY <1>0, <1>2 DEF DeletionOK
<1> QED BY <1>0, <1>1, <1>2, <1>3, <1>4, ProgressOK DEF List

LEMMA PurgeCheckOK ==
  ASSUME IInv, PurgeCheck
  PROVE  IInv'
<1> DEFINE r == [tasks[Purge] EXCEPT !.step = Check]
<1>0. Purge \in Actors /\ tasks[Purge] \in Task /\ exported \in BOOLEAN /\ JobOK(Purge) /\ DeletionOK(Purge)
  BY DEF IInv, TypeOK, Actors
<1>1. /\ r \in Task /\ r.job = tasks[Purge].job /\ r.stamp = tasks[Purge].stamp
      /\ r.overtaken = tasks[Purge].overtaken /\ r.step = Check
  BY <1>0 DEF Task, Steps, Check
<1>2. Begin(Purge, r) /\ tasks[Purge].step = "check"
  BY DEF PurgeCheck, At, Goto
<1> HIDE DEF r
<1>3. tasks'[Purge] = r
  BY <1>0, <1>2, BeginOK
<1>4. tasks[Purge].job = "purge"
  BY <1>0, <1>2 DEF JobOK
<1>5. Check \in {"list", "export"} /\ (Check = "list" => exported)
  BY <1>0 DEF Check
<1>6. ~PastList(Purge)'
  BY <1>1, <1>3, <1>4, <1>5 DEF PastList
<1> QED BY <1>0, <1>1, <1>2, <1>4, <1>5, <1>6, ProgressOK DEF PurgeCheck

LEMMA DoneOK ==
  ASSUME IInv, NEW a \in Actors, Done(a)
  PROVE  IInv'
<1>0. JobOK(a) /\ DeletionOK(a) /\ exported \in BOOLEAN /\ stray \subseteq Tickets
      /\ nextRun \in 0..(MaxTime + 1) /\ failures \in 0..MaxSlips
  BY DEF IInv, TypeOK
<1>1. Begin(a, Idle) /\ tasks[a].step = "rmdirs" /\ tasks[a].listed = {} /\ (a = Purge => Gone)
  BY <1>0 DEF Done, At, DeletionOK, JobOK
<1>2. tasks'[a] = Idle
  BY <1>1, BeginOK
<1>3. JobOK(a)' /\ DeletionOK(a)'
  BY <1>2, IdleType DEF JobOK, DeletionOK, PastList
<1>4. PurgeOK'
  <2>1. \A b \in Actors \ {a} : tasks'[b] = tasks[b]
    BY <1>1, BeginOK
  <2>2. Purge \in Actors /\ Handlers \subseteq Actors
    BY DEF Actors
  <2>3. \A g \in Handlers : Commits(g)' => Commits(g)
    BY <1>2, <2>1, <2>2, IdleType DEF Commits
  <2>4. Busy' => Busy /\ tasks'[Purge] = tasks[Purge]
    BY <1>2, <2>1, <2>2, IdleType DEF Busy
  <2> QED BY <2>3, <2>4, PurgeOKKept DEF Done
<1>5. OnTime'
  <2>1. Busy => Busy' \/ Gone
    BY <1>1, BeginOK DEF Busy, Actors
  <2> QED BY <2>1, OnTimeKept DEF Done
<1> QED BY <1>0, <1>1, <1>3, <1>4, <1>5, IdleType, StepOK DEF Done

-----------------------------------------------------------------------------
(* The purge starts, and what fails *)

\* What the purge finds has expired, and no request is about to change it unless
\* it says so.
LEMMA PurgeFindOK ==
  ASSUME IInv, PurgeFind
  PROVE  IInv'
<1> DEFINE q == [Idle EXCEPT !.job = "purge", !.step = "check",
                          !.overtaken = \E h \in Handlers : At(h, "commit")]
<1> DEFINE r == IF Expired THEN q ELSE Idle
<1>0. /\ Purge \in Actors /\ Handlers \subseteq Actors /\ Purge \notin Handlers
      /\ exported \in BOOLEAN /\ stray \subseteq Tickets /\ failures \in 0..MaxSlips
  BY Bounds DEF IInv, TypeOK, Actors
<1>1. now \in Nat /\ now \in 0..MaxTime /\ nextRun \in Nat /\ client.at \in Nat /\ failures \in Nat /\ restarts \in Nat
      /\ nextRun <= now
  BY Bounds DEF IInv, TypeOK, Days, PurgeFind
<1>2. q \in Task /\ q.job = "purge" /\ q.step = "check" /\ (q.overtaken <=> \E h \in Handlers : At(h, "commit"))
  BY IdleType DEF Idle, Task, Jobs, Steps
<1>3. Begin(Purge, r) /\ tasks[Purge].step = "idle"
  BY DEF PurgeFind, At
<1> HIDE DEF q
<1>4. r \in Task /\ (Expired => r = q) /\ (~Expired => r = Idle)
  BY <1>2, IdleType
<1> HIDE DEF r
<1>5. tasks'[Purge] = r /\ \A b \in Actors \ {Purge} : tasks'[b] = tasks[b]
  BY <1>0, <1>3, BeginOK
<1>6. JobOK(Purge)' /\ DeletionOK(Purge)'
  BY <1>2, <1>4, <1>5, IdleType DEF JobOK, DeletionOK, PastList
<1>7. PurgeOK'
  <2>1. Busy' => Expired
    BY <1>4, <1>5, IdleType DEF Busy
  <2>2. Expired => client.state = "hidden" /\ now > client.at + Window
    BY <1>1, Bounds DEF Expired
  <2>3. Busy' /\ ~tasks'[Purge].overtaken => \A h \in Handlers : ~Commits(h)'
    BY <1>0, <1>2, <1>4, <1>5, <2>1 DEF Commits, At
  <2> QED BY <2>1, <2>2, <2>3 DEF PurgeOK, PurgeFind
<1>8. OnTime'
  <2>1. nextRun' = nextRun + 1
    BY DEF PurgeFind
  <2>2. client.state = "hidden" /\ now = client.at + Window + 1 + failures + restarts => Expired
    BY <1>1, Bounds DEF Expired
  <2>3. Expired => Busy'
    BY <1>2, <1>4, <1>5 DEF Busy
  <2>4. client.state = "hidden" => now <= client.at + Window + 1 + failures + restarts
    BY DEF IInv, OnTime
  <2>5. nextRun' <= now + 1
    BY <1>1, <2>1
  <2> QED BY <2>2, <2>3, <2>4, <2>5 DEF OnTime, PurgeFind
<1>9. nextRun' \in 0..(MaxTime + 1)
  BY <1>1, Bounds DEF PurgeFind
<1> QED BY <1>0, <1>3, <1>4, <1>6, <1>7, <1>8, <1>9, StepOK DEF PurgeFind

LEMMA AbortOK ==
  ASSUME IInv, NEW h \in Handlers, Abort(h)
  PROVE  IInv'
<1>0. h \in Actors /\ h # Purge
  BY Bounds DEF Actors
<1>1. exported \in BOOLEAN /\ stray \subseteq Tickets /\ nextRun \in 0..(MaxTime + 1)
      /\ failures \in 0..MaxSlips /\ tasks[h].listed \subseteq Tickets
  BY <1>0 DEF IInv, TypeOK, Task
<1>2. Begin(h, Idle)
  BY DEF Abort
<1>3. tasks'[h] = Idle
  BY <1>0, <1>2, BeginOK
<1>4. JobOK(h)' /\ DeletionOK(h)'
  BY <1>0, <1>3, IdleType DEF JobOK, DeletionOK, PastList
<1>5. PurgeOK' /\ OnTime'
  BY <1>2, IdleType, HandlerKeeps DEF Abort
<1>6. stray \subseteq stray' /\ stray' \subseteq Tickets /\ (tasks[h].step = "rmdirs" => tasks[h].listed \subseteq stray')
  BY <1>1 DEF Abort, At
<1> QED BY <1>0, <1>1, <1>2, <1>4, <1>5, <1>6, IdleType, StepOK DEF Abort

\* A failure moves the day the account must be gone by.
LEMMA LaterOnTime ==
  ASSUME IInv, failures' = failures + 1, UNCHANGED <<now, client, nextRun, restarts>>
  PROVE  OnTime' /\ (failures < MaxSlips => failures' \in 0..MaxSlips)
<1>1. now \in Nat /\ client.at \in Nat /\ failures \in Nat /\ restarts \in Nat
  BY Bounds DEF IInv, TypeOK, Days
<1>2. OnTime
  BY DEF IInv
<1> QED BY <1>1, <1>2, Bounds DEF OnTime

\* Nothing listed: every ticket's directory may stay.
LEMMA PurgeListFailsOK ==
  ASSUME IInv, PurgeListFails
  PROVE  IInv'
<1> DEFINE r == [tasks[Purge] EXCEPT !.step = "cascade"]
<1>0. Purge \in Actors /\ tasks[Purge] \in Task /\ JobOK(Purge) /\ DeletionOK(Purge)
  BY DEF IInv, TypeOK, Actors
<1>1. exported \in BOOLEAN /\ stray \subseteq Tickets /\ nextRun \in 0..(MaxTime + 1)
  BY DEF IInv, TypeOK
<1>2. r \in Task /\ r.job = tasks[Purge].job /\ r.step = "cascade" /\ r.overtaken = tasks[Purge].overtaken
  BY <1>0 DEF Task, Steps
<1>3. Begin(Purge, r) /\ tasks[Purge].step = "list"
  BY DEF PurgeListFails, At, Goto
<1> HIDE DEF r
<1>4. tasks[Purge].job = "purge"
  BY <1>0, <1>3 DEF JobOK
<1>5. tasks'[Purge] = r /\ \A b \in Actors \ {Purge} : tasks'[b] = tasks[b]
  BY <1>0, <1>3, BeginOK
<1>6. JobOK(Purge)'
  BY <1>2, <1>4, <1>5 DEF JobOK
<1>7. DeletionOK(Purge)'
  <2>1. ~Gone => exported
    BY <1>0, <1>3 DEF DeletionOK
  <2>2. Rows' \subseteq stray' /\ exported' = exported /\ (Gone' <=> Gone)
    BY DEF PurgeListFails, Rows, Gone
  <2> QED BY <1>2, <1>4, <1>5, <2>1, <2>2 DEF DeletionOK
<1>8. PurgeOK'
  <2>1. \A g \in Handlers : Commits(g)' => Commits(g)
    BY <1>5, Bounds DEF Commits, Actors
  <2>2. (Busy' => Busy) /\ tasks'[Purge].overtaken = tasks[Purge].overtaken
    BY <1>2, <1>3, <1>5 DEF Busy
  <2> QED BY <2>1, <2>2, PurgeOKKept DEF PurgeListFails
<1>9. OnTime' /\ failures' \in 0..MaxSlips
  BY LaterOnTime DEF PurgeListFails
<1>10. stray \subseteq stray' /\ stray' \subseteq Tickets
  BY <1>1 DEF PurgeListFails, Rows
<1> QED BY <1>0, <1>1, <1>2, <1>3, <1>6, <1>7, <1>8, <1>9, <1>10, StepOK DEF PurgeListFails

LEMMA PurgeFailsOK ==
  ASSUME IInv, PurgeFails
  PROVE  IInv'
<1>0. Purge \in Actors
  BY DEF Actors
<1>1. exported \in BOOLEAN /\ stray \subseteq Tickets /\ nextRun \in 0..(MaxTime + 1) /\ tasks[Purge].listed \subseteq Tickets
  BY <1>0 DEF IInv, TypeOK, Task
<1>2. Begin(Purge, Idle)
  BY DEF PurgeFails
<1>3. tasks'[Purge] = Idle
  BY <1>0, <1>2, BeginOK
<1>4. JobOK(Purge)' /\ DeletionOK(Purge)'
  BY <1>3, IdleType DEF JobOK, DeletionOK, PastList
<1>5. PurgeOK'
  BY <1>3, IdleType DEF PurgeOK, Busy
<1>6. OnTime' /\ failures' \in 0..MaxSlips
  BY LaterOnTime DEF PurgeFails
<1>7. stray \subseteq stray' /\ stray' \subseteq Tickets /\ (tasks[Purge].step = "rmdirs" => tasks[Purge].listed \subseteq stray')
  BY <1>1 DEF PurgeFails, At
<1> QED BY <1>0, <1>1, <1>2, <1>4, <1>5, <1>6, <1>7, IdleType, StepOK DEF PurgeFails

-----------------------------------------------------------------------------
(* Steps that change tickets, directories or the account *)

\* A ticket filed during a deletion is known to be stray.
LEMMA FileTicketOK ==
  ASSUME IInv, NEW t \in Tickets, FileTicket(t)
  PROVE  IInv'
<1> DEFINE new == [state |-> "shown", at |-> 0, late |-> client.state = "hidden"]
<1>0. 0 \in Days /\ now \in Days /\ TypeOK
  BY Bounds DEF IInv, TypeOK, Days
<1>1. new \in [state : {"none", "shown", "hidden", "gone"}, at : Days, late : BOOLEAN]
      /\ new.state = "shown" /\ (new.late <=> client.state = "hidden")
  BY <1>0
<1>2. tickets' = [tickets EXCEPT ![t] = new] /\ ~Gone /\ ~Gone'
  BY DEF FileTicket, Gone
<1> HIDE DEF new
<1>3. tickets'[t] = new /\ \A u \in Tickets \ {t} : tickets'[u] = tickets[u]
  BY <1>0, <1>2 DEF TypeOK
<1>4. stray \subseteq stray' /\ stray' \subseteq Tickets /\ \A a \in Actors : PastList(a) => t \in stray'
  BY <1>0 DEF TypeOK, FileTicket
<1>5. Rows \subseteq Rows' /\ Rows' \subseteq Rows \cup {t}
  BY <1>1, <1>3 DEF Rows
<1>6. TypeOK'
  BY <1>0, <1>1, <1>2, <1>4 DEF TypeOK, FileTicket
<1>7. TogetherUnlessRaced'
  BY <1>1, <1>3 DEF IInv, TogetherUnlessRaced, FileTicket
<1>8. DirsOK'
  BY <1>2, <1>4, <1>5 DEF IInv, DirsOK, Leaves, FileTicket
<1>9. PurgeOK' /\ OnTime'
  <2>1. \A g \in Handlers : Commits(g)' => Commits(g)
    BY DEF Commits, FileTicket
  <2>2. Busy' <=> Busy
    BY DEF Busy, FileTicket
  <2> QED BY <2>1, <2>2, PurgeOKKept, OnTimeKept DEF FileTicket
<1>10. ASSUME NEW b \in Actors PROVE JobOK(b)' /\ DeletionOK(b)'
  <2>1. PastList(b) => Rows' \subseteq Rows \cup stray'
    BY <1>4, <1>5
  <2> QED BY <1>2, <1>4, <2>1, OtherOK DEF FileTicket
<1> QED BY <1>6, <1>7, <1>8, <1>9, <1>10 DEF IInv

\* The rows of a ticket go; its directory is about to.
LEMMA DeleteTicketOK ==
  ASSUME IInv, NEW h \in Handlers, NEW t \in Tickets, DeleteTicket(h, t)
  PROVE  IInv'
<1> DEFINE r == [Idle EXCEPT !.job = "delete", !.step = "rmdirs", !.listed = {t}]
           row == [state |-> "gone", at |-> 0, late |-> FALSE]
<1>0. h \in Actors /\ h # Purge /\ TypeOK /\ 0 \in Days
  BY Bounds DEF IInv, TypeOK, Actors, Days
<1>1. /\ r \in Task /\ r.job = "delete" /\ r.step = "rmdirs" /\ r.listed = {t}
      /\ row \in [state : {"none", "shown", "hidden", "gone"}, at : Days, late : BOOLEAN]
      /\ row.state = "gone"
  BY <1>0, IdleType DEF Idle, Task, Jobs, Steps
<1>2. Begin(h, r) /\ tasks[h].step = "idle" /\ tickets' = [tickets EXCEPT ![t] = row] /\ t \in Rows
  BY DEF DeleteTicket, At
<1> HIDE DEF r, row
<1>3. tasks' = [tasks EXCEPT ![h] = r] /\ tasks'[h] = r /\ \A b \in Actors \ {h} : tasks'[b] = tasks[b]
  BY <1>0, <1>2, BeginOK
<1>4. tickets'[t] = row /\ \A u \in Tickets \ {t} : tickets'[u] = tickets[u]
  BY <1>0, <1>2 DEF TypeOK
<1>5. Rows' = Rows \ {t} /\ (Gone' <=> Gone) /\ ~Gone
  BY <1>1, <1>2, <1>4 DEF Rows, Gone, DeleteTicket, IInv, DirsOK
<1>6. TypeOK'
  BY <1>0, <1>1, <1>2, <1>3 DEF TypeOK, DeleteTicket
<1>7. TogetherUnlessRaced'
  BY <1>1, <1>4 DEF IInv, TogetherUnlessRaced, DeleteTicket
<1>8. DirsOK'
  <2>1. ASSUME NEW u \in dirs \ stray, u \notin Rows' PROVE Leaves(u)'
    <3>1. CASE u = t
      BY <3>1, <1>0, <1>1, <1>3 DEF Leaves
    <3>2. CASE u # t
      <4>1. PICK b \in Actors : tasks[b].step = "rmdirs" /\ u \in tasks[b].listed
        BY <2>1, <3>2, <1>5 DEF IInv, DirsOK, Leaves
      <4>2. b # h
        BY <4>1, <1>2
      <4> QED BY <4>1, <4>2, <1>3 DEF Leaves
    <3> QED BY <3>1, <3>2
  <2> QED BY <2>1, <1>5 DEF DirsOK, DeleteTicket
<1>9. PurgeOK' /\ OnTime'
  BY <1>1, <1>2, HandlerKeeps DEF DeleteTicket
<1>10. ASSUME NEW b \in Actors, b # h PROVE JobOK(b)' /\ DeletionOK(b)'
  <2>1. PastList(b) => Rows' \subseteq Rows \cup stray'
    BY <1>5
  <2> QED BY <1>3, <1>5, <1>10, <2>1, OtherOK DEF DeleteTicket
<1>11. JobOK(h)' /\ DeletionOK(h)'
  BY <1>0, <1>1, <1>3 DEF JobOK, DeletionOK, PastList
<1> QED BY <1>6, <1>7, <1>8, <1>9, <1>10, <1>11 DEF IInv

\* An attachment of a ticket that went meanwhile is stray too.
LEMMA UploadWriteOK ==
  ASSUME IInv, NEW h \in Handlers, UploadWrite(h)
  PROVE  IInv'
<1>0. h \in Actors /\ h # Purge /\ TypeOK /\ tasks[h].listed \subseteq Tickets
  BY Bounds DEF IInv, TypeOK, Actors, Task
<1>1. Begin(h, Idle) /\ tasks[h].step = "write"
  BY DEF UploadWrite, At
<1>2. tasks' = [tasks EXCEPT ![h] = Idle] /\ tasks'[h] = Idle /\ \A b \in Actors \ {h} : tasks'[b] = tasks[b]
  BY <1>0, <1>1, BeginOK
<1>3. Rows' = Rows /\ (Gone' <=> Gone)
  BY DEF UploadWrite, Rows, Gone
<1>4. dirs' = dirs \cup tasks[h].listed /\ stray' = stray \cup (tasks[h].listed \ Rows)
  BY DEF UploadWrite
<1>5. TypeOK'
  BY <1>0, <1>2, <1>4, IdleType DEF TypeOK, UploadWrite
<1>6. TogetherUnlessRaced'
  BY DEF IInv, TogetherUnlessRaced, UploadWrite
<1>7. DirsOK'
  <2>1. ASSUME NEW t \in dirs' \ stray', t \notin Rows PROVE Leaves(t)'
    <3>1. t \in dirs \ stray
      BY <2>1, <1>4
    <3>2. PICK b \in Actors : tasks[b].step = "rmdirs" /\ t \in tasks[b].listed
      BY <2>1, <3>1 DEF IInv, DirsOK, Leaves
    <3>3. b # h
      BY <3>2, <1>1
    <3> QED BY <3>2, <3>3, <1>2 DEF Leaves
  <2>2. Gone => Rows = {}
    BY DEF IInv, DirsOK
  <2> QED BY <2>1, <2>2, <1>3 DEF DirsOK
<1>8. PurgeOK' /\ OnTime'
  BY <1>1, IdleType, HandlerKeeps DEF UploadWrite
<1>9. ASSUME NEW b \in Actors, b # h PROVE JobOK(b)' /\ DeletionOK(b)'
  BY <1>2, <1>3, <1>4, <1>9, OtherOK DEF UploadWrite
<1>10. JobOK(h)' /\ DeletionOK(h)'
  BY <1>0, <1>2, IdleType DEF JobOK, DeletionOK, PastList
<1> QED BY <1>5, <1>6, <1>7, <1>8, <1>9, <1>10 DEF IInv

\* A soft deletion or a restore writes: the purge either has not read the account
\* or knows that it was overtaken.
LEMMA CommitOK ==
  ASSUME IInv, NEW h \in Handlers, At(h, "commit"), Begin(h, Idle),
         UNCHANGED <<now, dirs, exported, nextRun, failures, restarts, stray>>,
         TypeOK', TogetherUnlessRaced', OnTime', Rows' = Rows, Gone' <=> Gone
  PROVE  IInv'
<1>0. h \in Actors /\ h # Purge /\ Purge \in Actors
  BY Bounds DEF Actors
<1>1. tasks'[h] = Idle /\ \A b \in Actors \ {h} : tasks'[b] = tasks[b]
  BY <1>0, BeginOK
<1>2. DirsOK'
  <2>1. ASSUME NEW t \in dirs \ stray, t \notin Rows PROVE Leaves(t)'
    <3>1. PICK b \in Actors : tasks[b].step = "rmdirs" /\ t \in tasks[b].listed
      BY <2>1 DEF IInv, DirsOK, Leaves
    <3>2. b # h
      BY <3>1 DEF At
    <3> QED BY <3>1, <3>2, <1>1 DEF Leaves
  <2>2. Gone => Rows = {}
    BY DEF IInv, DirsOK
  <2> QED BY <2>1, <2>2 DEF DirsOK
<1>3. PurgeOK'
  <2>1. Busy => tasks[Purge].overtaken
    BY DEF IInv, PurgeOK, Commits, At
  <2> QED BY <2>1, <1>0, <1>1 DEF PurgeOK, Busy
<1>4. ASSUME NEW b \in Actors, b # h PROVE JobOK(b)' /\ DeletionOK(b)'
  BY <1>1, <1>4, OtherOK
<1>5. JobOK(h)' /\ DeletionOK(h)'
  BY <1>0, <1>1, IdleType DEF JobOK, DeletionOK, PastList
<1> QED BY <1>2, <1>3, <1>4, <1>5 DEF IInv

LEMMA SoftCommitOK ==
  ASSUME IInv, NEW h \in Handlers, SoftCommit(h)
  PROVE  IInv'
<1> DEFINE s == tasks[h].stamp
<1>0. h \in Actors /\ TypeOK /\ JobOK(h) /\ s \in Days /\ tasks[h].job = "soft"
  BY DEF IInv, TypeOK, Actors, Task, SoftCommit
<1>1. Begin(h, Idle) /\ At(h, "commit")
  BY DEF SoftCommit
<1>2. tasks' = [tasks EXCEPT ![h] = Idle]
  BY <1>0, <1>1, BeginOK
<1>3. s <= now /\ now <= s + 1
  BY <1>0 DEF JobOK
<1>4. tickets' = HideTickets(s)
      /\ client' = (IF Gone THEN client ELSE [state |-> "hidden", at |-> s])
      /\ raced' = (raced \/ client.state # "live")
  BY DEF SoftCommit, Gone
<1> HIDE DEF s
<1>5. TypeOK'
  <2>1. HideTickets(s) \in [Tickets -> [state : {"none", "shown", "hidden", "gone"}, at : Days, late : BOOLEAN]]
    BY <1>0 DEF TypeOK, HideTickets
  <2>2. client' \in [state : {"live", "hidden", "gone"}, at : Days]
    BY <1>0, <1>4 DEF TypeOK
  <2>3. raced' \in BOOLEAN
    BY <1>0, <1>4 DEF TypeOK
  <2> QED BY <1>0, <1>2, <1>4, <2>1, <2>2, <2>3, IdleType DEF TypeOK, SoftCommit
<1>6. TogetherUnlessRaced'
  <2>1. ASSUME ~raced' PROVE ~raced /\ client.state = "live" /\ client' = [state |-> "hidden", at |-> s]
    BY <2>1, <1>0, <1>4 DEF Gone, TypeOK
  <2>2. ASSUME ~raced', NEW t \in Tickets
        PROVE  tickets'[t].state # "shown" /\ (tickets'[t].state = "hidden" => tickets'[t].at = s)
    BY <2>1, <2>2, <1>4 DEF IInv, TogetherUnlessRaced, HideTickets
  <2> QED BY <2>1, <2>2 DEF TogetherUnlessRaced
<1>7. OnTime'
  <2>1. now \in Nat /\ s \in Nat /\ failures \in Nat /\ restarts \in Nat
    BY <1>0, Bounds DEF TypeOK, Days
  <2>2. now < s + Window + 1 + failures + restarts
    BY <2>1, <1>3, Bounds
  <2>3. CASE Gone
    BY <2>3, <1>4 DEF IInv, OnTime, Gone, SoftCommit
  <2>4. CASE ~Gone
    <3>1. client'.at = s /\ UNCHANGED <<now, nextRun, failures, restarts>> /\ nextRun <= now + 1
      BY <2>4, <1>4 DEF IInv, OnTime, SoftCommit
    <3>2. now' < client'.at + Window + 1 + failures' + restarts'
      BY <2>2, <3>1
    <3>3. now' <= client'.at + Window + 1 + failures' + restarts'
          /\ now' # client'.at + Window + 1 + failures' + restarts'
      BY <2>1, <3>1, <3>2, <1>0, Bounds DEF TypeOK
    <3> QED BY <3>1, <3>3 DEF OnTime
  <2> QED BY <2>3, <2>4
<1>8. Rows' = Rows /\ (Gone' <=> Gone)
  BY <1>4 DEF Rows, HideTickets, Gone
<1> QED BY <1>1, <1>5, <1>6, <1>7, <1>8, CommitOK DEF SoftCommit

LEMMA RestoreCommitOK ==
  ASSUME IInv, NEW h \in Handlers, RestoreCommit(h)
  PROVE  IInv'
<1> DEFINE s == tasks[h].stamp
<1>0. h \in Actors /\ TypeOK /\ 0 \in Days
  BY Bounds DEF IInv, TypeOK, Actors, Days
<1>1. Begin(h, Idle) /\ At(h, "commit")
  BY DEF RestoreCommit
<1>2. tasks' = [tasks EXCEPT ![h] = Idle]
  BY <1>0, <1>1, BeginOK
<1>4. tickets' = ShowTickets(s)
      /\ client' = (IF Gone THEN client ELSE [state |-> "live", at |-> 0])
      /\ raced' = (raced \/ client # [state |-> "hidden", at |-> s])
  BY DEF RestoreCommit, Gone
<1> HIDE DEF s
<1>5. TypeOK'
  <2>1. ShowTickets(s) \in [Tickets -> [state : {"none", "shown", "hidden", "gone"}, at : Days, late : BOOLEAN]]
    BY <1>0 DEF TypeOK, ShowTickets
  <2>2. client' \in [state : {"live", "hidden", "gone"}, at : Days]
    BY <1>0, <1>4 DEF TypeOK
  <2>3. raced' \in BOOLEAN
    BY <1>0, <1>4 DEF TypeOK
  <2> QED BY <1>0, <1>2, <1>4, <2>1, <2>2, <2>3, IdleType DEF TypeOK, RestoreCommit
<1>6. TogetherUnlessRaced'
  <2>1. ASSUME ~raced' PROVE ~raced /\ client.state = "hidden" /\ client.at = s /\ client'.state = "live"
    <3>1. client = [state |-> "hidden", at |-> s] /\ ~raced
      BY <2>1, <1>4
    <3>2. client.state = "hidden" /\ client.at = s
      BY <3>1
    <3> QED BY <3>1, <3>2, <1>4 DEF Gone
  <2>2. ASSUME ~raced', NEW t \in Tickets PROVE tickets'[t].state # "hidden"
    BY <2>1, <2>2, <1>0, <1>4 DEF IInv, TogetherUnlessRaced, ShowTickets, TypeOK
  <2> QED BY <2>1, <2>2 DEF TogetherUnlessRaced
<1>7. OnTime'
  BY <1>4 DEF IInv, OnTime, Gone, RestoreCommit
<1>8. Rows' = Rows /\ (Gone' <=> Gone)
  <2>1. \A t \in Tickets : tickets'[t].state \in {"shown", "hidden"} <=> tickets[t].state \in {"shown", "hidden"}
    BY <1>0, <1>4 DEF ShowTickets, TypeOK
  <2> QED BY <2>1, <1>4 DEF Rows, Gone
<1> QED BY <1>1, <1>5, <1>6, <1>7, <1>8, CommitOK DEF RestoreCommit

\* What had been listed covers what the cascade leaves on disk.
LEMMA CascadeOK ==
  ASSUME IInv, NEW a \in Actors, Cascade(a)
  PROVE  IInv'
<1> DEFINE r == [tasks[a] EXCEPT !.step = "rmdirs"]
<1>0. TypeOK /\ 0 \in Days /\ tasks[a] \in Task /\ JobOK(a) /\ DeletionOK(a)
  BY Bounds DEF IInv, TypeOK, Days
<1>1. /\ r \in Task /\ r.step = "rmdirs" /\ r.job = tasks[a].job /\ r.listed = tasks[a].listed
      /\ r.stamp = tasks[a].stamp /\ r.overtaken = tasks[a].overtaken
  BY <1>0 DEF Task, Steps
<1>2. Begin(a, r) /\ tasks[a].step = "cascade"
  BY DEF Cascade, At, Goto
<1> HIDE DEF r
<1>3. tasks' = [tasks EXCEPT ![a] = r] /\ tasks'[a] = r /\ \A b \in Actors \ {a} : tasks'[b] = tasks[b]
  BY <1>2, BeginOK
<1>4. Gone'
  BY DEF Cascade, Gone
<1>5. Rows' = {}
  BY DEF Cascade, Rows
<1>6. TypeOK'
  <2>1. client' \in [state : {"live", "hidden", "gone"}, at : Days]
    BY <1>0 DEF Cascade
  <2>2. tickets' \in [Tickets -> [state : {"none", "shown", "hidden", "gone"}, at : Days, late : BOOLEAN]]
    BY <1>0 DEF Cascade, TypeOK
  <2> QED BY <1>0, <1>1, <1>3, <2>1, <2>2 DEF TypeOK, Cascade
<1>7. TogetherUnlessRaced'
  BY <1>4 DEF TogetherUnlessRaced, Gone
<1>8. DirsOK'
  <2>1. ASSUME NEW t \in dirs \ stray PROVE Leaves(t)'
    <3>1. CASE t \notin Rows
      <4>1. PICK b \in Actors : tasks[b].step = "rmdirs" /\ t \in tasks[b].listed
        BY <3>1 DEF IInv, DirsOK, Leaves
      <4>2. b # a
        BY <4>1, <1>2
      <4> QED BY <4>1, <4>2, <1>3 DEF Leaves
    <3>2. CASE t \in Rows
      <4>1. PastList(a) /\ ~Gone
        BY <1>0, <1>2, <3>2 DEF JobOK, PastList, IInv, DirsOK
      <4>2. t \in tasks[a].listed
        BY <1>0, <3>2, <4>1 DEF DeletionOK
      <4> QED BY <4>2, <1>1, <1>3 DEF Leaves
    <3> QED BY <3>1, <3>2
  <2>2. dirs' = dirs /\ stray' = stray
    BY DEF Cascade
  <2> QED BY <2>1, <2>2, <1>4, <1>5 DEF DirsOK
<1>9. PurgeOK' /\ OnTime'
  BY <1>1, <1>2, <1>4, DeletionKeeps DEF Cascade
<1>10. ASSUME NEW b \in Actors, b # a PROVE JobOK(b)' /\ DeletionOK(b)'
  BY <1>3, <1>4, <1>5, <1>10, OtherOK DEF Cascade
<1>11. JobOK(a)' /\ DeletionOK(a)'
  <2>1. JobOK(a)'
    BY <1>0, <1>1, <1>2, <1>3 DEF JobOK, Cascade
  <2>2. DeletionOK(a)'
    BY <1>1, <1>3, <1>4, <1>5 DEF DeletionOK
  <2> QED BY <2>1, <2>2
<1> QED BY <1>6, <1>7, <1>8, <1>9, <1>10, <1>11 DEF IInv

LEMMA RemoveDirOK ==
  ASSUME IInv, NEW a \in Actors, NEW t \in Tickets, RemoveDir(a, t)
  PROVE  IInv'
<1> DEFINE r == Rest(a, t)
<1>0. TypeOK /\ tasks[a] \in Task /\ JobOK(a) /\ DeletionOK(a)
  BY DEF IInv, TypeOK
<1>1. Begin(a, r) /\ tasks[a].step = "rmdirs" /\ t \in tasks[a].listed /\ dirs' = dirs \ {t}
  BY DEF RemoveDir, At
<1>2. r \in Task /\ (r = Idle \/ (r.step = "rmdirs" /\ r.job = tasks[a].job /\ r.stamp = tasks[a].stamp))
  <2>1. CASE tasks[a].listed = {t}
    BY <2>1, IdleType DEF Rest
  <2>2. CASE tasks[a].listed # {t}
    BY <2>2, <1>0, <1>1 DEF Rest, Task
  <2> QED BY <2>1, <2>2
<1>3. \A u \in tasks[a].listed \ {t} : r.step = "rmdirs" /\ u \in r.listed
  <2>1. CASE tasks[a].listed = {t}
    BY <2>1
  <2>2. CASE tasks[a].listed # {t}
    BY <2>2, <1>0, <1>1 DEF Rest, Task
  <2> QED BY <2>1, <2>2
<1> HIDE DEF r
<1>4. tasks' = [tasks EXCEPT ![a] = r] /\ tasks'[a] = r /\ \A b \in Actors \ {a} : tasks'[b] = tasks[b]
  BY <1>1, BeginOK
<1>5. (Gone' <=> Gone) /\ Rows' = Rows /\ (a = Purge => Gone)
  BY <1>0, <1>1 DEF DeletionOK, JobOK, RemoveDir, Gone, Rows
<1>6. TypeOK'
  BY <1>0, <1>1, <1>2, <1>4 DEF TypeOK, RemoveDir
<1>7. TogetherUnlessRaced'
  BY DEF IInv, TogetherUnlessRaced, RemoveDir
<1>8. DirsOK'
  <2>1. ASSUME NEW u \in dirs' \ stray, u \notin Rows PROVE Leaves(u)'
    <3>1. u \in dirs /\ u # t
      BY <1>1
    <3>2. PICK b \in Actors : tasks[b].step = "rmdirs" /\ u \in tasks[b].listed
      BY <2>1, <3>1 DEF IInv, DirsOK, Leaves
    <3>3. CASE b = a
      BY <3>1, <3>2, <3>3, <1>3, <1>4 DEF Leaves
    <3>4. CASE b # a
      BY <3>2, <3>4, <1>4 DEF Leaves
    <3> QED BY <3>3, <3>4
  <2>2. stray' = stray /\ (Gone => Rows = {})
    BY DEF IInv, DirsOK, RemoveDir
  <2> QED BY <2>1, <2>2, <1>5 DEF DirsOK
<1>9. PurgeOK'
  <2>1. Purge \in Actors /\ Handlers \subseteq Actors
    BY DEF Actors
  <2>2. \A g \in Handlers : Commits(g)' => Commits(g)
    BY <1>1, <1>2, <1>4, <2>1, IdleType DEF Commits
  <2>3. (Busy' => Busy)
    BY <1>1, <1>4, <2>1 DEF Busy
  <2>4. Busy' => tasks'[Purge].overtaken = tasks[Purge].overtaken
    <3>1. CASE a # Purge
      BY <3>1, <1>4, <2>1
    <3>2. CASE a = Purge
      <4>1. r = Idle \/ r.overtaken = tasks[a].overtaken
        BY <1>0, <1>1 DEF Task, Rest, r
      <4> QED BY <3>2, <4>1, <1>4, IdleType DEF Busy
    <3> QED BY <3>1, <3>2
  <2> QED BY <2>2, <2>3, <2>4, PurgeOKKept DEF RemoveDir
<1>10. OnTime'
  <2>1. Busy => Busy' \/ Gone
    BY <1>4, <1>5 DEF Busy, Actors
  <2> QED BY <2>1, OnTimeKept DEF RemoveDir
<1>11. ASSUME NEW b \in Actors, b # a PROVE JobOK(b)' /\ DeletionOK(b)'
  BY <1>4, <1>5, <1>11, OtherOK DEF RemoveDir
<1>12. JobOK(a)' /\ DeletionOK(a)'
  <2>1. JobOK(a)'
    BY <1>0, <1>1, <1>2, <1>4, IdleType DEF JobOK, RemoveDir
  <2>2. DeletionOK(a)'
    <3>1. CASE r = Idle
      BY <3>1, <1>4, IdleType DEF DeletionOK, PastList
    <3>2. CASE r # Idle
      <4>1. r.step = "rmdirs" /\ r.job = tasks[a].job /\ (Gone \/ r.job = "delete")
        BY <3>2, <1>0, <1>1, <1>2 DEF DeletionOK
      <4> QED BY <4>1, <1>4, <1>5 DEF DeletionOK, PastList
    <3> QED BY <3>1, <3>2
  <2> QED BY <2>1, <2>2
<1> QED BY <1>6, <1>7, <1>8, <1>9, <1>10, <1>11, <1>12 DEF IInv

-----------------------------------------------------------------------------
(* Restarts and time *)

\* Every task is cut short; what a deletion had still to remove is stray.
LEMMA RestartOK ==
  ASSUME IInv, Restart
  PROVE  IInv'
<1>0. TypeOK /\ now \in Nat /\ now <= MaxTime /\ client.at \in Nat /\ failures \in Nat /\ restarts \in Nat
  BY Bounds DEF IInv, TypeOK, Days
<1>1. \A a \in Actors : tasks'[a] = Idle
  BY DEF Restart
<1>2. stray \subseteq stray' /\ stray' \subseteq Tickets
      /\ \A a \in Actors : tasks[a].step = "rmdirs" => tasks[a].listed \subseteq stray'
  BY <1>0 DEF Restart, At, TypeOK, Task
<1>3. TypeOK'
  <2>1. tasks' \in [Actors -> Task]
    BY IdleType DEF Restart
  <2>2. nextRun' \in 0..(MaxTime + 1) /\ restarts' \in 0..MaxSlips
    BY <1>0, Bounds DEF Restart, FirstRun
  <2> QED BY <1>0, <1>2, <2>1, <2>2 DEF TypeOK, Restart
<1>4. TogetherUnlessRaced'
  BY DEF IInv, TogetherUnlessRaced, Restart
<1>5. Rows' = Rows /\ (Gone' <=> Gone) /\ dirs' = dirs
  BY DEF Rows, Gone, Restart
<1>6. DirsOK'
  <2>1. dirs \subseteq Rows \cup stray'
    BY <1>2 DEF IInv, DirsOK, Leaves
  <2>2. Gone => Rows = {}
    BY DEF IInv, DirsOK
  <2> QED BY <2>1, <2>2, <1>5 DEF DirsOK
<1>7. PurgeOK'
  BY <1>1, IdleType DEF PurgeOK, Busy, Actors
<1>8. OnTime'
  <2>1. nextRun' = now + 1 /\ restarts' = restarts + 1 /\ UNCHANGED <<now, client, failures>>
    BY DEF Restart, FirstRun
  <2>2. client.state = "hidden" => now <= client.at + Window + 1 + failures + restarts
    BY DEF IInv, OnTime
  <2>3. client.state = "hidden" => /\ now <= client.at + Window + 1 + failures + restarts'
                                   /\ now # client.at + Window + 1 + failures + restarts'
    BY <1>0, <2>1, <2>2, Bounds
  <2>4. nextRun' <= now' + 1
    BY <1>0, <2>1
  <2> QED BY <2>1, <2>3, <2>4 DEF OnTime
<1>9. \A b \in Actors : JobOK(b)' /\ DeletionOK(b)'
  BY <1>1, IdleType DEF JobOK, DeletionOK, PastList
<1> QED BY <1>3, <1>4, <1>6, <1>7, <1>8, <1>9 DEF IInv

\* Midnight waits for the purge that is due, so an account still there has a day left.
LEMMA TickOK ==
  ASSUME IInv, Tick
  PROVE  IInv'
<1>0. /\ TypeOK /\ now \in Nat /\ nextRun \in Nat /\ client.at \in Nat /\ failures \in Nat /\ restarts \in Nat
      /\ OnTime /\ Purge \in Actors
  BY Bounds DEF IInv, TypeOK, Days, Actors
<1>1. /\ now' = now + 1 /\ now < MaxTime /\ ~Busy /\ nextRun > now
      /\ UNCHANGED <<client, tickets, dirs, exported, tasks, nextRun, failures, restarts, raced, stray>>
  BY DEF Tick, At, Busy
<1>2. TypeOK'
  <2>1. now' \in Days
    BY <1>0, <1>1, Bounds DEF Days
  <2> QED BY <1>0, <1>1, <2>1 DEF TypeOK
<1>3. Rows' = Rows /\ (Gone' <=> Gone) /\ (Busy' <=> Busy)
  BY <1>1 DEF Rows, Gone, Busy
<1>4. TogetherUnlessRaced' /\ DirsOK'
  BY <1>1, <1>3 DEF IInv, TogetherUnlessRaced, DirsOK, Leaves
<1>5. PurgeOK'
  BY <1>1, <1>3 DEF PurgeOK
<1>6. OnTime'
  <2>1. nextRun' = now + 1
    BY <1>0, <1>1 DEF OnTime
  <2>2. client.state = "hidden" => now < client.at + Window + 1 + failures + restarts
    <3>1. client.state = "hidden" => /\ now <= client.at + Window + 1 + failures + restarts
                                     /\ now # client.at + Window + 1 + failures + restarts
      <4>1. ~(nextRun <= now)
        BY <1>0, <1>1
      <4> QED BY <4>1, <1>0, <1>1 DEF OnTime
    <3> QED BY <3>1, <1>0, Bounds
  <2>3. client.state = "hidden" => now' <= client.at + Window + 1 + failures + restarts
    BY <2>2, <1>0, <1>1, Bounds
  <2>4. nextRun' <= now' + 1 /\ nextRun' <= now'
    BY <2>1, <1>0, <1>1
  <2> QED BY <2>3, <2>4, <1>1 DEF OnTime
<1>7. ASSUME NEW b \in Actors PROVE JobOK(b)' /\ DeletionOK(b)'
  <2>1. JobOK(b) /\ DeletionOK(b) /\ tasks[b].stamp \in Nat
    BY <1>0, Bounds DEF IInv, TypeOK, Task, Days
  <2>2. tasks[b].job = "soft" => b # Purge
    <3>1. JobOK(Purge)
      BY <1>0 DEF IInv
    <3> QED BY <3>1 DEF JobOK
  <2>3. tasks[b].job = "soft" => tasks[b].stamp <= now' /\ now' <= tasks[b].stamp + 1
    BY <2>1, <2>2, <1>0, <1>1 DEF Tick, Actors
  <2>4. JobOK(b)'
    BY <2>1, <2>3, <1>1 DEF JobOK
  <2>5. PastList(b)' <=> PastList(b)
    BY <1>1 DEF PastList
  <2>6. DeletionOK(b)'
    BY <2>1, <2>5, <1>1, <1>3 DEF DeletionOK
  <2> QED BY <2>4, <2>6
<1> QED BY <1>2, <1>4, <1>5, <1>6, <1>7 DEF IInv

-----------------------------------------------------------------------------
(* The theorems *)

LEMMA IInvStep == IInv /\ [Next]_vars => IInv'
<1> SUFFICES ASSUME IInv, [Next]_vars PROVE IInv'
  OBVIOUS
<1>1. ASSUME NEW t \in Tickets, FileTicket(t) PROVE IInv'
  BY <1>1, FileTicketOK
<1>2. ASSUME NEW h \in Handlers, HandlerStep(h) PROVE IInv'
  BY <1>2, UploadFindOK, UploadWriteOK, DeleteTicketOK, SoftFindOK, SoftCommitOK, RestoreFindOK, RestoreCommitOK,
     ExportBeginOK, HardBeginOK, AbortOK DEF HandlerStep
<1>3. ASSUME NEW a \in Actors, DeletionStep(a) PROVE IInv'
  BY <1>3, ExportReadOK, ExportRecordOK, ListOK, CascadeOK, RemoveDirOK, DoneOK DEF DeletionStep
<1>4. CASE PurgeFind \/ PurgeCheck \/ PurgeListFails \/ PurgeFails
  BY <1>4, PurgeFindOK, PurgeCheckOK, PurgeListFailsOK, PurgeFailsOK
<1>5. CASE Restart \/ Tick
  BY <1>5, RestartOK, TickOK
<1>6. CASE UNCHANGED vars
  <2>1. TypeOK' /\ TogetherUnlessRaced'
    BY <1>6 DEF vars, IInv, TypeOK, TogetherUnlessRaced
  <2>2. DirsOK' /\ PurgeOK' /\ OnTime'
    BY <1>6 DEF vars, IInv, DirsOK, Leaves, PurgeOK, OnTime, Gone, Rows, Busy, Commits
  <2>3. ASSUME NEW b \in Actors PROVE JobOK(b)' /\ DeletionOK(b)'
    BY <1>6, OtherOK DEF vars, Gone, Rows
  <2> QED BY <2>1, <2>2, <2>3 DEF IInv
<1> QED BY <1>1, <1>2, <1>3, <1>4, <1>5, <1>6 DEF Next

\* The invariant holds in every state: the parts below are read off it.
THEOREM Invariance == Spec => []IInv
BY IInvInit, IInvStep, PTL DEF Spec

\* A client and its tickets are hidden and shown together, unless two requests
\* changed the account on the same reading of it (soft_delete_client,
\* restore_client), and a deleted client leaves only the directories of what
\* overlapped or cut short its deletion.
THEOREM InvHolds == Spec => []Inv
<1>1. IInv => Inv
  <2>1. IInv => DirsGoUnlessRaced
    BY DEF IInv, DirsOK, Leaves, DirsGoUnlessRaced, Gone, At
  <2> QED BY <2>1 DEF IInv, Inv
<1> QED BY <1>1, Invariance, PTL

\* A soft-deleted account outlives its window by a day, and by one more for every
\* failed run of the purge and every restart (hard_delete_expired_users).
THEOREM PurgedOnTimeHolds == Spec => []PurgedOnTime
<1>1. IInv => PurgedOnTime
  <2> SUFFICES ASSUME IInv, client.state = "hidden"
               PROVE  now - client.at <= Window + 1 + failures + restarts
    BY DEF PurgedOnTime
  <2>1. now \in Nat /\ client.at \in Nat /\ failures \in Nat /\ restarts \in Nat
    BY Bounds DEF IInv, TypeOK, Days
  <2>2. now <= client.at + Window + 1 + failures + restarts
    BY DEF IInv, OnTime
  <2> QED BY <2>1, <2>2, Bounds
<1> QED BY <1>1, Invariance, PTL

\* Nothing is deleted for good without a recorded export, and the purge deletes
\* no account that was restored unless the request had read it before the purge
\* did (hard_delete_client, hard_delete_expired_users).
THEOREM PurgeSafeHolds == Spec => PurgeSafe
<1>1. ASSUME IInv, NEW a \in Actors, Cascade(a), client.state # "gone"
      PROVE  exported /\ (tasks[a].job = "hard" => Rows \ tasks[a].content \subseteq stray)
  <2>1. DeletionOK(a) /\ tasks[a].step = "cascade" /\ ~Gone
    BY <1>1 DEF IInv, Cascade, At, Gone
  <2> QED BY <2>1 DEF DeletionOK
<1>2. ASSUME IInv, Cascade(Purge), client.state # "gone"
      PROVE  Expired \/ tasks[Purge].overtaken
  <2>1. now \in Nat /\ client.at \in Nat
    BY <1>2, Bounds DEF IInv, TypeOK, Days
  <2>2. Busy /\ ~Gone
    BY <1>2 DEF Busy, Gone, Cascade, At
  <2>3. ~tasks[Purge].overtaken => client.state = "hidden" /\ now > client.at + Window
    BY <1>2, <2>2 DEF IInv, PurgeOK
  <2>4. now > client.at + Window => now - client.at > Window
    BY <2>1, Bounds
  <2> QED BY <2>3, <2>4 DEF Expired
<1>3. IInv /\ [Next]_vars =>
        /\ [\A a \in Actors : Cascade(a) /\ client.state # "gone" =>
              /\ exported
              /\ tasks[a].job = "hard" => Rows \ tasks[a].content \subseteq stray]_vars
        /\ [Cascade(Purge) /\ client.state # "gone" => Expired \/ tasks[Purge].overtaken]_vars
  BY <1>1, <1>2
<1> QED BY <1>3, Invariance, PTL DEF Spec, PurgeSafe, NothingDeletedUnexported, PurgeSparesRestored
=============================================================================
