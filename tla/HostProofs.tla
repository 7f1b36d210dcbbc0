----------------------------- MODULE HostProofs -----------------------------
(***************************************************************************)
(* Proofs about the external processes and services mdrack drives: the     *)
(* CUDA encoder host (CudaHost), the raw media helper (RawMedia), the      *)
(* embedding provider (LMStudio) and the model switch (ModelSwitch).       *)
(* Each part gives an inductive invariant of one component and then what   *)
(* Hosts promises of it, for every number of callers and tasks, every      *)
(* limit and every batch size.                                             *)
(***************************************************************************)
EXTENDS Hosts, Integers, FiniteSetTheorems, TLAPS

-----------------------------------------------------------------------------
(***************************************************************************)
(* The CUDA encoder host.  The lock is the point: a call that waits for it *)
(* waits once and has started nothing, so the one that gets it finds no    *)
(* helper alive but those a job refused to end, and after aclose has held  *)
(* it every call still waiting finds the provider closed.                  *)
(***************************************************************************)

\* What the host knows of a call by where the call is.
CallSound(c) ==
    LET t == cudaTasks[c]
    IN  /\ t.pc = "polling" => cudaHolder = c
        /\ t.pc \in {"idle", "queued"} => t.tree = {} /\ ~t.directory
        /\ t.pc # "ended" => t.outcome = "none"
        /\ t.pc = "ended" => \/ t.outcome = "not_quiescent"
                             \/ t.tree = {} /\ (t.directory => t.outcome = "failed")
        /\ t.outcome = "completed" =>
               /\ t.exit = "zero" /\ ~t.flooded
               /\ t.wire \in (IF Extended THEN {"own"} ELSE {"own", "foreign"})

\* A caller waits at most once, and only when it is queued; aclose has
\* closed the provider before it waits.
WaitersSound ==
    /\ \A i \in DOMAIN cudaWaiters :
           cudaWaiters[i] \in Callers => cudaTasks[cudaWaiters[i]].pc = "queued"
    /\ \A i, j \in DOMAIN cudaWaiters :
           cudaWaiters[i] \in Callers /\ cudaWaiters[i] = cudaWaiters[j] => i = j
    /\ \A i \in DOMAIN cudaWaiters : cudaWaiters[i] = Cuda!Closer => cudaClosed

CudaInv ==
    /\ Cuda!TypeOK
    /\ cudaCloser # "idle" => cudaClosed
    /\ WaitersSound
    /\ \A c \in Callers : CallSound(c)
    /\ Cuda!ClosedIsQuiet

\* Two sequences in a row.
LEMMA Joined ==
    ASSUME NEW S, NEW a \in Seq(S), NEW b \in Seq(S)
    PROVE  /\ a \o b \in Seq(S) /\ Len(a \o b) = Len(a) + Len(b)
           /\ \A k \in 1 .. Len(a) : (a \o b)[k] = a[k]
  OBVIOUS

LEMMA Behind ==
    ASSUME NEW S, NEW a \in Seq(S), NEW b \in Seq(S), NEW k \in 1 .. Len(b)
    PROVE  (a \o b)[Len(a) + k] = b[k]
  OBVIOUS

\* Cuda!RemoveAt leaves the others, in their order.
LEMMA RemovedAt ==
    ASSUME NEW S, NEW s \in Seq(S), NEW i \in DOMAIN s
    PROVE  /\ Cuda!RemoveAt(s, i) \in Seq(S)
           /\ Len(Cuda!RemoveAt(s, i)) = Len(s) - 1
           /\ \A j \in 1 .. Len(s) - 1 : Cuda!RemoveAt(s, i)[j] = s[IF j < i THEN j ELSE j + 1]
  <1> DEFINE front == SubSeq(s, 1, i - 1)
             back == SubSeq(s, i + 1, Len(s))
  <1>1. /\ i \in 1 .. Len(s) /\ Len(s) \in Nat
        /\ front \in Seq(S) /\ Len(front) = i - 1 /\ \A j \in 1 .. i - 1 : front[j] = s[j]
    OBVIOUS
  <1>2. back \in Seq(S) /\ Len(back) = Len(s) - i /\ \A j \in 1 .. Len(s) - i : back[j] = s[i + j]
    OBVIOUS
  <1>3. Cuda!RemoveAt(s, i) = front \o back
    BY DEF Cuda!RemoveAt
  <1> HIDE DEF front, back
  <1>4. front \o back \in Seq(S) /\ Len(front \o back) = Len(s) - 1
    BY <1>1, <1>2
  <1>5. ASSUME NEW j \in 1 .. Len(s) - 1
        PROVE  (front \o back)[j] = s[IF j < i THEN j ELSE j + 1]
    <2>0. PICK n \in Nat : n = Len(s)
      BY <1>1
    <2>. i \in Int /\ j \in Int /\ j \in 1 .. n - 1 /\ i \in 1 .. n
      BY <1>1, <2>0
    <2>1. CASE j < i
      BY <2>1, <1>1, <1>2
    <2>2. CASE ~(j < i)
      <3>1. PICK k \in 1 .. n - i : k = j - (i - 1)
        BY <2>2
      <3>2. i + k = j + 1 /\ (i - 1) + k = j
        BY <3>1
      <3>3. back[k] = s[i + k]
        BY <1>2, <2>0
      <3>4. k \in 1 .. Len(back) /\ front \in Seq(S) /\ back \in Seq(S)
        BY <1>1, <1>2, <2>0
      <3>5. (front \o back)[Len(front) + k] = back[k]
        BY ONLY <3>4, Behind
      <3> QED
        BY <1>1, <3>2, <3>3, <3>5, <2>2
    <2> QED
      BY <2>1, <2>2
  <1> QED
    BY <1>3, <1>4, <1>5

\* The lock passes on: those who still wait do so soundly.
LEMMA WaitersTail ==
    ASSUME cudaWaiters \in Seq(Callers \cup {Cuda!Closer}), cudaWaiters # <<>>, WaitersSound,
           cudaTasks \in [Callers -> Cuda!Task],
           cudaTasks' \in [Callers -> Cuda!Task],
           cudaWaiters' = Tail(cudaWaiters), cudaClosed' = cudaClosed,
           \A c \in Callers : c # Head(cudaWaiters) => cudaTasks'[c] = cudaTasks[c]
    PROVE  WaitersSound'
  <1>1. /\ Len(cudaWaiters') = Len(cudaWaiters) - 1
        /\ \A i \in DOMAIN cudaWaiters' : i + 1 \in DOMAIN cudaWaiters /\ cudaWaiters'[i] = cudaWaiters[i + 1]
    OBVIOUS
  <1>2. \A i \in DOMAIN cudaWaiters' : cudaWaiters'[i] \in Callers => cudaWaiters'[i] # Head(cudaWaiters)
    BY <1>1 DEF WaitersSound
  <1> QED
    BY <1>1, <1>2 DEF WaitersSound

\* Where the record of a call ends up after each step that changes it.
LEMMA EndedTask ==
    ASSUME NEW t \in Cuda!Task, NEW why \in Cuda!Errors \cup {"completed"}
    PROVE  LET u == Cuda!Ended(t, why)
           IN  /\ u \in Cuda!Task /\ u.pc = "ended" /\ u.outcome = why
               /\ u.tree = t.tree /\ u.directory = t.directory
  BY DEF Cuda!Task, Cuda!Ended

LEMMA CleanedTask ==
    ASSUME NEW t \in Cuda!Task, NEW why \in Cuda!Errors \cup {"completed"},
           NEW u \in Cuda!Cleanup(t, why)
    PROVE  /\ u \in Cuda!Task /\ u.pc = "ended"
           /\ \/ u.outcome = why /\ u.tree = {} /\ ~u.directory
              \/ u.outcome = "failed" /\ u.tree = {}
              \/ u.outcome = "not_quiescent"
           /\ u.exit = t.exit /\ u.flooded = t.flooded /\ u.wire = t.wire
  <1>1. CASE u = Cuda!Quiesced(t, why)
    BY <1>1 DEF Cuda!Task, Cuda!Quiesced
  <1>2. CASE u = Cuda!NotQuiesced(t)
    BY <1>2 DEF Cuda!Task, Cuda!NotQuiesced, Cuda!Errors
  <1>3. CASE u = Cuda!DirectoryStays(t)
    BY <1>3 DEF Cuda!Task, Cuda!DirectoryStays, Cuda!Errors
  <1> QED
    BY <1>1, <1>2, <1>3 DEF Cuda!Cleanup

\* One call's record is replaced.
LEMMA OneCall ==
    ASSUME cudaTasks \in [Callers -> Cuda!Task], NEW c \in Callers, NEW u \in Cuda!Task,
           cudaTasks' = [cudaTasks EXCEPT ![c] = u]
    PROVE  /\ cudaTasks' \in [Callers -> Cuda!Task]
           /\ cudaTasks'[c] = u
           /\ \A d \in Callers : d # c => cudaTasks'[d] = cudaTasks[d]
  OBVIOUS

\* A call that holds the lock ends, whatever it was doing.
LEMMA LeaveKeeps ==
    ASSUME Cuda!CallersAssumption, CudaInv, NEW c \in Callers, cudaTasks[c].pc = "polling",
           NEW why \in Cuda!Errors \cup {"completed"},
           why = "completed" => /\ cudaTasks[c].exit = "zero"
                                /\ Cuda!ResultAccepted(cudaTasks[c]),
           Cuda!Leave(c, Cuda!Cleanup(cudaTasks[c], why))
    PROVE  CudaInv'
  <1>1. PICK u \in Cuda!Cleanup(cudaTasks[c], why) : cudaTasks' = [cudaTasks EXCEPT ![c] = u]
    BY DEF Cuda!Leave
  <1>2. /\ cudaHolder = c /\ cudaHolder' = Cuda!NoTask
        /\ UNCHANGED <<cudaClosed, cudaWaiters, cudaCloser, pinsIntact>>
    BY DEF Cuda!Leave, CudaInv, CallSound
  <1>3. cudaTasks \in [Callers -> Cuda!Task] /\ cudaTasks[c] \in Cuda!Task
    BY DEF CudaInv, Cuda!TypeOK
  <1>4. /\ u \in Cuda!Task /\ u.pc = "ended"
        /\ \/ u.outcome = why /\ u.tree = {} /\ ~u.directory
           \/ u.outcome = "failed" /\ u.tree = {}
           \/ u.outcome = "not_quiescent"
        /\ u.exit = cudaTasks[c].exit /\ u.flooded = cudaTasks[c].flooded /\ u.wire = cudaTasks[c].wire
    BY <1>3, CleanedTask
  <1>5. /\ cudaTasks' \in [Callers -> Cuda!Task]
        /\ cudaTasks'[c] = u
        /\ \A d \in Callers : d # c => cudaTasks'[d] = cudaTasks[d]
    BY <1>1, <1>3, <1>4, OneCall
  <1>6. Cuda!TypeOK'
    BY <1>2, <1>5 DEF CudaInv, Cuda!TypeOK
  <1>7. WaitersSound'
    BY <1>2, <1>5 DEF CudaInv, WaitersSound, Cuda!TypeOK
  <1>8. CallSound(c)'
    <2>1. u.outcome = "completed" => why = "completed"
      BY <1>4
    <2> QED
      BY <1>4, <1>5, <2>1 DEF CallSound, Cuda!ResultAccepted
  <1>9. ASSUME NEW d \in Callers, d # c
        PROVE  CallSound(d)'
    BY <1>2, <1>5, <1>9 DEF CallSound, CudaInv
  <1>10. Cuda!ClosedIsQuiet'
    BY <1>2, <1>4, <1>5 DEF CudaInv, Cuda!ClosedIsQuiet, CallSound
  <1> QED
    BY <1>2, <1>6, <1>7, <1>8, <1>9, <1>10 DEF CudaInv

\* The head of the queue ends without having left a process behind, or with
\* a job that refused to become quiescent.
LEMMA HeadEnds ==
    ASSUME Cuda!CallersAssumption, CudaInv, NEW c \in Callers, Cuda!AtHead(c),
           cudaWaiters' = Tail(cudaWaiters),
           NEW u \in Cuda!Task, u.pc = "ended", u.outcome # "completed",
           u.outcome = "not_quiescent" \/ (u.tree = {} /\ (u.directory => u.outcome = "failed")),
           cudaTasks' = [cudaTasks EXCEPT ![c] = u],
           UNCHANGED <<cudaClosed, cudaHolder, cudaCloser, pinsIntact>>
    PROVE  CudaInv'
  <1>1. cudaTasks \in [Callers -> Cuda!Task]
    BY DEF CudaInv, Cuda!TypeOK
  <1>2. /\ cudaTasks' \in [Callers -> Cuda!Task]
        /\ cudaTasks'[c] = u
        /\ \A d \in Callers : d # c => cudaTasks'[d] = cudaTasks[d]
    BY <1>1, OneCall
  <1>3. Cuda!TypeOK'
    BY <1>2 DEF CudaInv, Cuda!TypeOK, Cuda!AtHead
  <1>4. WaitersSound'
    BY <1>1, <1>2, WaitersTail DEF CudaInv, Cuda!TypeOK, Cuda!AtHead
  <1>5. ASSUME NEW d \in Callers
        PROVE  CallSound(d)'
    BY <1>2 DEF CudaInv, CallSound
  <1>6. Cuda!ClosedIsQuiet'
    BY <1>2 DEF CudaInv, Cuda!ClosedIsQuiet
  <1> QED
    BY <1>3, <1>4, <1>5, <1>6 DEF CudaInv

LEMMA HeadQueued ==
    ASSUME CudaInv, NEW c \in Callers, Cuda!AtHead(c)
    PROVE  /\ cudaTasks[c] \in Cuda!Task /\ cudaTasks[c].pc = "queued"
           /\ cudaTasks[c].tree = {} /\ ~cudaTasks[c].directory /\ cudaTasks[c].outcome = "none"
  <1>1. 1 \in DOMAIN cudaWaiters /\ cudaWaiters[1] = c
    BY DEF CudaInv, Cuda!TypeOK, Cuda!AtHead
  <1> QED
    BY <1>1 DEF CudaInv, Cuda!TypeOK, WaitersSound, CallSound

LEMMA HeadKeeps ==
    ASSUME Cuda!CallersAssumption, CudaInv, NEW c \in Callers,
           Cuda!Refuse(c) \/ Cuda!StartFails(c) \/ Cuda!DispatchFails(c) \/ Cuda!Start(c)
    PROVE  CudaInv'
  <1>1. CASE Cuda!Refuse(c)
    <2>1. Cuda!AtHead(c) /\ Cuda!Refused(c) \in Cuda!Errors
      BY <1>1 DEF Cuda!Refuse, Cuda!Refused, Cuda!Errors
    <2>2. PICK u : u = Cuda!Ended(cudaTasks[c], Cuda!Refused(c))
      OBVIOUS
    <2>3. /\ u \in Cuda!Task /\ u.pc = "ended" /\ u.outcome \in Cuda!Errors
          /\ u.tree = {} /\ ~u.directory
      BY <2>1, <2>2, HeadQueued, EndedTask
    <2>4. u.outcome # "completed"
      BY <2>3 DEF Cuda!Errors
    <2>5. cudaTasks' = [cudaTasks EXCEPT ![c] = u]
      BY <1>1, <2>2 DEF Cuda!Refuse
    <2> QED
      BY <1>1, <2>1, <2>3, <2>4, <2>5, HeadEnds DEF Cuda!Refuse
  <1>2. CASE Cuda!StartFails(c)
    <2>1. /\ Cuda!AtHead(c) /\ cudaWaiters' = Tail(cudaWaiters)
          /\ UNCHANGED <<cudaClosed, cudaHolder, cudaCloser, pinsIntact>>
      BY <1>2 DEF Cuda!StartFails
    <2>2. CASE \E why \in {"identity_changed", "failed"} :
                   cudaTasks' = [cudaTasks EXCEPT ![c] = Cuda!Ended(@, why)]
      <3>1. PICK why \in {"identity_changed", "failed"} :
                cudaTasks' = [cudaTasks EXCEPT ![c] = Cuda!Ended(@, why)]
        BY <2>2
      <3>2. PICK u : u = Cuda!Ended(cudaTasks[c], why)
        OBVIOUS
      <3>3. u \in Cuda!Task /\ u.pc = "ended" /\ u.outcome = why /\ u.tree = {} /\ ~u.directory
        BY <2>1, <3>2, HeadQueued, EndedTask DEF Cuda!Errors
      <3>4. cudaTasks' = [cudaTasks EXCEPT ![c] = u]
        BY <3>1, <3>2
      <3> QED
        BY <2>1, <3>3, <3>4, HeadEnds
    <2>3. CASE cudaTasks' = [cudaTasks EXCEPT ![c] = Cuda!DirectoryStays([@ EXCEPT !.directory = TRUE])]
      <3>1. PICK u : u = Cuda!DirectoryStays([cudaTasks[c] EXCEPT !.directory = TRUE])
        OBVIOUS
      <3>2. u \in Cuda!Task /\ u.pc = "ended" /\ u.outcome = "failed" /\ u.tree = {}
        BY <2>1, <3>1, HeadQueued DEF Cuda!DirectoryStays, Cuda!Task, Cuda!Errors
      <3>3. cudaTasks' = [cudaTasks EXCEPT ![c] = u]
        BY <2>3, <3>1
      <3> QED
        BY <2>1, <3>2, <3>3, HeadEnds
    <2> QED
      BY <1>2, <2>2, <2>3 DEF Cuda!StartFails
  <1>3. CASE Cuda!DispatchFails(c)
    <2>1. Cuda!AtHead(c) /\ cudaWaiters' = Tail(cudaWaiters)
          /\ UNCHANGED <<cudaClosed, cudaHolder, cudaCloser, pinsIntact>>
      BY <1>3 DEF Cuda!DispatchFails
    <2>2. PICK tree \in {{}, {"helper"}} :
              \E after \in Cuda!Cleanup([cudaTasks[c] EXCEPT !.tree = tree, !.job = TRUE,
                                                            !.directory = TRUE], "failed") :
                  cudaTasks' = [cudaTasks EXCEPT ![c] = after]
      BY <1>3 DEF Cuda!DispatchFails
    <2>3. PICK t : t = [cudaTasks[c] EXCEPT !.tree = tree, !.job = TRUE, !.directory = TRUE]
      OBVIOUS
    <2>4. t \in Cuda!Task
      BY <2>1, <2>3, HeadQueued DEF Cuda!Task
    <2>5. PICK u \in Cuda!Cleanup(t, "failed") : cudaTasks' = [cudaTasks EXCEPT ![c] = u]
      BY <2>2, <2>3
    <2>6. "failed" \in Cuda!Errors \cup {"completed"}
      BY DEF Cuda!Errors
    <2>7. /\ u \in Cuda!Task /\ u.pc = "ended" /\ u.outcome \in {"failed", "not_quiescent"}
          /\ u.outcome = "not_quiescent" \/ (u.tree = {} /\ (u.directory => u.outcome = "failed"))
      BY <2>4, <2>6, CleanedTask
    <2> QED
      BY <2>1, <2>5, <2>7, HeadEnds
  <1>4. CASE Cuda!Start(c)
    <2>1. PICK u : u = [cudaTasks[c] EXCEPT !.pc = "polling", !.tree = {"helper"},
                                           !.job = TRUE, !.directory = TRUE]
      OBVIOUS
    <2>2. /\ Cuda!AtHead(c) /\ ~cudaClosed
          /\ cudaWaiters' = Tail(cudaWaiters) /\ cudaHolder' = c
          /\ cudaTasks' = [cudaTasks EXCEPT ![c] = u]
          /\ UNCHANGED <<cudaClosed, cudaCloser, pinsIntact>>
      BY <1>4, <2>1 DEF Cuda!Start, Cuda!Refused
    <2>3. u \in Cuda!Task /\ u.pc = "polling" /\ u.outcome = "none"
      BY <2>1, <2>2, HeadQueued DEF Cuda!Task
    <2>4. cudaTasks \in [Callers -> Cuda!Task] /\ cudaHolder = Cuda!NoTask
      BY <2>2 DEF CudaInv, Cuda!TypeOK, Cuda!AtHead
    <2>5. /\ cudaTasks' \in [Callers -> Cuda!Task]
          /\ cudaTasks'[c] = u
          /\ \A d \in Callers : d # c => cudaTasks'[d] = cudaTasks[d]
      BY <2>2, <2>3, <2>4, OneCall
    <2>6. Cuda!TypeOK'
      BY <2>2, <2>5 DEF CudaInv, Cuda!TypeOK, Cuda!AtHead
    <2>7. WaitersSound'
      BY <2>2, <2>4, <2>5, WaitersTail DEF CudaInv, Cuda!TypeOK, Cuda!AtHead
    <2>8. \A d \in Callers : cudaTasks[d].pc # "polling"
      BY <2>4 DEF CudaInv, CallSound, Cuda!CallersAssumption
    <2>9. ASSUME NEW d \in Callers
          PROVE  CallSound(d)'
      BY <2>2, <2>3, <2>5, <2>8 DEF CudaInv, CallSound
    <2>10. Cuda!ClosedIsQuiet'
      BY <2>2 DEF CudaInv, Cuda!ClosedIsQuiet
    <2> QED
      BY <2>2, <2>6, <2>7, <2>9, <2>10 DEF CudaInv
  <1> QED
    BY <1>1, <1>2, <1>3, <1>4

\* Someone joins the end of the queue.
LEMMA WaitersAppend ==
    ASSUME cudaWaiters \in Seq(Callers \cup {Cuda!Closer}), WaitersSound,
           NEW w \in Callers \cup {Cuda!Closer},
           cudaWaiters' = Append(cudaWaiters, w),
           cudaClosed \/ w = Cuda!Closer => cudaClosed',
           w \in Callers => /\ cudaTasks[w].pc = "idle" /\ cudaTasks'[w].pc = "queued",
           \A d \in Callers : d # w => cudaTasks'[d] = cudaTasks[d]
    PROVE  cudaWaiters' \in Seq(Callers \cup {Cuda!Closer}) /\ WaitersSound'
  <1>1. \A i \in DOMAIN cudaWaiters : cudaWaiters[i] \in Callers => cudaWaiters[i] # w
    BY DEF WaitersSound
  <1>2. /\ Len(cudaWaiters') = Len(cudaWaiters) + 1
        /\ \A i \in DOMAIN cudaWaiters' : i \in DOMAIN cudaWaiters \/ i = Len(cudaWaiters) + 1
        /\ \A i \in DOMAIN cudaWaiters : cudaWaiters'[i] = cudaWaiters[i]
        /\ cudaWaiters'[Len(cudaWaiters) + 1] = w
    OBVIOUS
  <1>3. \A i \in DOMAIN cudaWaiters' :
            cudaWaiters'[i] \in Callers => cudaTasks'[cudaWaiters'[i]].pc = "queued"
    BY <1>1, <1>2 DEF WaitersSound
  <1>4. \A i, j \in DOMAIN cudaWaiters' :
            cudaWaiters'[i] \in Callers /\ cudaWaiters'[i] = cudaWaiters'[j] => i = j
    BY <1>1, <1>2 DEF WaitersSound
  <1>5. \A i \in DOMAIN cudaWaiters' : cudaWaiters'[i] = Cuda!Closer => cudaClosed'
    BY <1>2 DEF WaitersSound
  <1> QED
    BY <1>3, <1>4, <1>5 DEF WaitersSound

LEMMA QueueKeeps ==
    ASSUME Cuda!CallersAssumption, CudaInv,
           \/ \E c \in Callers, v \in Cuda!Inputs : Cuda!Encode(c, v)
           \/ \E c \in Callers : Cuda!CancelWaiting(c)
           \/ Cuda!AskClose \/ Cuda!CloseReturns
    PROVE  CudaInv'
  <1>a. /\ cudaTasks \in [Callers -> Cuda!Task]
        /\ cudaWaiters \in Seq(Callers \cup {Cuda!Closer})
        /\ WaitersSound
    BY DEF CudaInv, Cuda!TypeOK
  <1>1. ASSUME NEW c \in Callers, NEW v \in Cuda!Inputs, Cuda!Encode(c, v)
        PROVE  CudaInv'
    <2>1. /\ cudaTasks[c].pc = "idle" /\ cudaTasks[c] \in Cuda!Task
          /\ UNCHANGED <<cudaClosed, cudaHolder, cudaCloser, pinsIntact>>
      BY <1>a, <1>1 DEF Cuda!Encode
    <2>2. PICK u : u = IF Cuda!Admitted(v) THEN [cudaTasks[c] EXCEPT !.pc = "queued", !.kind = Cuda!KindOf(v)]
                                           ELSE Cuda!Ended(cudaTasks[c], "rejected")
      OBVIOUS
    <2>3. Cuda!KindOf(v) \in Cuda!Kinds /\ "rejected" \in Cuda!Errors
      BY DEF Cuda!KindOf, Cuda!Kinds, Cuda!Errors
    <2>4. CASE Cuda!Admitted(v)
      <3>1. u = [cudaTasks[c] EXCEPT !.pc = "queued", !.kind = Cuda!KindOf(v)]
        BY <2>2, <2>4
      <3>2. /\ u \in Cuda!Task /\ u.pc = "queued" /\ u.tree = cudaTasks[c].tree
            /\ u.directory = cudaTasks[c].directory /\ u.outcome = cudaTasks[c].outcome
        BY <3>1, <2>1, <2>3 DEF Cuda!Task
      <3>3. cudaTasks' = [cudaTasks EXCEPT ![c] = u] /\ cudaWaiters' = Append(cudaWaiters, c)
        BY <1>1, <2>4, <3>1 DEF Cuda!Encode
      <3>4. /\ cudaTasks' \in [Callers -> Cuda!Task]
            /\ cudaTasks'[c] = u
            /\ \A d \in Callers : d # c => cudaTasks'[d] = cudaTasks[d]
        BY <1>a, <3>2, <3>3, OneCall
      <3>5. cudaWaiters' \in Seq(Callers \cup {Cuda!Closer}) /\ WaitersSound'
        BY <1>a, <2>1, <3>2, <3>3, <3>4, WaitersAppend DEF Cuda!CallersAssumption
      <3>6. ASSUME NEW d \in Callers
            PROVE  CallSound(d)'
        BY <2>1, <3>2, <3>4 DEF CudaInv, CallSound
      <3> QED
        BY <2>1, <3>2, <3>4, <3>5, <3>6 DEF CudaInv, Cuda!TypeOK, Cuda!ClosedIsQuiet
    <2>5. CASE ~Cuda!Admitted(v)
      <3>1. u \in Cuda!Task /\ u.pc = "ended" /\ u.outcome = "rejected" /\ u.tree = {} /\ ~u.directory
        BY <2>1, <2>2, <2>3, <2>5, EndedTask DEF CudaInv, CallSound
      <3>2. cudaTasks' = [cudaTasks EXCEPT ![c] = u] /\ cudaWaiters' = cudaWaiters
        BY <1>1, <2>2, <2>5 DEF Cuda!Encode
      <3>3. /\ cudaTasks' \in [Callers -> Cuda!Task]
            /\ cudaTasks'[c] = u
            /\ \A d \in Callers : d # c => cudaTasks'[d] = cudaTasks[d]
        BY <1>a, <3>1, <3>2, OneCall
      <3>4. WaitersSound'
        BY <1>a, <2>1, <3>2, <3>3 DEF WaitersSound
      <3>5. ASSUME NEW d \in Callers
            PROVE  CallSound(d)'
        BY <2>1, <3>1, <3>3 DEF CudaInv, CallSound
      <3> QED
        BY <2>1, <3>1, <3>2, <3>3, <3>4, <3>5 DEF CudaInv, Cuda!TypeOK, Cuda!ClosedIsQuiet
    <2> QED
      BY <2>4, <2>5
  <1>2. ASSUME NEW c \in Callers, Cuda!CancelWaiting(c)
        PROVE  CudaInv'
    <2>1. /\ cudaTasks[c].pc = "queued" /\ cudaTasks[c] \in Cuda!Task
          /\ UNCHANGED <<cudaClosed, cudaHolder, cudaCloser, pinsIntact>>
      BY <1>a, <1>2 DEF Cuda!CancelWaiting
    <2>2. PICK u : u = Cuda!Ended(cudaTasks[c], "cancelled")
      OBVIOUS
    <2>3. u \in Cuda!Task /\ u.pc = "ended" /\ u.outcome = "cancelled" /\ u.tree = {} /\ ~u.directory
      BY <2>1, <2>2, EndedTask DEF CudaInv, CallSound, Cuda!Errors
    <2>4. PICK i \in DOMAIN cudaWaiters :
              cudaWaiters[i] = c /\ cudaWaiters' = Cuda!RemoveAt(cudaWaiters, i)
      BY <1>2 DEF Cuda!CancelWaiting
    <2>5. cudaTasks' = [cudaTasks EXCEPT ![c] = u]
      BY <1>2, <2>2 DEF Cuda!CancelWaiting
    <2>6. /\ cudaTasks' \in [Callers -> Cuda!Task]
          /\ cudaTasks'[c] = u
          /\ \A d \in Callers : d # c => cudaTasks'[d] = cudaTasks[d]
      BY <1>a, <2>3, <2>5, OneCall
    <2>7. /\ cudaWaiters' \in Seq(Callers \cup {Cuda!Closer})
          /\ Len(cudaWaiters') = Len(cudaWaiters) - 1
          /\ \A j \in 1 .. Len(cudaWaiters) - 1 :
                 cudaWaiters'[j] = cudaWaiters[IF j < i THEN j ELSE j + 1]
      BY <1>a, <2>4, RemovedAt
    <2>8. \A j \in DOMAIN cudaWaiters' :
              \E k \in DOMAIN cudaWaiters :
                  /\ k # i /\ k = IF j < i THEN j ELSE j + 1
                  /\ cudaWaiters'[j] = cudaWaiters[k]
      <3> SUFFICES ASSUME NEW j \in DOMAIN cudaWaiters'
                   PROVE  \E k \in DOMAIN cudaWaiters :
                              /\ k # i /\ k = IF j < i THEN j ELSE j + 1
                              /\ cudaWaiters'[j] = cudaWaiters[k]
        OBVIOUS
      <3>1. PICK n \in Nat : n = Len(cudaWaiters) /\ DOMAIN cudaWaiters = 1 .. n
        BY <1>a
      <3>2. DOMAIN cudaWaiters' = 1 .. Len(cudaWaiters')
        BY <2>7
      <3>3. j \in 1 .. n - 1 /\ i \in 1 .. n
        BY <2>7, <3>1, <3>2
      <3>4. PICK k : k = IF j < i THEN j ELSE j + 1
        OBVIOUS
      <3>5. k \in 1 .. n /\ k # i
        BY <3>3, <3>4
      <3> QED
        BY <2>7, <3>1, <3>3, <3>4, <3>5
    <2>9. WaitersSound'
      <3>1. \A j \in DOMAIN cudaWaiters' : cudaWaiters'[j] # c
        BY <1>a, <2>4, <2>8 DEF WaitersSound
      <3>2. \A j \in DOMAIN cudaWaiters' :
                cudaWaiters'[j] \in Callers => cudaTasks'[cudaWaiters'[j]].pc = "queued"
        BY <1>a, <2>6, <2>8, <3>1 DEF WaitersSound
      <3>3. ASSUME NEW j \in DOMAIN cudaWaiters', NEW k \in DOMAIN cudaWaiters',
                   cudaWaiters'[j] \in Callers, cudaWaiters'[j] = cudaWaiters'[k]
            PROVE  j = k
        <4>1. PICK j1 \in DOMAIN cudaWaiters :
                  j1 = (IF j < i THEN j ELSE j + 1) /\ cudaWaiters'[j] = cudaWaiters[j1]
          BY <2>8
        <4>2. PICK k1 \in DOMAIN cudaWaiters :
                  k1 = (IF k < i THEN k ELSE k + 1) /\ cudaWaiters'[k] = cudaWaiters[k1]
          BY <2>8
        <4>3. j1 = k1
          BY <1>a, <3>3, <4>1, <4>2 DEF WaitersSound
        <4>4. j \in Int /\ k \in Int /\ i \in Int
          BY <1>a, <2>4, <2>7
        <4> QED
          BY <4>1, <4>2, <4>3, <4>4
      <3>4. \A j \in DOMAIN cudaWaiters' : cudaWaiters'[j] = Cuda!Closer => cudaClosed'
        BY <1>a, <2>1, <2>8 DEF WaitersSound
      <3> QED
        BY <3>2, <3>3, <3>4 DEF WaitersSound
    <2>10. ASSUME NEW d \in Callers
           PROVE  CallSound(d)'
      BY <2>1, <2>3, <2>6 DEF CudaInv, CallSound
    <2> QED
      BY <2>1, <2>3, <2>6, <2>7, <2>9, <2>10 DEF CudaInv, Cuda!TypeOK, Cuda!ClosedIsQuiet
  <1>3. CASE Cuda!AskClose
    <2>1. /\ cudaClosed' = TRUE /\ cudaCloser' = "queued"
          /\ cudaWaiters' = Append(cudaWaiters, Cuda!Closer)
          /\ UNCHANGED <<cudaHolder, cudaTasks, pinsIntact>>
      BY <1>3 DEF Cuda!AskClose
    <2>2. cudaWaiters' \in Seq(Callers \cup {Cuda!Closer}) /\ WaitersSound'
      BY <1>a, <2>1, WaitersAppend DEF Cuda!CallersAssumption
    <2>3. ASSUME NEW d \in Callers
          PROVE  CallSound(d)'
      BY <2>1 DEF CudaInv, CallSound
    <2> QED
      BY <2>1, <2>2, <2>3 DEF CudaInv, Cuda!TypeOK, Cuda!ClosedIsQuiet
  <1>4. CASE Cuda!CloseReturns
    <2>1. /\ cudaHolder = Cuda!NoTask /\ cudaWaiters # <<>> /\ Head(cudaWaiters) = Cuda!Closer
          /\ cudaWaiters' = Tail(cudaWaiters) /\ cudaCloser' = "done"
          /\ UNCHANGED <<cudaClosed, cudaHolder, cudaTasks, pinsIntact>>
      BY <1>4 DEF Cuda!CloseReturns
    <2>2. WaitersSound'
      BY <1>a, <2>1, WaitersTail
    <2>3. ASSUME NEW d \in Callers
          PROVE  CallSound(d)'
      BY <2>1 DEF CudaInv, CallSound
    <2>4. Cuda!ClosedIsQuiet'
      <3>1. ASSUME NEW d \in Callers
            PROVE  cudaTasks[d].tree = {} \/ cudaTasks[d].outcome = "not_quiescent"
        <4>1. cudaTasks[d].pc # "polling"
          BY <2>1 DEF CudaInv, CallSound, Cuda!CallersAssumption
        <4> QED
          BY <1>a, <4>1 DEF CudaInv, CallSound, Cuda!Task
      <3> QED
        BY <2>1, <3>1 DEF Cuda!ClosedIsQuiet
    <2>5. cudaClosed
      BY <1>a, <2>1 DEF WaitersSound
    <2> QED
      BY <2>1, <2>2, <2>3, <2>4, <2>5 DEF CudaInv, Cuda!TypeOK
  <1> QED
    BY <1>1, <1>2, <1>3, <1>4

\* The helper forks, floods its output or exits.
LEMMA HelperKeeps ==
    ASSUME CudaInv, NEW c \in Callers, Cuda!HelperStep(c)
    PROVE  CudaInv'
  <1>1. /\ cudaTasks \in [Callers -> Cuda!Task] /\ cudaTasks[c] \in Cuda!Task
        /\ cudaTasks[c].pc = "polling" /\ cudaTasks[c].tree # {}
        /\ UNCHANGED <<cudaClosed, cudaHolder, cudaWaiters, cudaCloser, pinsIntact>>
    BY DEF CudaInv, Cuda!TypeOK, Cuda!HelperStep, Cuda!HelperSpawns, Cuda!HelperFloods,
           Cuda!HelperExits, Cuda!Running
  <1>2. PICK u \in Cuda!Task : /\ cudaTasks' = [cudaTasks EXCEPT ![c] = u]
                               /\ u.pc = "polling" /\ u.outcome = cudaTasks[c].outcome
    <2>1. CASE Cuda!HelperSpawns(c)
      <3>1. PICK u : u = [cudaTasks[c] EXCEPT !.tree = cudaTasks[c].tree \cup {"descendant"}]
        OBVIOUS
      <3>2. u \in Cuda!Task /\ u.pc = "polling" /\ u.outcome = cudaTasks[c].outcome
        BY <1>1, <3>1 DEF Cuda!Task
      <3>3. cudaTasks' = [cudaTasks EXCEPT ![c] = u]
        BY <1>1, <2>1, <3>1 DEF Cuda!HelperSpawns
      <3> QED
        BY <3>2, <3>3
    <2>2. CASE Cuda!HelperFloods(c)
      <3>1. PICK u : u = [cudaTasks[c] EXCEPT !.flooded = TRUE]
        OBVIOUS
      <3>2. u \in Cuda!Task /\ u.pc = "polling" /\ u.outcome = cudaTasks[c].outcome
        BY <1>1, <3>1 DEF Cuda!Task
      <3>3. cudaTasks' = [cudaTasks EXCEPT ![c] = u]
        BY <1>1, <2>2, <3>1 DEF Cuda!HelperFloods
      <3> QED
        BY <3>2, <3>3
    <2>3. CASE Cuda!HelperExits(c)
      <3>1. PICK exit \in {"zero", "nonzero"}, wire \in {"own", "partial", "foreign"} :
                cudaTasks' = [cudaTasks EXCEPT ![c].tree = @ \ {"helper"},
                                               ![c].exit = exit, ![c].wire = wire]
        BY <2>3 DEF Cuda!HelperExits
      <3>2. PICK u : u = [cudaTasks[c] EXCEPT !.tree = cudaTasks[c].tree \ {"helper"},
                                             !.exit = exit, !.wire = wire]
        OBVIOUS
      <3>3. u \in Cuda!Task /\ u.pc = "polling" /\ u.outcome = cudaTasks[c].outcome
        BY <1>1, <3>2 DEF Cuda!Task
      <3>4. cudaTasks' = [cudaTasks EXCEPT ![c] = u]
        BY <1>1, <3>1, <3>2
      <3> QED
        BY <3>3, <3>4
    <2> QED
      BY <2>1, <2>2, <2>3 DEF Cuda!HelperStep
  <1>3. /\ cudaTasks' \in [Callers -> Cuda!Task]
        /\ cudaTasks'[c] = u
        /\ \A d \in Callers : d # c => cudaTasks'[d] = cudaTasks[d]
    BY <1>1, <1>2, OneCall
  <1>4. WaitersSound'
    BY <1>1, <1>2, <1>3 DEF CudaInv, WaitersSound, Cuda!TypeOK
  <1>5. ASSUME NEW d \in Callers
        PROVE  CallSound(d)'
    BY <1>1, <1>2, <1>3 DEF CudaInv, CallSound
  <1>6. Cuda!ClosedIsQuiet'
    BY <1>1, <1>2, <1>3 DEF CudaInv, CallSound, Cuda!ClosedIsQuiet
  <1> QED
    BY <1>1, <1>3, <1>4, <1>5, <1>6 DEF CudaInv, Cuda!TypeOK

LEMMA PollKeeps ==
    ASSUME Cuda!CallersAssumption, CudaInv, NEW c \in Callers,
           Cuda!Timeout(c) \/ Cuda!OutputLimit(c) \/ Cuda!Cancel(c) \/ Cuda!Finish(c)
    PROVE  CudaInv'
  <1>1. \A why \in {"timeout", "output_limit", "cancelled", "failed", "identity_changed"} :
            why \in Cuda!Errors /\ why # "completed"
    BY DEF Cuda!Errors
  <1>2. CASE Cuda!Finish(c)
    <2>1. PICK why : why = IF cudaTasks[c].exit # "zero" THEN "failed"
             ELSE IF ~pinsIntact THEN "identity_changed"
             ELSE IF Cuda!ResultAccepted(cudaTasks[c]) THEN "completed" ELSE "failed"
      OBVIOUS
    <2>2. /\ why \in Cuda!Errors \cup {"completed"}
          /\ why = "completed" => cudaTasks[c].exit = "zero" /\ Cuda!ResultAccepted(cudaTasks[c])
      BY <1>1, <2>1
    <2>3. cudaTasks[c].pc = "polling" /\ Cuda!Leave(c, Cuda!Cleanup(cudaTasks[c], why))
      BY <1>2, <2>1 DEF Cuda!Finish
    <2> QED
      BY <2>2, <2>3, LeaveKeeps
  <1>3. CASE Cuda!Timeout(c)
    BY <1>1, <1>3, LeaveKeeps DEF Cuda!Timeout, Cuda!Running
  <1>4. CASE Cuda!OutputLimit(c)
    BY <1>1, <1>4, LeaveKeeps DEF Cuda!OutputLimit, Cuda!Running
  <1>5. CASE Cuda!Cancel(c)
    BY <1>1, <1>5, LeaveKeeps DEF Cuda!Cancel
  <1> QED
    BY <1>2, <1>3, <1>4, <1>5

LEMMA CudaStarts ==
    ASSUME Cuda!Init
    PROVE  CudaInv
  <1>1. Cuda!Fresh \in Cuda!Task
    BY DEF Cuda!Fresh, Cuda!Task, Cuda!Kinds
  <1>2. cudaTasks \in [Callers -> Cuda!Task] /\ \A c \in Callers : cudaTasks[c] = Cuda!Fresh
    BY <1>1 DEF Cuda!Init
  <1>3. cudaWaiters = <<>> /\ DOMAIN cudaWaiters = {}
    BY DEF Cuda!Init
  <1>4. Cuda!TypeOK
    <2>1. <<>> \in Seq(Callers \cup {Cuda!Closer})
      OBVIOUS
    <2>2. /\ cudaClosed = FALSE /\ cudaHolder = Cuda!NoTask /\ cudaCloser = "idle" /\ pinsIntact = TRUE
      BY DEF Cuda!Init
    <2> QED
      BY <1>2, <1>3, <2>1, <2>2 DEF Cuda!TypeOK
  <1>5. WaitersSound
    BY <1>3 DEF WaitersSound
  <1>6. \A c \in Callers : CallSound(c)
    BY <1>2 DEF CallSound, Cuda!Fresh
  <1> QED
    BY <1>4, <1>5, <1>6 DEF CudaInv, Cuda!Init, Cuda!ClosedIsQuiet

LEMMA CudaKeeps ==
    ASSUME Cuda!CallersAssumption, CudaInv, [Cuda!Next]_(Cuda!cudaVars)
    PROVE  CudaInv'
  <1>1. CASE UNCHANGED Cuda!cudaVars
    BY <1>1 DEF Cuda!cudaVars, CudaInv, Cuda!TypeOK, WaitersSound, CallSound, Cuda!ClosedIsQuiet
  <1>2. CASE Cuda!FilesChange
    BY <1>2 DEF Cuda!FilesChange, CudaInv, Cuda!TypeOK, WaitersSound, CallSound, Cuda!ClosedIsQuiet
  <1>3. CASE \E c \in Callers : Cuda!CallStep(c) \/ Cuda!HelperStep(c)
    BY <1>3, HeadKeeps, PollKeeps, HelperKeeps, QueueKeeps DEF Cuda!CallStep
  <1>4. CASE (\E c \in Callers, v \in Cuda!Inputs : Cuda!Encode(c, v))
             \/ Cuda!AskClose \/ Cuda!CloseReturns
    BY <1>4, QueueKeeps
  <1> QED
    BY <1>1, <1>2, <1>3, <1>4 DEF Cuda!Next

(***************************************************************************)
(* Except where a job refused to become quiescent, a helper lives only     *)
(* inside the call that holds the lock and none runs once aclose has       *)
(* returned; a private directory stays only where removing it failed, and  *)
(* the call then failed too.  A vector is returned only for a helper that  *)
(* exited with zero and wrote a whole result within the limits, its own    *)
(* one under the extended protocol (the other protocol binds nothing)      *)
(* (cuda_encoder.py encode, _execute, aclose; _windows_job.py Job.close).  *)
(***************************************************************************)
THEOREM CudaHelpersReaped == Cuda!Spec => []HelpersReaped
  <1>1. Cuda!Init => CudaInv
    BY HostsAssumption, CudaStarts
  <1>2. CudaInv /\ [Cuda!Next]_(Cuda!cudaVars) => CudaInv'
    BY HostsAssumption, CudaKeeps
  <1>3. CudaInv => HelpersReaped
    BY DEF CudaInv, CallSound, Cuda!TypeOK, Cuda!Task,
           HelpersReaped, Cuda!HelpersReaped, Cuda!AnswersBound
  <1> QED
    BY <1>1, <1>2, <1>3, PTL DEF Cuda!Spec

-----------------------------------------------------------------------------
(***************************************************************************)
(* The raw media helper.  What the main thread judges is final when it     *)
(* judges it: the helper has ended and both threads have stopped, so       *)
(* neither the limit nor the failure flag can change any more.             *)
(***************************************************************************)
RawOutcomes ==
    {"none", "published", "prepared_evidence_invalid", "source_not_regular", "signature_unsupported",
     "duration_limit_exceeded", "prepared_text_limit_exceeded", "source_changed", "storage_failed",
     "source_unavailable"}

RawFiles == {"snapshot", "stdout"}

RawCallType ==
    [kind : Raw!MediaKinds,
     pc : {"idle", "captured", "waiting", "joining", "prepared", "checked", "ended"},
     revision : Revisions \cup {Raw!Absent}, files : SUBSET RawFiles, stuck : SUBSET RawFiles,
     timedOut : BOOLEAN, returncode : {"none", "zero", "nonzero", "killed"},
     evidence : Raw!Evidence \cup {Raw!NoEvidence}, outcome : RawOutcomes]

RawTypes ==
    /\ rawFile \in Revisions \cup {Raw!Absent}
    /\ rawCall \in RawCallType
    /\ helper \in [main : {"none", "running", "zero", "nonzero", "killed"}, descendant : BOOLEAN,
                   pipe : Int]
    /\ threads \in [writer : {"off", "writing", "closed"}, reader : {"off", "reading", "closed"},
                    output : Nat, overflow : BOOLEAN, failed : BOOLEAN]

Stopped == threads.writer # "writing" /\ threads.reader # "reading"

\* What the evidence of a call that passed the judgement rests on.
Proper(ev) ==
    /\ rawCall.returncode = "zero" /\ ~rawCall.timedOut
    /\ ~threads.overflow /\ ~threads.failed
    /\ rawCall.kind = "video" => ev.lastAtom <= ev.duration

RawInv ==
    /\ RawTypes
    /\ rawCall.pc \notin {"waiting", "joining"} => Stopped
    /\ rawCall.pc # "waiting" => ~Raw!HelperAlive
    /\ rawCall.pc = "ended" => rawCall.files \subseteq rawCall.stuck
    /\ ~threads.overflow => threads.output <= RawOutputLimit
    /\ rawCall.pc \in {"prepared", "checked"} => Proper(rawCall.evidence)
    /\ rawCatalog # Raw!NoResource =>
           /\ rawCall.pc = "ended" /\ rawCatalog.revision = rawCall.revision
           /\ Proper(rawCatalog.evidence)

LEMMA RawStarts ==
    ASSUME Raw!LimitAssumption, Raw!Init
    PROVE  RawInv
  <1>1. RawTypes
    <2>1. Raw!NoCall \in RawCallType
      BY DEF RawCallType, Raw!NoCall, Raw!MediaKinds, RawOutcomes
    <2> QED
      BY <2>1 DEF RawTypes, Raw!Init, Raw!NoHelper, Raw!NoThreads
  <1> QED
    BY <1>1 DEF RawInv, Stopped, Raw!Init, Raw!NoCall, Raw!NoHelper, Raw!NoThreads, Raw!HelperAlive,
                Raw!LimitAssumption

\* An ended call keeps only the files that could not be removed.
LEMMA FailedCall ==
    ASSUME rawCall \in RawCallType, NEW why \in RawOutcomes, NEW files \in SUBSET RawFiles,
           Raw!FailWith(why, files)
    PROVE  /\ rawCall' \in RawCallType
           /\ rawCall'.pc = "ended" /\ rawCall'.files \subseteq rawCall'.stuck
           /\ rawCall'.kind = rawCall.kind /\ rawCall'.revision = rawCall.revision
           /\ rawCall'.returncode = rawCall.returncode /\ rawCall'.timedOut = rawCall.timedOut
           /\ rawCall'.evidence = rawCall.evidence
  <1>1. PICK left \in SUBSET RawFiles :
            rawCall' = [rawCall EXCEPT !.pc = "ended", !.outcome = why, !.files = left, !.stuck = left]
    <2>1. PICK stuck \in SUBSET files :
              rawCall' = [rawCall EXCEPT !.pc = "ended", !.outcome = why,
                                         !.files = stuck \cup rawCall.stuck,
                                         !.stuck = stuck \cup rawCall.stuck]
      BY DEF Raw!FailWith
    <2>2. rawCall.stuck \in SUBSET RawFiles
      BY DEF RawCallType
    <2>3. stuck \cup rawCall.stuck \in SUBSET RawFiles
      BY <2>2
    <2> QED
      BY <2>1, <2>3
  <1> QED
    BY <1>1 DEF RawCallType

\* The call fails or ends: it was neither waiting nor is anything running.
LEMMA RawFails ==
    ASSUME RawInv, rawCall.pc \in {"idle", "captured", "joining", "prepared", "checked"}, Stopped,
           NEW why \in RawOutcomes, NEW files \in SUBSET RawFiles, Raw!FailWith(why, files),
           UNCHANGED <<rawFile, helper, threads, rawCatalog>>
    PROVE  RawInv'
  <1>1. RawTypes'
    BY FailedCall DEF RawInv, RawTypes
  <1>2. rawCall'.pc = "ended" /\ rawCall'.files \subseteq rawCall'.stuck
    BY FailedCall DEF RawInv, RawTypes
  <1>3. rawCatalog = Raw!NoResource
    BY DEF RawInv
  <1> QED
    BY <1>1, <1>2, <1>3 DEF RawInv, Stopped, Raw!HelperAlive

LEMMA RawCallKeeps ==
    ASSUME RawInv,
           \/ \E kind \in Raw!MediaKinds, consent \in BOOLEAN : Raw!Capture(kind, consent)
           \/ Raw!CaptureFails \/ Raw!Popen \/ Raw!PopenFails \/ Raw!WaitReturns \/ Raw!WaitTimesOut
           \/ \E ev \in Raw!Evidence : Raw!Join(ev)
           \/ Raw!CheckSourceAfter \/ Raw!ReplaceResource \/ Raw!ReplaceFails
    PROVE  RawInv'
  <1>t. RawTypes
    BY DEF RawInv
  <1>n. rawCall.pc # "ended" => rawCatalog = Raw!NoResource
    BY DEF RawInv
  <1>f. rawCall.files \in SUBSET RawFiles
    BY <1>t DEF RawTypes, RawCallType
  <1>1. ASSUME NEW kind \in Raw!MediaKinds, NEW consent \in BOOLEAN, Raw!Capture(kind, consent)
        PROVE  RawInv'
    <2>1. /\ rawCall.pc = "idle" /\ UNCHANGED <<rawFile, helper, threads, rawCatalog>>
          /\ \/ \E why \in RawOutcomes, files \in SUBSET RawFiles : Raw!FailWith(why, files)
             \/ rawCall' = [rawCall EXCEPT !.kind = kind, !.pc = "captured",
                                           !.revision = rawFile, !.files = {"snapshot"}]
      <3> DEFINE refused == IF ~consent THEN "prepared_evidence_invalid"
                      ELSE IF rawFile = Raw!Absent THEN "source_not_regular"
                      ELSE IF SignatureOf[rawFile] # Raw!Signature(kind) THEN "signature_unsupported"
                      ELSE IF kind = "audio" /\ HeaderMs[rawFile] \notin 1 .. MaxDuration
                           THEN "duration_limit_exceeded" ELSE "none"
      <3>1. refused \in RawOutcomes
        BY DEF RawOutcomes
      <3>2. /\ rawCall.pc = "idle" /\ UNCHANGED <<rawFile, helper, threads, rawCatalog>>
            /\ IF refused = "duration_limit_exceeded" THEN Raw!FailWith(refused, {"snapshot"})
               ELSE IF refused # "none" THEN Raw!Fail(refused)
               ELSE rawCall' = [rawCall EXCEPT !.kind = kind, !.pc = "captured",
                                               !.revision = rawFile, !.files = {"snapshot"}]
        BY <1>1 DEF Raw!Capture
      <3>3. {"snapshot"} \in SUBSET RawFiles
        BY DEF RawFiles
      <3> HIDE DEF refused
      <3> QED
        BY <1>f, <3>1, <3>2, <3>3 DEF Raw!Fail
    <2>2. Stopped /\ ~Raw!HelperAlive
      BY <2>1 DEF RawInv
    <2>3. CASE \E why \in RawOutcomes, files \in SUBSET RawFiles : Raw!FailWith(why, files)
      BY <2>1, <2>2, <2>3, RawFails
    <2>4. CASE rawCall' = [rawCall EXCEPT !.kind = kind, !.pc = "captured",
                                          !.revision = rawFile, !.files = {"snapshot"}]
      <3>1. RawTypes' /\ rawCall'.pc = "captured"
        BY <1>t, <2>1, <2>4 DEF RawTypes, RawCallType, RawFiles
      <3> QED
        BY <1>n, <2>1, <2>2, <3>1 DEF RawInv, Stopped, Raw!HelperAlive
    <2> QED
      BY <2>1, <2>3, <2>4
  <1>2. CASE Raw!Popen
    <2>1. /\ rawCall.pc = "captured" /\ rawCall'.pc = "waiting"
          /\ threads'.output = threads.output /\ threads'.overflow = threads.overflow
          /\ rawCatalog' = rawCatalog
      BY <1>t, <1>2 DEF Raw!Popen, RawTypes, RawCallType
    <2>2. RawTypes'
      BY <1>t, <1>2 DEF Raw!Popen, RawTypes, RawCallType, RawFiles
    <2> QED
      BY <1>n, <2>1, <2>2 DEF RawInv
  <1>3. CASE Raw!PopenFails
    <2>1. rawCall.pc = "captured"
          /\ Raw!FailWith("prepared_evidence_invalid", rawCall.files \cup {"stdout"})
          /\ rawCall.files \cup {"stdout"} \in SUBSET RawFiles
          /\ UNCHANGED <<rawFile, helper, threads, rawCatalog>>
      BY <1>f, <1>3 DEF Raw!PopenFails, RawFiles
    <2>2. Stopped
      BY <2>1 DEF RawInv
    <2> QED
      BY <2>1, <2>2, RawFails DEF RawOutcomes
  <1>4. CASE Raw!WaitReturns
    <2>1. /\ rawCall.pc = "waiting" /\ rawCall'.pc = "joining" /\ ~Raw!HelperAlive
          /\ UNCHANGED <<rawFile, helper, threads, rawCatalog>>
      BY <1>t, <1>4 DEF Raw!WaitReturns, RawTypes, RawCallType
    <2>2. RawTypes'
      BY <1>t, <1>4 DEF Raw!WaitReturns, RawTypes, RawCallType, Raw!HelperAlive
    <2> QED
      BY <1>n, <2>1, <2>2 DEF RawInv, Raw!HelperAlive
  <1>5. CASE Raw!WaitTimesOut
    <2>1. /\ rawCall.pc = "waiting" /\ rawCall'.pc = "joining" /\ helper'.main = "killed"
          /\ UNCHANGED <<rawFile, threads, rawCatalog>>
      BY <1>t, <1>5 DEF Raw!WaitTimesOut, RawTypes, RawCallType, Raw!HelperAlive, Raw!Kill
    <2>2. RawTypes'
      BY <1>t, <1>5 DEF Raw!WaitTimesOut, RawTypes, RawCallType, Raw!HelperAlive, Raw!Kill
    <2> QED
      BY <1>n, <2>1, <2>2 DEF RawInv, Raw!HelperAlive
  <1>6. ASSUME NEW ev \in Raw!Evidence, Raw!Join(ev)
        PROVE  RawInv'
    <2>1. /\ rawCall.pc = "joining" /\ threads.writer = "closed" /\ threads.reader = "closed"
          /\ UNCHANGED <<rawFile, helper, threads, rawCatalog>>
      BY <1>6 DEF Raw!Join
    <2>2. Stopped /\ ~Raw!HelperAlive
      BY <2>1 DEF Stopped, RawInv
    <2>3. CASE Raw!Judgement(ev) = "accepted"
      <3>1. PICK stuck \in SUBSET {"stdout"} :
                rawCall' = [rawCall EXCEPT !.pc = "prepared", !.evidence = ev,
                                           !.files = {"snapshot"} \cup stuck, !.stuck = stuck]
        BY <1>6, <2>3 DEF Raw!Join
      <3>2. /\ RawTypes' /\ rawCall'.pc = "prepared" /\ rawCall'.evidence = ev
            /\ rawCall'.returncode = rawCall.returncode /\ rawCall'.timedOut = rawCall.timedOut
            /\ rawCall'.kind = rawCall.kind
        BY <1>t, <2>1, <3>1 DEF RawTypes, RawCallType, RawFiles
      <3>3. Proper(ev)
        BY <2>3, <1>t DEF Proper, Raw!Judgement, Raw!Acceptable, RawTypes, Raw!MediaKinds
      <3> QED
        BY <1>n, <2>1, <2>2, <3>2, <3>3 DEF RawInv, Stopped, Proper, Raw!HelperAlive
    <2>4. CASE Raw!Judgement(ev) # "accepted"
      <3>1. Raw!Judgement(ev) # "accepted" => Raw!Judgement(ev) \in RawOutcomes
        BY DEF Raw!Judgement, RawOutcomes
      <3> QED
        BY <1>6, <1>f, <2>1, <2>2, <2>4, <3>1, RawFails DEF Raw!Join, Raw!Fail
    <2> QED
      BY <2>3, <2>4
  <1>7. CASE Raw!CheckSourceAfter
    <2>1. rawCall.pc = "prepared" /\ UNCHANGED <<rawFile, helper, threads, rawCatalog>> /\ Stopped
      BY <1>7 DEF Raw!CheckSourceAfter, RawInv
    <2>2. CASE rawFile = rawCall.revision
      <3>1. rawCall' = [rawCall EXCEPT !.pc = "checked"]
        BY <1>7, <2>2 DEF Raw!CheckSourceAfter
      <3>2. /\ RawTypes' /\ rawCall'.pc = "checked" /\ rawCall'.evidence = rawCall.evidence
            /\ rawCall'.returncode = rawCall.returncode /\ rawCall'.timedOut = rawCall.timedOut
            /\ rawCall'.kind = rawCall.kind
        BY <1>t, <2>1, <3>1 DEF RawTypes, RawCallType
      <3> QED
        BY <1>n, <2>1, <3>2 DEF RawInv, Stopped, Proper, Raw!HelperAlive
    <2>3. CASE rawFile # rawCall.revision
      <3>1. Raw!Fail("source_changed")
        BY <1>7, <2>3 DEF Raw!CheckSourceAfter
      <3> QED
        BY <1>f, <2>1, <3>1, RawFails DEF RawOutcomes, Raw!Fail
    <2> QED
      BY <2>2, <2>3
  <1>8. CASE Raw!ReplaceResource
    <2>1. /\ rawCall.pc = "checked" /\ Raw!Fail("published") /\ UNCHANGED <<rawFile, helper, threads>>
          /\ rawCatalog' = [revision |-> rawCall.revision, evidence |-> rawCall.evidence]
      BY <1>8 DEF Raw!ReplaceResource
    <2>2. /\ RawTypes' /\ rawCall'.pc = "ended" /\ rawCall'.files \subseteq rawCall'.stuck
          /\ rawCall'.returncode = rawCall.returncode /\ rawCall'.timedOut = rawCall.timedOut
          /\ rawCall'.kind = rawCall.kind /\ rawCall'.revision = rawCall.revision
      BY <1>f, <1>t, <2>1, FailedCall DEF RawTypes, RawOutcomes, Raw!Fail
    <2>3. /\ rawCatalog'.revision = rawCall.revision /\ rawCatalog'.evidence = rawCall.evidence
          /\ Stopped /\ ~Raw!HelperAlive /\ Proper(rawCall.evidence)
      BY <2>1 DEF RawInv
    <2> QED
      BY <2>1, <2>2, <2>3 DEF RawInv, Stopped, Proper, Raw!HelperAlive
  <1>9. CASE Raw!ReplaceFails
    <2>1. rawCall.pc = "checked" /\ Raw!Fail("storage_failed")
          /\ UNCHANGED <<rawFile, helper, threads, rawCatalog>>
      BY <1>9 DEF Raw!ReplaceFails
    <2>2. Stopped
      BY <2>1 DEF RawInv
    <2> QED
      BY <1>f, <2>1, <2>2, RawFails DEF RawOutcomes, Raw!Fail
  <1>10. CASE Raw!CaptureFails
    <2>1. /\ rawCall.pc = "idle" /\ Raw!FailWith("source_unavailable", {"snapshot"})
          /\ {"snapshot"} \in SUBSET RawFiles
          /\ UNCHANGED <<rawFile, helper, threads, rawCatalog>>
      BY <1>10 DEF Raw!CaptureFails, RawFiles
    <2>2. Stopped
      BY <2>1 DEF RawInv
    <2> QED
      BY <2>1, <2>2, RawFails DEF RawOutcomes
  <1> QED
    BY <1>1, <1>2, <1>3, <1>4, <1>5, <1>6, <1>7, <1>8, <1>9, <1>10

\* The helper, its descendant and the two threads: none of them acts for the
\* call once it was judged.
LEMMA RawThreadsKeep ==
    ASSUME Raw!LimitAssumption, RawInv,
           \/ Raw!Writer \/ Raw!Reader
           \/ Raw!HelperForks \/ Raw!HelperPrints \/ Raw!DescendantExits
           \/ \E code \in {"zero", "nonzero"} : Raw!HelperExits(code)
           \/ Raw!FileChanges
    PROVE  RawInv'
  <1>t. RawTypes
    BY DEF RawInv
  <1>n. rawCall.pc # "ended" => rawCatalog = Raw!NoResource
    BY DEF RawInv
  <1>1. CASE Raw!FileChanges
    <2>1. RawTypes' /\ UNCHANGED <<rawCall, helper, threads, rawCatalog>>
      BY <1>t, <1>1 DEF RawTypes, Raw!FileChanges
    <2> QED
      BY <2>1 DEF RawInv, Stopped, Proper, Raw!HelperAlive
  <1>2. CASE \/ Raw!HelperForks \/ Raw!HelperPrints \/ Raw!DescendantExits
             \/ \E code \in {"zero", "nonzero"} : Raw!HelperExits(code)
    <2>1. /\ helper' \in [main : {"none", "running", "zero", "nonzero", "killed"},
                          descendant : BOOLEAN, pipe : Int]
          /\ helper'.main = "running" => helper.main = "running"
          /\ UNCHANGED <<rawFile, rawCall, threads, rawCatalog>>
      <3>1. CASE Raw!HelperForks
        BY <1>t, <3>1 DEF RawTypes, Raw!HelperForks
      <3>2. CASE Raw!HelperPrints
        BY <1>t, <3>2 DEF RawTypes, Raw!HelperPrints
      <3>3. CASE Raw!DescendantExits
        BY <1>t, <3>3 DEF RawTypes, Raw!DescendantExits
      <3>4. ASSUME NEW code \in {"zero", "nonzero"}, Raw!HelperExits(code)
            PROVE  <2>1!:
        BY <1>t, <3>4 DEF RawTypes, Raw!HelperExits
      <3> QED
        BY <1>2, <3>1, <3>2, <3>3, <3>4
    <2>2. RawTypes'
      BY <1>t, <2>1 DEF RawTypes
    <2> QED
      BY <2>1, <2>2 DEF RawInv, Stopped, Proper, Raw!HelperAlive
  <1>3. CASE Raw!Writer \/ Raw!Reader
    <2>1. rawCall.pc \in {"waiting", "joining"}
      BY <1>t, <1>3 DEF RawInv, RawTypes, RawCallType, Stopped, Raw!Writer, Raw!Reader, Raw!WriterDone,
             Raw!WriterBroken, Raw!ReaderReads, Raw!ReaderSeesEnd, Raw!ReaderFails
    <2>2. /\ helper' \in [main : {"none", "running", "zero", "nonzero", "killed"},
                          descendant : BOOLEAN, pipe : Int]
          /\ helper'.main = "running" => helper.main = "running"
          /\ threads' \in [writer : {"off", "writing", "closed"}, reader : {"off", "reading", "closed"},
                           output : Nat, overflow : BOOLEAN, failed : BOOLEAN]
          /\ ~threads'.overflow =>
                 \/ threads'.output = threads.output /\ ~threads.overflow
                 \/ ~(threads'.output > RawOutputLimit)
          /\ UNCHANGED <<rawFile, rawCall, rawCatalog>>
      <3>1. CASE Raw!WriterDone
        BY <1>t, <3>1 DEF RawTypes, Raw!WriterDone
      <3>2. CASE Raw!WriterBroken
        BY <1>t, <3>2 DEF RawTypes, Raw!WriterBroken
      <3>3. CASE Raw!ReaderReads
        <4>1. PICK output \in Nat : output = threads.output + 1
          BY <1>t DEF RawTypes
        <4>2. PICK over \in BOOLEAN : over = (output > RawOutputLimit)
          <5>1. (output > RawOutputLimit) \in BOOLEAN
            BY DEF Raw!LimitAssumption
          <5> QED
            BY <5>1, Zenon
        <4>3. PICK drained : drained = [helper EXCEPT !.pipe = @ - 1]
          OBVIOUS
        <4>4. /\ threads' = [threads EXCEPT !.output = output, !.overflow = over,
                                            !.reader = IF over THEN "closed" ELSE "reading"]
              /\ helper' = IF over THEN Raw!Kill(drained) ELSE drained
              /\ UNCHANGED <<rawFile, rawCall, rawCatalog>>
          BY <3>3, <4>1, <4>2, <4>3 DEF Raw!ReaderReads
        <4>5. /\ drained \in [main : {"none", "running", "zero", "nonzero", "killed"},
                              descendant : BOOLEAN, pipe : Int]
              /\ drained.main = helper.main
          BY <1>t, <4>3 DEF RawTypes
        <4>6. /\ helper' \in [main : {"none", "running", "zero", "nonzero", "killed"},
                              descendant : BOOLEAN, pipe : Int]
              /\ helper'.main = "running" => helper.main = "running"
          BY <4>4, <4>5 DEF Raw!Kill
        <4>7. /\ threads' \in [writer : {"off", "writing", "closed"}, reader : {"off", "reading", "closed"},
                               output : Nat, overflow : BOOLEAN, failed : BOOLEAN]
              /\ threads'.output = output /\ threads'.overflow = over
          BY <1>t, <4>4 DEF RawTypes
        <4> QED
          BY <4>2, <4>4, <4>6, <4>7
      <3>4. CASE Raw!ReaderSeesEnd
        BY <1>t, <3>4 DEF RawTypes, Raw!ReaderSeesEnd
      <3>5. CASE Raw!ReaderFails
        BY <1>t, <3>5 DEF RawTypes, Raw!ReaderFails, Raw!Kill
      <3> QED
        BY <1>3, <3>1, <3>2, <3>3, <3>4, <3>5 DEF Raw!Writer, Raw!Reader
    <2>3. RawTypes'
      BY <1>t, <2>2 DEF RawTypes
    <2>4. ~threads'.overflow => threads'.output <= RawOutputLimit
      BY <2>2 DEF RawInv, Raw!LimitAssumption
    <2> QED
      BY <1>n, <2>1, <2>2, <2>3, <2>4 DEF RawInv, Raw!HelperAlive
  <1> QED
    BY <1>1, <1>2, <1>3

(***************************************************************************)
(* Raw media is published only from a helper that exited with zero within  *)
(* the limits, for exactly the captured bytes, and when the call has ended *)
(* no thread or helper of it runs, and of its temporary files only one     *)
(* that could not be removed is left (raw_audio.py, raw_video.py,          *)
(* raw_source_provenance.py).                                              *)
(***************************************************************************)
THEOREM RawPublishedFromCapture == Raw!Spec => []PublishedFromCapture
  <1>1. Raw!Init => RawInv
    BY HostsAssumption, RawStarts
  <1>2. RawInv /\ [Raw!Next]_(Raw!rawVars) => RawInv'
    <2>1. RawInv /\ Raw!Next => RawInv'
      BY HostsAssumption, RawCallKeeps, RawThreadsKeep DEF Raw!Next, Raw!Main
    <2>2. RawInv /\ UNCHANGED Raw!rawVars => RawInv'
      BY DEF Raw!rawVars, RawInv, RawTypes, Stopped, Proper, Raw!HelperAlive
    <2> QED
      BY <2>1, <2>2
  <1>3. RawInv => PublishedFromCapture
    BY DEF RawInv, Stopped, Proper, PublishedFromCapture, Raw!PublishedFromCapture, Raw!NothingLeftBehind
  <1> QED
    BY <1>1, <1>2, <1>3, PTL DEF Raw!Spec

-----------------------------------------------------------------------------
(***************************************************************************)
(* The embedding provider.  The indexes of an answer that passes the       *)
(* checks number its items from 1 to their count without repetition, so    *)
(* each text of the batch finds exactly one item, whatever the order.      *)
(***************************************************************************)
LmReports == [ok : BOOLEAN, returned : Nat, valid : {"unknown", "valid", "invalid"},
              mrl : {"tested", "unsupported_by_runtime"}]
LmVectors == [text : Nat, length : Nat]
LmCalls == [pc : {"idle", "sent", "failed", "done"}, health : BOOLEAN, texts : Seq(Nat),
            vectors : Seq(LmVectors), reports : SUBSET LmReports]
LmProviders == [returned : Nat, valid : {"unknown", "valid", "invalid"}]

TrueReport(report) ==
    /\ report.ok => report.returned = Dimensions /\ report.valid = "valid"
    /\ report.mrl = "tested" => report.returned = Requested

\* What a call has received is the beginning of what it must return.
CallInOrder(call) ==
    /\ \A i \in 1 .. Len(call.vectors) : call.vectors[i] = Lm!Vector(call.texts[i], Dimensions)
    /\ call.pc \in {"sent", "done"} => Len(call.vectors) <= Len(call.texts)
    /\ call.pc = "sent" => Len(call.vectors) < Len(call.texts)
    /\ call.pc = "done" => Len(call.vectors) = Len(call.texts)
    /\ \A report \in call.reports : TrueReport(report)

LmInv ==
    /\ provider \in LmProviders
    /\ embeds \in [Tasks -> LmCalls]
    /\ \A t \in Tasks : CallInOrder(embeds[t])

LEMMA ReportIsTrue ==
    ASSUME NEW p \in LmProviders, NEW ok \in BOOLEAN,
           ok => p.returned = Dimensions /\ p.valid = "valid"
    PROVE  Lm!Report(ok, p) \in LmReports /\ TrueReport(Lm!Report(ok, p))
  BY DEF Lm!Report, Lm!MrlStatus, LmReports, LmProviders, TrueReport

LEMMA FailedCallInOrder ==
    ASSUME NEW call \in LmCalls, CallInOrder(call), NEW p \in LmProviders
    PROVE  Lm!Failed(call, p) \in LmCalls /\ CallInOrder(Lm!Failed(call, p))
  <1>1. PICK reports : reports = IF call.health THEN {Lm!Report(FALSE, p)} ELSE {}
    OBVIOUS
  <1>2. reports \in SUBSET LmReports /\ \A report \in reports : TrueReport(report)
    BY <1>1, ReportIsTrue
  <1>3. Lm!Failed(call, p) = [call EXCEPT !.pc = "failed", !.reports = reports]
    BY <1>1 DEF Lm!Failed
  <1> QED
    BY <1>2, <1>3 DEF LmCalls, CallInOrder

\* The next batch: texts of the call that have no vector yet, in order.
LEMMA BatchOfCall ==
    ASSUME Lm!SizesAssumption, NEW call \in LmCalls, Len(call.vectors) < Len(call.texts)
    PROVE  LET batch == Lm!Batch(call)
           IN  /\ batch \in Seq(Nat) /\ Len(batch) \in 1 .. Len(call.texts) - Len(call.vectors)
               /\ \A k \in 1 .. Len(batch) : batch[k] = call.texts[Len(call.vectors) + k]
  <1> DEFINE first == Len(call.vectors) + 1
             last == IF first + BatchSize - 1 < Len(call.texts) THEN first + BatchSize - 1
                     ELSE Len(call.texts)
  <1>1. /\ call.texts \in Seq(Nat) /\ Len(call.texts) \in Nat
        /\ call.vectors \in Seq(LmVectors) /\ Len(call.vectors) \in Nat
    BY DEF LmCalls
  <1>2. first \in 1 .. Len(call.texts) /\ last \in first .. Len(call.texts)
    BY <1>1 DEF Lm!SizesAssumption
  <1>3. Lm!Batch(call) = SubSeq(call.texts, first, last)
    BY DEF Lm!Batch
  <1>4. PICK v \in Nat : v = Len(call.vectors) /\ first = v + 1
    BY <1>1
  <1> HIDE DEF first, last
  <1>5. PICK s \in Seq(Nat) : s = call.texts
    BY <1>1
  <1>6. PICK b : b = SubSeq(s, first, last)
    OBVIOUS
  <1>7. /\ b \in Seq(Nat) /\ Len(b) = last - first + 1
        /\ \A k \in 1 .. last - first + 1 : b[k] = s[first + k - 1]
    BY <1>2, <1>5, <1>6
  <1>8. Len(b) \in 1 .. Len(s) - v
    BY <1>2, <1>4, <1>5, <1>7
  <1>9. ASSUME NEW k \in 1 .. Len(b)
        PROVE  b[k] = s[v + k]
    <2>1. k \in 1 .. last - first + 1
      BY <1>7, <1>9
    <2>2. b[k] = s[first + k - 1]
      BY <1>7, <2>1
    <2>3. k \in Int /\ first + k - 1 = v + k
      BY <1>4, <2>1
    <2> QED
      BY <2>2, <2>3
  <1> QED
    BY <1>3, <1>4, <1>5, <1>6, <1>7, <1>8, <1>9

\* Numbers from 1 to n, each at most once, n of them: every one occurs.
LEMMA EveryIndexOccurs ==
    ASSUME NEW n \in Nat, NEW f \in Injection(1 .. n, 1 .. n)
    PROVE  f \in Surjection(1 .. n, 1 .. n)
  <1>1. IsFiniteSet(1 .. n)
    BY FS_Interval
  <1> QED
    BY <1>1, FS_Injection

\* An accepted answer, arranged: one vector per text of the batch, its own.
LEMMA ArrangedBatch ==
    ASSUME Lm!SizesAssumption, NEW batch \in Seq(Nat), Len(batch) >= 1,
           NEW response \in Lm!Responses(Len(batch)), Lm!WellFormed(Len(batch), response)
    PROVE  LET vectors == Lm!Arrange(batch, response)
           IN  /\ vectors \in Seq(LmVectors) /\ Len(vectors) = Len(batch)
               /\ \A k \in 1 .. Len(batch) :
                      vectors[k] = Lm!Vector(batch[k], vectors[k].length)
  <1>1. PICK n \in Nat : n = Len(batch)
    OBVIOUS
  <1>2. response \in [1 .. n -> Lm!Items(n)] /\ Len(response) = n
    <2>1. PICK m \in {n - 1, n, n + 1} \ {0} : response \in [1 .. m -> Lm!Items(n)]
      BY <1>1 DEF Lm!Responses
    <2>2. m \in Nat /\ Len(response) = n
      BY <1>1, <2>1 DEF Lm!WellFormed
    <2>3. response \in Seq(Lm!Items(n)) /\ Len(response) = m
      BY <2>1, <2>2
    <2> QED
      BY <2>1, <2>2, <2>3
  <1>3. /\ \A i \in 1 .. n : response[i].index \in 1 .. n
        /\ \A i, j \in 1 .. n : response[i].index = response[j].index => i = j
    BY <1>1 DEF Lm!WellFormed
  <1>4. PICK vectors : vectors = Lm!Arrange(batch, response)
    OBVIOUS
  <1>5. vectors = [k \in 1 .. n |->
            LET i == CHOOSE j \in 1 .. n : response[j].index = k
            IN  Lm!Vector(batch[response[i].index], response[i].length)]
    BY <1>1, <1>2, <1>4 DEF Lm!Arrange
  <1>6. ASSUME NEW k \in 1 .. n
        PROVE  /\ vectors[k] \in LmVectors
               /\ vectors[k] = Lm!Vector(batch[k], vectors[k].length)
    <2>1. PICK i : i = CHOOSE j \in 1 .. n : response[j].index = k
      OBVIOUS
    <2>2. \E j \in 1 .. n : response[j].index = k
      <3>1. PICK f : f = [j \in 1 .. n |-> response[j].index]
        OBVIOUS
      <3>2. f \in [1 .. n -> 1 .. n] /\ \A j \in 1 .. n : f[j] = response[j].index
        BY <1>3, <3>1
      <3>3. \A x, y \in 1 .. n : f[x] = f[y] => x = y
        BY <1>3, <3>2
      <3>4. f \in Surjection(1 .. n, 1 .. n)
        <4>1. f \in Injection(1 .. n, 1 .. n)
          BY <3>2, <3>3 DEF Injection, IsInjective
        <4> QED
          BY <4>1, EveryIndexOccurs
      <3> QED
        BY <3>2, <3>4 DEF Surjection
    <2>3. i \in 1 .. n /\ response[i].index = k
      BY <2>1, <2>2
    <2>4. vectors[k] = Lm!Vector(batch[k], response[i].length)
      BY <1>5, <2>1, <2>3
    <2>5. response[i].length \in Nat
      <3>1. response[i] \in Lm!Items(n)
        BY <1>2, <2>3
      <3> QED
        BY <3>1 DEF Lm!Items, Lm!SizesAssumption
    <2>6. batch[k] \in Nat
      BY <1>1
    <2> QED
      BY <2>4, <2>5, <2>6 DEF Lm!Vector, LmVectors
  <1>7. vectors \in [1 .. n -> LmVectors]
    BY <1>5, <1>6
  <1>8. vectors \in Seq(LmVectors) /\ Len(vectors) = n
    BY <1>7
  <1>9. \A k \in 1 .. n : vectors[k] = Lm!Vector(batch[k], vectors[k].length)
    BY <1>6
  <1> QED
    BY <1>1, <1>4, <1>8, <1>9, Zenon

LEMMA LmReceiveKeeps ==
    ASSUME Lm!SizesAssumption, LmInv, NEW t \in Tasks, embeds[t].pc = "sent",
           NEW response \in Lm!Responses(Len(Lm!Batch(embeds[t]))), Lm!Receive(t, response)
    PROVE  LmInv'
  <1>1. PICK call \in LmCalls : call = embeds[t]
    BY DEF LmInv
  <1>2. CallInOrder(call) /\ call.pc = "sent"
    BY <1>1 DEF LmInv
  <1>3. Len(call.vectors) < Len(call.texts)
    BY <1>2 DEF CallInOrder
  <1>4. PICK batch : batch = Lm!Batch(call)
    OBVIOUS
  <1>5. /\ batch \in Seq(Nat) /\ Len(batch) \in 1 .. Len(call.texts) - Len(call.vectors)
        /\ \A k \in 1 .. Len(batch) : batch[k] = call.texts[Len(call.vectors) + k]
    BY <1>3, <1>4, BatchOfCall
  <1>6. provider \in LmProviders /\ embeds \in [Tasks -> LmCalls]
    BY DEF LmInv
  <1>9. /\ Len(call.texts) \in Nat /\ Len(call.vectors) \in Nat
        /\ Len(batch) \in Nat /\ Len(batch) >= 1
        /\ Len(call.vectors) + Len(batch) <= Len(call.texts)
    <2>1. Len(call.texts) \in Nat /\ Len(call.vectors) \in Nat
      BY DEF LmCalls
    <2> QED
      BY <1>5, <2>1
  <1>7. CASE ~Lm!WellFormed(Len(batch), response)
    <2>1. embeds' = [embeds EXCEPT ![t] = Lm!Failed(call, provider)] /\ provider' = provider
      BY <1>1, <1>4, <1>7 DEF Lm!Receive
    <2>2. Lm!Failed(call, provider) \in LmCalls /\ CallInOrder(Lm!Failed(call, provider))
      BY <1>2, <1>6, FailedCallInOrder
    <2> QED
      BY <1>6, <2>1, <2>2 DEF LmInv
  <1>8. CASE Lm!WellFormed(Len(batch), response)
    <2>1. PICK vectors : vectors = Lm!Arrange(batch, response)
      OBVIOUS
    <2>2. /\ vectors \in Seq(LmVectors) /\ Len(vectors) = Len(batch)
          /\ \A k \in 1 .. Len(batch) : vectors[k] = Lm!Vector(batch[k], vectors[k].length)
      BY <1>1, <1>4, <1>5, <1>8, <1>9, <2>1, ArrangedBatch
    <2>3. PICK fits \in BOOLEAN : fits = \A k \in 1 .. Len(vectors) : vectors[k].length = Dimensions
      OBVIOUS
    <2>4. PICK seen : seen = [returned |-> vectors[1].length,
                              valid |-> IF fits THEN "valid" ELSE "invalid"]
      OBVIOUS
    <2>5. PICK all : all = call.vectors \o vectors
      OBVIOUS
    <2>6. 1 \in 1 .. Len(vectors) /\ vectors[1] \in LmVectors
      BY ONLY <1>9, <2>2
    <2>7. /\ seen \in LmProviders
          /\ fits => seen.returned = Dimensions /\ seen.valid = "valid"
      BY <2>3, <2>4, <2>6 DEF LmProviders, LmVectors
    <2>8. /\ provider' = seen
          /\ embeds' = [embeds EXCEPT ![t] =
                 IF ~fits THEN Lm!Failed(call, seen)
                 ELSE IF Len(all) < Len(call.texts) THEN [call EXCEPT !.vectors = all]
                 ELSE [call EXCEPT !.pc = "done", !.vectors = all,
                          !.reports = IF call.health THEN {Lm!Report(TRUE, seen)} ELSE {}]]
      BY <1>1, <1>4, <1>8, <2>1, <2>3, <2>4, <2>5 DEF Lm!Receive
    <2>9. CASE ~fits
      <3>1. Lm!Failed(call, seen) \in LmCalls /\ CallInOrder(Lm!Failed(call, seen))
        BY <1>2, <2>7, FailedCallInOrder
      <3> QED
        BY <1>6, <2>7, <2>8, <2>9, <3>1 DEF LmInv
    <2>10. CASE fits
      <3>1. /\ all \in Seq(LmVectors)
            /\ Len(all) = Len(call.vectors) + Len(vectors) /\ Len(all) <= Len(call.texts)
        <4>1. call.vectors \in Seq(LmVectors)
          BY DEF LmCalls
        <4>2. /\ call.vectors \o vectors \in Seq(LmVectors)
              /\ Len(call.vectors \o vectors) = Len(call.vectors) + Len(vectors)
          BY <2>2, <4>1, Joined
        <4> QED
          BY ONLY <1>9, <2>2, <2>5, <4>2
      <3>2. ASSUME NEW i \in 1 .. Len(all)
            PROVE  all[i] = Lm!Vector(call.texts[i], Dimensions)
        <4>1. call.vectors \in Seq(LmVectors) /\ call.texts \in Seq(Nat)
          BY DEF LmCalls
        <4>2. CASE i \in 1 .. Len(call.vectors)
          <5>1. all[i] = call.vectors[i]
            BY <2>2, <2>5, <4>1, <4>2, Joined
          <5> QED
            BY <1>2, <4>2, <5>1 DEF CallInOrder
        <4>3. CASE i \notin 1 .. Len(call.vectors)
          <5>1. PICK v \in Nat : v = Len(call.vectors)
            BY <4>1
          <5>2. PICK k \in 1 .. Len(vectors) : i = v + k
            <6>1. PICK m \in Nat : m = Len(vectors)
              BY <1>9, <2>2
            <6>2. i \in 1 .. v + m /\ i \notin 1 .. v
              BY <3>1, <4>3, <5>1, <6>1
            <6>3. i - v \in 1 .. m /\ i = v + (i - v)
              BY <6>2
            <6> QED
              BY <6>1, <6>3
          <5>3. all[v + k] = vectors[k]
            <6>1. (call.vectors \o vectors)[Len(call.vectors) + k] = vectors[k]
              BY <2>2, <4>1, Behind
            <6> QED
              BY <2>5, <5>1, <6>1
          <5>4. vectors[k] = Lm!Vector(batch[k], Dimensions) /\ batch[k] = call.texts[v + k]
            BY <1>5, <2>2, <2>3, <2>10, <5>1
          <5> QED
            BY <5>2, <5>3, <5>4
        <4> QED
          BY <4>2, <4>3
      <3>3. CASE Len(all) < Len(call.texts)
        <4>1. PICK after : after = [call EXCEPT !.vectors = all]
          OBVIOUS
        <4>2. /\ after \in LmCalls /\ after.vectors = all /\ after.texts = call.texts
              /\ after.pc = "sent" /\ after.reports = call.reports
          BY <1>2, <3>1, <4>1 DEF LmCalls
        <4>3. CallInOrder(after)
          BY <1>2, <3>1, <3>2, <3>3, <4>2 DEF CallInOrder
        <4>4. embeds' = [embeds EXCEPT ![t] = after]
          BY <2>8, <2>10, <3>3, <4>1
        <4> QED
          BY <1>6, <2>7, <2>8, <4>2, <4>3, <4>4 DEF LmInv
      <3>4. CASE ~(Len(all) < Len(call.texts))
        <4>1. PICK reports : reports = IF call.health THEN {Lm!Report(TRUE, seen)} ELSE {}
          OBVIOUS
        <4>2. reports \in SUBSET LmReports /\ \A report \in reports : TrueReport(report)
          BY <2>7, <2>10, <4>1, ReportIsTrue
        <4>3. PICK after : after = [call EXCEPT !.pc = "done", !.vectors = all, !.reports = reports]
          OBVIOUS
        <4>4. /\ after \in LmCalls /\ after.vectors = all /\ after.texts = call.texts
              /\ after.pc = "done" /\ after.reports = reports
          BY <3>1, <4>2, <4>3 DEF LmCalls
        <4>5. call.texts \in Seq(Nat) /\ Len(call.texts) \in Nat
          BY DEF LmCalls
        <4>6. CallInOrder(after)
          BY <3>1, <3>2, <3>4, <4>2, <4>4, <4>5 DEF CallInOrder
        <4>7. embeds' = [embeds EXCEPT ![t] = after]
          BY <2>8, <2>10, <3>4, <4>1, <4>3
        <4> QED
          BY <1>6, <2>7, <2>8, <4>4, <4>6, <4>7 DEF LmInv
      <3> QED
        BY <3>3, <3>4
    <2> QED
      BY <2>9, <2>10
  <1> QED
    BY <1>7, <1>8

LEMMA LmStarts ==
    ASSUME Lm!Init
    PROVE  LmInv
  <1>1. <<>> \in Seq(Nat) /\ <<>> \in Seq(LmVectors) /\ Len(<<>>) = 0
    OBVIOUS
  <1>2. Lm!NoEmbed \in LmCalls /\ CallInOrder(Lm!NoEmbed)
    BY <1>1 DEF LmCalls, Lm!NoEmbed, CallInOrder
  <1> QED
    BY <1>2 DEF Lm!Init, LmInv, LmProviders

LEMMA LmKeeps ==
    ASSUME Lm!SizesAssumption, LmInv, [Lm!Next]_(Lm!lmVars)
    PROVE  LmInv'
  <1>t. provider \in LmProviders /\ embeds \in [Tasks -> LmCalls]
    BY DEF LmInv
  <1>1. CASE UNCHANGED Lm!lmVars
    BY <1>1 DEF Lm!lmVars, LmInv
  <1>2. ASSUME NEW t \in Tasks, NEW n \in 1 .. MaxTexts, NEW health \in BOOLEAN, Lm!Begin(t, n, health)
        PROVE  LmInv'
    <2>1. PICK texts : texts = [i \in 1 .. n |-> i]
      OBVIOUS
    <2>2. texts \in Seq(Nat) /\ Len(texts) = n
      BY <2>1 DEF Lm!SizesAssumption
    <2>3. <<>> \in Seq(LmVectors) /\ Len(<<>>) = 0
      OBVIOUS
    <2>4. PICK call : call = [Lm!NoEmbed EXCEPT !.pc = "sent", !.health = health, !.texts = texts]
      OBVIOUS
    <2>5. call = [pc |-> "sent", health |-> health, texts |-> texts, vectors |-> <<>>, reports |-> {}]
      BY <2>4 DEF Lm!NoEmbed
    <2>6. call \in LmCalls
      BY <2>2, <2>3, <2>5 DEF LmCalls
    <2>7. CallInOrder(call)
      BY <2>2, <2>3, <2>5 DEF CallInOrder, Lm!SizesAssumption
    <2>8. Lm!Failed(call, provider) \in LmCalls /\ CallInOrder(Lm!Failed(call, provider))
      BY <1>t, <2>6, <2>7, FailedCallInOrder
    <2>9. /\ embeds' = [embeds EXCEPT ![t] =
                 IF Requested # 0 /\ Capability # "tested" THEN Lm!Failed(call, provider) ELSE call]
          /\ provider' = provider
      BY <1>2, <2>1, <2>4 DEF Lm!Begin
    <2> QED
      BY <1>t, <2>6, <2>7, <2>8, <2>9 DEF LmInv
  <1>3. ASSUME NEW t \in Tasks, Lm!RequestFails(t)
        PROVE  LmInv'
    <2>1. /\ embeds' = [embeds EXCEPT ![t] = Lm!Failed(embeds[t], provider)]
          /\ provider' = provider
      BY <1>3 DEF Lm!RequestFails
    <2>2. embeds[t] \in LmCalls /\ CallInOrder(embeds[t])
      BY <1>t DEF LmInv
    <2>3. /\ Lm!Failed(embeds[t], provider) \in LmCalls
          /\ CallInOrder(Lm!Failed(embeds[t], provider))
      BY <1>t, <2>2, FailedCallInOrder
    <2> QED
      BY <1>t, <2>1, <2>3 DEF LmInv
  <1>4. ASSUME NEW t \in Tasks, embeds[t].pc = "sent",
               NEW r \in Lm!Responses(Len(Lm!Batch(embeds[t]))), Lm!Receive(t, r)
        PROVE  LmInv'
    BY <1>4, LmReceiveKeeps
  <1> QED
    BY <1>1, <1>2, <1>3, <1>4 DEF Lm!Next

(***************************************************************************)
(* A call that returns has the vector of its i-th text in the i-th place,  *)
(* complete and of the configured length, in whatever order and size the   *)
(* server answered its batches; a healthy report is about vectors of that  *)
(* length, and one that claims a reduced dimension has evidence for it     *)
(* (client.py embed, health, mrl_status).                                  *)
(***************************************************************************)
THEOREM LmVectorsInOrder == Lm!Spec => []VectorsInOrder
  <1>1. Lm!Init => LmInv
    BY LmStarts
  <1>2. LmInv /\ [Lm!Next]_(Lm!lmVars) => LmInv'
    BY HostsAssumption, LmKeeps
  <1>3. LmInv => VectorsInOrder
    <2> SUFFICES ASSUME LmInv, NEW t \in Tasks
                 PROVE  /\ embeds[t].pc = "done" =>
                               embeds[t].vectors = [i \in 1 .. Len(embeds[t].texts) |->
                                                        Lm!Vector(embeds[t].texts[i], Dimensions)]
                        /\ \A report \in embeds[t].reports : TrueReport(report)
      BY DEF VectorsInOrder, Lm!VectorsInOrder, Lm!HealthTruthful, TrueReport
    <2>1. CallInOrder(embeds[t]) /\ embeds[t].vectors \in Seq(LmVectors)
      BY DEF LmInv, LmCalls
    <2>2. PICK v \in Seq(LmVectors) : v = embeds[t].vectors
      BY <2>1
    <2>3. v = [i \in 1 .. Len(v) |-> v[i]]
      OBVIOUS
    <2> QED
      BY <2>1, <2>2, <2>3 DEF CallInOrder
  <1> QED
    BY <1>1, <1>2, <1>3, PTL DEF Lm!Spec

-----------------------------------------------------------------------------
(***************************************************************************)
(* The model switch.  While the command runs with vectors bound, the       *)
(* configuration names the model and the dimension it was asked for, so    *)
(* writing the configuration changes nothing; without, what the rebuild    *)
(* bound is what is written.  What it unloads was loaded for the model     *)
(* the old configuration named, and that is checked not to be the new one. *)
(***************************************************************************)
Stages == {"list", "instances", "download", "poll", "visibility", "load", "probe", "rebuild",
           "write", "unload"}
RunFields == {"pc", "name", "rebuild", "download", "load", "known", "bound", "candidate", "target",
              "found", "previous", "unload", "polls", "visible", "seen", "dimensions", "rebuilt"}

IsRun(s) == DOMAIN s = RunFields /\ s = [f \in RunFields |-> s[f]]

RunInv ==
    /\ IsRun(switch)
    /\ switch.name \in Names
    /\ switch.bound => /\ bindings = configured /\ bindings # Switch!Unbound
                       /\ configured = Switch!Profile(switch.name, switch.candidate)
    /\ switch.bound /\ switch.pc # "list" => switch.target = switch.name
    /\ switch.pc \notin {"write", "unload"} => bindings \in {Switch!Unbound, configured} /\ ~switch.rebuilt
    /\ switch.pc \in {"list", "instances"} => switch.unload = {}
    /\ \A i \in switch.unload : InstanceKey[i] = switch.previous
    /\ switch.pc \in {"rebuild", "write", "unload"} =>
           IF switch.bound THEN switch.dimensions = switch.candidate ELSE switch.dimensions # 0
    /\ switch.pc = "write" /\ switch.rebuilt => bindings = Switch!New
    /\ switch.pc = "unload" => configured = Switch!New

IsServer(s) == DOMAIN s = {"visible", "loaded", "download"} /\ s = [f \in {"visible", "loaded", "download"} |-> s[f]]

SwitchInv ==
    /\ IsServer(server) /\ server.visible \subseteq Keys
    /\ switch.pc \in Stages \cup {"idle", "ended"}
    /\ switch.pc = "idle" => bindings \in {Switch!Unbound, configured}
    /\ switch.pc \in Stages => RunInv

\* What a step may do to what others rely on.
SwitchSafe == Switch!ConfiguredStaysLoaded /\ Switch!ConfigurationFollowsIndex

\* A run that keeps these fields keeps what the invariant says of them.
Kept(F) == IsRun(switch)' /\ \A f \in RunFields \ F : switch'[f] = switch[f]

LEMMA SwitchStarts ==
    ASSUME Switch!Init
    PROVE  SwitchInv
  BY DEF Switch!Init, Switch!Idle, SwitchInv, IsServer, Stages

LEMMA StopKeeps ==
    ASSUME SwitchInv, NEW why, Switch!Stop(why), Switch!Quiet
    PROVE  SwitchInv' /\ SwitchSafe
  BY DEF SwitchInv, IsServer, Stages, Switch!Stop, Switch!Quiet, SwitchSafe,
         Switch!ConfiguredStaysLoaded, Switch!ConfigurationFollowsIndex

\* Most steps move the run and nothing else.
LEMMA QuietKeeps ==
    ASSUME SwitchInv, switch.pc \in Stages, RunInv', switch'.pc \in Stages, Switch!Quiet
    PROVE  SwitchInv' /\ SwitchSafe
  BY DEF SwitchInv, IsServer, Stages, Switch!Quiet, SwitchSafe,
         Switch!ConfiguredStaysLoaded, Switch!ConfigurationFollowsIndex

LEMMA ToKeeps ==
    ASSUME IsRun(switch), NEW p, Switch!To(p)
    PROVE  Kept({"pc"}) /\ switch'.pc = p
  BY DEF IsRun, Switch!To, Kept, RunFields

LEMMA SwitchBegins ==
    ASSUME SwitchInv,
           NEW name \in Names, NEW mode \in Switch!Modes, NEW download \in BOOLEAN, NEW load \in BOOLEAN,
           NEW confirmed \in BOOLEAN, NEW known, Switch!Begin(name, mode, download, load, confirmed, known)
    PROVE  SwitchInv' /\ SwitchSafe
  <1>1. switch.pc = "idle" /\ Switch!Quiet /\ bindings \in {Switch!Unbound, configured}
    BY DEF Switch!Begin, SwitchInv
  <1>2. PICK wanted : wanted = Switch!Profile(name, IF known = 0 THEN configured.dimensions ELSE known)
    OBVIOUS
  <1>3. \/ \E why : Switch!Stop(why)
        \/ /\ Switch!Compatible(wanted)
           /\ switch' = [pc |-> "list", name |-> name, rebuild |-> mode # "none", download |-> download,
                         load |-> load, known |-> known, bound |-> bindings # Switch!Unbound,
                         candidate |-> wanted.dimensions, target |-> Switch!NoKey, found |-> Switch!NoKey,
                         previous |-> Switch!NoKey, unload |-> {}, polls |-> 0, visible |-> {},
                         seen |-> {}, dimensions |-> 0, rebuilt |-> FALSE]
    BY <1>2 DEF Switch!Begin
  <1>4. CASE \E why : Switch!Stop(why)
    BY <1>1, <1>4, StopKeeps
  <1>5. CASE /\ Switch!Compatible(wanted)
             /\ switch' = [pc |-> "list", name |-> name, rebuild |-> mode # "none", download |-> download,
                           load |-> load, known |-> known, bound |-> bindings # Switch!Unbound,
                           candidate |-> wanted.dimensions, target |-> Switch!NoKey,
                           found |-> Switch!NoKey, previous |-> Switch!NoKey, unload |-> {}, polls |-> 0,
                           visible |-> {}, seen |-> {}, dimensions |-> 0, rebuilt |-> FALSE]
    <2>1. IsRun(switch)'
      BY <1>5 DEF IsRun, RunFields
    <2>2. /\ switch'.pc = "list" /\ switch'.name = name /\ switch'.unload = {} /\ ~switch'.rebuilt
          /\ switch'.bound = (bindings # Switch!Unbound) /\ switch'.candidate = wanted.dimensions
      BY <1>5
    <2>3. UNCHANGED <<server, configured, bindings>>
      BY <1>1 DEF Switch!Quiet
    <2>4. switch'.bound => /\ bindings = configured /\ bindings # Switch!Unbound
                           /\ configured = Switch!Profile(name, wanted.dimensions)
      BY <1>1, <1>2, <1>5, <2>2 DEF Switch!Compatible, Switch!Profile
    <2>5. RunInv'
      BY <1>1, <2>1, <2>2, <2>3, <2>4 DEF RunInv, Switch!Profile, Switch!Unbound
    <2> QED
      BY <1>1, <2>2, <2>3, <2>5 DEF SwitchInv, IsServer, Stages, SwitchSafe,
             Switch!ConfiguredStaysLoaded, Switch!ConfigurationFollowsIndex
  <1> QED
    BY <1>3, <1>4, <1>5

\* The names are resolved: a bound run keeps the name it was given.
LEMMA ResolvesKeep ==
    ASSUME SwitchInv, Switch!ListModels \/ Switch!PreviousInstances \/ Switch!SeeModel
    PROVE  SwitchInv' /\ SwitchSafe
  <1>1. CASE Switch!ListModels
    <2>1. switch.pc = "list" /\ Switch!Quiet /\ RunInv
      BY <1>1 DEF Switch!ListModels, SwitchInv, Stages
    <2>2. PICK found : found = Switch!Find(server.visible, switch.name, switch.bound)
      OBVIOUS
    <2>3. PICK previous : previous = Switch!Find(server.visible, configured.model, switch.bound)
      OBVIOUS
    <2>4. \/ Switch!Stop("failed")
          \/ switch' = [switch EXCEPT
                    !.pc = "instances", !.visible = server.visible, !.seen = server.loaded,
                    !.found = found,
                    !.target = IF switch.bound \/ found = Switch!NoKey THEN switch.name ELSE found,
                    !.previous = IF switch.bound \/ previous = Switch!NoKey
                                 THEN configured.model ELSE previous]
      BY <1>1, <2>2, <2>3 DEF Switch!ListModels
    <2>5. CASE Switch!Stop("failed")
      BY <2>1, <2>5, StopKeeps
    <2>6. CASE switch' = [switch EXCEPT
                    !.pc = "instances", !.visible = server.visible, !.seen = server.loaded,
                    !.found = found,
                    !.target = IF switch.bound \/ found = Switch!NoKey THEN switch.name ELSE found,
                    !.previous = IF switch.bound \/ previous = Switch!NoKey
                                 THEN configured.model ELSE previous]
      <3>1. /\ Kept({"pc", "visible", "seen", "found", "target", "previous"}) /\ switch'.pc = "instances"
            /\ switch.bound => switch'.target = switch.name
        BY <2>1, <2>6 DEF RunInv, IsRun, RunFields, Kept
      <3>2. RunInv'
        BY <2>1, <3>1 DEF RunInv, Kept, RunFields, Switch!Quiet
      <3> QED
        BY <2>1, <3>1, <3>2, QuietKeeps DEF Stages
    <2> QED
      BY <2>4, <2>5, <2>6
  <1>2. CASE Switch!PreviousInstances
    <2>1. switch.pc = "instances" /\ Switch!Quiet /\ RunInv
      BY <1>2 DEF Switch!PreviousInstances, SwitchInv, Stages
    <2>2. PICK mine : mine = IF switch.previous \in switch.visible THEN Switch!InstancesOf(switch.previous)
                             ELSE {}
      OBVIOUS
    <2>3. PICK next \in {"download", "load"} :
              next = IF switch.found = Switch!NoKey \/ switch.download THEN "download" ELSE "load"
      OBVIOUS
    <2>4. \/ Switch!Stop("not_visible")
          \/ switch' = [switch EXCEPT !.pc = next, !.unload = mine]
      BY <1>2, <2>2, <2>3 DEF Switch!PreviousInstances
    <2>5. CASE Switch!Stop("not_visible")
      BY <2>1, <2>5, StopKeeps
    <2>6. CASE switch' = [switch EXCEPT !.pc = next, !.unload = mine]
      <3>1. Kept({"pc", "unload"}) /\ switch'.pc = next /\ switch'.unload = mine
        BY <2>1, <2>6 DEF RunInv, IsRun, RunFields, Kept
      <3>2. \A i \in mine : InstanceKey[i] = switch.previous
        BY <2>2 DEF Switch!InstancesOf
      <3>3. RunInv'
        BY <2>1, <2>3, <3>1, <3>2 DEF RunInv, Kept, RunFields, Switch!Quiet
      <3> QED
        BY <2>1, <2>3, <3>1, <3>3, QuietKeeps DEF Stages
    <2> QED
      BY <2>4, <2>5, <2>6
  <1>3. CASE Switch!SeeModel
    <2>1. switch.pc = "visibility" /\ Switch!Quiet /\ RunInv
      BY <1>3 DEF Switch!SeeModel, SwitchInv, Stages
    <2>2. PICK found : found = Switch!Find(server.visible, switch.name, switch.bound)
      OBVIOUS
    <2>3. \/ Switch!Stop("failed")
          \/ switch' = [switch EXCEPT !.polls = @ + 1]
          \/ switch' = [switch EXCEPT !.pc = "load", !.visible = server.visible, !.seen = server.loaded,
                            !.found = found,
                            !.target = IF switch.bound \/ found = Switch!NoKey THEN switch.name ELSE found]
      BY <1>3, <2>2 DEF Switch!SeeModel
    <2>4. CASE Switch!Stop("failed")
      BY <2>1, <2>4, StopKeeps
    <2>5. CASE switch' = [switch EXCEPT !.polls = @ + 1]
      <3>1. Kept({"polls"})
        BY <2>1, <2>5 DEF RunInv, IsRun, RunFields, Kept
      <3>2. RunInv' /\ switch'.pc = "visibility"
        BY <2>1, <3>1 DEF RunInv, Kept, RunFields, Switch!Quiet
      <3> QED
        BY <2>1, <3>2, QuietKeeps DEF Stages
    <2>6. CASE switch' = [switch EXCEPT !.pc = "load", !.visible = server.visible, !.seen = server.loaded,
                            !.found = found,
                            !.target = IF switch.bound \/ found = Switch!NoKey THEN switch.name ELSE found]
      <3>1. /\ Kept({"pc", "visible", "seen", "found", "target"}) /\ switch'.pc = "load"
            /\ switch.bound => switch'.target = switch.name
        BY <2>1, <2>6 DEF RunInv, IsRun, RunFields, Kept
      <3>2. RunInv'
        BY <2>1, <3>1 DEF RunInv, Kept, RunFields, Switch!Quiet
      <3> QED
        BY <2>1, <3>1, <3>2, QuietKeeps DEF Stages
    <2> QED
      BY <2>3, <2>4, <2>5, <2>6
  <1> QED
    BY <1>1, <1>2, <1>3

\* A step that only moves on between two requests before the rebuild.
LEMMA MovesKeep ==
    ASSUME SwitchInv, NEW p \in {"poll", "visibility", "probe"},
           switch.pc \in {"download", "poll", "load"}, Switch!To(p),
           UNCHANGED <<configured, bindings>>
    PROVE  RunInv' /\ switch'.pc = p
  <1>1. RunInv
    BY DEF SwitchInv, Stages
  <1>2. Kept({"pc"}) /\ switch'.pc = p
    BY <1>1, ToKeeps DEF RunInv
  <1> QED
    BY <1>1, <1>2 DEF RunInv, Kept, RunFields

LEMMA RequestsKeep ==
    ASSUME SwitchInv, \/ Switch!RequestDownload \/ Switch!PollDownload \/ Switch!LoadModel
                      \/ Switch!RequestFails \/ Switch!Dies \/ Switch!WriteFails
    PROVE  SwitchInv' /\ SwitchSafe
  <1>1. CASE Switch!RequestDownload
    <2>1. /\ switch.pc = "download" /\ UNCHANGED <<configured, bindings>> /\ Switch!To("poll")
          /\ server' = [server EXCEPT !.download = "running"]
      BY <1>1 DEF Switch!RequestDownload
    <2>2. RunInv' /\ switch'.pc = "poll"
      BY <2>1, MovesKeep
    <2>3. IsServer(server)' /\ server'.visible = server.visible /\ server'.loaded = server.loaded
      BY <2>1 DEF SwitchInv, IsServer
    <2> QED
      BY <2>1, <2>2, <2>3 DEF SwitchInv, Stages, SwitchSafe, Switch!ConfiguredStaysLoaded,
             Switch!ConfigurationFollowsIndex
  <1>2. CASE Switch!PollDownload
    <2>1. switch.pc = "poll" /\ Switch!Quiet /\ RunInv
      BY <1>2 DEF Switch!PollDownload, SwitchInv, Stages
    <2>2. CASE Switch!To("visibility")
      BY <2>1, <2>2, MovesKeep, QuietKeeps DEF Stages, Switch!Quiet
    <2>3. CASE Switch!Stop("failed")
      BY <2>1, <2>3, StopKeeps
    <2>4. CASE switch' = [switch EXCEPT !.polls = @ + 1]
      <3>1. Kept({"polls"})
        BY <2>1, <2>4 DEF RunInv, IsRun, RunFields, Kept
      <3>2. RunInv' /\ switch'.pc = "poll"
        BY <2>1, <3>1 DEF RunInv, Kept, RunFields, Switch!Quiet
      <3> QED
        BY <2>1, <3>2, QuietKeeps DEF Stages
    <2> QED
      BY <1>2, <2>2, <2>3, <2>4 DEF Switch!PollDownload
  <1>3. CASE Switch!LoadModel
    <2>1. /\ switch.pc = "load" /\ UNCHANGED <<configured, bindings>>
          /\ \/ Switch!To("probe") /\ \E i \in Instances : server' = [server EXCEPT !.loaded = @ \cup {i}]
             \/ Switch!To("probe") /\ UNCHANGED server
             \/ Switch!Stop("config_error") /\ UNCHANGED server
      BY <1>3 DEF Switch!LoadModel
    <2>2. CASE Switch!Stop("config_error") /\ UNCHANGED server
      BY <2>1, <2>2, StopKeeps DEF Switch!Quiet
    <2>3. CASE Switch!To("probe") /\ UNCHANGED server
      BY <2>1, <2>3, MovesKeep, QuietKeeps DEF Stages, Switch!Quiet
    <2>4. CASE Switch!To("probe") /\ \E i \in Instances : server' = [server EXCEPT !.loaded = @ \cup {i}]
      <3>1. RunInv' /\ switch'.pc = "probe"
        BY <2>1, <2>4, MovesKeep
      <3>2. IsServer(server)' /\ server'.visible = server.visible /\ server.loaded \subseteq server'.loaded
        BY <2>4 DEF SwitchInv, IsServer
      <3> QED
        BY <2>1, <3>1, <3>2 DEF SwitchInv, Stages, SwitchSafe, Switch!ConfiguredStaysLoaded,
               Switch!ConfigurationFollowsIndex
    <2> QED
      BY <2>1, <2>2, <2>3, <2>4
  <1>4. CASE Switch!RequestFails \/ Switch!Dies \/ Switch!WriteFails
    BY <1>4, StopKeeps DEF Switch!RequestFails, Switch!Dies, Switch!WriteFails
  <1> QED
    BY <1>1, <1>2, <1>3, <1>4

\* The vector is measured, the index is rebuilt and the file written: the
\* identity the file names is the one the vectors then have.
LEMMA ProbeKeeps ==
    ASSUME Switch!KeysAssumption, SwitchInv, Switch!Probe
    PROVE  SwitchInv' /\ SwitchSafe
  <1>1. /\ switch.pc = "probe" /\ Switch!Quiet /\ RunInv
        /\ switch.bound \/ switch.known # 0 \/ switch.target \in Keys
    BY DEF Switch!Probe, SwitchInv, Stages
  <1>2. PICK d : d = IF switch.bound THEN switch.candidate
                     ELSE IF switch.known # 0 THEN switch.known ELSE DimensionOf[switch.target]
    OBVIOUS
  <1>3. IF switch.bound THEN d = switch.candidate ELSE d # 0
    BY <1>1, <1>2 DEF Switch!KeysAssumption
  <1>4. \/ Switch!Stop("incompatible_embedding_profile")
        \/ switch' = [switch EXCEPT !.pc = "rebuild", !.dimensions = d]
    BY <1>2 DEF Switch!Probe
  <1>5. CASE Switch!Stop("incompatible_embedding_profile")
    BY <1>1, <1>5, StopKeeps
  <1>6. CASE switch' = [switch EXCEPT !.pc = "rebuild", !.dimensions = d]
    <2>1. Kept({"pc", "dimensions"}) /\ switch'.pc = "rebuild" /\ switch'.dimensions = d
      BY <1>1, <1>6 DEF RunInv, IsRun, RunFields, Kept
    <2>2. RunInv'
      BY <1>1, <1>3, <2>1 DEF RunInv, Kept, RunFields, Switch!Quiet
    <2> QED
      BY <1>1, <2>1, <2>2, QuietKeeps DEF Stages
  <1> QED
    BY <1>4, <1>5, <1>6

LEMMA RebuildKeeps ==
    ASSUME SwitchInv, Switch!Rebuild
    PROVE  SwitchInv' /\ SwitchSafe
  <1>1. switch.pc = "rebuild" /\ RunInv /\ UNCHANGED <<server, configured>>
    BY DEF Switch!Rebuild, SwitchInv, Stages
  <1>2. \/ Switch!To("write") /\ UNCHANGED bindings
        \/ /\ Switch!Compatible(Switch!New) /\ bindings' \in {bindings, Switch!New}
           /\ switch' = [switch EXCEPT !.pc = "write", !.rebuilt = bindings' = Switch!New]
        \/ \E why : Switch!Stop(why)
    BY DEF Switch!Rebuild
  <1>3. CASE Switch!To("write") /\ UNCHANGED bindings
    <2>1. Kept({"pc"}) /\ switch'.pc = "write"
      BY <1>1, <1>3, ToKeeps DEF RunInv
    <2>2. RunInv'
      BY <1>1, <1>3, <2>1 DEF RunInv, Kept, RunFields
    <2> QED
      BY <1>1, <1>3, <2>1, <2>2, QuietKeeps DEF Stages, Switch!Quiet
  <1>4. CASE /\ Switch!Compatible(Switch!New) /\ bindings' \in {bindings, Switch!New}
             /\ switch' = [switch EXCEPT !.pc = "write", !.rebuilt = bindings' = Switch!New]
    <2>1. /\ Kept({"pc", "rebuilt"}) /\ switch'.pc = "write"
          /\ switch'.rebuilt = (bindings' = Switch!New)
      BY <1>1, <1>4 DEF RunInv, IsRun, RunFields, Kept
    <2>2. Switch!New' = Switch!New
      BY <2>1 DEF Switch!New, Kept, RunFields
    <2>3. switch.bound => bindings' = bindings
      BY <1>1, <1>4 DEF RunInv, Switch!Compatible
    <2>4. RunInv'
      BY <1>1, <2>1, <2>2, <2>3 DEF RunInv, Kept, RunFields
    <2> QED
      BY <1>1, <2>1, <2>4 DEF SwitchInv, IsServer, Stages, SwitchSafe,
             Switch!ConfiguredStaysLoaded, Switch!ConfigurationFollowsIndex
  <1>5. CASE \E why : Switch!Stop(why)
    <2>1. switch'.pc = "ended"
      BY <1>5 DEF Switch!Stop
    <2> QED
      BY <1>1, <2>1 DEF SwitchInv, IsServer, Stages, SwitchSafe,
             Switch!ConfiguredStaysLoaded, Switch!ConfigurationFollowsIndex
  <1> QED
    BY <1>2, <1>3, <1>4, <1>5

LEMMA WriteKeeps ==
    ASSUME SwitchInv, Switch!WriteConfig
    PROVE  SwitchInv' /\ SwitchSafe
  <1>1. /\ switch.pc = "write" /\ RunInv /\ configured' = Switch!New /\ Switch!To("unload")
        /\ UNCHANGED <<server, bindings>>
    BY DEF Switch!WriteConfig, SwitchInv, Stages
  <1>2. Kept({"pc"}) /\ switch'.pc = "unload"
    BY <1>1, ToKeeps DEF RunInv
  <1>3. Switch!New' = Switch!New
    BY <1>2 DEF Switch!New, Kept, RunFields
  <1>4. switch.bound => configured' = configured
    BY <1>1 DEF RunInv, Switch!New
  <1>5. RunInv'
    BY <1>1, <1>2, <1>3, <1>4 DEF RunInv, Kept, RunFields
  <1>6. Switch!ConfigurationFollowsIndex
    BY <1>1, <1>4 DEF RunInv, Switch!ConfigurationFollowsIndex
  <1> QED
    BY <1>1, <1>2, <1>5, <1>6 DEF SwitchInv, IsServer, Stages, SwitchSafe, Switch!ConfiguredStaysLoaded

\* Only instances of another model than the configured one are unloaded.
LEMMA UnloadKeeps ==
    ASSUME SwitchInv, Switch!UnloadPrevious
    PROVE  SwitchInv' /\ SwitchSafe
  <1>1. switch.pc = "unload" /\ RunInv /\ UNCHANGED <<configured, bindings>>
    BY DEF Switch!UnloadPrevious, SwitchInv, Stages
  <1>2. CASE Switch!Stop("switched") /\ UNCHANGED server
    BY <1>1, <1>2, StopKeeps DEF Switch!Quiet
  <1>3. CASE /\ switch.previous # switch.target
             /\ \E i \in switch.unload :
                    /\ switch' = [switch EXCEPT !.unload = @ \ {i}]
                    /\ server' \in {server, [server EXCEPT !.loaded = @ \ {i}]}
    <2>1. PICK i \in switch.unload : /\ switch' = [switch EXCEPT !.unload = @ \ {i}]
                                     /\ server' \in {server, [server EXCEPT !.loaded = @ \ {i}]}
      BY <1>3
    <2>2. Kept({"unload"}) /\ switch'.unload = switch.unload \ {i}
      BY <1>1, <2>1 DEF RunInv, IsRun, RunFields, Kept
    <2>3. RunInv' /\ switch'.pc = "unload"
      <3>1. Switch!New' = Switch!New
        BY <2>2 DEF Switch!New, Kept, RunFields
      <3> QED
        BY <1>1, <2>2, <3>1 DEF RunInv, Kept, RunFields
    <2>4. /\ IsServer(server)' /\ server'.visible = server.visible
          /\ server.loaded \ server'.loaded \subseteq {i}
      BY <2>1 DEF SwitchInv, IsServer
    <2>5. InstanceKey[i] # configured'.model
      BY <1>1, <1>3, <2>1 DEF RunInv, Switch!New, Switch!Profile
    <2> QED
      BY <1>1, <2>3, <2>4, <2>5 DEF SwitchInv, Stages, SwitchSafe,
             Switch!ConfiguredStaysLoaded, Switch!ConfigurationFollowsIndex
  <1> QED
    BY <1>2, <1>3 DEF Switch!UnloadPrevious

\* The server and the other processes never touch the run; one that indexes
\* finds no vectors, so none were bound and none were rebuilt.
LEMMA OthersKeep ==
    ASSUME Switch!KeysAssumption, SwitchInv,
           \/ Switch!DownloadMoves \/ Switch!OthersLoad \/ Switch!OthersUnload \/ Switch!OthersIndex
           \/ UNCHANGED Switch!switchVars
    PROVE  SwitchInv' /\ SwitchSafe
  <1>1. UNCHANGED <<configured, switch>>
    BY DEF Switch!DownloadMoves, Switch!OthersLoad, Switch!OthersUnload, Switch!OthersIndex,
           Switch!switchVars
  <1>2. SwitchSafe
    BY <1>1 DEF SwitchSafe, Switch!ConfiguredStaysLoaded, Switch!ConfigurationFollowsIndex
  <1>3. IsServer(server)' /\ server'.visible \subseteq Keys
    <2>1. CASE Switch!DownloadMoves
      <3>1. RunInv
        BY <2>1 DEF Switch!DownloadMoves, SwitchInv, Stages
      <3>2. ExactKey[switch.name] \in Keys \cup {Switch!NoKey}
        BY <3>1 DEF RunInv, Switch!KeysAssumption
      <3> QED
        BY <2>1, <3>2 DEF Switch!DownloadMoves, SwitchInv, IsServer
    <2>2. CASE \/ Switch!OthersLoad \/ Switch!OthersUnload \/ Switch!OthersIndex
               \/ UNCHANGED Switch!switchVars
      BY <2>2 DEF Switch!OthersLoad, Switch!OthersUnload, Switch!OthersIndex, Switch!switchVars,
             SwitchInv, IsServer
    <2> QED
      BY <2>1, <2>2
  <1>4. CASE UNCHANGED bindings
    <2>1. Switch!New' = Switch!New /\ IsRun(switch)' = IsRun(switch)
      BY <1>1 DEF Switch!New, IsRun
    <2>2. RunInv => RunInv'
      BY <1>1, <1>4, <2>1 DEF RunInv
    <2> QED
      BY <1>1, <1>2, <1>3, <1>4, <2>2 DEF SwitchInv
  <1>5. CASE Switch!OthersIndex
    <2>1. bindings = Switch!Unbound /\ bindings' = configured
      BY <1>5 DEF Switch!OthersIndex
    <2>2. RunInv /\ switch.pc \in {"write", "unload"} =>
              ~switch.bound /\ Switch!New # Switch!Unbound
      BY <2>1 DEF RunInv, Switch!New, Switch!Unbound, Switch!Profile
    <2>3. switch.pc \in Stages => RunInv'
      BY <1>1, <2>1, <2>2 DEF SwitchInv, RunInv, IsRun, Switch!New
    <2> QED
      BY <1>1, <1>2, <1>3, <2>1, <2>3 DEF SwitchInv
  <1> QED
    BY <1>2, <1>3, <1>4, <1>5 DEF Switch!DownloadMoves, Switch!OthersLoad, Switch!OthersUnload,
       Switch!switchVars

LEMMA SwitchKeeps ==
    ASSUME Switch!KeysAssumption, SwitchInv, [Switch!Next]_(Switch!switchVars)
    PROVE  SwitchInv' /\ SwitchSafe
  <1>1. CASE \E name \in Names, mode \in Switch!Modes, download, load, confirmed \in BOOLEAN,
                known \in {0} \cup {DimensionOf[k] : k \in Keys} :
                    Switch!Begin(name, mode, download, load, confirmed, known)
    BY <1>1, SwitchBegins
  <1>2. CASE Switch!Command \/ Switch!Dies
    BY <1>2, ResolvesKeep, RequestsKeep, ProbeKeeps, RebuildKeeps, WriteKeeps, UnloadKeeps
       DEF Switch!Command
  <1>3. CASE \/ Switch!DownloadMoves \/ Switch!OthersLoad \/ Switch!OthersUnload \/ Switch!OthersIndex
             \/ UNCHANGED Switch!switchVars
    BY <1>3, OthersKeep
  <1> QED
    BY <1>1, <1>2, <1>3 DEF Switch!Next

\* "mdrack model switch" (cli/commands/model.py) for any models, names and
\* other clients: the command never unloads an instance of the model the
\* configuration names, whatever failed before; it changes the configuration
\* only where no vectors were bound as it began, and when it has rebuilt the
\* index, to the identity the stored vectors then have.  Vectors that another
\* process binds after the command's last look are outside the statement.
THEOREM SwitchStaysInOrder == Switch!Spec => SwitchInOrder
  <1>1. SwitchInv /\ [Switch!Next]_(Switch!switchVars) => SwitchInv' /\ SwitchSafe
    BY HostsAssumption, SwitchKeeps
  <1>2. Switch!Init => SwitchInv
    BY SwitchStarts
  <1>3. SwitchSafe => Switch!ConfiguredStaysLoaded /\ Switch!ConfigurationFollowsIndex
    BY DEF SwitchSafe
  <1> QED
    BY <1>1, <1>2, <1>3, PTL DEF Switch!Spec, SwitchInOrder
=============================================================================
