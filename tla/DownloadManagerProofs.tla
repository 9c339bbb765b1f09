------------------------- MODULE DownloadManagerProofs -------------------------
(***************************************************************************)
(* What is proved of DownloadManager for every number of threads, size of  *)
(* file, size of part, and number of faults and crashes.                   *)
(***************************************************************************)
EXTENDS DownloadManager, TLAPS

(***************************************************************************)
(* The partition.                                                          *)
(***************************************************************************)

\* The whole parts and the tail make up the file.
LEMMA DivMod ==
  /\ FullParts \in Nat
  /\ TailLen \in 0 .. PartSize - 1
  /\ TotalSize = FullParts * PartSize + TailLen
BY ConstantsAssumption DEF FullParts, TailLen

LEMMA ProductMonotone ==
  ASSUME NEW a \in Nat, NEW b \in Nat, NEW c \in Nat, a <= b
  PROVE  a * c <= b * c
<1>1. PICK d \in Nat : b = a + d
  BY b - a \in Nat, b = a + (b - a)
<1>2. b * c = a * c + d * c
  BY <1>1
<1>3. d * c \in Nat /\ a * c \in Nat
  BY <1>1
<1> QED BY <1>2, <1>3

Quot(a, b) == a \div b
Rem(a, b)  == a % b

LEMMA Quotient ==
  ASSUME NEW a \in Nat, NEW b \in Nat \ {0}
  PROVE  Quot(a, b) \in Nat /\ Rem(a, b) \in 0 .. b - 1 /\ a = Quot(a, b) * b + Rem(a, b)
BY DEF Quot, Rem

\* Every part lies within the file.
LEMMA PartFits ==
  ASSUME NEW id \in PartIds
  PROVE  /\ NumParts \in Nat
         /\ Offset(id) \in Nat /\ PartLen(id) \in Nat \ {0}
         /\ Offset(id) + PartLen(id) <= TotalSize
<1> USE ConstantsAssumption, DivMod
<1>1. NumParts \in Nat /\ id \in Nat /\ id < NumParts
  BY DEF NumParts, PartIds
<1>2. Offset(id) \in Nat
  BY <1>1 DEF Offset
<1>3. CASE id < FullParts
  <2>1. (id + 1) * PartSize <= FullParts * PartSize
    BY <1>1, <1>3, ProductMonotone
  <2>2. (id + 1) * PartSize = id * PartSize + PartSize
    BY <1>1
  <2>3. FullParts * PartSize \in Nat /\ id * PartSize \in Nat
    BY <1>1
  <2> QED BY <1>1, <1>2, <1>3, <2>1, <2>2, <2>3 DEF Offset, PartLen
<1>4. CASE ~(id < FullParts)
  <2>1. id = FullParts /\ TailLen > 0
    BY <1>1, <1>4 DEF NumParts
  <2> QED BY <1>1, <1>2, <2>1 DEF Offset, PartLen
<1> QED BY <1>3, <1>4

-----------------------------------------------------------------------------
(***************************************************************************)
(* Types.  A write of the status file extends it by one record only if the *)
(* descriptor is not beyond its end, and a record indexes usingOffsets     *)
(* only if its id is in range, so types and ranges are proved together,    *)
(* with which threads hold a part.                                         *)
(***************************************************************************)
Working == {"request", "receive", "seek", "write", "release"}

Placed ==
  \A t \in Threads :
    /\ phase = "running" <=> pc[t] # "idle"
    /\ part[t] # NoPart <=> pc[t] \in Working

Typed == TypeOK /\ IdsInRange /\ Placed

LEMMA NoPartsTyped == NoParts \in Records(0)
BY 0 .. -1 = {} DEF NoParts, Records

LEMMA InitTyped == Init => Typed
<1> SUFFICES ASSUME Init PROVE Typed
  OBVIOUS
<1> USE ConstantsAssumption DEF Init
<1>1. TypeOK
  <2>1. parts \in Records(nPart) /\ status \in Records(statusLen)
    BY NoPartsTyped
  <2>2. part \in [Threads -> (0 .. nPart - 1) \cup {NoPart}]
    OBVIOUS
  <2>3. pc \in [Threads -> {"idle", "created", "unborn", "select",
                            "scan", "request", "receive", "seek", "write", "release", "end"}]
    OBVIOUS
  <2>4. faults \in 0 .. MaxFaults /\ crashes \in 0 .. MaxCrashes
    OBVIOUS
  <2>5. connSocket \in [Threads -> {"none", "open", "broken"}]
    OBVIOUS
  <2>6. startPart \in [Threads -> Nat]
    OBVIOUS
  <2> QED BY <2>1, <2>2, <2>3, <2>4, <2>5, <2>6 DEF TypeOK
<1>2. IdsInRange
  BY DEF IdsInRange
<1>3. Placed
  BY DEF Placed, Working
<1> QED BY <1>1, <1>2, <1>3 DEF Typed

\* A thread at work holds a part, whose record is well typed.
LEMMA WorkingHolds ==
  ASSUME Typed, NEW t \in Threads, pc[t] \in Working
  PROVE  /\ phase = "running"
         /\ part[t] \in 0 .. nPart - 1
         /\ nPart \in Nat \ {0}
         /\ Mine(t) \in PartStatus
         /\ Mine(t).id \in PartIds
         /\ Mine(t).id \in 0 .. nPart - 1
         /\ Mine(t).rest \in 0 .. PartLen(Mine(t).id)
         /\ statusPos <= statusLen
<1> USE DEF Typed
<1>1. pc[t] # "idle"
  BY DEF Working
<1>2. phase = "running" /\ part[t] # NoPart
  BY <1>1 DEF Placed
<1>3. part[t] \in 0 .. nPart - 1 /\ nPart \in Nat
  BY <1>2 DEF TypeOK
<1>4. Mine(t) \in PartStatus
  BY <1>3 DEF TypeOK, Records, Mine
<1>5. Mine(t).id \in PartIds /\ Mine(t).rest \in Nat /\ Mine(t).rest <= PartLen(Mine(t).id)
  BY <1>4 DEF PartStatus
<1>6. PartLen(Mine(t).id) \in Nat
  BY <1>5, PartFits
<1>7. Mine(t).id < nPart /\ statusPos <= statusLen
  BY <1>2, <1>3 DEF IdsInRange, Mine
<1> QED BY <1>2, <1>3, <1>4, <1>5, <1>6, <1>7 DEF PartIds

\* Reading `n` more units of a record leaves a well typed record, and what is
\* read lies within the file and completes what was received.
LEMMA ReceiveRecord ==
  ASSUME NEW r \in PartStatus, NEW n \in 0 .. r.rest
  PROVE  /\ [r EXCEPT !.rest = @ - n] \in PartStatus
         /\ Span(ReadPos(r), n) \subseteq Units
         /\ Received([r EXCEPT !.rest = @ - n]) \subseteq Received(r) \cup Span(ReadPos(r), n)
<1>1. r.id \in PartIds /\ r.rest \in Nat /\ r.rest <= PartLen(r.id)
  BY DEF PartStatus
<1>2. /\ Offset(r.id) \in Nat /\ PartLen(r.id) \in Nat
      /\ Offset(r.id) + PartLen(r.id) <= TotalSize
  BY <1>1, PartFits
<1> DEFINE q == [r EXCEPT !.rest = @ - n]
<1>3. q = [id |-> r.id, rest |-> r.rest - n]
  BY DEF PartStatus
<1>4. q \in PartStatus
  BY <1>1, <1>2, <1>3 DEF PartStatus
<1>5. Span(ReadPos(r), n) \subseteq Units
  BY <1>1, <1>2, ConstantsAssumption DEF Span, ReadPos, Units
<1>6. Received(q) \subseteq Received(r) \cup Span(ReadPos(r), n)
  BY <1>1, <1>2, <1>3 DEF Received, Span, ReadPos
<1> QED BY <1>4, <1>5, <1>6

\* No thread is at work and nothing is in memory.
LEMMA ForgetTyped ==
  ASSUME Typed, ForgetVolatile, phase' \in {"done", "crashed"},
         written' = written, statusExists' \in BOOLEAN,
         \/ status' = status /\ statusLen' = statusLen
         \/ status' = NoParts /\ statusLen' = 0,
         faults' \in 0 .. MaxFaults, crashes' \in 0 .. MaxCrashes
  PROVE  Typed'
<1> USE DEF ForgetVolatile
<1>1. TypeOK'
  <2>1. status' \in Records(statusLen') /\ parts' \in Records(nPart')
    BY NoPartsTyped DEF Typed, TypeOK
  <2>2. resumed' \in BOOLEAN /\ clean' \in BOOLEAN
    OBVIOUS
  <2> QED BY <2>1, <2>2 DEF Typed, TypeOK
<1>2. IdsInRange'
  BY DEF Typed, IdsInRange
<1>3. Placed'
  BY DEF Placed, Working
<1> QED BY <1>1, <1>2, <1>3 DEF Typed

LEMMA NewPartsTyped == NumParts \in Nat /\ NewParts \in Records(NumParts)
<1>1. NumParts \in Nat
  BY ConstantsAssumption, DivMod DEF NumParts
<1>2. ASSUME NEW i \in 0 .. NumParts - 1
      PROVE  [id |-> i, rest |-> PartLen(i)] \in PartStatus
  BY <1>1, PartFits DEF PartStatus, PartIds
<1> QED BY <1>1, <1>2 DEF NewParts, Records

\* The threads start: what they find is well typed if the parts are.
LEMMA StartTyped ==
  ASSUME Typed, phase # "running", NEW n \in Nat, StartThreads(n),
         parts' \in Records(n), resumed' \in BOOLEAN, written' = written,
         statusExists' \in BOOLEAN, statusLen' = n, status' \in Records(n),
         \A i \in 0 .. n - 1 : parts'[i].id < n,
         n > 0 => NumParts <= n
  PROVE  Typed'
<1> USE DEF StartThreads, boundVars
<1>1. TypeOK'
  <2>1. part' \in [Threads -> (0 .. nPart' - 1) \cup {NoPart}]
    <3>1. ASSUME NEW t \in Threads PROVE part[t] = NoPart
      BY DEF Typed, Placed, Working
    <3> QED BY <3>1 DEF Typed, TypeOK
  <2>2. startPart' \in [Threads -> Nat]
    <3>1. ASSUME NEW t \in Threads PROVE (t * n) \div NThreads \in Nat
      <4>1. t \in Nat /\ NThreads \in Nat \ {0}
        BY ConstantsAssumption DEF Threads
      <4>2. t * n \in Nat
        BY <4>1
      <4> QED BY <4>1, <4>2, Quotient DEF Quot
    <3> QED BY <3>1
  <2>3. pc' \in [Threads -> {"idle", "created", "unborn", "select",
                             "scan", "request", "receive", "seek", "write", "release", "end"}]
    OBVIOUS
  <2> QED BY <2>1, <2>2, <2>3 DEF Typed, TypeOK
<1>2. IdsInRange'
  BY DEF Typed, IdsInRange
<1>3. Placed'
  BY DEF Typed, TypeOK, Placed, Working
<1> QED BY <1>1, <1>2, <1>3 DEF Typed

LEMMA FaultTyped ==
  ASSUME TypeOK, Fault \/ UNCHANGED <<clean, boundVars>>
  PROVE  clean' \in BOOLEAN /\ faults' \in 0 .. MaxFaults /\ crashes' \in 0 .. MaxCrashes
<1>1. CASE Fault
  <2>1. clean' = FALSE /\ faults < MaxFaults /\ faults' = faults + 1 /\ crashes' = crashes
    BY <1>1 DEF Fault
  <2>2. faults \in 0 .. MaxFaults /\ crashes \in 0 .. MaxCrashes /\ MaxFaults \in Nat
    BY ConstantsAssumption DEF TypeOK
  <2>3. faults' \in 0 .. MaxFaults /\ crashes' \in 0 .. MaxCrashes
    BY <2>1, <2>2
  <2> QED BY <2>1, <2>3
<1>2. CASE UNCHANGED <<clean, boundVars>>
  BY <1>2 DEF TypeOK, boundVars
<1> QED BY <1>1, <1>2

\* A step of ThreadPool::start moves created threads on and nothing else.
LEMMA PoolStep ==
  ASSUME Typed, NEW t \in Threads, StartThread(t) \/ StartFails(t)
  PROVE  /\ phase = "running" /\ phase' = "running"
         /\ UNCHANGED <<parts, nPart, resumed, using, partsLock, part, startPart,
                        connSocket, written, statusExists, status, statusLen,
                        statusPos, clean, crashes>>
         /\ faults' \in 0 .. MaxFaults
         /\ StartFails(t) => faults' # 0
         /\ StartThread(t) => faults' = faults
         /\ pc' \in [Threads -> {"idle", "created", "unborn", "select", "scan",
                               "request", "receive", "seek", "write",
                               "release", "end"}]
         /\ \A u \in Threads :
              \/ pc'[u] = pc[u]
              \/ pc[u] = "created" /\ pc'[u] \in {"select", "unborn"}
<1> USE DEF Typed, TypeOK, boundVars, diskVars, NextToStart
<1>1. faults \in Nat /\ MaxFaults \in Nat
  BY ConstantsAssumption
<1>2. CASE StartThread(t) /\ ~StartFails(t)
  BY <1>2 DEF StartThread
<1>3. CASE StartFails(t)
  <2>1. faults' \in 0 .. MaxFaults /\ faults' = faults + 1
    BY <1>1, <1>3 DEF StartFails
  <2>2. pc' = [u \in Threads |-> IF pc[u] = "created" THEN "unborn" ELSE pc[u]]
    BY <1>3 DEF StartFails
  <2>3. ~StartThread(t)
    BY <1>1, <2>1 DEF StartThread
  <2> QED BY <1>1, <1>3, <2>1, <2>2, <2>3 DEF StartFails
<1> QED BY <1>2, <1>3

LEMMA NextTyped == Typed /\ [Next]_vars => Typed'
<1> SUFFICES ASSUME Typed, [Next]_vars PROVE Typed'
  OBVIOUS
<1> USE DEF boundVars, diskVars, threadVars, At, Goto
<1>1. CASE Resume
  <2>1. \A s \in 0 .. statusLen - 1 : statusLen > 0 /\ status[s].id < NumParts
    BY ConstantsAssumption, DivMod
       DEF Typed, TypeOK, Records, PartStatus, PartIds, NumParts
  <2>2. statusLen > 0 => NumParts <= statusLen
    BY DEF Typed, IdsInRange
  <2>3. \A s \in 0 .. statusLen - 1 : status[s].id < statusLen
    BY <2>1, <2>2, NewPartsTyped DEF Typed, TypeOK, Records, PartStatus, PartIds
  <2> QED BY <1>1, <2>2, <2>3, StartTyped DEF Resume, Typed, TypeOK
<1>2. CASE CreateStatusFile
  <2> USE <1>2 DEF CreateStatusFile
  <2>1. ASSUME NEW t \in Threads PROVE part[t] = NoPart
    BY DEF Typed, Placed, Working
  <2>2. TypeOK'
    BY <2>1, NoPartsTyped, NewPartsTyped DEF Typed, TypeOK
  <2>3. IdsInRange' /\ Placed'
    BY DEF Typed, IdsInRange, Placed
  <2> QED BY <2>2, <2>3 DEF Typed
<1>3. CASE WriteStatusFile
  <2>1. nPart = NumParts
    BY <1>3 DEF WriteStatusFile, Typed, IdsInRange
  <2>2. \A i \in 0 .. nPart - 1 : parts[i].id < nPart
    BY <2>1, NewPartsTyped DEF Typed, TypeOK, Records, PartStatus, PartIds
  <2> QED BY <1>3, <2>1, <2>2, StartTyped DEF WriteStatusFile, Typed, TypeOK
<1>4. CASE FinishDownload
  BY <1>4, ForgetTyped DEF FinishDownload, Typed, TypeOK
<1>5. CASE Crash \/ JoinUnborn
  BY <1>5, ForgetTyped, ConstantsAssumption DEF Crash, JoinUnborn, Die, Typed, TypeOK
<1>6. CASE Restart
  BY <1>6 DEF Restart, Typed, TypeOK, IdsInRange, Placed
<1>7. CASE Terminated \/ UNCHANGED vars
  BY <1>7 DEF Terminated, vars, Typed, TypeOK, IdsInRange, Placed
<1>8. ASSUME NEW t \in Threads, Run(t) \/ Disturb(t)
      PROVE  Typed'
  <2>1. CASE Lock(t)
    BY <2>1 DEF Lock, Typed, TypeOK, IdsInRange, Placed, Working
  <2>2. CASE ClaimPart(t)
    <3> USE DEF Typed
    <3>1. PICK i \in 0 .. nPart - 1 : Claim(t, i)
      BY <2>2 DEF ClaimPart, Claimable, Scanned, TypeOK
    <3> USE <3>1 DEF Claim
    <3>2. TypeOK'
      BY <2>2 DEF ClaimPart, TypeOK, Free
    <3>3. IdsInRange' /\ Placed'
      BY <2>2 DEF ClaimPart, TypeOK, IdsInRange, Placed, Working, NoPart
    <3> QED BY <3>2, <3>3
  <2>3. CASE EndThread(t)
    BY <2>3 DEF EndThread, Typed, TypeOK, IdsInRange, Placed, Working, Free
  <2>4. CASE RequestPart(t)
    BY <2>4 DEF RequestPart, Typed, TypeOK, IdsInRange, Placed, Working
  <2>5. CASE BrokenPipe(t)
    BY <2>5, ForgetTyped DEF BrokenPipe, Die, Typed, TypeOK
  <2>6. CASE RequestFails(t)
    <3>1. clean' \in BOOLEAN /\ faults' \in 0 .. MaxFaults /\ crashes' \in 0 .. MaxCrashes
      BY <2>6, FaultTyped DEF RequestFails, Typed
    <3>2. TypeOK'
      BY <2>6, <3>1 DEF RequestFails, Typed, TypeOK
    <3>3. IdsInRange' /\ Placed'
      BY <2>6 DEF RequestFails, Typed, TypeOK, IdsInRange, Placed, Working
    <3> QED BY <3>2, <3>3 DEF Typed
  <2>7. CASE ReceiveChunk(t) \/ ReceiveShort(t)
    <3> USE DEF Typed
    <3>1. At(t, "receive") /\ t \in Threads /\ pc[t] \in Working
      BY <2>7 DEF ReceiveChunk, ReceiveShort, Working
    <3>2. PICK n \in 0 .. Mine(t).rest : Receive(t, n)
      BY <2>7, <3>1, WorkingHolds DEF ReceiveChunk, ReceiveShort
    <3>3. /\ connSocket' \in [Threads -> {"none", "open", "broken"}]
          /\ clean' \in BOOLEAN
          /\ faults' \in 0 .. MaxFaults /\ crashes' \in 0 .. MaxCrashes
      <4>1. clean' \in BOOLEAN /\ faults' \in 0 .. MaxFaults /\ crashes' \in 0 .. MaxCrashes
        BY <2>7, FaultTyped DEF ReceiveChunk, ReceiveShort
      <4> QED BY <2>7, <4>1 DEF ReceiveChunk, ReceiveShort, TypeOK
    <3>4. [Mine(t) EXCEPT !.rest = @ - n] \in PartStatus /\ Span(ReadPos(Mine(t)), n) \subseteq Units
      BY <3>1, <3>2, WorkingHolds, ReceiveRecord
    <3>5. parts' = [parts EXCEPT ![part[t]] = [Mine(t) EXCEPT !.rest = @ - n]]
      BY <3>2 DEF Receive, Mine
    <3>6. parts' \in Records(nPart)
      BY <3>1, <3>4, <3>5, WorkingHolds DEF TypeOK, Records
    <3>7. TypeOK'
      BY <3>1, <3>2, <3>3, <3>4, <3>6 DEF Receive, TypeOK
    <3>8. \A i \in 0 .. nPart - 1 : parts'[i].id = parts[i].id
      BY <3>1, <3>4, <3>5, WorkingHolds DEF TypeOK, Records, Mine, PartStatus
    <3>9. IdsInRange' /\ Placed'
      BY <3>1, <3>2, <3>8 DEF Receive, TypeOK, IdsInRange, Placed, Working
    <3> QED BY <3>7, <3>9
  <2>8. CASE ConnectionClosed(t) \/ ReadAfterError(t)
    <3> USE DEF ConnectionClosed, ReadAfterError
    <3>1. clean' \in BOOLEAN /\ faults' \in 0 .. MaxFaults /\ crashes' \in 0 .. MaxCrashes
      BY <2>8, FaultTyped DEF Typed
    <3>2. TypeOK'
      BY <2>8, <3>1 DEF DropConnection, Typed, TypeOK
    <3>3. IdsInRange' /\ Placed'
      BY <2>8 DEF DropConnection, Typed, TypeOK, IdsInRange, Placed, Working
    <3> QED BY <3>2, <3>3 DEF Typed
  <2>9. CASE SeekStatus(t)
    <3>1. Mine(t).id \in 0 .. nPart - 1 /\ pc[t] \in Working
      BY <2>9, WorkingHolds DEF SeekStatus, Working
    <3>2. StatusPlace(Mine(t).id) \in 0 .. statusLen
      BY <3>1, WorkingHolds DEF StatusPlace, Typed, TypeOK, IdsInRange
    <3>3. TypeOK'
      BY <2>9, <3>2 DEF SeekStatus, Typed, TypeOK
    <3>4. IdsInRange'
      BY <2>9, <3>2 DEF SeekStatus, Typed, TypeOK, IdsInRange
    <3>5. Placed'
      BY <2>9, <3>1 DEF SeekStatus, Typed, TypeOK, Placed, Working
    <3> QED BY <3>3, <3>4, <3>5 DEF Typed
  <2>10. CASE WriteStatus(t)
    <3> USE <2>10 DEF WriteStatus, Typed
    <3>1. /\ pc[t] \in Working /\ Mine(t) \in PartStatus /\ statusPos <= statusLen
          /\ nPart > 0
      BY WorkingHolds DEF Working
    <3>2. statusLen' \in Nat /\ statusLen <= statusLen' /\ statusPos' <= statusLen'
      BY <3>1 DEF TypeOK
    <3>3. ASSUME NEW s \in 0 .. statusLen' - 1
          PROVE  (IF s = statusPos THEN Mine(t) ELSE status[s]) \in PartStatus
      BY <3>1, <3>3 DEF TypeOK, Records
    <3>4. status' \in Records(statusLen')
      BY <3>3 DEF Records
    <3>5. TypeOK'
      BY <3>2, <3>4 DEF TypeOK
    <3>6. IdsInRange'
      <4>1. statusLen > 0 /\ NumParts <= statusLen /\ phase = "running" /\ nPart <= statusLen
        BY <3>1, WorkingHolds DEF TypeOK, IdsInRange, Working
      <4>2. \A i \in 0 .. nPart - 1 : parts[i].id < nPart
        BY <4>1 DEF IdsInRange
      <4>3. nPart <= statusLen' /\ NumParts <= statusLen'
        BY <3>2, <4>1, NewPartsTyped DEF TypeOK
      <4>4. UNCHANGED <<phase, nPart, parts>>
        OBVIOUS
      <4> QED BY <3>2, <4>1, <4>2, <4>3, <4>4 DEF IdsInRange
    <3>7. Placed'
      BY <3>1 DEF TypeOK, Placed, Working
    <3> QED BY <3>5, <3>6, <3>7
  <2>11. CASE ReleasePart(t)
    <3> USE <2>11 DEF ReleasePart, Typed
    <3>1. nPart \in Nat \ {0} /\ Mine(t).id \in 0 .. nPart - 1
      BY WorkingHolds DEF Working
    <3>2. (parts[part[t]].id + 1) % nPart \in Nat
      BY <3>1 DEF Mine
    <3>3. TypeOK'
      BY <3>2 DEF TypeOK, NoPart
    <3>4. IdsInRange' /\ Placed'
      BY DEF TypeOK, IdsInRange, Placed, Working, NoPart
    <3> QED BY <3>3, <3>4
  <2> QED
    BY <1>8, <2>1, <2>2, <2>3, <2>4, <2>5, <2>6, <2>7, <2>8, <2>9, <2>10, <2>11
       DEF Run, Disturb
<1>9. ASSUME NEW t \in Threads, StartThread(t) \/ StartFails(t)
      PROVE  Typed'
  <2> USE <1>9, PoolStep DEF Typed
  <2>1. TypeOK'
    BY DEF TypeOK
  <2>2. IdsInRange'
    BY DEF IdsInRange
  <2>3. Placed'
    BY DEF Placed, Working
  <2> QED BY <2>1, <2>2, <2>3
<1> QED
  BY <1>1, <1>2, <1>3, <1>4, <1>5, <1>6, <1>7, <1>8, <1>9 DEF Next, Main

\* Every variable keeps its type, in every behaviour and for every constant.
THEOREM TypeCorrect == Spec => []TypeOK
<1>1. Spec => []Typed
  BY InitTyped, NextTyped, PTL DEF Spec
<1> QED BY <1>1, PTL DEF Typed

\* No id or file position leaves its range, whatever crashes left behind and
\* however seeks and writes of the status file interleave.
THEOREM IdsStayInRange == Spec => []IdsInRange
<1>1. Spec => []Typed
  BY InitTyped, NextTyped, PTL DEF Spec
<1> QED BY <1>1, PTL DEF Typed

-----------------------------------------------------------------------------
(***************************************************************************)
(* Exclusion.  A claim finds its id unmarked, so nobody holds it; a        *)
(* release unmarks an id nobody else holds.  Each half needs the other.    *)
(***************************************************************************)
Exclusion == UsingIffHeld /\ ExclusiveParts

\* Who holds which id does not change.
LEMMA SamePlaces ==
  ASSUME Typed, Typed', Exclusion,
         phase' = phase, nPart' = nPart, using' = using, part' = part,
         \A i \in 0 .. nPart - 1 : parts'[i].id = parts[i].id
  PROVE  Exclusion'
<1>1. \A t \in Threads : part[t] # NoPart => part[t] \in 0 .. nPart - 1
  BY DEF Typed, TypeOK
<1>2. \A t \in Threads : part[t] # NoPart => Mine(t)'.id = Mine(t).id
  BY <1>1 DEF Mine
<1> QED BY <1>2 DEF Exclusion, UsingIffHeld, ExclusiveParts

LEMMA NobodyAtWork ==
  ASSUME \A t \in Threads : part[t] = NoPart,
         phase = "running" => \A i \in 0 .. nPart - 1 : ~using[i]
  PROVE  Exclusion
BY DEF Exclusion, UsingIffHeld, ExclusiveParts

LEMMA NextExclusion == Typed /\ Typed' /\ Exclusion /\ [Next]_vars => Exclusion'
<1> SUFFICES ASSUME Typed, Typed', Exclusion, [Next]_vars PROVE Exclusion'
  OBVIOUS
<1> USE DEF threadVars
<1>1. CASE phase' # "running"
  BY <1>1, NobodyAtWork DEF Exclusion, UsingIffHeld, ExclusiveParts, Typed, Placed, Working
<1>2. CASE Resume \/ WriteStatusFile
  <2>1. phase # "running" /\ part' = part /\ \E n \in Nat : nPart' = n /\ using' = [i \in 0 .. n - 1 |-> FALSE]
    BY <1>2 DEF Resume, WriteStatusFile, StartThreads, Typed, TypeOK
  <2> QED
    BY <2>1 DEF Exclusion, UsingIffHeld, ExclusiveParts, Typed, Placed, Working
<1>3. CASE UNCHANGED vars \/ Terminated
  BY <1>3, SamePlaces DEF vars, Terminated
<1>4. ASSUME NEW t \in Threads, Run(t) \/ Disturb(t), phase' = "running"
      PROVE  Exclusion'
  <2> USE <1>4 DEF At, Goto
  <2>1. CASE Lock(t) \/ EndThread(t) \/ RequestPart(t) \/ RequestFails(t)
             \/ ConnectionClosed(t) \/ ReadAfterError(t) \/ SeekStatus(t) \/ WriteStatus(t)
    BY <2>1, SamePlaces DEF Lock, EndThread, RequestPart, RequestFails, ConnectionClosed,
         ReadAfterError, DropConnection, SeekStatus, WriteStatus
  <2>2. CASE ReceiveChunk(t) \/ ReceiveShort(t)
    <3>1. pc[t] \in Working
      BY <2>2 DEF ReceiveChunk, ReceiveShort, Working
    <3>2. PICK n \in Nat : Receive(t, n)
      BY <2>2, <3>1, WorkingHolds DEF ReceiveChunk, ReceiveShort
    <3>3. \A i \in 0 .. nPart - 1 : parts'[i].id = parts[i].id
      BY <3>1, <3>2, WorkingHolds DEF Receive, Typed, TypeOK, Records, PartStatus
    <3>4. phase' = phase /\ nPart' = nPart /\ using' = using /\ part' = part
      BY <3>2 DEF Receive
    <3> QED BY <3>3, <3>4, SamePlaces
  <2>3. CASE ClaimPart(t)
    <3>1. PICK i \in 0 .. nPart - 1 : Claim(t, i) /\ ~using[parts[i].id] /\ phase = "running"
      BY <2>3 DEF ClaimPart, Claimable, Scanned, Typed, TypeOK
    <3>2. part[t] = NoPart
      BY <2>3 DEF ClaimPart, Typed, Placed, Working
    <3>3. parts' = parts /\ nPart' = nPart /\ part' = [part EXCEPT ![t] = i]
          /\ using' = [using EXCEPT ![parts[i].id] = TRUE]
      BY <3>1 DEF Claim
    <3>4. i # NoPart /\ parts[i].id \in 0 .. nPart - 1
      <4>1. parts[i] \in PartStatus /\ parts[i].id < nPart
        BY <3>1 DEF Typed, TypeOK, Records, IdsInRange
      <4>2. parts[i].id \in Nat /\ nPart \in Nat
        BY <4>1, NewPartsTyped DEF PartStatus, PartIds, Typed, TypeOK
      <4> QED BY <4>1, <4>2 DEF NoPart
    <3>5. \A u \in Threads : part[u] # NoPart => Mine(u).id # parts[i].id
      BY <3>1, <3>4 DEF Exclusion, UsingIffHeld
    <3>6. Mine(t)' = parts[i] /\ \A u \in Threads \ {t} : part'[u] = part[u] /\ Mine(u)' = Mine(u)
      BY <3>3 DEF Mine, Typed, TypeOK
    <3>7. part'[t] # NoPart
      BY <3>3, <3>4 DEF Typed, TypeOK
    <3>8. ExclusiveParts'
      BY <3>5, <3>6 DEF Exclusion, ExclusiveParts
    <3>9. UsingIffHeld'
      <4> SUFFICES ASSUME NEW j \in 0 .. nPart - 1
                   PROVE  using'[j] <=> \E u \in Threads : part'[u] # NoPart /\ Mine(u)'.id = j
        BY <3>3 DEF UsingIffHeld
      <4>1. using[j] <=> \E u \in Threads : part[u] # NoPart /\ Mine(u).id = j
        BY <3>1 DEF Exclusion, UsingIffHeld
      <4>2. CASE j = parts[i].id
        BY <3>1, <3>3, <3>6, <3>7, <4>2 DEF Typed, TypeOK
      <4>3. CASE j # parts[i].id
        <5>1. using'[j] = using[j]
          BY <3>1, <3>3, <4>3 DEF Typed, TypeOK
        <5> QED BY <3>2, <3>6, <4>1, <4>3, <5>1
      <4> QED BY <4>2, <4>3
    <3> QED BY <3>8, <3>9 DEF Exclusion
  <2>4. CASE ReleasePart(t)
    <3> DEFINE k == Mine(t).id
    <3>1. pc[t] \in Working /\ phase = "running"
      BY <2>4 DEF ReleasePart, Working
    <3>2. k \in 0 .. nPart - 1 /\ part[t] # NoPart
      BY <3>1, WorkingHolds DEF Typed, Placed
    <3>3. parts' = parts /\ nPart' = nPart /\ part' = [part EXCEPT ![t] = NoPart]
          /\ using' = [using EXCEPT ![k] = FALSE]
      BY <2>4 DEF ReleasePart, Mine
    <3>4. part'[t] = NoPart /\ \A u \in Threads \ {t} : part'[u] = part[u] /\ Mine(u)' = Mine(u)
      BY <3>3 DEF Mine, Typed, TypeOK
    <3>5. \A u \in Threads \ {t} : part[u] # NoPart => Mine(u).id # k
      BY <3>2 DEF Exclusion, ExclusiveParts
    <3>6. ExclusiveParts'
      BY <3>4 DEF Exclusion, ExclusiveParts
    <3>7. UsingIffHeld'
      <4> SUFFICES ASSUME NEW j \in 0 .. nPart - 1
                   PROVE  using'[j] <=> \E u \in Threads : part'[u] # NoPart /\ Mine(u)'.id = j
        BY <3>3 DEF UsingIffHeld
      <4>1. using[j] <=> \E u \in Threads : part[u] # NoPart /\ Mine(u).id = j
        BY <3>1 DEF Exclusion, UsingIffHeld
      <4>2. CASE j = k
        <5>1. ~using'[j]
          BY <3>1, <3>2, <3>3, <4>2 DEF Typed, TypeOK
        <5> QED BY <3>4, <3>5, <4>2, <5>1
      <4>3. CASE j # k
        <5>1. using'[j] = using[j]
          BY <3>1, <3>3, <4>3 DEF Typed, TypeOK
        <5> QED BY <3>4, <4>1, <4>3, <5>1
      <4> QED BY <4>2, <4>3
    <3> QED BY <3>6, <3>7 DEF Exclusion
  <2>5. CASE BrokenPipe(t)
    BY <2>5 DEF BrokenPipe, Die
  <2> QED BY <2>1, <2>2, <2>3, <2>4, <2>5 DEF Run, Disturb
<1>5. CASE CreateStatusFile \/ FinishDownload \/ Crash \/ JoinUnborn \/ Restart
  BY <1>1, <1>5 DEF CreateStatusFile, FinishDownload, Crash, JoinUnborn, Die, Restart
<1>6. ASSUME NEW t \in Threads, StartThread(t) \/ StartFails(t)
      PROVE  Exclusion'
  BY <1>6, PoolStep, SamePlaces
<1> QED
  BY <1>1, <1>2, <1>3, <1>4, <1>5, <1>6 DEF Next, Main

LEMMA InitExclusion == Init => Exclusion
BY DEF Init, Exclusion, UsingIffHeld, ExclusiveParts

\* No two threads ever download the same part.
THEOREM PartsAreExclusive == Spec => []ExclusiveParts
<1>1. Spec => [](Typed /\ Exclusion)
  BY InitTyped, NextTyped, InitExclusion, NextExclusion, PTL DEF Spec
<1> QED BY <1>1, PTL DEF Exclusion

\* The table of parts in use is exact at every moment.
THEOREM UsingIsExact == Spec => []UsingIffHeld
<1>1. Spec => [](Typed /\ Exclusion)
  BY InitTyped, NextTyped, InitExclusion, NextExclusion, PTL DEF Spec
<1> QED BY <1>1, PTL DEF Exclusion

-----------------------------------------------------------------------------
(***************************************************************************)
(* Progress.  A unit is written before a record in memory counts it, and a *)
(* record is written to the status file as it is in memory.                *)
(***************************************************************************)
LEMMA NextProgress ==
  Typed /\ Typed' /\ ProgressNeverAhead /\ [Next]_vars => ProgressNeverAhead'
<1> SUFFICES ASSUME Typed, Typed', ProgressNeverAhead, [Next]_vars PROVE ProgressNeverAhead'
  OBVIOUS
<1> USE DEF diskVars
<1>1. CASE Resume
  BY <1>1 DEF Resume, StartThreads, ProgressNeverAhead
<1>2. CASE CreateStatusFile
  <2>1. ASSUME NEW i \in 0 .. NumParts - 1 PROVE Received(NewParts[i]) = {}
    <3>1. i \in PartIds /\ NewParts[i] = [id |-> i, rest |-> PartLen(i)]
      BY DEF PartIds, NewParts
    <3>2. Offset(i) \in Nat /\ PartLen(i) \in Nat
      BY <3>1, PartFits
    <3> QED BY <3>1, <3>2 DEF Received, Span
  <2>2. statusLen' = 0 /\ parts' = NewParts /\ nPart' = NumParts
    BY <1>2 DEF CreateStatusFile
  <2> QED BY <2>1, <2>2 DEF ProgressNeverAhead
<1>3. CASE WriteStatusFile
  BY <1>3 DEF WriteStatusFile, StartThreads, ProgressNeverAhead
<1>4. CASE FinishDownload \/ Crash \/ JoinUnborn
  BY <1>4 DEF FinishDownload, Crash, JoinUnborn, Die, ForgetVolatile, ProgressNeverAhead
<1>5. CASE Restart \/ Terminated \/ UNCHANGED vars
  BY <1>5 DEF Restart, Terminated, vars, ProgressNeverAhead
<1>6. ASSUME NEW t \in Threads, Run(t) \/ Disturb(t)
      PROVE  ProgressNeverAhead'
  <2> USE <1>6
  <2>1. CASE Lock(t) \/ ClaimPart(t) \/ EndThread(t) \/ RequestPart(t) \/ RequestFails(t)
             \/ ConnectionClosed(t) \/ ReadAfterError(t) \/ SeekStatus(t) \/ ReleasePart(t)
    <3>1. UNCHANGED <<parts, nPart, written, status, statusLen>>
      BY <2>1 DEF Lock, ClaimPart, Claim, EndThread, RequestPart, RequestFails, ConnectionClosed,
           ReadAfterError, DropConnection, SeekStatus, ReleasePart
    <3> QED BY <3>1 DEF ProgressNeverAhead
  <2>2. CASE ReceiveChunk(t) \/ ReceiveShort(t)
    <3> DEFINE r == Mine(t)
    <3>1. pc[t] \in Working
      BY <2>2 DEF ReceiveChunk, ReceiveShort, At, Working
    <3>2. /\ r \in PartStatus /\ r.rest \in Nat
          /\ part[t] \in 0 .. nPart - 1
      BY <3>1, WorkingHolds DEF PartStatus
    <3>3. PICK n \in 0 .. r.rest : Receive(t, n)
      BY <2>2, <3>2 DEF ReceiveChunk, ReceiveShort
    <3>4. parts' = [parts EXCEPT ![part[t]] = [r EXCEPT !.rest = @ - n]]
      BY <3>3 DEF Receive, Mine
    <3>5. /\ written' = written \cup Span(ReadPos(r), n)
          /\ UNCHANGED <<nPart, status, statusLen>>
      BY <3>3 DEF Receive
    <3>6. Received([r EXCEPT !.rest = @ - n]) \subseteq Received(r) \cup Span(ReadPos(r), n)
      BY <3>2, <3>3, ReceiveRecord
    <3>7. Received(r) \subseteq written
      BY <3>2 DEF ProgressNeverAhead, Mine
    <3>8. ASSUME NEW i \in 0 .. nPart - 1 PROVE Received(parts'[i]) \subseteq written'
      <4>1. CASE i = part[t]
        BY <3>2, <3>4, <3>5, <3>6, <3>7, <4>1 DEF Typed, TypeOK, Records
      <4>2. CASE i # part[t]
        BY <3>4, <3>5, <4>2 DEF ProgressNeverAhead, Typed, TypeOK, Records
      <4> QED BY <4>1, <4>2
    <3> QED BY <3>5, <3>8 DEF ProgressNeverAhead
  <2>3. CASE WriteStatus(t)
    <3>1. pc[t] \in Working
      BY <2>3 DEF WriteStatus, At, Working
    <3>2. part[t] \in 0 .. nPart - 1 /\ statusPos <= statusLen
      BY <3>1, WorkingHolds
    <3>3. Received(Mine(t)) \subseteq written
      BY <3>2 DEF ProgressNeverAhead, Mine
    <3>4. ASSUME NEW s \in 0 .. statusLen' - 1 PROVE Received(status'[s]) \subseteq written
      <4>1. status'[s] = IF s = statusPos THEN Mine(t) ELSE status[s]
        BY <2>3 DEF WriteStatus
      <4>2. s # statusPos => s \in 0 .. statusLen - 1
        BY <2>3, <3>2 DEF WriteStatus, Typed, TypeOK
      <4> QED BY <3>3, <4>1, <4>2 DEF ProgressNeverAhead
    <3>5. UNCHANGED <<parts, nPart, written>>
      BY <2>3 DEF WriteStatus
    <3> QED BY <3>4, <3>5 DEF ProgressNeverAhead
  <2>4. CASE BrokenPipe(t)
    BY <2>4 DEF BrokenPipe, Die, ForgetVolatile, ProgressNeverAhead
  <2> QED BY <2>1, <2>2, <2>3, <2>4 DEF Run, Disturb
<1>7. ASSUME NEW t \in Threads, StartThread(t) \/ StartFails(t)
      PROVE  ProgressNeverAhead'
  BY <1>7, PoolStep DEF ProgressNeverAhead
<1> QED
  BY <1>1, <1>2, <1>3, <1>4, <1>5, <1>6, <1>7 DEF Next, Main

LEMMA InitProgress == Init => ProgressNeverAhead
BY DEF Init, ProgressNeverAhead

\* No record, in memory or in the status file, ever counts a unit that is not
\* on disk: what a resumed download skips is there.
THEOREM ProgressIsSafe == Spec => []ProgressNeverAhead
<1>1. Spec => [](Typed /\ ProgressNeverAhead)
  BY InitTyped, NextTyped, InitProgress, NextProgress, PTL DEF Spec
<1> QED BY <1>1, PTL

-----------------------------------------------------------------------------
(***************************************************************************)
(* A run of downloadWait in which no connection fails completes the file.  *)
(* Three facts carry the argument: a thread asks only for what is missing; *)
(* without a fault it lets go only of a finished part; and an unfinished   *)
(* part always has a thread that has not passed it.                        *)
(***************************************************************************)
Diligent ==
  \A t \in Threads :
    /\ pc[t] \in {"request", "receive"} => Mine(t).rest > 0
    /\ clean => connSocket[t] # "broken"
    /\ clean /\ pc[t] = "release" => Mine(t).rest = 0

LEMMA NextDiligent ==
  Typed /\ Typed' /\ Exclusion /\ Diligent /\ [Next]_vars => Diligent'
<1> SUFFICES ASSUME Typed, Typed', Exclusion, Diligent, [Next]_vars PROVE Diligent'
  OBVIOUS
<1> USE DEF threadVars
<1>1. CASE phase' # "running" /\ (Die \/ FinishDownload)
  BY <1>1 DEF Die, FinishDownload, ForgetVolatile, Diligent
<1>2. CASE CreateStatusFile \/ Restart
  <2>1. \A u \in Threads : pc[u] = "idle"
    BY <1>2 DEF CreateStatusFile, Restart, Typed, Placed
  <2> QED BY <1>2, <2>1 DEF CreateStatusFile, Restart, Diligent
<1>3. CASE Resume \/ WriteStatusFile
  BY <1>3 DEF Resume, WriteStatusFile, StartThreads, Diligent
<1>4. CASE Terminated \/ UNCHANGED vars
  BY <1>4 DEF Terminated, vars, Diligent, Mine
<1>5. ASSUME NEW t \in Threads, Run(t) \/ Disturb(t), ~BrokenPipe(t)
      PROVE  Diligent'
  <2> USE <1>5 DEF At, Goto, boundVars, Fault
  <2>1. pc \in [Threads -> {"idle", "created", "unborn", "select",
                            "scan", "request", "receive", "seek", "write", "release", "end"}]
        /\ connSocket \in [Threads -> {"none", "open", "broken"}]
        /\ part \in [Threads -> (0 .. nPart - 1) \cup {NoPart}]
    BY DEF Typed, TypeOK
  <2>2. CASE Lock(t) \/ EndThread(t)
    BY <2>1, <2>2 DEF Lock, EndThread, Diligent, Mine
  <2>3. CASE RequestPart(t) \/ SeekStatus(t)
    BY <2>1, <2>3 DEF RequestPart, SeekStatus, Diligent, Mine
  <2>4. CASE RequestFails(t) \/ ConnectionClosed(t)
    BY <2>1, <2>4 DEF RequestFails, ConnectionClosed, DropConnection, Diligent, Mine
  <2>5. CASE ReadAfterError(t)
    <3>1. ~clean
      BY <2>5 DEF ReadAfterError, Diligent
    <3> QED BY <2>1, <2>5, <3>1 DEF ReadAfterError, DropConnection, Diligent, Mine
  <2>6. CASE ReceiveChunk(t) \/ ReceiveShort(t)
    <3>1. pc[t] \in Working /\ pc' = [pc EXCEPT ![t] = "seek"]
      BY <2>6 DEF ReceiveChunk, ReceiveShort, Receive, Working
    <3>2. PICK n \in Nat : Receive(t, n)
      BY <2>6, <3>1, WorkingHolds DEF ReceiveChunk, ReceiveShort
    <3>3. ASSUME NEW u \in Threads \ {t}, pc[u] \in Working
          PROVE  Mine(u)' = Mine(u)
      <4>1. part[u] \in 0 .. nPart - 1 /\ part[u] # NoPart /\ part[t] # NoPart
        BY <3>1, <3>3, WorkingHolds DEF Typed, Placed
      <4>2. part[u] # part[t]
        BY <4>1 DEF Exclusion, ExclusiveParts, Mine
      <4> QED BY <3>2, <4>1, <4>2 DEF Receive, Mine, Typed, TypeOK, Records
    <3>4. \A u \in Threads \ {t} : pc'[u] = pc[u] /\ connSocket'[u] = connSocket[u]
      BY <2>1, <2>6, <3>1 DEF ReceiveChunk, ReceiveShort
    <3>5. clean' => clean /\ connSocket' = connSocket
      BY <2>6 DEF ReceiveChunk, ReceiveShort
    <3>6. pc'[t] = "seek"
      BY <2>1, <3>1
    <3> QED BY <3>3, <3>4, <3>5, <3>6 DEF Diligent, Working
  <2>7. CASE ClaimPart(t)
    <3>1. PICK i \in 0 .. nPart - 1 : Claim(t, i) /\ parts[i].rest # 0
      BY <2>7 DEF ClaimPart, Claimable, Scanned, Unfinished, Typed, TypeOK
    <3>2. parts[i].rest > 0
      <4>1. parts[i] \in PartStatus
        BY DEF Typed, TypeOK, Records
      <4> QED BY <3>1, <4>1 DEF PartStatus
    <3>3. Mine(t)' = parts[i] /\ \A u \in Threads \ {t} : Mine(u)' = Mine(u) /\ pc'[u] = pc[u]
      BY <2>1, <3>1 DEF Claim, Mine
    <3>4. pc'[t] = "request" /\ UNCHANGED <<connSocket, clean>>
      BY <2>1, <3>1 DEF Claim
    <3> QED BY <3>2, <3>3, <3>4 DEF Diligent
  <2>8. CASE WriteStatus(t)
    <3>1. Mine(t).rest \in Nat
      BY <2>8, WorkingHolds DEF WriteStatus, Working, PartStatus
    <3>2. UNCHANGED <<parts, part, connSocket, clean>>
      BY <2>8 DEF WriteStatus
    <3>3. /\ \A u \in Threads \ {t} : pc'[u] = pc[u]
          /\ pc'[t] = IF Mine(t).rest > 0 THEN "receive" ELSE "release"
      BY <2>1, <2>8 DEF WriteStatus
    <3> QED BY <3>1, <3>2, <3>3 DEF Diligent, Mine
  <2>9. CASE ReleasePart(t)
    <3>1. \A u \in Threads \ {t} : Mine(u)' = Mine(u) /\ pc'[u] = pc[u]
      BY <2>1, <2>9 DEF ReleasePart, Mine
    <3>2. pc'[t] = "select" /\ UNCHANGED <<connSocket, clean>>
      BY <2>1, <2>9 DEF ReleasePart
    <3> QED BY <3>1, <3>2 DEF Diligent
  <2> QED
    BY <2>2, <2>3, <2>4, <2>5, <2>6, <2>7, <2>8, <2>9 DEF Run, Disturb
<1>6. CASE Crash \/ JoinUnborn \/ \E t \in Threads : BrokenPipe(t)
  BY <1>1, <1>6 DEF Crash, JoinUnborn, BrokenPipe, Die
<1>7. CASE FinishDownload
  BY <1>1, <1>7 DEF FinishDownload
<1>8. ASSUME NEW t \in Threads, StartThread(t) \/ StartFails(t)
      PROVE  Diligent'
  BY <1>8, PoolStep DEF Diligent, Mine
<1> QED
  BY <1>2, <1>3, <1>4, <1>5, <1>6, <1>7, <1>8 DEF Next, Main

LEMMA InitDiligent == Init => Diligent
BY DEF Init, Diligent

\* A step of a run in progress that moves no thread past an unfinished part.
LEMMA StillCovered ==
  ASSUME Typed, Typed', EveryPartCovered, phase = "running",
         clean' => clean, nPart' = nPart,
         \A i \in 0 .. nPart - 1 : parts'[i].id = parts[i].id /\ (Unfinished(i)' => Unfinished(i)),
         \A u \in Threads : (pc'[u] = "end" => pc[u] = "end") /\ Front(u)' <= Front(u)
  PROVE  EveryPartCovered'
<1> SUFFICES ASSUME clean', Aligned', NEW i \in 0 .. nPart - 1, Unfinished(i)'
             PROVE  \E u \in Threads : pc'[u] # "end" /\ Front(u)' <= i
  BY DEF EveryPartCovered
<1>1. Aligned /\ clean /\ Unfinished(i)
  BY DEF Aligned
<1>2. PICK u \in Threads : pc[u] # "end" /\ Front(u) <= i
  BY <1>1 DEF EveryPartCovered
<1>3. Front(u) \in Nat /\ Front(u)' \in Nat
  BY DEF Front, Typed, TypeOK
<1> QED BY <1>2, <1>3

LEMMA NextCovered ==
  Typed /\ Typed' /\ Exclusion /\ Diligent /\ EveryPartCovered /\ [Next]_vars
    => EveryPartCovered'
<1> SUFFICES ASSUME Typed, Typed', Exclusion, Diligent, EveryPartCovered, [Next]_vars,
                    phase' = "running"
             PROVE  EveryPartCovered'
  BY DEF EveryPartCovered
<1> USE DEF threadVars
<1>1. CASE Resume \/ WriteStatusFile
  <2>1. PICK n \in Nat : StartThreads(n)
    BY <1>1 DEF Resume, WriteStatusFile, Typed, TypeOK
  <2>2. 0 \in Threads /\ part[0] = NoPart
    BY <1>1, ConstantsAssumption
       DEF Threads, Resume, WriteStatusFile, Typed, Placed, Working
  <2>3. (0 * n) \div NThreads = 0
    BY ConstantsAssumption
  <2>4. pc'[0] # "end" /\ Front(0)' = 0
    BY <2>1, <2>2, <2>3 DEF StartThreads, Front
  <2>5. nPart' \in Nat
    BY DEF Typed, TypeOK
  <2> QED BY <2>2, <2>4, <2>5 DEF EveryPartCovered
<1>2. CASE Terminated \/ UNCHANGED vars
  BY <1>2 DEF Terminated, vars, EveryPartCovered, Aligned, Unfinished, Front
<1>3. CASE CreateStatusFile \/ FinishDownload \/ Crash \/ JoinUnborn \/ Restart
  BY <1>3 DEF CreateStatusFile, FinishDownload, Crash, JoinUnborn, Die, Restart
<1>4. ASSUME NEW t \in Threads, Run(t) \/ Disturb(t)
      PROVE  EveryPartCovered'
  <2> USE <1>4 DEF At, Goto, boundVars
  <2>1. /\ pc \in [Threads -> {"idle", "created", "unborn", "select",
                               "scan", "request", "receive", "seek", "write", "release", "end"}]
        /\ part \in [Threads -> (0 .. nPart - 1) \cup {NoPart}]
        /\ startPart \in [Threads -> Nat]
        /\ nPart \in Nat
    BY DEF Typed, TypeOK
  <2>2. ASSUME NEW u \in Threads PROVE Front(u) \in Nat /\ Front(u)' \in Nat
    <3>1. part[u] = NoPart \/ part[u] \in Nat
      BY <2>1
    <3>2. part'[u] = NoPart \/ part'[u] \in Nat
      BY DEF Typed, TypeOK
    <3>3. startPart[u] \in Nat /\ startPart'[u] \in Nat
      BY DEF Typed, TypeOK
    <3> QED BY <3>1, <3>2, <3>3 DEF Front
  <2>3. CASE Lock(t) \/ RequestPart(t) \/ SeekStatus(t) \/ WriteStatus(t)
    <3>1. /\ UNCHANGED <<phase, parts, nPart, part, startPart, clean>>
          /\ \A u \in Threads : pc'[u] = "end" => pc[u] = "end"
      BY <2>1, <2>3 DEF Lock, RequestPart, SeekStatus, WriteStatus
    <3>2. \A u \in Threads : Front(u)' <= Front(u)
      BY <2>2, <3>1 DEF Front
    <3> QED BY <3>1, <3>2, StillCovered DEF Unfinished
  <2>4. CASE Disturb(t)
    BY <2>4 DEF Disturb, RequestFails, ReceiveShort, ConnectionClosed, Fault, EveryPartCovered
  <2>5. CASE ReadAfterError(t)
    BY <2>5 DEF ReadAfterError, Diligent, EveryPartCovered
  <2>6. CASE ReceiveChunk(t)
    <3>1. pc[t] \in Working
      BY <2>6 DEF ReceiveChunk, Working
    <3>2. parts' = [parts EXCEPT ![part[t]].rest = @ - Mine(t).rest]
      BY <2>6 DEF ReceiveChunk, Receive
    <3>3. /\ UNCHANGED <<phase, nPart, part, startPart, clean>>
          /\ \A u \in Threads : pc'[u] = "end" => pc[u] = "end"
      BY <2>1, <2>6 DEF ReceiveChunk, Receive
    <3>4. \A i \in 0 .. nPart - 1 : parts'[i].id = parts[i].id /\ (Unfinished(i)' => Unfinished(i))
      <4>1. part[t] \in 0 .. nPart - 1 /\ Mine(t).rest \in Nat
        BY <3>1, WorkingHolds DEF PartStatus
      <4>2. parts[part[t]].rest - Mine(t).rest = 0
        BY <4>1 DEF Mine
      <4>3. parts' = [parts EXCEPT ![part[t]] = [parts[part[t]] EXCEPT !.rest = 0]]
        BY <3>2, <4>2
      <4>4. ASSUME NEW i \in 0 .. nPart - 1
            PROVE  parts[i] = [id |-> parts[i].id, rest |-> parts[i].rest]
        BY DEF Typed, TypeOK, Records, PartStatus
      <4>5. DOMAIN parts = 0 .. nPart - 1
        BY DEF Typed, TypeOK, Records
      <4> QED BY <4>1, <4>3, <4>4, <4>5 DEF Unfinished
    <3>5. \A u \in Threads : Front(u)' <= Front(u)
      BY <2>2, <3>3 DEF Front
    <3> QED BY <1>4, <2>6, <3>3, <3>4, <3>5, StillCovered DEF ReceiveChunk
  <2>7. CASE ClaimPart(t)
    <3>1. PICK p \in Claimable(t) : Claim(t, p) /\ \A j \in Claimable(t) : p <= j
      BY <2>7 DEF ClaimPart
    <3>2. p \in 0 .. nPart - 1 /\ startPart[t] <= p /\ part[t] = NoPart /\ phase = "running"
      BY <2>1, <2>7, <3>1 DEF ClaimPart, Claimable, Scanned, Typed, Placed, Working
    <3>3. p # NoPart
      BY <2>1, <3>2 DEF NoPart
    <3>4. Front(t)' = p /\ pc'[t] # "end" /\ UNCHANGED <<parts, nPart, clean>>
      BY <2>1, <3>1, <3>3 DEF Claim, Front
    <3>5. \A u \in Threads \ {t} : pc'[u] = pc[u] /\ Front(u)' = Front(u)
      BY <2>1, <3>1 DEF Claim, Front
    <3> SUFFICES ASSUME clean, Aligned, NEW i \in 0 .. nPart - 1, Unfinished(i)
                 PROVE  \E u \in Threads : pc'[u] # "end" /\ Front(u)' <= i
      BY <3>4 DEF EveryPartCovered, Aligned, Unfinished
    <3>6. PICK u \in Threads : pc[u] # "end" /\ Front(u) <= i
      BY <3>2 DEF EveryPartCovered
    <3>7. CASE u # t
      BY <3>5, <3>6, <3>7
    <3>8. CASE u = t /\ p <= i
      BY <3>4, <3>8
    <3>9. CASE u = t /\ i < p
      <4>1. i \in Scanned(t)
        BY <2>1, <3>2, <3>6, <3>9 DEF Scanned, Front
      <4>2. i \notin Claimable(t)
        BY <2>1, <3>1, <3>2, <3>9
      <4>3. using[parts[i].id] /\ parts[i].id = i
        BY <4>1, <4>2 DEF Claimable, Aligned
      <4>4. PICK v \in Threads : part[v] # NoPart /\ Mine(v).id = i
        BY <3>2, <4>3 DEF Exclusion, UsingIffHeld
      <4>5. part[v] = i
        BY <2>1, <4>4 DEF Aligned, Mine
      <4>6. v # t /\ pc[v] # "end" /\ Front(v) = i
        BY <3>2, <4>4, <4>5 DEF Typed, Placed, Working, Front
      <4> QED BY <3>5, <4>6
    <3> QED BY <2>1, <3>2, <3>7, <3>8, <3>9
  <2>8. CASE EndThread(t)
    <3>1. UNCHANGED <<phase, parts, nPart, part, startPart, clean>> /\ phase = "running"
      BY <2>8 DEF EndThread
    <3>2. \A u \in Threads \ {t} : pc'[u] = pc[u] /\ Front(u)' = Front(u)
      BY <2>1, <2>8, <3>1 DEF EndThread, Front
    <3>3. part[t] = NoPart /\ \A i \in Scanned(t) : ~Unfinished(i)
      BY <2>8 DEF EndThread, Typed, Placed, Working
    <3> SUFFICES ASSUME clean, Aligned, NEW i \in 0 .. nPart - 1, Unfinished(i)
                 PROVE  \E u \in Threads : pc'[u] # "end" /\ Front(u)' <= i
      BY <3>1 DEF EveryPartCovered, Aligned, Unfinished
    <3>4. PICK u \in Threads : pc[u] # "end" /\ Front(u) <= i
      BY <3>1 DEF EveryPartCovered
    <3>5. u # t
      <4>1. Front(t) <= i => i \in Scanned(t)
        BY <2>1, <3>3 DEF Front, Scanned
      <4> QED BY <3>3, <3>4, <4>1
    <3> QED BY <3>2, <3>4, <3>5
  <2>9. CASE ReleasePart(t)
    <3> DEFINE p == part[t]
    <3>1. pc[t] = "release" /\ pc[t] \in Working /\ phase = "running"
      BY <2>9 DEF ReleasePart, Working
    <3>2. p \in 0 .. nPart - 1 /\ nPart \in Nat \ {0} /\ p # NoPart
      BY <3>1, WorkingHolds DEF Typed, Placed
    <3>3. /\ UNCHANGED <<parts, nPart, clean>>
          /\ part'[t] = NoPart /\ startPart'[t] = (parts[p].id + 1) % nPart
          /\ pc'[t] # "end"
      BY <2>1, <2>9 DEF ReleasePart
    <3>4. \A u \in Threads \ {t} : pc'[u] = pc[u] /\ Front(u)' = Front(u)
      BY <2>1, <2>9 DEF ReleasePart, Front
    <3> SUFFICES ASSUME clean, Aligned, NEW i \in 0 .. nPart - 1, Unfinished(i)
                 PROVE  \E u \in Threads : pc'[u] # "end" /\ Front(u)' <= i
      BY <3>3 DEF EveryPartCovered, Aligned, Unfinished
    <3>5. PICK u \in Threads : pc[u] # "end" /\ Front(u) <= i
      BY <3>1 DEF EveryPartCovered
    <3>6. CASE u # t
      BY <3>4, <3>5, <3>6
    <3>7. CASE u = t
      <4>1. p <= i
        BY <3>2, <3>5, <3>7 DEF Front
      <4>2. p # i
        BY <3>1 DEF Diligent, Unfinished, Mine
      <4>3. parts[p].id = p
        BY <3>2 DEF Aligned
      <4>4. p + 1 \in 0 .. nPart - 1 /\ p + 1 <= i
        BY <3>2, <4>1, <4>2
      <4>5. (p + 1) % nPart = p + 1
        BY <3>2, <4>4
      <4>6. Front(t)' = p + 1
        BY <3>3, <4>3, <4>5 DEF Front
      <4> QED BY <3>3, <4>4, <4>6
    <3> QED BY <3>6, <3>7
  <2>10. CASE BrokenPipe(t)
    BY <2>10 DEF BrokenPipe, Die
  <2> QED
    BY <2>3, <2>4, <2>5, <2>6, <2>7, <2>8, <2>9, <2>10 DEF Run
<1>5. ASSUME NEW t \in Threads, StartThread(t) \/ StartFails(t)
      PROVE  EveryPartCovered'
  <2>1. ASSUME NEW u \in Threads PROVE Front(u)' <= Front(u)
    <3>1. Front(u)' = Front(u)
      BY <1>5, PoolStep DEF Front
    <3>2. Front(u) \in Int
      <4>1. part[u] \in (0 .. nPart - 1) \cup {NoPart} /\ startPart[u] \in Nat /\ nPart \in Nat
        BY DEF Typed, TypeOK
      <4> QED BY <4>1 DEF Front, NoPart
    <3> QED BY <3>1, <3>2
  <2>3. \A u \in Threads : pc'[u] = "end" => pc[u] = "end"
    BY <1>5, PoolStep
  <2> QED BY <1>5, <2>1, <2>3, PoolStep, StillCovered DEF Unfinished
<1> QED
  BY <1>1, <1>2, <1>3, <1>4, <1>5 DEF Next, Main

\* While no connection fails, every unfinished part has a thread before it
\* that has yet to come by, though the scan never wraps around.
THEOREM PartsStayCovered == Spec => []EveryPartCovered
<1>1. Init => EveryPartCovered
  BY DEF Init, EveryPartCovered
<1>2. Spec => [](Typed /\ Exclusion /\ Diligent /\ EveryPartCovered)
  BY <1>1, InitTyped, NextTyped, InitExclusion, NextExclusion, InitDiligent, NextDiligent,
     NextCovered, PTL DEF Spec
<1> QED BY <1>2, PTL

\* A run of downloadWait in which no connection failed, new or resumed,
\* leaves no part unfinished when joinAll returns.
THEOREM CleanSessionsComplete == Spec => []CleanSessionCompletes
<1>1. EveryPartCovered => CleanSessionCompletes
  BY DEF EveryPartCovered, CleanSessionCompletes, JoinAll
<1> QED BY <1>1, PartsStayCovered, PTL

-----------------------------------------------------------------------------
(***************************************************************************)
(* Without a fault or a crash, success means that the whole file is there, *)
(* and the client keeps what ResumableDownload promises.                   *)
(***************************************************************************)

\* Every unit of the file lies in a part.
LEMMA UnitInPart ==
  ASSUME NEW u \in Units
  PROVE  \E i \in PartIds : u \in Span(Offset(i), PartLen(i))
<1> DEFINE i == Quot(u, PartSize)
           r == Rem(u, PartSize)
<1> USE ConstantsAssumption
<1>1. u \in Nat /\ u < TotalSize
  BY DEF Units
<1>2. i \in Nat /\ r \in 0 .. PartSize - 1 /\ u = i * PartSize + r
  BY <1>1, Quotient
<1> HIDE DEF i, r
<1>3. i * PartSize \in Nat /\ i * PartSize <= u
  <2> DEFINE x == i * PartSize
  <2>1. x \in Nat /\ u = x + r
    BY <1>2
  <2> HIDE DEF x
  <2>2. x <= u
    BY <1>2, <2>1
  <2> QED BY <2>1, <2>2 DEF x
<1>4. CASE i < FullParts
  <2>1. i \in PartIds
    BY <1>2, <1>4, DivMod DEF PartIds, NumParts
  <2>2. u \in Span(Offset(i), PartLen(i))
    BY <1>2, <1>3, <1>4 DEF Span, Offset, PartLen
  <2> QED BY <2>1, <2>2
<1>5. CASE i >= FullParts
  <2>1. FullParts * PartSize <= i * PartSize
    BY <1>2, <1>5, DivMod, ProductMonotone
  <2>2. FullParts * PartSize \in Nat
    BY DivMod
  <2>3. i < FullParts + 1
    <3> SUFFICES ASSUME FullParts + 1 <= i PROVE FALSE
      BY <1>2, DivMod
    <3>1. (FullParts + 1) * PartSize <= i * PartSize
      BY <1>2, DivMod, ProductMonotone
    <3>2. (FullParts + 1) * PartSize = FullParts * PartSize + PartSize
      BY DivMod
    <3> QED BY <1>1, <1>3, <2>2, <3>1, <3>2, DivMod
  <2>4. i = FullParts
    BY <1>2, <1>5, <2>3, DivMod
  <2>5. u - i * PartSize < TailLen
    BY <1>1, <1>3, <2>2, <2>4, DivMod
  <2>6. TailLen > 0 /\ i \in PartIds
    BY <1>1, <1>2, <1>3, <2>4, <2>5, DivMod DEF PartIds, NumParts
  <2>7. u \in Span(Offset(i), PartLen(i))
    BY <1>1, <1>3, <2>4, <2>5, DivMod DEF Span, Offset, PartLen
  <2> QED BY <2>6, <2>7
<1> QED BY <1>2, <1>4, <1>5, DivMod

\* When every part of an aligned vector is finished, the file is complete.
LEMMA FinishedMeansComplete ==
  ASSUME Typed, ProgressNeverAhead, Aligned, \A i \in 0 .. nPart - 1 : ~Unfinished(i)
  PROVE  written = Units
<1> SUFFICES ASSUME NEW u \in Units PROVE u \in written
  BY DEF Typed, TypeOK
<1>1. PICK i \in PartIds : u \in Span(Offset(i), PartLen(i))
  BY UnitInPart
<1>2. i \in 0 .. nPart - 1 /\ parts[i].id = i /\ parts[i].rest = 0
  BY DEF PartIds, Aligned, Unfinished
<1>3. PartLen(i) - parts[i].rest = PartLen(i)
  BY <1>2, PartFits
<1>4. Received(parts[i]) = Span(Offset(i), PartLen(i))
  BY <1>2, <1>3 DEF Received
<1> QED BY <1>1, <1>2, <1>4 DEF ProgressNeverAhead

\* How a download that nothing has disturbed so far stands.
Undisturbed ==
  /\ faults = 0 => clean
  /\ faults = 0 /\ crashes = 0 =>
       /\ phase # "crashed"
       /\ phase = "start" => ~statusExists
       /\ phase = "creating" => parts = NewParts
       /\ phase = "running" => Aligned
       /\ phase = "done" => written = Units

\* Every thread starts as long as nothing has failed.
AllStart == faults = 0 => \A t \in Threads : pc[t] # "unborn"

LEMMA NextAllStart == Typed /\ AllStart /\ [Next]_vars => AllStart'
<1> SUFFICES ASSUME Typed, AllStart, [Next]_vars PROVE AllStart'
  OBVIOUS
<1> USE DEF AllStart, boundVars, threadVars
<1>0. pc \in [Threads -> {"idle", "created", "unborn", "select", "scan", "request",
                         "receive", "seek", "write", "release", "end"}]
      /\ faults \in Nat /\ crashes \in Nat
  BY ConstantsAssumption DEF Typed, TypeOK
<1>1. CASE Resume \/ CreateStatusFile \/ WriteStatusFile \/ FinishDownload
           \/ Crash \/ JoinUnborn \/ Restart \/ Terminated \/ UNCHANGED vars
  BY <1>1 DEF Resume, CreateStatusFile, WriteStatusFile, StartThreads, FinishDownload, Crash,
       JoinUnborn, Die, ForgetVolatile, Restart, Terminated, vars
<1>2. ASSUME NEW t \in Threads, StartThread(t) \/ StartFails(t)
      PROVE  AllStart'
  <2>1. CASE StartFails(t)
    BY <2>1, PoolStep
  <2>2. CASE StartThread(t)
    <3>1. faults' = faults /\ pc' = [pc EXCEPT ![t] = "select"]
      BY <2>2 DEF StartThread
    <3> QED BY <1>0, <3>1
  <2> QED BY <1>2, <2>1, <2>2
<1>3. ASSUME NEW t \in Threads, Run(t)
      PROVE  AllStart'
  <2>1. CASE BrokenPipe(t)
    BY <2>1 DEF BrokenPipe, Die, ForgetVolatile
  <2>2. CASE ~BrokenPipe(t)
    <3>1. faults' = faults /\ \E l \in {"select", "scan", "request", "receive", "seek", "write",
                                       "release", "end"} : pc' = [pc EXCEPT ![t] = l]
      BY <1>3, <2>2 DEF Run, Lock, ClaimPart, Claim, EndThread, RequestPart, ReceiveChunk, Receive,
           ReadAfterError, DropConnection, SeekStatus, WriteStatus, ReleasePart, Goto
    <3> QED BY <1>0, <3>1
  <2> QED BY <2>1, <2>2
<1>4. ASSUME NEW t \in Threads, Disturb(t)
      PROVE  AllStart'
  <2>1. faults' # 0
    BY <1>0, <1>4 DEF Disturb, RequestFails, ReceiveShort, ConnectionClosed, Fault
  <2> QED BY <2>1
<1> QED
  BY <1>1, <1>2, <1>3, <1>4 DEF Next, Main

LEMMA NextUndisturbed ==
  Typed /\ Typed' /\ ProgressNeverAhead /\ Diligent /\ CleanSessionCompletes /\ AllStart
    /\ Undisturbed /\ [Next]_vars => Undisturbed'
<1> SUFFICES ASSUME Typed, Typed', ProgressNeverAhead, Diligent, CleanSessionCompletes,
                    AllStart, Undisturbed, [Next]_vars
             PROVE  Undisturbed'
  OBVIOUS
<1>0. faults \in Nat /\ crashes \in Nat
  BY ConstantsAssumption DEF Typed, TypeOK
<1> USE DEF boundVars, threadVars, diskVars
<1>1. CASE Resume
  BY <1>1 DEF Resume, StartThreads, Undisturbed
<1>2. CASE CreateStatusFile
  BY <1>2 DEF CreateStatusFile, Undisturbed
<1>3. CASE WriteStatusFile
  <2>1. faults = 0 /\ crashes = 0 => Aligned'
    BY <1>3, NewPartsTyped
       DEF WriteStatusFile, StartThreads, Undisturbed, Aligned, NewParts, Typed, IdsInRange
  <2> QED BY <1>3, <2>1 DEF WriteStatusFile, StartThreads, Undisturbed
<1>4. CASE FinishDownload
  <2>1. faults = 0 /\ crashes = 0 => written = Units
    BY <1>4, FinishedMeansComplete DEF FinishDownload, Undisturbed, CleanSessionCompletes
  <2> QED BY <1>4, <2>1 DEF FinishDownload, ForgetVolatile, Undisturbed
<1>5. CASE Crash
  <2>1. crashes' # 0 /\ clean'
    BY <1>0, <1>5 DEF Crash, Die, ForgetVolatile
  <2> QED BY <2>1 DEF Undisturbed
<1>6. CASE Restart
  BY <1>6 DEF Restart, Undisturbed
<1>7. CASE Terminated \/ UNCHANGED vars
  BY <1>7 DEF Terminated, vars, Undisturbed, Aligned
<1>8. ASSUME NEW t \in Threads, Run(t) \/ Disturb(t)
      PROVE  Undisturbed'
  <2>1. CASE BrokenPipe(t)
    <3>1. faults' # 0 /\ clean'
      BY <2>1 DEF BrokenPipe, Die, ForgetVolatile, Diligent, Undisturbed
    <3> QED BY <3>1 DEF Undisturbed
  <2>2. CASE Disturb(t)
    <3>1. faults' # 0
      BY <1>0, <2>2 DEF Disturb, RequestFails, ReceiveShort, ConnectionClosed, Fault
    <3> QED BY <3>1 DEF Undisturbed
  <2>3. CASE ReceiveChunk(t)
    <3>1. /\ UNCHANGED <<phase, nPart, clean, faults, crashes>> /\ phase = "running"
          /\ parts' = [parts EXCEPT ![part[t]].rest = @ - Mine(t).rest]
      BY <2>3 DEF ReceiveChunk, Receive, At
    <3>2. pc[t] \in Working
      BY <2>3 DEF ReceiveChunk, At, Working
    <3>3. \A i \in 0 .. nPart - 1 : parts'[i].id = parts[i].id
      BY <3>1, <3>2, WorkingHolds DEF Typed, TypeOK, Records, PartStatus
    <3> QED BY <3>1, <3>3 DEF Undisturbed, Aligned
  <2>4. CASE Run(t) /\ ~BrokenPipe(t) /\ ~ReceiveChunk(t)
    <3>1. UNCHANGED <<phase, parts, nPart, clean, faults, crashes>> /\ phase = "running"
      BY <2>4 DEF Run, Lock, ClaimPart, Claim, EndThread, RequestPart, ReadAfterError,
           DropConnection, SeekStatus, WriteStatus, ReleasePart, At
    <3> QED BY <3>1 DEF Undisturbed, Aligned
  <2> QED BY <1>8, <2>1, <2>2, <2>3, <2>4
<1>9. ASSUME NEW t \in Threads, StartThread(t)
      PROVE  Undisturbed'
  BY <1>9, PoolStep DEF Undisturbed, Aligned
<1>10. ASSUME NEW t \in Threads, StartFails(t)
       PROVE  Undisturbed'
  <2>1. faults' # 0
    BY <1>10, PoolStep
  <2> QED BY <2>1 DEF Undisturbed
<1>11. CASE JoinUnborn
  <2>1. PICK t \in Threads : pc[t] = "unborn"
    BY <1>11 DEF JoinUnborn
  <2>2. faults # 0
    BY <2>1 DEF AllStart
  <2> QED BY <1>11, <2>2 DEF JoinUnborn, Die, ForgetVolatile, Undisturbed
<1> QED
  BY <1>1, <1>2, <1>3, <1>4, <1>5, <1>6, <1>7, <1>8, <1>9, <1>10, <1>11 DEF Next, Main

\* Everything above, as one inductive invariant.
IInv ==
  /\ Typed /\ Exclusion /\ ProgressNeverAhead /\ Diligent
  /\ EveryPartCovered /\ AllStart /\ Undisturbed

LEMMA InitIInv == Init => IInv
<1>1. Init => EveryPartCovered /\ AllStart /\ Undisturbed
  BY DEF Init, EveryPartCovered, AllStart, Undisturbed
<1> QED
  BY <1>1, InitTyped, InitExclusion, InitProgress, InitDiligent DEF IInv

LEMMA CoveredMeansComplete == EveryPartCovered => CleanSessionCompletes
BY DEF EveryPartCovered, CleanSessionCompletes, JoinAll

LEMMA NextIInv == IInv /\ [Next]_vars => IInv'
BY NextTyped, NextExclusion, NextProgress, NextDiligent, NextCovered, CoveredMeansComplete,
   NextAllStart, NextUndisturbed DEF IInv

\* A download that no fault and no crash has disturbed reports success only
\* when the whole file is on disk.
THEOREM UndisturbedSuccess == Spec => [](faults = 0 /\ crashes = 0 => SuccessMeansComplete)
<1>1. IInv => (faults = 0 /\ crashes = 0 => SuccessMeansComplete)
  BY DEF IInv, Undisturbed, SuccessMeansComplete
<1> QED BY <1>1, InitIInv, NextIInv, PTL DEF Spec

-----------------------------------------------------------------------------
(***************************************************************************)
(* Refinement.  Reading a chunk is a Fetch, returning from downloadWait is *)
(* the Report, and every other step is a Record or changes nothing that    *)
(* the promise is about.                                                   *)
(***************************************************************************)
LEMMA ClaimedIsOnDisk == ProgressNeverAhead => ClaimedOnDisk \subseteq written
BY DEF ProgressNeverAhead, ClaimedOnDisk

LEMMA StepImplements ==
  ASSUME MaxFaults = 0, MaxCrashes = 0, IInv, IInv', [Next]_vars
  PROVE  [Promise!Next]_(Promise!vars)
<1> USE DEF Promise!Next, Promise!Fetch, Promise!Record, Promise!Report, Promise!vars
<1>1. ClaimedOnDisk' \subseteq written'
  BY ClaimedIsOnDisk DEF IInv, ProgressNeverAhead, ClaimedOnDisk
<1>2. ASSUME phase # "done", phase' # "done", written' = written
      PROVE  Promise!Record
  BY <1>1, <1>2
<1>3. CASE FinishDownload
  <2>1. faults = 0 /\ crashes = 0
    BY DEF IInv, Typed, TypeOK
  <2>2. faults' = 0 /\ crashes' = 0 /\ phase' = "done" /\ written' = written /\ statusLen' = 0
    BY <1>3, <2>1 DEF FinishDownload, boundVars
  <2>3. written = Units
    BY <2>2 DEF IInv, Undisturbed
  <2>4. ClaimedOnDisk' = {}
    BY <2>2 DEF ClaimedOnDisk
  <2> QED BY <1>3, <2>2, <2>3, <2>4 DEF FinishDownload
<1>4. CASE Resume \/ CreateStatusFile \/ WriteStatusFile \/ Crash \/ JoinUnborn \/ Restart
  BY <1>2, <1>4 DEF Resume, CreateStatusFile, WriteStatusFile, StartThreads, Crash, JoinUnborn,
       Die, Restart, diskVars
<1>5. CASE Terminated \/ UNCHANGED vars
  BY <1>5 DEF Terminated, vars, diskVars, ClaimedOnDisk
<1>6. ASSUME NEW t \in Threads, Run(t) \/ Disturb(t)
      PROVE  [Promise!Next]_(Promise!vars)
  <2>1. CASE ReceiveChunk(t) \/ ReceiveShort(t)
    <3>1. PICK n : Receive(t, n)
      BY <2>1 DEF ReceiveChunk, ReceiveShort
    <3>2. /\ written \subseteq written'
          /\ phase = "running" /\ phase' = "running"
          /\ UNCHANGED <<status, statusLen>>
      BY <2>1, <3>1 DEF ReceiveChunk, ReceiveShort, Receive, At
    <3>3. written' \subseteq Units
      BY DEF IInv, Typed, TypeOK
    <3>4. ClaimedOnDisk' = ClaimedOnDisk
      BY <3>2 DEF ClaimedOnDisk
    <3> QED BY <3>2, <3>3, <3>4
  <2>2. CASE ~(ReceiveChunk(t) \/ ReceiveShort(t))
    <3>1. phase # "done" /\ phase' # "done" /\ written' = written
      BY <1>6, <2>2 DEF Run, Disturb, Lock, ClaimPart, Claim, EndThread, RequestPart, RequestFails,
           BrokenPipe, Die, ConnectionClosed, ReadAfterError, DropConnection, SeekStatus,
           WriteStatus, ReleasePart, At, diskVars
    <3> QED BY <1>2, <3>1
  <2> QED BY <2>1, <2>2
<1>7. ASSUME NEW t \in Threads, StartThread(t) \/ StartFails(t)
      PROVE  [Promise!Next]_(Promise!vars)
  <2>1. phase # "done" /\ phase' # "done" /\ written' = written
    BY <1>7, PoolStep DEF IInv
  <2> QED BY <1>2, <2>1
<1> QED
  BY <1>3, <1>4, <1>5, <1>6, <1>7 DEF Next, Main

\* While connections and process live, the client keeps the promise (its
\* safety; that the report comes is left to TLC).
THEOREM KeepsPromise ==
  ASSUME MaxFaults = 0, MaxCrashes = 0
  PROVE  Spec => Promise!Spec
<1>1. Init => Promise!Init
  BY DEF Init, Promise!Init, ClaimedOnDisk
<1>2. IInv /\ IInv' /\ [Next]_vars => [Promise!Next]_(Promise!vars)
  BY StepImplements
<1>3. Spec => []IInv
  BY InitIInv, NextIInv, PTL DEF Spec
<1> QED BY <1>1, <1>2, <1>3, PTL DEF Spec, Promise!Spec
=============================================================================
