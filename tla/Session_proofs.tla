--------------------------- MODULE Session_proofs ---------------------------
(***************************************************************************)
(* Proofs about Session, for any range of session numbers, any storages    *)
(* and any failures of the file: a crash costs no number, a number does    *)
(* not come back before all the others were used, and no log file is       *)
(* opened under the name of an older one.                                  *)
(***************************************************************************)
EXTENDS Session, SequenceTheorems, TLAPS

Sn == 1 .. MaxSn

(***************************************************************************)
(* The file is written before the loggers are started.                     *)
(***************************************************************************)
Used == pc \in {"starting", "logging"} /\ saved => file = session

(***************************************************************************)
(* SavedIsUsed: while the loggers run, the file holds the session number   *)
(* in use if its last write went through, whatever happened to it before.  *)
(***************************************************************************)
THEOREM UsedCorrect == Spec => []SavedIsUsed
<1>1. Init => Used
  BY DEF Init, Used
<1>2. Used /\ [Next]_vars => Used'
  <2> SUFFICES ASSUME Used, [Next]_vars PROVE Used'
    OBVIOUS
  <2>1. CASE UNCHANGED vars
    BY <2>1 DEF Used, vars, daemon, ghosts
  <2>2. CASE Load \/ Stop \/ ClearLogs \/ Unlink \/ ResetSn \/ Crash
    BY <2>2 DEF Used, Load, Stop, ClearLogs, Unlink, ResetSn, Crash
  <2>3. CASE Save
    BY <2>3 DEF Used, Save, Written
  <2>4. CASE Begin \/ NewFile
    BY <2>4 DEF Used, Begin, NewFile, ghosts
  <2>5. CASE Tick \/ TurnBack \/ Tear
    BY <2>5 DEF Used, Tick, TurnBack, Tear, daemon, ghosts
  <2>6. ASSUME NEW p \in Storages, Start(p) \/ Mount(p) \/ Unmount(p) PROVE Used'
    BY <2>6 DEF Used, Start, Mount, Unmount, daemon, ghosts
  <2> QED
    BY <2>1, <2>2, <2>3, <2>4, <2>5, <2>6 DEF Next
<1>3. Used => SavedIsUsed
  BY DEF Used, SavedIsUsed
<1> QED
  BY <1>1, <1>2, <1>3, PTL DEF Spec
-----------------------------------------------------------------------------
(***************************************************************************)
(* The numbers of a row that ends at last, on the circle of numbers.       *)
(***************************************************************************)
Row(r, last) ==
  \A i \in 1 .. Len(r) : r[i] = last - (Len(r) - i) \/ r[i] = last - (Len(r) - i) + MaxSn

\* The next number is not in a row that leaves one number out.
LEMMA NextIsNew ==
  ASSUME NEW r \in Seq(Sn), Len(r) <= MaxSn - 1, NEW last \in Sn, Row(r, last)
  PROVE  NextSn(last) \in Sn /\ \A i \in 1 .. Len(r) : r[i] # NextSn(last)
<1>1. NextSn(last) \in Sn
  BY SessionAssumption DEF NextSn, Sn
<1>2. ASSUME NEW i \in 1 .. Len(r) PROVE r[i] # NextSn(last)
  <2>1. Len(r) \in Nat /\ MaxSn \in Nat /\ i \in Nat /\ i >= 1 /\ i <= Len(r) /\ r[i] \in Sn
    BY SessionAssumption
  <2>2. r[i] = last - (Len(r) - i) \/ r[i] = last - (Len(r) - i) + MaxSn
    BY DEF Row
  <2> QED
    BY <2>1, <2>2 DEF NextSn, Sn
<1> QED
  BY <1>1, <1>2

\* The row with its next number, without its first if it has become too long.
Longer(r, n) == Append(IF Len(r) = MaxSn - 1 THEN Tail(r) ELSE r, n)

Follows(r, n) == r # <<>> => \E last \in Sn : n = NextSn(last) /\ Row(r, last)

LEMMA RowArithmetic ==
  ASSUME NEW x \in Int, NEW n \in Int, NEW last \in Int, NEW d \in Int, NEW m \in Nat,
         1 <= x, x <= m, 0 <= d, d + 2 <= m, 1 <= last, last <= m,
         x = last - d \/ x = last - d + m,
         n = last + 1 \/ (n = 1 /\ last = m)
  PROVE  x = n - (d + 1) \/ x = n - (d + 1) + m
OBVIOUS

LEMMA LongerRow ==
  ASSUME NEW r \in Seq(Sn), Len(r) <= MaxSn - 1, NEW n \in Sn
  PROVE  /\ Longer(r, n) \in Seq(Sn) /\ Longer(r, n) # <<>>
         /\ Len(Longer(r, n)) <= MaxSn - 1
         /\ Follows(r, n) => Row(Longer(r, n), n)
<1>0. MaxSn \in Nat /\ MaxSn > 1
  BY SessionAssumption
<1> DEFINE kept == IF Len(r) = MaxSn - 1 THEN Tail(r) ELSE r
           gone == Len(r) - Len(kept)
<1>1. /\ kept \in Seq(Sn) /\ Len(kept) + 1 <= MaxSn - 1
      /\ gone \in {0, 1}
      /\ \A i \in 1 .. Len(kept) : kept[i] = r[i + gone]
  <2>1. CASE Len(r) = MaxSn - 1
    <3>1. r # <<>>
      BY <1>0, <2>1
    <3>2. /\ kept = Tail(r) /\ Tail(r) \in Seq(Sn) /\ Len(Tail(r)) = Len(r) - 1
          /\ \A i \in 1 .. Len(Tail(r)) : Tail(r)[i] = r[i + 1]
      BY <2>1, <3>1, HeadTailProperties
    <3>3. gone = 1
      BY <1>0, <2>1, <3>2
    <3> QED
      BY <1>0, <2>1, <3>2, <3>3
  <2>2. CASE Len(r) # MaxSn - 1
    <3>1. kept = r /\ gone = 0
      BY <2>2
    <3> QED
      BY <1>0, <2>2, <3>1
  <2> QED
    BY <2>1, <2>2
<1> HIDE DEF kept
<1>2. Longer(r, n) = Append(kept, n)
  BY DEF Longer, kept
<1>3. /\ Append(kept, n) \in Seq(Sn) /\ Append(kept, n) # <<>>
      /\ Len(Append(kept, n)) = Len(kept) + 1
      /\ \A i \in 1 .. Len(kept) : Append(kept, n)[i] = kept[i]
      /\ Append(kept, n)[Len(kept) + 1] = n
  BY <1>1, AppendProperties
<1>4. ASSUME Follows(r, n), NEW i \in 1 .. Len(kept) + 1
      PROVE  \/ Append(kept, n)[i] = n - (Len(kept) + 1 - i)
             \/ Append(kept, n)[i] = n - (Len(kept) + 1 - i) + MaxSn
  <2>1. CASE i = Len(kept) + 1
    BY <1>1, <1>3, <2>1 DEF Sn
  <2>2. CASE i # Len(kept) + 1
    <3>1. i \in 1 .. Len(kept) /\ i + gone \in 1 .. Len(r)
      BY <1>1, <2>2
    <3>2. Append(kept, n)[i] = r[i + gone] /\ r[i + gone] \in Sn
      BY <1>1, <1>3, <3>1
    <3>3. PICK last \in Sn : n = NextSn(last) /\ Row(r, last)
      BY <1>4, <3>1 DEF Follows
    <3>4. \/ r[i + gone] = last - (Len(r) - (i + gone))
          \/ r[i + gone] = last - (Len(r) - (i + gone)) + MaxSn
      BY <3>1, <3>3 DEF Row
    <3>5. Len(r) - (i + gone) = Len(kept) - i
      BY <1>1, <3>1
    <3>6. n = last + 1 \/ (n = 1 /\ last = MaxSn)
      BY <1>0, <3>3 DEF NextSn, Sn
    <3>7. Len(kept) \in Nat /\ i \in Nat /\ i <= Len(kept) /\ Len(kept) + 1 <= MaxSn - 1
      BY <1>1, <3>1
    <3> DEFINE x == r[i + gone]
               d == Len(kept) - i
    <3>8. /\ x \in Int /\ n \in Int /\ last \in Int /\ d \in Int
          /\ 1 <= x /\ x <= MaxSn /\ 0 <= d /\ d + 2 <= MaxSn /\ 1 <= last /\ last <= MaxSn
      BY <1>0, <3>2, <3>7 DEF Sn
    <3>9. x = last - d \/ x = last - d + MaxSn
      BY <3>4, <3>5
    <3>10. Append(kept, n)[i] = x
      BY <3>2
    <3>11. Len(kept) + 1 - i = d + 1
      BY <3>7
    <3> HIDE DEF x, d, gone
    <3>12. x = n - (d + 1) \/ x = n - (d + 1) + MaxSn
      BY <1>0, <3>6, <3>8, <3>9, RowArithmetic
    <3> QED
      BY <3>10, <3>11, <3>12
  <2> QED
    BY <2>1, <2>2
<1>5. Follows(r, n) => Row(Append(kept, n), n)
  BY <1>3, <1>4 DEF Row
<1> QED
  BY <1>1, <1>2, <1>3, <1>5
-----------------------------------------------------------------------------
(***************************************************************************)
(* As long as nothing broke the row, the numbers handed out follow one     *)
(* another up to the one in the file, and the number in memory is that     *)
(* one, or the next while it is being written.                             *)
(***************************************************************************)
Typed ==
  /\ file \in {None, Empty, Bad} \cup 0 .. MaxSn
  /\ session \in 0 .. MaxSn /\ lost \in BOOLEAN
  /\ recent \in Seq(Sn) /\ Len(recent) <= MaxSn - 1
  /\ pc = "saving" => session \in Sn
  /\ pc = "unlinked" => recent = <<>>

Unbroken ==
  ~lost /\ recent # <<>> =>
    /\ file \in Sn /\ Row(recent, file)
    /\ pc = "saving" => session = NextSn(file)
    /\ pc \in {"stopped", "starting", "logging", "clearing"} => session = file

RowInv == Typed /\ Unbroken

LEMMA SaveKeepsRow ==
  ASSUME RowInv, Save
  PROVE  RowInv' /\ (session \notin ToSet(recent) \/ lost')
<1>1. /\ pc = "saving" /\ pc' = "starting" /\ session' = session /\ session \in Sn
      /\ recent' = Longer(recent, session)
  BY DEF Save, RowInv, Typed, Longer
<1>2. recent \in Seq(Sn) /\ Len(recent) <= MaxSn - 1
  BY DEF RowInv, Typed
<1>3. ~lost => Follows(recent, session)
  BY <1>1 DEF RowInv, Unbroken, Follows
<1>4. /\ recent' \in Seq(Sn) /\ recent' # <<>> /\ Len(recent') <= MaxSn - 1
      /\ ~lost => Row(recent', session)
  BY <1>1, <1>2, <1>3, LongerRow
<1>5. (file' = session /\ lost' = lost) \/ (file' = file /\ lost' = TRUE)
  BY DEF Save, Written
<1>6. Typed'
  BY <1>1, <1>4, <1>5, SessionAssumption DEF RowInv, Typed, Sn
<1>7. Unbroken'
  <2> SUFFICES ASSUME ~lost' PROVE (file \in Sn /\ Row(recent, file) /\ session = file)'
    BY <1>1 DEF Unbroken
  <2> QED
    BY <1>1, <1>4, <1>5 DEF Row
<1>8. ~lost => session \notin ToSet(recent)
  <2> SUFFICES ASSUME ~lost, session \in ToSet(recent) PROVE FALSE
    OBVIOUS
  <2>1. PICK i \in 1 .. Len(recent) : recent[i] = session
    BY <1>2 DEF ToSet
  <2>2. file \in Sn /\ Row(recent, file) /\ session = NextSn(file)
    BY <1>1, <1>2, <2>1 DEF RowInv, Unbroken
  <2> QED
    BY <1>2, <2>1, <2>2, NextIsNew
<1> QED
  BY <1>5, <1>6, <1>7, <1>8 DEF RowInv, Typed

LEMMA StartKeepsRow ==
  ASSUME RowInv, NEW p \in Storages, Start(p)
  PROVE  RowInv'
<1>1. MaxSn \in Nat /\ MaxSn > 1
  BY SessionAssumption
<1>2. /\ pc \in {"stopped", "logging"} /\ session' = NextSn(session) /\ recent' = recent
      /\ \/ pc' = "saving" /\ file' = (IF file = None THEN Empty ELSE file) /\ lost' = lost
         \/ pc' = "starting" /\ file' = file /\ lost' = TRUE
  BY DEF Start
<1>3. NextSn(session) \in Sn
  BY <1>1 DEF RowInv, Typed, NextSn, Sn
<1>4. Typed'
  <2>1. session' \in Sn /\ session' \in 0 .. MaxSn
    BY <1>1, <1>2, <1>3 DEF Sn
  <2>2. file' \in {file, Empty} /\ lost' \in {lost, TRUE} /\ pc' \in {"saving", "starting"}
    BY <1>2
  <2> QED
    BY <1>2, <2>1, <2>2 DEF RowInv, Typed
<1>5. ASSUME ~lost', recent' # <<>>
      PROVE  pc' = "saving" /\ file' = file /\ file \in Sn /\ Row(recent, file) /\ session = file
  <2>1. ~lost /\ recent # <<>> /\ pc' = "saving"
    BY <1>2, <1>5 DEF RowInv, Typed
  <2>2. file \in Sn /\ Row(recent, file) /\ session = file
    BY <1>2, <2>1 DEF RowInv, Unbroken
  <2>3. file # None
    BY <1>1, <2>2 DEF None, Sn
  <2> QED
    BY <1>2, <2>1, <2>2, <2>3
<1>6. Unbroken'
  BY <1>2, <1>5 DEF Unbroken, Row
<1> QED
  BY <1>4, <1>6 DEF RowInv

LEMMA OthersKeepRow ==
  ASSUME RowInv, [Next]_vars, ~Save, \A p \in Storages : ~Start(p)
  PROVE  RowInv'
<1>1. MaxSn \in Nat /\ MaxSn > 1
  BY SessionAssumption
<1>2. CASE Load
  <2>1. Typed'
    <3>1. file \in {None, Empty, Bad} \cup 0 .. MaxSn
      BY DEF RowInv, Typed
    <3>2. /\ session' \in {file, 0} /\ session' \in 0 .. MaxSn
          /\ file' \in {None, Empty, Bad} \cup 0 .. MaxSn
      BY <1>1, <1>2, <3>1 DEF Load, Numbered, Repaired, None, Empty, Bad
    <3>3. pc' = "stopped" /\ recent' = recent /\ lost' \in {lost, TRUE}
      BY <1>2 DEF Load
    <3> QED
      BY <3>2, <3>3 DEF RowInv, Typed
  <2>2. ASSUME ~lost', recent' # <<>>
        PROVE  file' = file /\ session' = file /\ pc' = "stopped" /\ file \in Sn /\ Row(recent, file)
    <3>1. ~lost /\ recent # <<>> /\ session' = (IF Numbered THEN file ELSE 0) /\ file' = Repaired
      BY <1>2, <2>2 DEF Load
    <3>2. file \in Sn /\ Row(recent, file)
      BY <3>1 DEF RowInv, Unbroken
    <3> QED
      BY <1>1, <1>2, <3>1, <3>2 DEF Load, Numbered, Repaired, None, Empty, Sn
  <2>3. Unbroken'
    BY <1>2, <2>2 DEF Unbroken, Row, Load
  <2> QED
    BY <2>1, <2>3 DEF RowInv
<1>3. CASE Unlink
  <2>1. recent' = <<>> /\ file' = None /\ session' = session /\ pc' = "unlinked"
        /\ lost' = (lost \/ names # {})
    BY <1>3 DEF Unlink
  <2> QED
    BY <1>1, <2>1 DEF RowInv, Typed, Unbroken
<1>4. CASE Tear
  <2>1. file' = Bad /\ lost' = TRUE /\ UNCHANGED <<session, recent, pc>>
    BY <1>4 DEF Tear, daemon
  <2> QED
    BY <2>1 DEF RowInv, Typed, Unbroken
<1>5. CASE ResetSn
  <2>1. recent = <<>> /\ pc' = "stopped" /\ session' = 0 /\ UNCHANGED <<file, lost, recent>>
    BY <1>5 DEF ResetSn, ghosts, RowInv, Typed
  <2> QED
    BY <1>1, <2>1 DEF RowInv, Typed, Unbroken
<1>6. CASE Crash
  <2>1. pc' = "down" /\ session' = 0 /\ UNCHANGED <<file, lost, recent>>
    BY <1>6 DEF Crash, ghosts
  <2> QED
    BY <1>1, <2>1 DEF RowInv, Typed, Unbroken, Row
<1>7. CASE Begin \/ NewFile \/ Stop \/ ClearLogs
  <2>1. /\ pc \in {"stopped", "starting", "logging"} /\ pc' \in {"stopped", "logging", "clearing"}
        /\ UNCHANGED <<file, session, lost, recent>>
    BY <1>7 DEF Begin, NewFile, Stop, ClearLogs, ghosts
  <2> QED
    BY <2>1 DEF RowInv, Typed, Unbroken, Row
<1>8. CASE Tick \/ TurnBack \/ UNCHANGED vars \/ \E p \in Storages : Mount(p) \/ Unmount(p)
  <2>1. UNCHANGED <<file, session, lost, recent, pc>>
    BY <1>8 DEF Tick, TurnBack, Mount, Unmount, vars, daemon, ghosts
  <2> QED
    BY <2>1 DEF RowInv, Typed, Unbroken, Row
<1> QED
  BY <1>2, <1>3, <1>4, <1>5, <1>6, <1>7, <1>8 DEF Next

\* RowInv is inductive.
LEMMA RowInductive ==
  /\ Init => RowInv
  /\ RowInv /\ [Next]_vars => RowInv'
<1>1. ASSUME Init PROVE RowInv
  <2>1. <<>> \in Seq(Sn) /\ Len(<<>>) = 0 /\ 0 <= MaxSn - 1 /\ 0 \in 0 .. MaxSn
    BY SessionAssumption
  <2>2. pc = "down" /\ file = None /\ session = 0 /\ lost = FALSE /\ recent = <<>>
    BY <1>1 DEF Init
  <2> QED
    BY <2>1, <2>2 DEF RowInv, Typed, Unbroken
<1> QED
  BY <1>1, SaveKeepsRow, StartKeepsRow, OthersKeepRow

(***************************************************************************)
(* NumbersApart: session_get_next_sn hands a number out again only after   *)
(* all the others, over any restarts and crashes, until the row is broken  *)
(* from outside.                                                           *)
(***************************************************************************)
THEOREM ApartCorrect == Spec => NumbersApart
<1>1. RowInv /\ [Next]_vars => [Save => session \notin ToSet(recent) \/ lost']_vars
  BY SaveKeepsRow
<1> QED
  BY <1>1, RowInductive, PTL DEF Spec, NumbersApart
-----------------------------------------------------------------------------
(***************************************************************************)
(* Types of what is not the row of numbers: the loggers run with a number  *)
(* of the row, on a storage that is mounted and stays so.                  *)
(***************************************************************************)
Started == {"saving", "starting", "logging"}
LogNames == [path : Storages, sn : Sn, serial : 1 .. MaxSerial, time : 1 .. MaxTime]

StorageTyped ==
  /\ pc \in {"down", "stopped", "clearing", "unlinked"} \cup Started
  /\ path \in Storages \cup {Nowhere} /\ mounted \in SUBSET Storages
  /\ pc \in Started => session \in Sn /\ path \in mounted
  /\ serial \in 0 .. MaxSerial /\ names \subseteq LogNames
ClockTyped ==
  /\ time \in 1 .. MaxTime /\ spent \in 0 .. PerSecond /\ turns \in 0 .. Turns
  /\ saved \in BOOLEAN /\ wrapped \in BOOLEAN

TypeInv == RowInv /\ StorageTyped /\ ClockTyped

\* The next numbers are numbers again.
LEMMA NextInRange ==
  ASSUME RowInv, ClockTyped, serial \in 0 .. MaxSerial
  PROVE  /\ NextSn(session) \in Sn /\ CurrentSn \in Sn
         /\ spent < PerSecond => NextSerial(serial) \in 1 .. MaxSerial
<1>1. session \in 0 .. MaxSn /\ MaxSn \in Nat /\ MaxSn > 1
  BY SessionAssumption DEF RowInv, Typed
<1>2. NextSn(session) \in Sn /\ CurrentSn \in Sn
  BY <1>1 DEF NextSn, CurrentSn, Sn
<1>3. ASSUME spent < PerSecond PROVE NextSerial(serial) \in 1 .. MaxSerial
  BY <1>3, SessionAssumption DEF ClockTyped, NextSerial
<1> QED
  BY <1>2, <1>3

\* The clock stays in its bounds, whatever happens.
LEMMA ClockKept ==
  ASSUME TypeInv, [Next]_vars
  PROVE  ClockTyped'
<1>0. /\ time \in 1 .. MaxTime /\ spent \in 0 .. PerSecond /\ turns \in 0 .. Turns
      /\ MaxTime \in Nat /\ PerSecond \in Nat /\ Turns \in Nat
      /\ saved \in BOOLEAN /\ wrapped \in BOOLEAN
  BY SessionAssumption DEF TypeInv, ClockTyped
<1>1. ASSUME Passes PROVE time' \in 1 .. MaxTime /\ spent' \in 0 .. PerSecond /\ turns' \in 0 .. Turns
  BY <1>0, <1>1 DEF Passes
<1>2. ASSUME Busy PROVE time' \in 1 .. MaxTime /\ spent' \in 0 .. PerSecond /\ turns' \in 0 .. Turns
  BY <1>0, <1>2 DEF Busy
<1>3. CASE Load \/ Save \/ Begin \/ Stop \/ ClearLogs \/ Unlink \/ ResetSn \/ Tear \/ UNCHANGED vars
  <2>1. time' = time /\ spent' = spent /\ turns' = turns
    BY <1>3 DEF Load, Save, Begin, Stop, ClearLogs, Unlink, ResetSn, Tear, vars, clock
  <2>2. saved' \in {saved, TRUE, FALSE} /\ wrapped' = wrapped
    BY <1>3 DEF Load, Save, Begin, Stop, ClearLogs, Unlink, ResetSn, Tear, vars, ghosts
  <2> QED
    BY <1>0, <2>1, <2>2 DEF ClockTyped
<1>4. CASE NewFile
  <2>1. Busy /\ saved' = saved /\ wrapped' \in {wrapped, TRUE}
    BY <1>0, <1>4 DEF NewFile
  <2> QED
    BY <1>0, <1>2, <2>1 DEF ClockTyped
<1>5. CASE Tick \/ Crash
  <2>1. Passes /\ saved' = saved /\ wrapped' = wrapped
    BY <1>5 DEF Tick, Crash, ghosts
  <2> QED
    BY <1>0, <1>1, <2>1 DEF ClockTyped
<1>6. CASE TurnBack
  <2>1. turns < Turns /\ turns' = turns + 1 /\ time' \in 1 .. (time - 1) /\ spent' = 0
        /\ saved' = saved /\ wrapped' = wrapped
    BY <1>6 DEF TurnBack, ghosts
  <2>2. time' \in 1 .. MaxTime /\ spent' \in 0 .. PerSecond /\ turns' \in 0 .. Turns
    BY <1>0, <2>1
  <2> QED
    BY <1>0, <2>1, <2>2 DEF ClockTyped
<1>7. ASSUME NEW p \in Storages, Start(p) PROVE ClockTyped'
  <2>1. Busy /\ saved' \in {saved, FALSE} /\ wrapped' \in {wrapped, TRUE}
    BY <1>0, <1>7 DEF Start
  <2> QED
    BY <1>0, <1>2, <2>1 DEF ClockTyped
<1>8. ASSUME NEW p \in Storages, Mount(p) PROVE ClockTyped'
  <2>1. Passes /\ saved' = saved /\ wrapped' = wrapped
    BY <1>8 DEF Mount, ghosts
  <2> QED
    BY <1>0, <1>1, <2>1 DEF ClockTyped
<1>9. ASSUME NEW p \in Storages, Unmount(p) PROVE ClockTyped'
  BY <1>0, <1>9 DEF Unmount, ghosts, clock, ClockTyped
<1> QED
  BY <1>3, <1>4, <1>5, <1>6, <1>7, <1>8, <1>9 DEF Next

\* The loggers keep running on a mounted storage, and only names with room for
\* their numbers are opened.
LEMMA StorageKept ==
  ASSUME TypeInv, [Next]_vars
  PROVE  StorageTyped'
<1>0. StorageTyped /\ RowInv /\ ClockTyped /\ MaxSerial \in Nat /\ Removable \subseteq Storages
  BY SessionAssumption DEF TypeInv
<1>1. /\ NextSn(session) \in Sn /\ CurrentSn \in Sn
      /\ spent < PerSecond => NextSerial(serial) \in 1 .. MaxSerial
  BY <1>0, NextInRange DEF StorageTyped
<1>2. CASE Load \/ ResetSn \/ Unlink
  BY <1>0, <1>2 DEF Load, ResetSn, Unlink, StorageTyped, Started
<1>3. CASE Save \/ Begin \/ Stop
  <2>1. UNCHANGED <<session, mounted, names>> /\ pc \in Started
    BY <1>3 DEF Save, Begin, Stop, Started
  <2>2. (pc' \in Started /\ path' = path) \/ (pc' = "stopped" /\ path' = Nowhere)
    BY <1>3 DEF Save, Begin, Stop, Started
  <2>3. serial' \in {serial, 0}
    BY <1>3 DEF Save, Begin, Stop
  <2> QED
    BY <1>0, <2>1, <2>2, <2>3 DEF StorageTyped, Started
<1>4. CASE ClearLogs
  BY <1>0, <1>4 DEF ClearLogs, StorageTyped, Started
<1>5. CASE NewFile
  <2>1. /\ spent < PerSecond /\ serial' = NextSerial(serial) /\ names' = names \cup {LogName}
        /\ pc = "logging" /\ UNCHANGED <<pc, session, path, mounted>>
    BY <1>5 DEF NewFile, Busy
  <2>2. LogName \in LogNames
    BY <1>0, <1>1, <2>1 DEF LogName, LogNames, StorageTyped, ClockTyped, Started
  <2>3. serial' \in 0 .. MaxSerial
    BY <1>0, <1>1, <2>1
  <2> QED
    BY <1>0, <2>1, <2>2, <2>3 DEF StorageTyped
<1>6. CASE Tick \/ TurnBack \/ Tear \/ UNCHANGED vars
  BY <1>0, <1>6 DEF Tick, TurnBack, Tear, vars, daemon, StorageTyped
<1>7. CASE Crash
  <2>1. pc' = "down" /\ path' = Nowhere /\ serial' = 0 /\ UNCHANGED <<names, mounted>>
    BY <1>7 DEF Crash
  <2> QED
    BY <1>0, <2>1 DEF StorageTyped, Started
<1>8. ASSUME NEW p \in Storages, Start(p) PROVE StorageTyped'
  <2>1. /\ pc' \in Started /\ p \in mounted /\ session' = NextSn(session) /\ path' = p
        /\ UNCHANGED <<serial, names, mounted>>
    BY <1>8 DEF Start, Started
  <2> QED
    BY <1>0, <1>1, <2>1 DEF StorageTyped
<1>9. ASSUME NEW p \in Storages, Mount(p) \/ Unmount(p) PROVE StorageTyped'
  <2>1. /\ UNCHANGED <<pc, session, path, serial, names>> /\ mounted' \in SUBSET Storages
        /\ path \in mounted => path \in mounted'
    BY <1>0, <1>9 DEF Mount, Unmount, daemon, StorageTyped
  <2> QED
    BY <1>0, <2>1 DEF StorageTyped
<1> QED
  BY <1>2, <1>3, <1>4, <1>5, <1>6, <1>7, <1>8, <1>9 DEF Next

\* TypeInv is inductive.
LEMMA TypeInductive ==
  /\ Init => TypeInv
  /\ TypeInv /\ [Next]_vars => TypeInv'
<1>1. ASSUME Init PROVE StorageTyped /\ ClockTyped
  <2>1. /\ pc = "down" /\ path = Nowhere /\ serial = 0 /\ names = {} /\ mounted = Storages
        /\ time = 1 /\ spent = 0 /\ turns = 0 /\ saved = TRUE /\ wrapped = FALSE
    BY <1>1 DEF Init
  <2>2. 0 \in 0 .. MaxSerial /\ 1 \in 1 .. MaxTime /\ 0 \in 0 .. PerSecond /\ 0 \in 0 .. Turns
    BY SessionAssumption
  <2> QED
    BY <2>1, <2>2 DEF StorageTyped, ClockTyped, Started
<1>2. RowInv /\ [Next]_vars => RowInv'
  BY RowInductive
<1> QED
  BY <1>1, <1>2, RowInductive, ClockKept, StorageKept DEF TypeInv

(***************************************************************************)
(* TypeOK: the types of the variables; in particular, while the loggers    *)
(* run, their session has a number a name has room for, and their storage  *)
(* is mounted.                                                             *)
(***************************************************************************)
THEOREM TypeCorrect == Spec => []TypeOK
<1>1. ASSUME TypeInv PROVE TypeOK
  <2>1. recent \in Seq(Sn) /\ Len(recent) <= MaxSn - 1 /\ Len(recent) \in Nat /\ MaxSn - 1 \in Nat
    BY <1>1, SessionAssumption DEF TypeInv, RowInv, Typed
  <2>2. recent \in [1 .. Len(recent) -> Sn] /\ Len(recent) \in 0 .. MaxSn - 1
    BY <2>1
  <2>3. recent \in BoundedSeq(1 .. MaxSn, MaxSn - 1)
    BY <2>2 DEF BoundedSeq, SeqOf, Sn
  <2>4. /\ file \in {None, Empty, Bad} \cup 0 .. MaxSn
        /\ session \in 0 .. MaxSn /\ lost \in BOOLEAN
    BY <1>1 DEF TypeInv, RowInv, Typed
  <2>5. pc = "logging" => session # 0 /\ path \in mounted
    BY <1>1 DEF TypeInv, StorageTyped, Started, Sn
  <2> QED
    BY <1>1, <2>3, <2>4, <2>5
    DEF TypeInv, StorageTyped, ClockTyped, TypeOK, Started, LogNames, Sn
<1> QED
  BY <1>1, TypeInductive, PTL DEF Spec
-----------------------------------------------------------------------------
(***************************************************************************)
(* The names of this second, while the clock was never set back: counting  *)
(* back from the session in use, and in it from the serial number in use,  *)
(* each of them is met within the steps this second has had, too few to    *)
(* come round to the same number.                                          *)
(***************************************************************************)
Ago(x, last, j, most) == x = last - j \/ x = last - j + most
ThisSecond == {n \in names : n.time = time /\ n.path \in mounted}
Recent(n) ==
  \/ \E j \in 1 .. spent : Ago(n.sn, session, j, MaxSn)
  \/ /\ pc \notin {"saving", "starting"} /\ n.sn = session
     /\ \E d \in 0 .. spent - 1 : Ago(n.serial, serial, d, MaxSerial)
SecondInv ==
  turns = 0 =>
    /\ \A n \in names : n.time <= time
    /\ \A n \in ThisSecond : Recent(n)
    /\ pc \in {"down", "clearing", "unlinked"} => ThisSecond = {}

\* The numbers that are met counting back from the one in use are met one
\* step further back from the next one, and are not the one in use, as long as
\* the steps of a second cannot go round.
LEMMA SessionsBack ==
  ASSUME TypeInv, spent < PerSecond, NEW x \in Sn
  PROVE  /\ x = session => Ago(x, NextSn(session), 1, MaxSn)
         /\ \A j \in 1 .. spent : Ago(x, session, j, MaxSn) =>
              Ago(x, NextSn(session), j + 1, MaxSn) /\ x # session
<1>1. /\ MaxSn \in Nat /\ PerSecond \in Nat /\ spent \in Nat /\ spent < PerSecond /\ PerSecond < MaxSn
      /\ session \in Int /\ 0 <= session /\ session <= MaxSn
      /\ x \in Int /\ 1 <= x /\ x <= MaxSn
  BY SessionAssumption DEF TypeInv, RowInv, Typed, ClockTyped, Sn
<1> DEFINE next == NextSn(session)
<1>2. (session < MaxSn /\ next = session + 1) \/ (session = MaxSn /\ next = 1)
  BY <1>1 DEF NextSn
<1> HIDE DEF next
<1>3. x = session => x = next - 1 \/ x = next - 1 + MaxSn
  BY <1>1, <1>2
<1>4. ASSUME NEW j \in 1 .. spent, x = session - j \/ x = session - j + MaxSn
      PROVE  (x = next - (j + 1) \/ x = next - (j + 1) + MaxSn) /\ x # session
  BY <1>1, <1>2, <1>4
<1> QED
  BY <1>3, <1>4 DEF Ago, next

\* The same for the serial numbers.
LEMMA SerialsBack ==
  ASSUME TypeInv, spent < PerSecond, NEW x \in 1 .. MaxSerial
  PROVE  \A d \in 0 .. spent - 1 : Ago(x, serial, d, MaxSerial) =>
           Ago(x, NextSerial(serial), d + 1, MaxSerial) /\ x # NextSerial(serial)
<1>1. /\ MaxSerial \in Nat /\ PerSecond \in Nat /\ spent \in Nat /\ spent < PerSecond
      /\ PerSecond <= MaxSerial /\ serial \in Int /\ 0 <= serial /\ serial <= MaxSerial
      /\ x \in Int /\ 1 <= x /\ x <= MaxSerial
  BY SessionAssumption DEF TypeInv, StorageTyped, ClockTyped
<1> DEFINE next == NextSerial(serial)
<1>2. (serial < MaxSerial /\ next = serial + 1) \/ (serial = MaxSerial /\ next = 1)
  BY <1>1 DEF NextSerial
<1> HIDE DEF next
<1>3. ASSUME NEW d \in 0 .. spent - 1, x = serial - d \/ x = serial - d + MaxSerial
      PROVE  (x = next - (d + 1) \/ x = next - (d + 1) + MaxSerial) /\ x # next
  BY <1>1, <1>2, <1>3
<1> QED
  BY <1>3 DEF Ago, next

\* What a step that leaves the clock, the session and the loggers' serial
\* number alone keeps, if it opens no file.
LEMMA SecondUntouched ==
  ASSUME SecondInv, UNCHANGED <<time, spent, turns, session, serial>>,
         mounted' \subseteq mounted, names' \subseteq names,
         pc \in {"saving", "starting"} \/ pc' \notin {"saving", "starting"},
         pc' \in {"down", "clearing", "unlinked"} =>
           pc \in {"down", "clearing", "unlinked"} \/ ThisSecond' = {}
  PROVE  SecondInv'
<1> SUFFICES ASSUME turns = 0 PROVE SecondInv'
  BY DEF SecondInv
<1>1. ThisSecond' \subseteq ThisSecond
  BY DEF ThisSecond
<1>2. \A n \in names' : n.time <= time'
  BY DEF SecondInv
<1>3. ASSUME NEW n \in ThisSecond' PROVE Recent(n)'
  BY <1>1, <1>3 DEF SecondInv, Recent
<1>4. pc' \in {"down", "clearing", "unlinked"} => ThisSecond' = {}
  BY <1>1 DEF SecondInv
<1> QED
  BY <1>2, <1>3, <1>4 DEF SecondInv

\* A second later, there is no name of that second.
LEMMA SecondOver ==
  ASSUME TypeInv, SecondInv, Passes, names' = names
  PROVE  SecondInv'
<1>1. time \in Int /\ time' = time + 1 /\ turns' = turns
  BY DEF Passes, TypeInv, ClockTyped
<1>2. \A n \in names : n.time \in Int
  BY DEF TypeInv, StorageTyped, LogNames
<1>3. ASSUME turns = 0, NEW n \in names PROVE n.time <= time' /\ n.time # time'
  BY <1>1, <1>2, <1>3 DEF SecondInv
<1>4. turns = 0 => ThisSecond' = {}
  BY <1>3 DEF ThisSecond
<1> QED
  BY <1>1, <1>3, <1>4 DEF SecondInv

\* SecondInv is kept.
LEMMA SecondKept ==
  ASSUME TypeInv, SecondInv, [Next]_vars
  PROVE  SecondInv'
<1>0. spent \in Nat /\ session \in 0 .. MaxSn /\ names \subseteq LogNames
  BY DEF TypeInv, RowInv, Typed, StorageTyped, ClockTyped, SessionAssumption
<1>1. CASE Load
  <2>1. pc = "down" /\ pc' = "stopped" /\ UNCHANGED <<names, mounted, time, spent, turns>>
    BY <1>1 DEF Load, clock
  <2>2. ThisSecond' = ThisSecond
    BY <2>1 DEF ThisSecond
  <2> QED
    BY <2>1, <2>2 DEF SecondInv
<1>2. CASE Save \/ Stop \/ Tear \/ UNCHANGED vars
  <2>1. UNCHANGED <<time, spent, turns, session, serial, mounted, names>>
    BY <1>2 DEF Save, Stop, Tear, vars, daemon, clock
  <2>2. /\ pc \in {"saving", "starting"} \/ pc' \notin {"saving", "starting"}
        /\ pc' \in {"down", "clearing", "unlinked"} => pc' = pc
    BY <1>2 DEF Save, Stop, Tear, vars, daemon
  <2> QED
    BY <2>1, <2>2, SecondUntouched
<1>3. CASE ClearLogs \/ Unlink
  <2>1. UNCHANGED <<time, spent, turns, session, serial, mounted>> /\ names' \subseteq names
    BY <1>3 DEF ClearLogs, Unlink, clock
  <2>2. ClearLogs => ThisSecond' = {}
    BY DEF ClearLogs, ThisSecond
  <2>3. Unlink => pc = "clearing"
    BY DEF Unlink
  <2>4. pc' \in {"clearing", "unlinked"}
    BY <1>3 DEF ClearLogs, Unlink
  <2> QED
    BY <1>3, <2>1, <2>2, <2>3, <2>4, SecondUntouched
<1>4. CASE ResetSn
  <2>1. pc = "unlinked" /\ pc' = "stopped" /\ UNCHANGED <<names, mounted, time, spent, turns>>
    BY <1>4 DEF ResetSn, clock
  <2>2. ThisSecond' = ThisSecond
    BY <2>1 DEF ThisSecond
  <2> QED
    BY <2>1, <2>2 DEF SecondInv
<1>5. CASE Begin
  <2>1. /\ pc = "starting" /\ pc' = "logging"
        /\ UNCHANGED <<names, mounted, session, time, spent, turns>>
    BY <1>5 DEF Begin, clock
  <2>2. ThisSecond' = ThisSecond
    BY <2>1 DEF ThisSecond
  <2>3. ASSUME turns = 0, NEW n \in ThisSecond PROVE Recent(n)'
    BY <2>1, <2>3 DEF SecondInv, Recent
  <2> QED
    BY <2>1, <2>2, <2>3 DEF SecondInv
<1>6. CASE NewFile
  <2>1. /\ pc = "logging" /\ spent < PerSecond /\ spent' = spent + 1
        /\ serial' = NextSerial(serial) /\ names' = names \cup {LogName}
        /\ UNCHANGED <<pc, session, mounted, time, turns>>
    BY <1>6 DEF NewFile, Busy
  <2>2. /\ LogName.sn = session /\ LogName.serial = serial' /\ LogName.time = time
    <3>1. session \in 1 .. MaxSn
      BY <2>1 DEF TypeInv, StorageTyped, Started, Sn
    <3> QED
      BY <2>1, <3>1 DEF LogName, CurrentSn
  <2>3. ASSUME NEW n, n = LogName PROVE Recent(n)'
    <3>1. 0 \in 0 .. spent' - 1 /\ serial' \in Int
      BY <1>0, <2>1, SessionAssumption DEF NextSerial, TypeInv, StorageTyped
    <3> DEFINE s == serial'
    <3>2. s \in Int
      BY <3>1
    <3> HIDE DEF s
    <3>3. s = s - 0
      BY <3>2
    <3>4. Ago(s, s, 0, MaxSerial)
      BY <3>3 DEF Ago
    <3>5. n.serial = s /\ n.sn = session' /\ pc' \notin {"saving", "starting"}
      BY <2>1, <2>2, <2>3 DEF s
    <3> QED
      BY <3>1, <3>4, <3>5 DEF Recent, Ago, s
  <2>4. ASSUME turns = 0, NEW n \in ThisSecond PROVE Recent(n)'
    <3>1. Recent(n) /\ n \in LogNames
      BY <1>0, <2>4 DEF SecondInv, ThisSecond
    <3>2. CASE \E j \in 1 .. spent : Ago(n.sn, session, j, MaxSn)
      <4>1. PICK j \in 1 .. spent : Ago(n.sn, session, j, MaxSn)
        BY <3>2
      <4>2. j \in 1 .. spent'
        BY <1>0, <2>1
      <4> QED
        BY <2>1, <4>1, <4>2 DEF Recent, Ago
    <3>3. CASE n.sn = session /\ \E d \in 0 .. spent - 1 : Ago(n.serial, serial, d, MaxSerial)
      <4>1. PICK d \in 0 .. spent - 1 : Ago(n.serial, serial, d, MaxSerial)
        BY <3>3
      <4>2. n.serial \in 1 .. MaxSerial
        BY <3>1 DEF LogNames
      <4>3. Ago(n.serial, serial', d + 1, MaxSerial)
        BY <2>1, <4>1, <4>2, SerialsBack
      <4>4. d + 1 \in 0 .. spent' - 1
        BY <1>0, <2>1
      <4> QED
        BY <2>1, <3>3, <4>3, <4>4 DEF Recent, Ago
    <3> QED
      BY <3>1, <3>2, <3>3 DEF Recent
  <2>5. ThisSecond' \subseteq ThisSecond \cup {LogName}
    BY <2>1 DEF ThisSecond
  <2>6. time \in Int
    BY DEF TypeInv, ClockTyped
  <2>7. ASSUME turns = 0, NEW n \in names' PROVE n.time <= time'
    <3>1. CASE n = LogName
      BY <2>1, <2>2, <2>6, <3>1
    <3>2. CASE n \in names
      BY <2>1, <2>7, <3>2 DEF SecondInv
    <3> QED
      BY <2>1, <3>1, <3>2
  <2>8. ASSUME turns = 0, NEW n \in ThisSecond' PROVE Recent(n)'
    BY <2>3, <2>4, <2>5, <2>8
  <2> QED
    BY <2>1, <2>7, <2>8 DEF SecondInv
<1>7. CASE Tick \/ Crash
  BY <1>7, SecondOver DEF Tick, Crash
<1>8. CASE TurnBack
  <2>1. turns' = turns + 1 /\ turns \in Nat
    BY <1>8, SessionAssumption DEF TurnBack, TypeInv, ClockTyped
  <2> QED
    BY <2>1 DEF SecondInv
<1>9. ASSUME NEW p \in Storages, Start(p) PROVE SecondInv'
  <2>1. /\ pc \in {"stopped", "logging"} /\ pc' \in {"saving", "starting"}
        /\ spent < PerSecond /\ spent' = spent + 1 /\ session' = NextSn(session)
        /\ UNCHANGED <<names, mounted, time, turns>>
    BY <1>9 DEF Start, Busy
  <2>2. ThisSecond' = ThisSecond
    BY <2>1 DEF ThisSecond
  <2>3. ASSUME turns = 0, NEW n \in ThisSecond PROVE Recent(n)'
    <3>1. Recent(n) /\ n.sn \in Sn
      BY <1>0, <2>3 DEF SecondInv, ThisSecond, LogNames
    <3>2. \E j \in 1 .. spent' : Ago(n.sn, session', j, MaxSn)
      <4>1. CASE n.sn = session
        <5>1. 1 \in 1 .. spent'
          BY <1>0, <2>1
        <5> QED
          BY <2>1, <3>1, <4>1, <5>1, SessionsBack
      <4>2. CASE \E j \in 1 .. spent : Ago(n.sn, session, j, MaxSn)
        <5>1. PICK j \in 1 .. spent : Ago(n.sn, session, j, MaxSn)
          BY <4>2
        <5>2. j + 1 \in 1 .. spent'
          BY <1>0, <2>1
        <5>3. Ago(n.sn, NextSn(session), j + 1, MaxSn)
          BY <2>1, <3>1, <5>1, SessionsBack
        <5> QED
          BY <2>1, <5>2, <5>3
      <4> QED
        BY <3>1, <4>1, <4>2 DEF Recent
    <3> QED
      BY <3>2 DEF Recent, Ago
  <2> QED
    BY <2>1, <2>2, <2>3 DEF SecondInv
<1>10. ASSUME NEW p \in Storages, Mount(p) PROVE SecondInv'
  BY <1>10, SecondOver DEF Mount
<1>11. ASSUME NEW p \in Storages, Unmount(p) PROVE SecondInv'
  <2>1. /\ UNCHANGED <<time, spent, turns, session, serial, pc, names>>
        /\ mounted' \subseteq mounted
    BY <1>11 DEF Unmount, daemon, clock
  <2> QED
    BY <2>1, SecondUntouched
<1> QED
  BY <1>1, <1>2, <1>3, <1>4, <1>5, <1>6, <1>7, <1>8, <1>9, <1>10, <1>11 DEF Next

\* In a second in which the clock was not set back, a new name is new.
LEMMA NewThisSecond ==
  ASSUME TypeInv, SecondInv, NewFile, turns = 0
  PROVE  LogName \notin names
<1> SUFFICES ASSUME LogName \in names PROVE FALSE
  OBVIOUS
<1>1. pc = "logging" /\ spent < PerSecond /\ session \in Sn /\ path \in mounted
  BY DEF NewFile, Busy, TypeInv, StorageTyped, Started
<1>2. /\ LogName.sn = session /\ LogName.serial = NextSerial(serial)
      /\ LogName.time = time /\ LogName.path = path
  BY <1>1 DEF LogName, CurrentSn, Sn
<1>3. Recent(LogName) /\ LogName \in LogNames
  BY <1>1, <1>2 DEF SecondInv, ThisSecond, TypeInv, StorageTyped
<1>4. LogName.serial \in 1 .. MaxSerial
  BY <1>3 DEF LogNames
<1>5. \A j \in 1 .. spent : ~Ago(session, session, j, MaxSn)
  BY <1>1, SessionsBack
<1>6. \A d \in 0 .. spent - 1 : ~Ago(NextSerial(serial), serial, d, MaxSerial)
  BY <1>1, <1>2, <1>4, SerialsBack
<1> QED
  BY <1>2, <1>3, <1>5, <1>6 DEF Recent
-----------------------------------------------------------------------------
(***************************************************************************)
(* All names, while no number has wrapped and the row is not broken: they  *)
(* are of sessions up to the one in the file and behind the one in use.    *)
(***************************************************************************)
Behind(n) ==
  /\ pc \in {"stopped", "clearing"} => n.sn <= session
  /\ pc \in {"saving", "starting"} => n.sn < session
  /\ pc = "logging" => n.sn < session \/ (n.sn = session /\ n.serial <= serial)
  /\ pc # "unlinked"
OrderInv ==
  /\ ~lost /\ pc \in {"starting", "logging"} => file = session
  /\ ~lost /\ ~wrapped => \A n \in names : file \in Sn /\ n.sn <= file /\ Behind(n)

\* OrderInv is kept.
LEMMA OrderKept ==
  ASSUME TypeInv, OrderInv, [Next]_vars
  PROVE  OrderInv'
<1>0. /\ MaxSn \in Nat /\ session \in 0 .. MaxSn /\ names \subseteq LogNames
      /\ lost \in BOOLEAN /\ wrapped \in BOOLEAN /\ MaxSerial \in Nat
      /\ serial \in 0 .. MaxSerial
  BY SessionAssumption DEF TypeInv, RowInv, Typed, StorageTyped, ClockTyped
<1>1. CASE Load
  <2>1. pc' = "stopped" /\ wrapped' = wrapped /\ names' = names
    BY <1>1 DEF Load
  <2>2. ASSUME ~lost', ~wrapped', NEW n \in names
        PROVE  file' \in Sn /\ n.sn <= file' /\ session' = file'
    <3>1. ~lost /\ session' = (IF Numbered THEN file ELSE 0) /\ file' = Repaired
      BY <1>1, <2>2 DEF Load
    <3>2. file \in Sn /\ n.sn <= file
      BY <2>1, <2>2, <3>1 DEF OrderInv
    <3>3. Numbered /\ file \notin {None, Empty}
      BY <1>0, <3>2 DEF Numbered, None, Empty, Sn
    <3> QED
      BY <3>1, <3>2, <3>3 DEF Repaired
  <2> QED
    BY <2>1, <2>2 DEF OrderInv, Behind
<1>2. CASE Save
  <2>1. /\ pc = "saving" /\ pc' = "starting"
        /\ UNCHANGED <<session, names, wrapped>>
        /\ (file' = session /\ lost' = lost) \/ lost' = TRUE
    BY <1>2 DEF Save, Written
  <2>2. session \in Sn
    BY <2>1 DEF TypeInv, RowInv, Typed
  <2>3. ASSUME ~lost', ~wrapped', NEW n \in names PROVE n.sn < session
    BY <2>1, <2>3 DEF OrderInv, Behind
  <2>4. \A n \in names : n.sn \in Int
    BY <1>0 DEF LogNames, Sn
  <2>5. ASSUME ~lost', ~wrapped', NEW n \in names PROVE n.sn <= session
    BY <1>0, <2>3, <2>4, <2>5
  <2> QED
    BY <2>1, <2>2, <2>3, <2>5 DEF OrderInv, Behind
<1>3. CASE Begin
  <2>1. /\ pc = "starting" /\ pc' = "logging"
        /\ UNCHANGED <<session, names, wrapped, lost, file>>
    BY <1>3 DEF Begin, ghosts
  <2> QED
    BY <2>1 DEF OrderInv, Behind
<1>4. CASE NewFile
  <2>1. /\ pc = "logging" /\ spent < PerSecond /\ serial' = NextSerial(serial)
        /\ wrapped' = (wrapped \/ serial = MaxSerial) /\ names' = names \cup {LogName}
        /\ UNCHANGED <<pc, session, lost, file>>
    BY <1>4 DEF NewFile, Busy
  <2>2. session \in Sn /\ LogName.sn = session /\ LogName.serial = serial'
    <3>1. session \in 1 .. MaxSn
      BY <2>1 DEF TypeInv, StorageTyped, Started, Sn
    <3> QED
      BY <2>1, <3>1 DEF LogName, CurrentSn, Sn
  <2>3. ASSUME ~lost', ~wrapped', NEW n \in names'
        PROVE  file \in Sn /\ n.sn <= file
               /\ (n.sn < session \/ (n.sn = session /\ n.serial <= serial'))
    <3>1. ~lost /\ ~wrapped /\ serial # MaxSerial /\ file = session
      BY <2>1, <2>3 DEF OrderInv
    <3>2. serial' = serial + 1
      BY <1>0, <2>1, <3>1 DEF NextSerial
    <3>3. CASE n = LogName
      BY <1>0, <2>2, <3>1, <3>2, <3>3 DEF Sn
    <3>4. CASE n \in names
      <4>1. n.sn <= file /\ n.serial \in Int
        BY <1>0, <3>1, <3>4 DEF OrderInv, LogNames
      <4>2. n.sn < session \/ (n.sn = session /\ n.serial <= serial)
        BY <2>1, <3>1, <3>4 DEF OrderInv, Behind
      <4> QED
        BY <1>0, <2>2, <3>1, <3>2, <4>1, <4>2
    <3> QED
      BY <2>1, <3>3, <3>4
  <2>4. ~lost' => file' = session'
    BY <2>1 DEF OrderInv
  <2> QED
    BY <2>1, <2>3, <2>4 DEF OrderInv, Behind
<1>5. CASE Stop
  <2>1. pc = "logging" /\ pc' = "stopped" /\ UNCHANGED <<session, names, wrapped, lost, file>>
    BY <1>5 DEF Stop, ghosts
  <2>2. ASSUME ~lost, ~wrapped, NEW n \in names PROVE n.sn <= session
    <3>1. n.sn < session \/ n.sn = session
      BY <2>1, <2>2 DEF OrderInv, Behind
    <3>2. n.sn \in Int
      BY <1>0 DEF LogNames, Sn
    <3> QED
      BY <1>0, <3>1, <3>2
  <2> QED
    BY <2>1, <2>2 DEF OrderInv, Behind
<1>6. CASE ClearLogs
  <2>1. /\ pc = "stopped" /\ pc' = "clearing" /\ names' \subseteq names
        /\ UNCHANGED <<session, wrapped, lost, file>>
    BY <1>6 DEF ClearLogs, ghosts
  <2> QED
    BY <2>1 DEF OrderInv, Behind
<1>7. CASE Unlink
  <2>1. pc' = "unlinked" /\ names' = names /\ lost' = (lost \/ names # {})
    BY <1>7 DEF Unlink
  <2> QED
    BY <2>1 DEF OrderInv
<1>8. CASE ResetSn
  <2>1. /\ pc = "unlinked" /\ pc' = "stopped"
        /\ UNCHANGED <<names, wrapped, lost, file>>
    BY <1>8 DEF ResetSn, ghosts
  <2> QED
    BY <2>1 DEF OrderInv, Behind
<1>9. CASE Tick \/ TurnBack \/ UNCHANGED vars \/ \E p \in Storages : Mount(p) \/ Unmount(p)
  <2>1. UNCHANGED <<pc, session, serial, names, wrapped, lost, file>>
    BY <1>9 DEF Tick, TurnBack, Mount, Unmount, vars, daemon, ghosts
  <2> QED
    BY <2>1 DEF OrderInv, Behind
<1>10. CASE Tear
  BY <1>10 DEF Tear, OrderInv
<1>11. CASE Crash
  <2>1. pc' = "down" /\ UNCHANGED <<names, wrapped, lost, file>>
    BY <1>11 DEF Crash, ghosts
  <2> QED
    BY <2>1 DEF OrderInv, Behind
<1>12. ASSUME NEW p \in Storages, Start(p) PROVE OrderInv'
  <2>1. /\ pc \in {"stopped", "logging"} /\ session' = NextSn(session) /\ names' = names
        /\ wrapped' = (wrapped \/ session = MaxSn)
        /\ \/ pc' = "saving" /\ file' = (IF file = None THEN Empty ELSE file) /\ lost' = lost
           \/ lost' = TRUE
    BY <1>12 DEF Start
  <2>2. ASSUME ~lost', ~wrapped', NEW n \in names
        PROVE  file' = file /\ file \in Sn /\ n.sn <= file /\ n.sn < session'
    <3>1. /\ ~lost /\ ~wrapped /\ session # MaxSn
          /\ file' = (IF file = None THEN Empty ELSE file)
      <4>1. lost' # TRUE
        BY <2>2
      <4>2. lost' = lost /\ file' = (IF file = None THEN Empty ELSE file)
        BY <2>1, <4>1
      <4>3. ~wrapped /\ session # MaxSn
        BY <2>1, <2>2
      <4> QED
        BY <2>2, <4>2, <4>3
    <3>2. file \in Sn /\ n.sn <= file /\ (n.sn <= session \/ n.sn < session \/ n.sn = session)
      BY <2>1, <2>2, <3>1 DEF OrderInv, Behind
    <3>3. session' = session + 1
      BY <1>0, <2>1, <3>1 DEF NextSn
    <3>4. n.sn \in Int
      BY <1>0 DEF LogNames, Sn
    <3>5. n.sn < session'
      BY <1>0, <3>2, <3>3, <3>4
    <3> QED
      BY <1>0, <3>1, <3>2, <3>5 DEF None, Sn
  <2> QED
    BY <2>1, <2>2 DEF OrderInv, Behind
<1> QED
  BY <1>1, <1>2, <1>3, <1>4, <1>5, <1>6, <1>7, <1>8, <1>9, <1>10, <1>11, <1>12 DEF Next

\* In an unbroken row that has not wrapped, a new name is new.
LEMMA NewInOrder ==
  ASSUME TypeInv, OrderInv, NewFile, ~lost, ~wrapped'
  PROVE  LogName \notin names
<1> SUFFICES ASSUME LogName \in names PROVE FALSE
  OBVIOUS
<1>1. /\ pc = "logging" /\ session \in Sn /\ ~wrapped /\ serial # MaxSerial
      /\ serial \in 0 .. MaxSerial /\ MaxSerial \in Nat /\ MaxSn \in Nat
  BY SessionAssumption DEF NewFile, TypeInv, StorageTyped, Started
<1>2. LogName.sn = session /\ LogName.serial = serial + 1
  <2>1. CurrentSn = session
    BY <1>1 DEF CurrentSn, Sn
  <2>2. NextSerial(serial) = serial + 1
    BY <1>1 DEF NextSerial
  <2> QED
    BY <2>1, <2>2 DEF LogName
<1>3. LogName.sn < session \/ (LogName.sn = session /\ LogName.serial <= serial)
  BY <1>1 DEF OrderInv, Behind
<1> QED
  BY <1>1, <1>2, <1>3 DEF Sn

NamesInv == TypeInv /\ SecondInv /\ OrderInv

(***************************************************************************)
(* NamesApart: generate_new_file opens a name again only after the clock   *)
(* was set back and, as well, the row of numbers was broken or wrapped:    *)
(* either guard alone keeps an older log from being overwritten.           *)
(***************************************************************************)
THEOREM NamesCorrect == Spec => NamesApart
<1>1. ASSUME Init PROVE NamesInv
  <2>1. pc = "down" /\ names = {}
    BY <1>1 DEF Init
  <2>2. SecondInv /\ OrderInv
    BY <2>1 DEF SecondInv, ThisSecond, OrderInv
  <2> QED
    BY <1>1, <2>2, TypeInductive DEF NamesInv
<1>2. NamesInv /\ [Next]_vars => NamesInv'
  BY TypeInductive, SecondKept, OrderKept DEF NamesInv
<1>3. ASSUME NamesInv, NewFile
      PROVE  LogName \notin names \/ (turns > 0 /\ (lost \/ wrapped'))
  <2>1. turns \in Nat /\ lost \in BOOLEAN
    BY <1>3, SessionAssumption DEF NamesInv, TypeInv, RowInv, Typed, ClockTyped
  <2>2. turns = 0 => LogName \notin names
    BY <1>3, NewThisSecond DEF NamesInv
  <2>3. ~lost /\ ~wrapped' => LogName \notin names
    BY <1>3, NewInOrder DEF NamesInv
  <2>4. turns > 0 \/ turns = 0
    BY <2>1
  <2> QED
    BY <2>2, <2>3, <2>4
<1>4. NamesInv => [NewFile => LogName \notin names \/ (turns > 0 /\ (lost \/ wrapped'))]_vars
  BY <1>3
<1> QED
  BY <1>1, <1>2, <1>4, PTL DEF Spec, NamesApart
=============================================================================
